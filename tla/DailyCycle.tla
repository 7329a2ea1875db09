----------------------------- MODULE DailyCycle -----------------------------
(***************************************************************************)
(* The daily cycle of blocks, and the ledgers of the nodes that apply      *)
(* them.  The first block of a day is a forging block, which pays the      *)
(* rewards of the day and takes the daily snapshot of the delegations; the *)
(* block behind it is a state block, which holds all wallets.  A node      *)
(* starts from any state block, and applies what follows.                  *)
(*                                                                         *)
(* chain is what the nodes decided (Controller); offered is a block made   *)
(* on its end.  A block that a node makes or is offered it tries before,   *)
(* by a dry run; Ledger shows that dry runs leave no trace in the wallets, *)
(* so here they leave none.  They do leave one in the statistics of the    *)
(* nodes.  A try depends on no other block that waits, so rivals come one  *)
(* after the other: those that lose first.                                 *)
(*                                                                         *)
(* Common blocks carry one transaction, or reports of the test nodes.      *)
(***************************************************************************)
EXTENDS Wallets, FiniteSets, FiniteSetsExt

CONSTANTS
    Node,                        \* the core nodes
    ZERO_WALLET, TEAM_WALLET, MASTER_WALLET_NODE_FORGING,
    Opening,                     \* the wallets in the first state block
    Reports,                     \* what the test nodes may report: sets of <<role, node>>
    Answers,                     \* what the statistics service may answer
    Region,                      \* where a node is found to answer best
    FORGING_POOL,                \* coins forged in a day, beside the fees
    FORGING_TEAM_REWARD,
    FOUNDER_DAILY_LIMIT_UP,
    NODE_SEED_CAP, NODE_SOFT_CAP, NODE_HARD_CAP,   \* per role
    DAY,                         \* DAY_IN_SECONDS
    MAX_TIME                     \* bound: timestamps of blocks

Type == {"common", "forging", "state"}

ASSUME DailyAssumption ==
    /\ {ZERO_WALLET, TEAM_WALLET, MASTER_WALLET_NODE_FORGING} \subseteq Addr
    /\ Reports \subseteq SUBSET (Role \X Addr)
    /\ DAY \in Nat \ {0}
    /\ MAX_TIME \in Nat

ASSUME ForgingAssumption ==
    /\ IsFiniteSet(Addr) /\ IsFiniteSet(Role)
    /\ {FORGING_POOL, FORGING_TEAM_REWARD, FOUNDER_DAILY_LIMIT_UP} \subseteq Nat
    /\ NODE_SEED_CAP \in [Role -> Nat]
    /\ {NODE_SOFT_CAP, NODE_HARD_CAP} \subseteq [Role -> Nat \ {0}]
    /\ \A answer \in Answers :
        /\ \E A \in SUBSET Addr : answer.passive \in [A -> Nat \ {0}]
        /\ answer.active \in Seq(Addr)

(* The table of make_forging_block_node_reward: five roles in three regions. *)
ASSUME ShareAssumption ==
    /\ Cardinality(Role) <= 5
    /\ Cardinality({Region[a] : a \in Addr}) <= 3

VARIABLES
    chain,      \* the blocks decided
    offered,    \* the block made on the last of them, if any
    node,       \* what each node keeps of the blocks
    ledger      \* the wallets of each node, and the roles it grants

vars == <<chain, offered, node, ledger>>

-----------------------------------------------------------------------------
(* Wallets.  A wallet without WalletAdditions has the values they start    *)
(* with; nothing tells the two apart.                                      *)
Plain(value, nonce) == [
    balance |-> value, transaction_id |-> nonce,
    founder |-> FALSE, used_limit |-> 0, limit |-> 0,
    state |-> {},               \* roles asked for (the PRETEND flags)
    pretend_common |-> FALSE,   \* the other flags: delegates to the master wallet,
    soft |-> {}, seed |-> {},   \* and has enough for a role
    trust |-> 2,
    delegate_to |-> << >>, delegated_to_sum |-> 0,
    delegated_from |-> << >>, delegated_from_sum |-> 0,
    delegate_to_daly_snapshot |-> << >>, delegated_from_daly_snapshot |-> << >>]

NewWallet == Plain(0, 1)

Wallet == [
    balance : Nat, transaction_id : Nat,
    founder : BOOLEAN, used_limit : Nat, limit : Nat,
    state : SUBSET Role, pretend_common : BOOLEAN,
    soft : SUBSET Role, seed : SUBSET Role, trust : Nat,
    delegate_to : Seq(Delegation), delegated_to_sum : Nat,
    delegated_from : Seq(Delegation), delegated_from_sum : Nat,
    delegate_to_daly_snapshot : Seq(Delegation),
    delegated_from_daly_snapshot : Seq(Delegation)]

(* What is delegated in the first state block is there, on both sides, and a
   node of it has coins to count for. *)
ASSUME OpeningAssumption ==
    /\ Opening \in [Addr -> Wallet]
    /\ \A a \in Addr : LET w == Opening[a] IN
        /\ Total(w.delegate_to_daly_snapshot) <= w.balance
        /\ w.pretend_common /\ w.soft # {} => Total(w.delegated_from_daly_snapshot) > 0
    /\ \A a, b \in Addr \ {STATE_FEE_WALLET, ZERO_WALLET} :
        Amounts(Opening[a].delegate_to_daly_snapshot, b)
            = Amounts(Opening[b].delegated_from_daly_snapshot, a)

Flags(w) == <<w.state, w.pretend_common, w.soft, w.seed>>

(* What a state block says of a wallet; a member that is << >> is left out. *)
Serialize(w) == [
    value |-> w.balance,
    nonce |-> w.transaction_id,
    limits |-> IF w.founder THEN <<w.used_limit, w.limit>> ELSE << >>,
    flags |-> IF Flags(w) # Flags(NewWallet) \/ w.trust # NewWallet.trust
              THEN <<Flags(w), w.trust * 5>> ELSE << >>,
    delegate_to |-> w.delegate_to_daly_snapshot,
    delegated_from |-> w.delegated_from_daly_snapshot]

Initialize(record) ==
    LET flags == IF record.flags = << >> THEN Flags(NewWallet) ELSE record.flags[1]
        founder == record.limits # << >>
    IN  [Plain(record.value, record.nonce) EXCEPT
            !.founder = founder,
            !.used_limit = IF founder THEN record.limits[1] ELSE 0,
            !.limit = IF founder THEN record.limits[2] ELSE 0,
            !.state = flags[1], !.pretend_common = flags[2],
            !.soft = flags[3], !.seed = flags[4],
            !.trust = IF record.flags = << >> THEN NewWallet.trust ELSE record.flags[2] \div 5,
            !.delegate_to = record.delegate_to,
            !.delegated_to_sum = Total(record.delegate_to),
            !.delegated_from = record.delegated_from,
            !.delegated_from_sum = Total(record.delegated_from),
            !.delegate_to_daly_snapshot = record.delegate_to,
            !.delegated_from_daly_snapshot = record.delegated_from]

AddTrust(w) == [w EXCEPT !.trust = IF @ < 200 THEN @ + 1 ELSE 200]
SubTrust(w) == [w EXCEPT !.trust = IF @ >= 12 THEN @ - 10 ELSE 2]

ApplyDelegates(w) ==
    [w EXCEPT !.delegate_to_daly_snapshot = w.delegate_to,
              !.delegated_from_daly_snapshot = w.delegated_from,
              !.limit = IF w.founder THEN @ + FOUNDER_DAILY_LIMIT_UP ELSE @]

(* The roles a node is paid for (NODE_STATE_FLAG_FORGING). *)
ForgingRoles(w) == IF w.pretend_common THEN w.state \cap w.soft \cap w.seed ELSE {}

SumOf(list, a) == SumFunctionOnSet([i \in DOMAIN list |-> list[i][2]], Naming(list, a))

(* check_caps, for the node of address a. *)
CheckCaps(w, a) ==
    LET seed_sum == SumOf(w.delegated_from_daly_snapshot, a)
    IN  [w EXCEPT !.soft = {r \in w.state : w.delegated_from_sum >= NODE_SOFT_CAP[r]},
                  !.seed = {r \in w.state : seed_sum >= NODE_SEED_CAP[r]}]

SumValues(rewards) == SumFunction([r \in rewards |-> r.value])

-----------------------------------------------------------------------------
(* make_forging_block.  Shares are exact here and rounded down; the code   *)
(* computes them in doubles, and skips one that what is left cannot pay.   *)
Reward(to, value, kind) == [to |-> to, value |-> value, kind |-> kind]

(* What the first delegators of a node count for, up to its hard cap. *)
Counted(list, cap) == [i \in DOMAIN list |->
    Min({list[i][2], Max({0, cap - Total(SubSeq(list, 1, i - 1))})})]

(* Nodes by the role they are paid for.  Those with several roles are paid
   for the one that comes first in a hash table; those that failed too many
   tests, or were too slow, for none. *)
RoleChoices(W, node_statistics) ==
    LET fit == {p \in node_statistics : p[1] \in ForgingRoles(W[p[2]])}
    IN  {choice \in UNION {[A -> Role] : A \in SUBSET {p[2] : p \in fit}} :
            \A a \in DOMAIN choice : <<choice[a], a>> \in fit}

Units(W, choice, a) ==
    Min({NODE_HARD_CAP[choice[a]], Total(W[a].delegated_from_daly_snapshot)})

(* A tenth of the pool for all nodes, and a fiftieth for those of one role
   and region. *)
NodeRewards(W, pool, choice) ==
    LET peers(a) == {b \in DOMAIN choice : choice[b] = choice[a] /\ Region[b] = Region[a]}
        units(A) == SumFunction([b \in A |-> Units(W, choice, b)])
        share(coins, a, A) == (coins * Units(W, choice, a)) \div units(A)
    IN  {Reward(a, share((pool * 10) \div 100, a, DOMAIN choice)
                    + share((pool * 2) \div 100, a, peers(a)), "N") : a \in DOMAIN choice}

(* Half of the pool for those who delegate to these nodes. *)
CoinRewards(W, pool, choice) ==
    LET list(a) == W[a].delegated_from_daly_snapshot
        places == UNION {{a} \X DOMAIN list(a) : a \in DOMAIN choice}
        units(P) == SumFunction(
            [p \in P |-> Counted(list(p[1]), NODE_HARD_CAP[choice[p[1]]])[p[2]]])
        from(d) == {p \in places : list(p[1])[p[2]][1] = d}
    IN  {Reward(d, (((pool * 50) \div 100) * units(from(d))) \div units(places), "C") :
            d \in {list(p[1])[p[2]][1] : p \in IF units(places) = 0 THEN {} ELSE places}}

(* A hundredth of the pool for the wallets that the service saw online, by
   how long they were. *)
WalletRewards(pool, passive) ==
    LET shares == SumFunction(passive)
        per_share == (((pool * 10) \div 100) \div 10) \div shares
    IN  {Reward(a, passive[a] * per_share, "W") : a \in DOMAIN passive}

(* The lottery: what the winner of a place gets, and what is left of the
   places nobody won, which all winners share. *)
Place(total, i) ==
    CASE i = 1 -> (total * 4) \div 10
      [] i = 2 -> total \div 10
      [] i = 3 -> (total * 5) \div 100
      [] i = 4 -> (total * 415) \div 10000
      [] i = 5 -> (total * 335) \div 10000
      [] i \in 6..100 -> total \div 1000
      [] i \in 101..1000 -> (total * 2) \div 10000

Bank(total, n) ==
    SumFunction([i \in (n + 1) .. 5 |-> Place(total, i)])
    + Place(total, 6) * (IF n >= 6 THEN Max({0, 100 - n}) ELSE 94)
    + Place(total, 101) * Max({0, 1000 - Max({n, 100})})

RandomRewards(pool, active) ==
    LET total == (pool * 10) \div 100
        n == Len(active)
    IN  {Reward(active[i], Place(total, i) + Bank(total, n) \div n, "R") :
            i \in DOMAIN active \cap (1..1000)}

(* active lists the winners in the order they were drawn. *)
ForgingRewards(W, choice, answer) ==
    LET pool == FORGING_POOL + W[STATE_FEE_WALLET].balance
    IN  NodeRewards(W, pool, choice) \cup CoinRewards(W, pool, choice)
        \cup WalletRewards(pool, answer.passive) \cup RandomRewards(pool, answer.active)
        \cup {Reward(TEAM_WALLET, FORGING_TEAM_REWARD, "TEAM")}

-----------------------------------------------------------------------------
(* can_apply_forging_block *)

PayRewards(W, rewards) == [a \in Addr |->
    [W[a] EXCEPT !.balance = @ + SumValues({r \in rewards : r.to = a})]]

(* Mutant: what is left of the pool replaces the fees. *)
FeesLost(fees, total_forging) == FORGING_POOL - total_forging

(* What becomes of the fees. *)
FeesLeft(fees, total_forging) ==
    LET more == (FORGING_POOL * 110) \div 100
    IN  IF total_forging <= FORGING_POOL + fees THEN fees + FORGING_POOL - total_forging
        ELSE IF total_forging > more + fees THEN 0
        ELSE more + fees - total_forging

ReviseTrust(W, paid) == [a \in Addr |->
    IF ForgingRoles(W[a]) = {} THEN W[a]
    ELSE IF a \in paid THEN AddTrust(W[a]) ELSE SubTrust(W[a])]

(* The node's flags are set from the snapshots just taken. *)
ReviseFlags(W) ==
    LET list == W[MASTER_WALLET_NODE_FORGING].delegated_from_daly_snapshot
        nodes == {list[i][1] : i \in DOMAIN list}
    IN  [a \in Addr |->
            IF a \in nodes THEN CheckCaps([W[a] EXCEPT !.pretend_common = TRUE], a)
                           ELSE [W[a] EXCEPT !.pretend_common = FALSE]]

ApplyForging(W, rewards) ==
    LET paid == PayRewards(W, rewards)
        total_forging == SumValues({r \in rewards : r.kind # "TEAM"})
        fees == FeesLeft(paid[STATE_FEE_WALLET].balance, total_forging)
        settled == [paid EXCEPT ![STATE_FEE_WALLET] = Plain(fees, 0)]
        trusted == ReviseTrust(settled, {r.to : r \in {q \in rewards : q.kind = "N"}})
    IN  ReviseFlags([a \in Addr |-> ApplyDelegates(trusted[a])])

(* can_apply_state_block: what is on the zero wallet is lost; a node that
   has wallets compares, a new one reads. *)
ResetZero(W) == [W EXCEPT ![ZERO_WALLET] = Plain(0, 0)]

StateAccepted(W, records) ==
    \A a \in Addr :
        /\ records[a].nonce = ResetZero(W)[a].transaction_id
        /\ records[a].value = ResetZero(W)[a].balance

(* can_apply_common_block *)
RealFee(tx) == Excess(tx.size, FREE_SIZE)

CommonAccepted(W, entry) ==
    LET tx == entry.tx IN
    /\ SubResult(W[tx.from], tx, RealFee(tx)) = 0
    /\ entry.state = "accept" => CanApplyMethod(Sub(W, tx, RealFee(tx)), tx)

ApplyCommon(W, entry) ==
    LET tx == entry.tx
        paid == Sub(W, tx, RealFee(tx))
    IN  Add(IF entry.state = "accept" THEN ApplyMethod(paid, tx) ELSE paid,
            STATE_FEE_WALLET, RealFee(tx))

(* try_apply_block: its verdict, and the wallets it leaves. *)
Accepted(W, b) ==
    CASE b.type = "common"  -> \A i \in DOMAIN b.txs : CommonAccepted(W, b.txs[i])
      [] b.type = "forging" -> TRUE
      [] b.type = "state"   -> StateAccepted(W, b.wallets)

Applied(W, b) ==
    CASE b.type = "common"  -> IF b.txs = << >> THEN W ELSE ApplyCommon(W, b.txs[1])
      [] b.type = "forging" -> ApplyForging(W, b.rewards)
      [] b.type = "state"   -> ResetZero(W)

-----------------------------------------------------------------------------
(* A node that has applied no block since it started (clear). *)
Fresh == [
    height |-> 0,              \* blocks applied, or read over
    node_statistics |-> {},    \* what was reported of which node
    created |-> FALSE,         \* last_created_block is not last_applied_block
    status |-> "running",      \* or "refusing" a decided block, or "exited"
    tried |-> FALSE,           \* it tried the block it has yet to apply, or the one offered
    stray |-> FALSE]           \* history: see Distracts

(* The wallets of a node, and node_state, from which check_addr reads. *)
Ledger(W) == [wallets |-> W,
              node_state |-> UNION {ForgingRoles(W[a]) \X {a} : a \in Addr}]

NoLedger == Ledger([a \in Addr |-> NewWallet])

ReadState(b) == Ledger([a \in Addr |-> Initialize(b.wallets[a])])

(* apply_block: node_state is filled by state blocks only. *)
ApplyBlock(l, b) ==
    IF b.type = "state" THEN Ledger(Applied(l.wallets, b))
                        ELSE [l EXCEPT !.wallets = Applied(@, b)]

(* Mutant: a forging block does not clear the statistics. *)
CountOn(statistics, b) == statistics \cup b.reports

(* A dry run counts reports and forgets them like an applied block.  How
   often it counts them is left out, and differs among the nodes. *)
Count(statistics, b) ==
    IF b.type = "forging" THEN {} ELSE statistics \cup b.reports

(* A block that, if it loses, leaves the statistics of those who tried it
   different from those of the others. *)
Distracts(b) == b.type = "forging" \/ b.reports # {}

Block(type, ts) == [type |-> type, ts |-> ts, txs |-> << >>, reports |-> {},
                    rewards |-> {}, wallets |-> << >>]

StateBlock(ts, W) ==
    [Block("state", ts) EXCEPT !.wallets = [a \in Addr |-> Serialize(ResetZero(W)[a])]]

(* A node starts from a state block of its files. *)
Bootstrap(n) == \E h \in DOMAIN chain :
    /\ node[n].height = 0
    /\ chain[h].type = "state"
    /\ node' = [node EXCEPT ![n] = [Fresh EXCEPT !.height = h]]
    /\ ledger' = [ledger EXCEPT ![n] = ReadState(chain[h])]
    /\ UNCHANGED <<chain, offered>>

Follow(n) ==
    LET s == node[n]
        b == chain[s.height + 1]
    IN  /\ s.height \in 1 .. Len(chain) - 1
        /\ s.status = "running"
        /\ IF Accepted(ledger[n].wallets, b)
           THEN /\ node' = [node EXCEPT ![n] = [s EXCEPT
                        !.height = @ + 1,
                        !.node_statistics = Count(@, b),
                        !.created = FALSE,
                        !.tried = FALSE,
                        !.stray = @ /\ b.type # "forging"]]
                /\ ledger' = [ledger EXCEPT ![n] = ApplyBlock(@, b)]
           ELSE /\ node' = [node EXCEPT ![n].status = "refusing"]
                /\ UNCHANGED ledger
        /\ UNCHANGED <<chain, offered>>

-----------------------------------------------------------------------------
(* try_make_block *)

AtTip(s) == s.height = Len(chain) /\ s.status = "running"

(* Mutant: the next block may bear the time of the last one. *)
LaterOrSame(ts, prev_timestamp) == ts >= prev_timestamp

Later(ts, prev_timestamp) == ts > prev_timestamp

(* Mutant: a day starts with its state block, which the forging block follows. *)
StateFirst(prev, ts) ==
    IF prev.type = "state" /\ prev.ts > 0 THEN "forging"
    ELSE IF (ts + 1) \div DAY > prev.ts \div DAY THEN "state"
    ELSE "common"

(* The day of a block to be made starts one second early. *)
NextType(prev, ts) ==
    IF prev.type = "forging" THEN "state"
    ELSE IF (ts + 1) \div DAY > prev.ts \div DAY THEN "forging"
    ELSE "common"

(* A node tries the block it made, and exits if it refuses it. *)
Offer(n, b) ==
    LET s == node[n] IN
    /\ AtTip(s)
    /\ ~s.created
    /\ offered = {}
    /\ Later(b.ts, chain[s.height].ts)
    /\ b.type = NextType(chain[s.height], b.ts)
    /\ IF Accepted(ledger[n].wallets, b)
       THEN /\ offered' = {b}
            /\ node' = [node EXCEPT ![n] = [s EXCEPT
                    !.created = TRUE,
                    !.tried = TRUE,
                    !.node_statistics = Count(@, b)]]
       ELSE /\ node' = [node EXCEPT ![n].status = "exited"]
            /\ UNCHANGED offered
    /\ UNCHANGED <<chain, ledger>>

MakeCommon(n, ts) == \E tx \in Tx :
    LET W == ledger[n].wallets
        state == IF CanApplyMethod(Sub(W, tx, RealFee(tx)), tx) THEN "accept" ELSE "wrong_data"
    IN  /\ SubResult(W[tx.from], tx, RealFee(tx)) = 0
        /\ Offer(n, [Block("common", ts) EXCEPT !.txs = <<[tx |-> tx, state |-> state]>>])

MakeStatistics(n, ts) == \E reports \in Reports :
    Offer(n, [Block("common", ts) EXCEPT !.reports = reports])

MakeForging(n, ts) ==
    LET W == ledger[n].wallets IN
    \E choice \in RoleChoices(W, node[n].node_statistics), answer \in Answers :
        Offer(n, [Block("forging", ts) EXCEPT !.rewards = ForgingRewards(W, choice, answer)])

MakeState(n, ts) == Offer(n, StateBlock(ts, ledger[n].wallets))

(* A node tries a block made by another. *)
Try(n) == \E b \in offered :
    /\ AtTip(node[n])
    /\ ~node[n].tried
    /\ node' = [node EXCEPT ![n].tried = TRUE, ![n].node_statistics = Count(@, b)]
    /\ UNCHANGED <<chain, offered, ledger>>

Decide == \E b \in offered :
    /\ chain' = Append(chain, b)
    /\ offered' = {}
    /\ UNCHANGED <<node, ledger>>

(* Another block will be decided in its place. *)
Lose == \E b \in offered :
    /\ offered' = {}
    /\ node' = [n \in Node |->
            IF node[n].height = Len(chain) /\ node[n].tried
            THEN [node[n] EXCEPT !.tried = FALSE, !.stray = @ \/ Distracts(b)]
            ELSE node[n]]
    /\ UNCHANGED <<chain, ledger>>

(* A crash, an exit, or the end of a process that a new one replaces. *)
Stop(n) ==
    /\ node[n].height > 0
    /\ node' = [node EXCEPT ![n] = Fresh]
    /\ ledger' = [ledger EXCEPT ![n] = NoLedger]
    /\ UNCHANGED <<chain, offered>>

-----------------------------------------------------------------------------
Init ==
    /\ chain = <<StateBlock(0, Opening)>>
    /\ offered = {}
    /\ node = [n \in Node |-> Fresh]
    /\ ledger = [n \in Node |-> NoLedger]

Next ==
    \/ \E n \in Node : Bootstrap(n) \/ Follow(n) \/ Try(n) \/ Stop(n)
    \/ \E n \in Node, ts \in 1..MAX_TIME :
            \/ MakeCommon(n, ts) \/ MakeStatistics(n, ts)
            \/ MakeForging(n, ts) \/ MakeState(n, ts)
    \/ Decide \/ Lose

Spec == Init /\ [][Next]_vars

-----------------------------------------------------------------------------
(* Nodes that applied the same blocks have the same wallets and grant the
   same roles, and none refuses its own block or a decided one: those that
   applied every block, and those that read a state block on the way.  The
   records of a state block hold only the daily snapshots, so this needs
   that nothing moves between the snapshots and the state block.
   Controller takes it for granted that ledgers at one block agree. *)
NodesAgree ==
    /\ \A n \in Node : node[n].status = "running"
    /\ \A n, k \in Node : node[n].height = node[k].height =>
            ledger[n] = ledger[k]

(* What the chain up to height h reports since its last forging block. *)
Reported(h) == {p \in Role \X Addr : \E i \in 1..h :
    p \in chain[i].reports /\ \A j \in i..h : chain[j].type # "forging"}

(* A node that tried no block in vain since the last forging block knows
   the nodes that the chain reports, and no others, whenever it started:
   all such nodes choose among the same nodes whom to pay.  Dry runs of
   blocks that lose are what sets the others apart. *)
StatisticsAgree == \A n \in Node :
    node[n].height > 0 /\ ~node[n].stray /\ ~node[n].tried =>
        node[n].node_statistics = Reported(node[n].height)

(* Delegated coins are counted once: in every ledger the sums are those of
   the lists, within the balance, and the lists of the two sides and their
   daily snapshots tell the same delegations in the same order.  Only the
   fee wallet and the zero wallet forget what was delegated to them. *)
DelegationsMatch == \A n \in Node, a \in Addr :
    LET W == ledger[n].wallets
        w == W[a]
        kept == Addr \ {STATE_FEE_WALLET, ZERO_WALLET}
    IN  /\ w.delegated_to_sum = Total(w.delegate_to)
        /\ w.delegated_from_sum = Total(w.delegated_from)
        /\ w.delegated_to_sum <= w.balance
        /\ a \in kept => \A b \in kept :
                /\ Amounts(w.delegate_to, b) = Amounts(W[b].delegated_from, a)
                /\ Amounts(w.delegate_to_daly_snapshot, b)
                    = Amounts(W[b].delegated_from_daly_snapshot, a)

Coins(W) == SumFunction([a \in Addr |-> W[a].balance])

(* A forging block brings the pool and the reward of the team into being,
   whatever it pays out: the rest goes to the fee wallet.  A state block
   takes what was sent to the zero wallet.  No other block changes the sum
   of the coins. *)
CoinsMinted == [][\A n \in Node :
    LET b == chain[node'[n].height]
        W == ledger[n].wallets
    IN  node[n].height > 0 /\ node'[n].height = node[n].height + 1 =>
            Coins(ledger'[n].wallets) = Coins(W) +
                CASE b.type = "forging" -> FORGING_POOL + FORGING_TEAM_REWARD
                  [] b.type = "state" -> -W[ZERO_WALLET].balance
                  [] b.type = "common" -> 0]_vars

(* The pool is forged at most once a day, days counted from one second
   before midnight as in try_make_block: a forging block of that second
   counts for the day it precedes, though prev_day is still the old one,
   because the state block behind it is later. *)
OneForgingPerDay == \A i, j \in DOMAIN chain :
    i < j /\ chain[i].type = "forging" /\ chain[j].type = "forging" =>
        (chain[i].ts + 1) \div DAY < (chain[j].ts + 1) \div DAY
=============================================================================
