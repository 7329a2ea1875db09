------------------------------- MODULE Ledger -------------------------------
(***************************************************************************)
(* The ledger of one node: BlockChain of src/metalibs/meta_chain and the   *)
(* wallets of src/metalibs/meta_wallet, for common blocks.  Every wallet   *)
(* is kept twice: the staged values that transactions work on, and the     *)
(* committed values that apply_changes and clear_changes copy them to or   *)
(* from, for the wallets listed in changed_wallets.  Making a block and    *)
(* can_apply_block are dry runs on the staged values; apply_block commits. *)
(*                                                                         *)
(* A walk over the transactions of a block is a sequence of steps, one per *)
(* transaction, which no other action interrupts: phase tells the walk.    *)
(*                                                                         *)
(* Left out: transactions of ZERO_WALLET, of the test nodes (they carry    *)
(* statistics) and of malformed addresses, and the blocks other than       *)
(* common ones.                                                            *)
(*                                                                         *)
(* Amounts are natural numbers: the coins in existence are far below 2^64, *)
(* and MCLedger gives transactions amounts in proportion to them.          *)
(***************************************************************************)
EXTENDS Wallets, FiniteSets

CONSTANTS
    Opening,                \* the wallets of the state block the node read
    ReceivedBlocks,         \* blocks that other cores or the disk may hold
    COMISSION_COMMON,       \* fee per level of load, from 00_20 to 81_99
    MAX_TRANSACTION_COUNT,
    STABLE_SORT_SIZE,       \* up to this length std::sort keeps equal keys in place
    MAX_TRANSACTIONS        \* bound: transactions waiting at a time

ASSUME LevelAssumption ==
    /\ COMISSION_COMMON \in [1..5 -> Nat]
    /\ MAX_TRANSACTION_COUNT \in Nat

(* How a transaction is recorded in a block: TX_STATE_ACCEPT,              *)
(* TX_STATE_WRONG_DATA, or TX_STATE_APPROVE in blocks of the first years.  *)
TxState == {"accept", "wrong_data", "approve"}
Entry == [tx : Tx, state : TxState]
Block == [fee : Nat, txs : Seq(Entry)]

(* The sums are unsigned in the code; that no wallet's sum ever passes     *)
(* below zero follows from DelegationsMatch in DailyCycle.                 *)
Wallet == [
    balance            : Nat,
    transaction_id     : Nat,              \* nonce of the next transaction
    founder            : BOOLEAN,
    used_limit         : Nat,
    limit              : Nat,
    state              : SUBSET Role,
    delegate_to        : Seq(Delegation),
    delegated_to_sum   : Int,
    delegated_from     : Seq(Delegation),
    delegated_from_sum : Int]

ASSUME OpeningAssumption ==
    /\ Opening \in [Addr -> Wallet]
    /\ \A a \in Addr : LET w == Opening[a] IN
        /\ w.delegated_to_sum <= w.balance
        /\ w.founder => w.used_limit <= w.limit
    /\ ReceivedBlocks \subseteq {b \in Block : b.txs # << >>}

NoBlock == [fee |-> 0, txs |-> << >>]

VARIABLES
    wallets,       \* the staged wallets
    real_wallets,  \* the committed wallets (real_balance, real_addition, ...)
    changed_wallets,
    transactions,  \* transactions waiting to be put into a block
    rejected,      \* rejected_tx_list: <<transaction, reason>>
    phase,         \* the walk under way
    block,         \* the block walked, or made so far
    own,           \* the block walked was made here
    todo,          \* positions in it (or in transactions) still to visit
    pending        \* the block that can_apply_block accepted

vars == <<wallets, real_wallets, changed_wallets, transactions, rejected,
          phase, block, own, todo, pending>>
walk == <<phase, block, own, todo>>

Phase == {"idle", "making", "checking", "applying",
          "exited",   \* the node refused the block it made
          "killed"}   \* the node made a block where another one waits

-----------------------------------------------------------------------------
(* Mutant: the fees are added without a note of it. *)
TouchedParties(tx) == {tx.from, tx.to}

(* Every one of these writes puts the wallet into changed_wallets. *)
Touched(tx) == {tx.from, tx.to, STATE_FEE_WALLET}

-----------------------------------------------------------------------------
(* The order of a walk: std::sort by nonce.  The sort moves equal nonces   *)
(* about only in longer lists.                                             *)
Before(s, i, j) ==
    \/ s[i].nonce < s[j].nonce
    \/ s[i].nonce = s[j].nonce /\ (i <= j \/ Len(s) > STABLE_SORT_SIZE)

NextOf(s) == {i \in todo : \A j \in todo : Before(s, i, j)}

BlockTxs == [i \in DOMAIN block.txs |-> block.txs[i].tx]

GetFee(cnt) ==
    LET fifth == (MAX_TRANSACTION_COUNT * 20) \div 100
    IN  COMISSION_COMMON[1 + Cardinality({k \in 1..4 : cnt > k * fifth})]

-----------------------------------------------------------------------------
(* make_common_block *)

MakeFee(tx) == block.fee + Excess(tx.size, FREE_SIZE)

ReceiveTx(tx) ==
    /\ phase = "idle"
    /\ Len(transactions) < MAX_TRANSACTIONS
    /\ transactions' = Append(transactions, tx)
    /\ UNCHANGED <<wallets, real_wallets, changed_wallets, rejected, pending, walk>>

(* A node whose own block waits makes no other. *)
StartMaking ==
    /\ phase = "idle"
    /\ transactions # << >>
    /\ pending # NoBlock => ~own
    /\ phase' = "making"
    /\ own' = TRUE
    /\ block' = [fee |-> GetFee(Len(transactions)), txs |-> << >>]
    /\ todo' = DOMAIN transactions
    /\ UNCHANGED <<wallets, real_wallets, changed_wallets, transactions, rejected, pending>>

(* The reason recorded is that of the code: status is initialised with the
   comparison sub(...) > 0 and not with the result of sub. *)
MakeTxRejected(i) ==
    LET tx == transactions[i]
        status == IF SubResult(wallets[tx.from], tx, MakeFee(tx)) > 0 THEN 1 ELSE 0
    IN  /\ phase = "making"
        /\ i \in NextOf(transactions)
        /\ status > 0
        /\ rejected' = rejected \cup {<<tx, status>>}
        /\ todo' = todo \ {i}
        /\ UNCHANGED <<wallets, real_wallets, changed_wallets, transactions,
                       phase, block, own, pending>>

MakeTx(i) ==
    LET tx == transactions[i]
        paid == Add(Sub(wallets, tx, MakeFee(tx)), STATE_FEE_WALLET, MakeFee(tx))
        ok == CanApplyMethod(paid, tx)
        state == IF ok THEN "accept" ELSE "wrong_data"
    IN  /\ phase = "making"
        /\ i \in NextOf(transactions)
        /\ SubResult(wallets[tx.from], tx, MakeFee(tx)) = 0
        /\ wallets' = IF ok THEN ApplyMethod(paid, tx) ELSE paid
        /\ changed_wallets' = changed_wallets \cup Touched(tx)
        /\ block' = [block EXCEPT !.txs = Append(@, [tx |-> tx, state |-> state])]
        /\ todo' = todo \ {i}
        /\ UNCHANGED <<real_wallets, transactions, rejected, phase, own, pending>>

(* Mutant: the list is emptied, the wallets are not reset. *)
ClearChangesListOnly ==
    /\ changed_wallets' = {}
    /\ UNCHANGED <<wallets, real_wallets>>

ClearChanges ==
    /\ wallets' = [a \in Addr |-> IF a \in changed_wallets THEN real_wallets[a] ELSE wallets[a]]
    /\ changed_wallets' = {}
    /\ UNCHANGED real_wallets

ApplyChanges ==
    /\ real_wallets' = [a \in Addr |-> IF a \in changed_wallets THEN wallets[a] ELSE real_wallets[a]]
    /\ changed_wallets' = {}
    /\ UNCHANGED wallets

(* The changes are cleared; try_make_block then tries the block itself. *)
EndMaking ==
    /\ phase = "making"
    /\ todo = {}
    /\ ClearChanges
    /\ transactions' = << >>
    /\ IF block.txs = << >>
       THEN phase' = "idle" /\ own' = FALSE /\ block' = NoBlock /\ rejected' = {}
       ELSE phase' = "checking" /\ UNCHANGED <<own, block, rejected>>
    /\ todo' = DOMAIN block.txs
    /\ UNCHANGED pending

(* A pass that makes no block writes the rejected transactions into a
   block of their own, which no ledger applies. *)
MakeRejectedTxBlock ==
    /\ phase = "idle"
    /\ pending # NoBlock => ~own
    /\ transactions = << >>
    /\ rejected # {}
    /\ rejected' = {}
    /\ UNCHANGED <<wallets, real_wallets, changed_wallets, transactions, pending, walk>>

-----------------------------------------------------------------------------
(* can_apply_block and apply_block, for common blocks *)

(* Mutant: the same allowance for a transaction with and without its state. *)
CheckFeeSameAllowance(tx) == block.fee + Excess(tx.size + 1, FREE_SIZE)

(* The raw transaction in a block has one byte more, its state. *)
CheckFee(tx) == block.fee + Excess(tx.size + 1, FREE_SIZE + 1)

(* A received block is tried before it is approved; a block read from disk
   is applied at once. *)
ReceiveBlock(b, p) ==
    /\ phase = "idle"
    /\ pending = NoBlock
    /\ p \in {"checking", "applying"}
    /\ phase' = p
    /\ own' = FALSE
    /\ block' = b
    /\ todo' = DOMAIN b.txs
    /\ UNCHANGED <<wallets, real_wallets, changed_wallets, transactions, rejected, pending>>

StartApplying ==
    /\ phase = "idle"
    /\ pending # NoBlock
    /\ phase' = "applying"
    /\ block' = pending
    /\ todo' = DOMAIN pending.txs
    /\ UNCHANGED <<wallets, real_wallets, changed_wallets, transactions, rejected, own, pending>>

Walking == phase \in {"checking", "applying"}

EndWalk(next) == phase' = next /\ block' = NoBlock /\ todo' = {}

(* An approved transaction is paid if it can be, whatever comes of it. *)
CheckTxApproved(i) ==
    LET tx == block.txs[i].tx
        paid == SubResult(wallets[tx.from], tx, 0) = 0
    IN  /\ Walking
        /\ i \in NextOf(BlockTxs)
        /\ block.txs[i].state = "approve"
        /\ wallets' = IF paid THEN Sub(wallets, tx, 0) ELSE wallets
        /\ changed_wallets' = changed_wallets \cup (IF paid THEN {tx.from, tx.to} ELSE {})
        /\ todo' = todo \ {i}
        /\ UNCHANGED <<real_wallets, transactions, rejected, phase, block, own, pending>>

(* Whether the walk goes on after the i-th transaction. *)
Passes(i) ==
    LET tx == block.txs[i].tx
        paid == Sub(wallets, tx, CheckFee(tx))
    IN  /\ SubResult(wallets[tx.from], tx, CheckFee(tx)) = 0
        /\ block.txs[i].state = "accept" => CanApplyMethod(paid, tx)

CheckTx(i) ==
    LET tx == block.txs[i].tx
        paid == Sub(wallets, tx, CheckFee(tx))
        done == IF block.txs[i].state = "accept" THEN ApplyMethod(paid, tx) ELSE paid
    IN  /\ Walking
        /\ i \in NextOf(BlockTxs)
        /\ block.txs[i].state # "approve"
        /\ Passes(i)
        /\ wallets' = Add(done, STATE_FEE_WALLET, CheckFee(tx))
        /\ changed_wallets' = changed_wallets \cup Touched(tx)
        /\ todo' = todo \ {i}
        /\ UNCHANGED <<real_wallets, transactions, rejected, phase, block, own, pending>>

(* The block is refused: a received one is disapproved and dropped, one
   that waits stays; a node that refuses the block it made exits. *)
Refuse(i) ==
    /\ Walking
    /\ i \in NextOf(BlockTxs)
    /\ block.txs[i].state # "approve"
    /\ ~Passes(i)
    /\ ClearChanges
    /\ EndWalk(IF phase = "checking" /\ own THEN "exited" ELSE "idle")
    /\ UNCHANGED <<transactions, rejected, own, pending>>

(* A block that passed is approved, unless a block on the same parent
   waits already: that kills a node that made one more. *)
EndChecking ==
    /\ phase = "checking"
    /\ todo = {}
    /\ ClearChanges
    /\ EndWalk(IF pending = NoBlock THEN "idle" ELSE "killed")
    /\ pending' = IF pending = NoBlock THEN block ELSE pending
    /\ UNCHANGED <<transactions, rejected, own>>

EndApplying ==
    /\ phase = "applying"
    /\ todo = {}
    /\ ApplyChanges
    /\ EndWalk("idle")
    /\ pending' = NoBlock
    /\ UNCHANGED <<transactions, rejected, own>>

-----------------------------------------------------------------------------
Init ==
    /\ wallets = Opening
    /\ real_wallets = Opening
    /\ changed_wallets = {}
    /\ transactions = << >>
    /\ rejected = {}
    /\ phase = "idle"
    /\ block = NoBlock
    /\ own = FALSE
    /\ todo = {}
    /\ pending = NoBlock

Next ==
    \/ \E tx \in Tx : ReceiveTx(tx)
    \/ StartMaking
    \/ \E i \in todo : MakeTxRejected(i) \/ MakeTx(i)
    \/ EndMaking
    \/ MakeRejectedTxBlock
    \/ \E b \in ReceivedBlocks, p \in {"checking", "applying"} : ReceiveBlock(b, p)
    \/ StartApplying
    \/ \E i \in todo : CheckTxApproved(i) \/ CheckTx(i) \/ Refuse(i)
    \/ EndChecking
    \/ EndApplying

Spec == Init /\ [][Next]_vars

-----------------------------------------------------------------------------
(* Every variable has its type; balances and nonces never pass below zero. *)
TypeOK ==
    /\ wallets \in [Addr -> Wallet]
    /\ real_wallets \in [Addr -> Wallet]
    /\ changed_wallets \subseteq Addr
    /\ transactions \in Seq(Tx)
    /\ rejected \subseteq Tx \X Nat
    /\ phase \in Phase
    /\ block \in Block
    /\ own \in BOOLEAN
    /\ todo \subseteq (IF phase = "making" THEN DOMAIN transactions ELSE DOMAIN block.txs)
    /\ pending \in Block

(* A dry run leaves no trace.  A wallet whose staged and committed values
   differ is listed in changed_wallets; so between two walks they agree,
   whether the last one made a block, accepted one, or broke off half-way. *)
DryRunsLeaveNoTrace ==
    /\ \A a \in Addr \ changed_wallets : wallets[a] = real_wallets[a]
    /\ phase \notin {"making", "checking", "applying"} => wallets = real_wallets

(* No wallet spends coins it has delegated, and no founder more than the
   limit, within a block or across blocks and dry runs.  So get_balance,
   an unsigned difference, never wraps around. *)
Covered(w) ==
    /\ w.delegated_to_sum <= w.balance
    /\ w.founder => w.used_limit <= w.limit

CoinsCovered == \A a \in Addr : Covered(wallets[a]) /\ Covered(real_wallets[a])

(* A node accepts the block it made: make_common_block charges, orders and
   records the transactions as can_apply_common_block reads them back. *)
OwnBlockAccepted == phase # "exited"

(* A block that can_apply_block accepted is accepted by apply_block, also
   when the node made or tried blocks of its own in between. *)
AcceptedIsApplied ==
    [][phase = "applying" /\ pending # NoBlock /\ phase' = "idle" => pending' = NoBlock]_vars

(* Committed nonces never go back, and no wallet is charged without using
   up a nonce: no signed transaction is paid twice. *)
ChargedByNonce ==
    [][\A a \in Addr :
        /\ real_wallets'[a].transaction_id >= real_wallets[a].transaction_id
        /\ real_wallets'[a].balance < real_wallets[a].balance =>
            real_wallets'[a].transaction_id > real_wallets[a].transaction_id]_vars

(* The reasons recorded for rejected transactions are the reject reasons. *)
RejectReasons ==
    \A r \in rejected : r[2] \in {
        TX_REJECT_INSUFFICIENT_FEE, TX_REJECT_INSUFFICIENT_FUNDS, TX_REJECT_INVALID_NONCE,
        TX_REJECT_INSUFFICIENT_FUNDS_EXT, TX_REJECT_FOUNDER_LIMIT}

(* The committed wallets are accounts that whole blocks move, by the coins,
   fees and nonces of a set of transactions, in no particular order. *)
Bank == INSTANCE Accounts WITH
    balance <- [a \in Addr |-> real_wallets[a].balance],
    nonce <- [a \in Addr |-> real_wallets[a].transaction_id],
    locked <- [a \in Addr |-> real_wallets[a].delegated_to_sum]

ImplementsAccounts == Bank!Spec

-----------------------------------------------------------------------------
(* The inductive invariant behind the safety properties: within a walk,    *)
(* the staged wallets are ahead of the committed ones.                     *)
Ahead(w, real) ==
    /\ w.transaction_id >= real.transaction_id
    /\ w.balance < real.balance => w.transaction_id > real.transaction_id

StagedAhead == \A a \in Addr : Ahead(wallets[a], real_wallets[a])

IInv == TypeOK /\ DryRunsLeaveNoTrace /\ CoinsCovered /\ StagedAhead
=============================================================================
