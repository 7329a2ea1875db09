-------------------------- MODULE DailyCycleProofs --------------------------
(***************************************************************************)
(* Proofs about DailyCycle: a day is forged at most once, the nodes that no *)
(* lost block disturbed know what the chain reports, the ledgers of all nodes *)
(* are those behind the blocks they applied, delegations match, a forging  *)
(* block pays no more than the pool, and coins are made by it alone.       *)
(***************************************************************************)
EXTENDS DailyCycle, WalletTheorems

NodeType == [
    height : Nat, node_statistics : SUBSET (Role \X Addr), created : BOOLEAN,
    status : {"running", "refusing", "exited"}, tried : BOOLEAN, stray : BOOLEAN]

(* b can be made on prev. *)
Follows(prev, b) ==
    /\ b.ts \in Nat
    /\ Later(b.ts, prev.ts)
    /\ b.type = NextType(prev, b.ts)
    /\ b.reports \in SUBSET (Role \X Addr)
    /\ b.type # "common" => b.reports = {}

ChainRight ==
    /\ \E S : chain \in Seq(S)
    /\ chain # << >>
    /\ chain[1].type = "state" /\ chain[1].ts = 0 /\ chain[1].reports = {}
    /\ \A i \in 2..Len(chain) : Follows(chain[i - 1], chain[i])

OfferedRight ==
    /\ \A b \in offered : Follows(chain[Len(chain)], b)
    /\ \A b, c \in offered : b = c

(* From a forging block on, the day it was made for has begun. *)
DaysPass == \A i, j \in DOMAIN chain :
    i < j /\ chain[i].type = "forging" =>
        (chain[i].ts + 1) \div DAY <= chain[j].ts \div DAY

NodesRight ==
    /\ node \in [Node -> NodeType]
    /\ \A n \in Node : node[n].height <= Len(chain)

(* The block that a node has tried: the one decided on the last it applied,
   or the one offered. *)
Candidates(h) == IF h < Len(chain) THEN {chain[h + 1]} ELSE offered

(* What a node that no lost block disturbed knows. *)
Knows(s) ==
    IF s.tried THEN \E b \in Candidates(s.height) : s.node_statistics = Count(Reported(s.height), b)
    ELSE s.node_statistics = Reported(s.height)

StatisticsKnown == \A n \in Node :
    node[n].height > 0 /\ ~node[n].stray => Knows(node[n])

IInv == ChainRight /\ OfferedRight /\ DaysPass /\ OneForgingPerDay /\ NodesRight /\ StatisticsKnown

-----------------------------------------------------------------------------
(* Days pass with the time. *)
LEMMA DaysMonotone ==
    ASSUME NEW a \in Nat, NEW b \in Nat, a <= b
    PROVE  /\ a \div DAY \in Nat /\ b \div DAY \in Nat
           /\ a \div DAY <= b \div DAY
BY DailyAssumption, SMTT(30)

(* A sequence with one more element. *)
LEMMA Appended ==
    ASSUME NEW S, NEW s \in Seq(S), NEW b
    PROVE  /\ Append(s, b) \in Seq(S \cup {b}) /\ Append(s, b) # << >>
           /\ Len(s) \in Nat /\ Len(Append(s, b)) = Len(s) + 1
           /\ \A i \in 1..Len(s) : Append(s, b)[i] = s[i]
           /\ Append(s, b)[Len(s) + 1] = b
           /\ DOMAIN s = 1..Len(s)
           /\ DOMAIN Append(s, b) = 1..(Len(s) + 1)
<1>1. S \subseteq S \cup {b} /\ b \in S \cup {b}
    OBVIOUS
<1>2. s \in Seq(S \cup {b})
    BY <1>1, SeqDef
<1>3. Append(s, b) \in Seq(S \cup {b}) /\ Append(s, b) # << >>
    BY <1>1, <1>2, AppendProperties
<1>4. Len(s) \in Nat /\ DOMAIN s = 1..Len(s) /\ Len(Append(s, b)) = Len(s) + 1
    BY <1>1, <1>2, AppendProperties, LenProperties
<1>5. DOMAIN Append(s, b) = 1..(Len(s) + 1)
    BY <1>3, <1>4, LenProperties
<1> QED
    BY <1>1, <1>2, <1>3, <1>4, <1>5, AppendProperties

(* A chain that is right has a length and positions from 1 on. *)
LEMMA ChainLength ==
    ASSUME ChainRight
    PROVE  Len(chain) \in Nat \ {0} /\ DOMAIN chain = 1..Len(chain)
<1>1. PICK S : chain \in Seq(S)
    BY DEF ChainRight
<1> QED
    BY <1>1, EmptySeq, LenProperties DEF ChainRight

(* The times of the blocks are natural numbers. *)
LEMMA ChainTimes ==
    ASSUME ChainRight, NEW i \in DOMAIN chain
    PROVE  chain[i].ts \in Nat /\ chain[i].reports \in SUBSET (Role \X Addr)
<1>1. i \in 1..Len(chain)
    BY ChainLength
<1>2. CASE i = 1
    BY <1>2 DEF ChainRight
<1>3. CASE i \in 2..Len(chain)
    BY <1>3 DEF ChainRight, Follows
<1> QED
    BY <1>1, <1>2, <1>3, ChainLength

-----------------------------------------------------------------------------
(* What a chain reports up to a state block is nothing: the block before it
   is a forging block. *)
LEMMA StateReportsNothing ==
    ASSUME ChainRight, NEW h \in DOMAIN chain, chain[h].type = "state"
    PROVE  Reported(h) = {}
<1>1. h \in 1..Len(chain) /\ Len(chain) \in Nat
    BY ChainLength
<1>2. chain[h].reports = {}
    BY <1>1 DEF ChainRight, Follows
<1>3. \A j \in 1..h : (\A k \in j..h : chain[k].type # "forging") => j = h
    <2>1. CASE h = 1
        BY <2>1, <1>1
    <2>2. CASE h > 1
        <3>1. chain[h - 1].type = "forging"
            BY <1>1, <2>2 DEF ChainRight, Follows, NextType
        <3> QED
            BY <3>1, <2>2, <1>1
    <2> QED
        BY <2>1, <2>2, <1>1
<1> QED
    BY <1>1, <1>2, <1>3 DEF Reported

(* One block more adds its reports, or starts anew. *)
LEMMA ReportedNext ==
    ASSUME ChainRight, NEW h \in Nat, h + 1 \in DOMAIN chain
    PROVE  Reported(h + 1) = Count(Reported(h), chain[h + 1])
<1>1. CASE chain[h + 1].type = "forging"
    BY <1>1 DEF Reported, Count
<1>2. CASE chain[h + 1].type # "forging"
    <2>1. ASSUME NEW p \in Role \X Addr
          PROVE  p \in Reported(h + 1) <=> p \in Reported(h) \/ p \in chain[h + 1].reports
        <3>1. \A i \in 1..h : i..(h + 1) = (i..h) \cup {h + 1}
            OBVIOUS
        <3>2. (h + 1)..(h + 1) = {h + 1} /\ 1..(h + 1) = (1..h) \cup {h + 1}
            OBVIOUS
        <3> QED
            BY <3>1, <3>2, <1>2 DEF Reported
    <2>2. chain[h + 1].reports \subseteq Role \X Addr
        BY ChainTimes
    <2> QED
        BY <2>1, <2>2, <1>2 DEF Reported, Count
<1> QED
    BY <1>1, <1>2

(* A block decided changes nothing in what was reported before it. *)
LEMMA ReportedKept ==
    ASSUME ChainRight, NEW b, chain' = Append(chain, b), NEW h \in 1..Len(chain)
    PROVE  Reported(h)' = Reported(h)
<1>1. PICK S : chain \in Seq(S)
    BY DEF ChainRight
<1>2. \A i \in 1..h : chain'[i] = chain[i]
    BY <1>1, Appended
<1>3. \A j \in 1..h : \A k \in j..h : chain'[k] = chain[k]
    BY <1>1, <1>2, Appended
<1> QED
    BY <1>2, <1>3 DEF Reported

(* Trying a block before applying it counts nothing twice. *)
LEMMA CountTwice ==
    ASSUME NEW T, NEW b
    PROVE  Count(Count(T, b), b) = Count(T, b)
BY DEF Count

-----------------------------------------------------------------------------
LEMMA InitInv ==
    ASSUME Init
    PROVE  IInv
<1>1. Len(chain) = 1 /\ chain \in Seq({chain[1]}) /\ chain # << >>
    BY DEF Init
<1>2. chain[1].type = "state" /\ chain[1].ts = 0 /\ chain[1].reports = {}
    BY DEF Init, StateBlock, Block
<1>3. ChainRight
    BY <1>1, <1>2 DEF ChainRight
<1>4. OfferedRight
    BY DEF Init, OfferedRight
<1>5. DaysPass /\ OneForgingPerDay
    BY <1>1, <1>3, ChainLength DEF DaysPass, OneForgingPerDay
<1>6. NodesRight
    BY <1>1 DEF Init, NodesRight, NodeType, Fresh
<1>7. StatisticsKnown
    BY DEF Init, StatisticsKnown, Fresh
<1> QED
    BY <1>3, <1>4, <1>5, <1>6, <1>7 DEF IInv

(* Steps that leave the chain and the offer as they are need only care for
   the nodes. *)
LEMMA NodeStep ==
    ASSUME IInv, UNCHANGED <<chain, offered>>, NEW n \in Node, NEW s \in NodeType,
           node' = [node EXCEPT ![n] = s], s.height <= Len(chain),
           s.height > 0 /\ ~s.stray => Knows(s)
    PROVE  IInv'
<1>1. ChainRight' /\ OfferedRight' /\ DaysPass' /\ OneForgingPerDay'
    BY DEF IInv, ChainRight, OfferedRight, DaysPass, OneForgingPerDay
<1>2. node'[n] = s /\ \A k \in Node \ {n} : node'[k] = node[k]
    BY DEF IInv, NodesRight
<1>3. NodesRight'
    BY <1>2 DEF IInv, NodesRight
<1>4. \A t : Knows(t)' <=> Knows(t)
    BY DEF Knows, Candidates, Reported
<1>5. StatisticsKnown'
    BY <1>2, <1>4 DEF IInv, StatisticsKnown
<1> QED
    BY <1>1, <1>3, <1>5 DEF IInv

LEMMA BootstrapInv ==
    ASSUME IInv, NEW n \in Node, Bootstrap(n)
    PROVE  IInv'
<1>1. PICK h \in DOMAIN chain :
        /\ chain[h].type = "state"
        /\ node' = [node EXCEPT ![n] = [Fresh EXCEPT !.height = h]]
        /\ UNCHANGED <<chain, offered>>
    BY DEF Bootstrap
<1> DEFINE s == [Fresh EXCEPT !.height = h]
<1>2. h \in 1..Len(chain) /\ Len(chain) \in Nat
    BY ChainLength DEF IInv
<1>3. s \in NodeType /\ s.height = h /\ s.node_statistics = {} /\ s.tried = FALSE
    <2>1. Fresh \in NodeType /\ Fresh.node_statistics = {} /\ Fresh.tried = FALSE
        BY DEF Fresh, NodeType
    <2> QED
        BY <1>2, <2>1 DEF NodeType
<1>4. Knows(s)
    BY <1>1, <1>3, StateReportsNothing DEF IInv, Knows
<1>5. node' = [node EXCEPT ![n] = s] /\ UNCHANGED <<chain, offered>>
    BY <1>1
<1> HIDE DEF s
<1>6. s.height <= Len(chain)
    BY <1>2, <1>3
<1> QED
    BY <1>1, <1>5, <1>6, <1>3, <1>4, NodeStep, Zenon

LEMMA StopInv ==
    ASSUME IInv, NEW n \in Node, Stop(n)
    PROVE  IInv'
<1>1. Fresh \in NodeType /\ Fresh.height = 0 /\ Len(chain) \in Nat
    BY ChainLength DEF Fresh, NodeType, IInv
<1>2. node' = [node EXCEPT ![n] = Fresh] /\ UNCHANGED <<chain, offered>>
    BY DEF Stop
<1>3. Fresh.height <= Len(chain) /\ (Fresh.height > 0 /\ ~Fresh.stray => Knows(Fresh))
    BY <1>1
<1> QED
    BY <1>1, <1>2, <1>3, NodeStep, Zenon

LEMMA FollowInv ==
    ASSUME IInv, NEW n \in Node, Follow(n)
    PROVE  IInv'
<1> DEFINE s == node[n]
           b == chain[s.height + 1]
<1>1. s \in NodeType /\ Len(chain) \in Nat /\ s.height \in 1..Len(chain) - 1
    BY ChainLength DEF IInv, NodesRight, Follow
<1>2. s.height + 1 \in DOMAIN chain /\ ChainRight
    BY <1>1, ChainLength DEF IInv
<1>3. b.reports \in SUBSET (Role \X Addr)
    BY <1>2, ChainTimes
<1>4. Candidates(s.height) = {b}
    BY <1>1 DEF Candidates
<1>5. ~s.stray => s.node_statistics = Reported(s.height)
                  \/ s.node_statistics = Count(Reported(s.height), b)
    BY <1>1, <1>4 DEF IInv, StatisticsKnown, Knows
<1>6. Reported(s.height + 1) = Count(Reported(s.height), b)
    BY <1>1, <1>2, ReportedNext
<1>7. CASE Accepted(ledger[n].wallets, b)
    <2> DEFINE t == [s EXCEPT
            !.height = @ + 1, !.node_statistics = Count(@, b), !.created = FALSE,
            !.tried = FALSE, !.stray = @ /\ b.type # "forging"]
    <2>1. node' = [node EXCEPT ![n] = t] /\ UNCHANGED <<chain, offered>>
        BY <1>7 DEF Follow
    <2>2. t \in NodeType
        <3>1. Count(s.node_statistics, b) \in SUBSET (Role \X Addr)
            BY <1>1, <1>3 DEF NodeType, Count
        <3>2. (s.stray /\ b.type # "forging") \in BOOLEAN /\ s.height + 1 \in Nat
            BY <1>1
        <3> QED
            BY <1>1, <3>1, <3>2 DEF NodeType
    <2>3. /\ t.height = s.height + 1 /\ t.node_statistics = Count(s.node_statistics, b)
          /\ ~t.tried /\ (t.stray <=> s.stray /\ b.type # "forging")
        BY <1>1 DEF NodeType
    <2>4. ~t.stray => Knows(t)
        <3>1. CASE b.type = "forging"
            BY <3>1, <1>6, <2>3 DEF Knows, Count
        <3>2. CASE ~s.stray
            BY <3>2, <1>5, <1>6, <2>3, CountTwice DEF Knows
        <3> QED
            BY <3>1, <3>2, <2>3
    <2> HIDE DEF t
    <2>5. t.height <= Len(chain)
        BY <2>3, <1>1
    <2> QED
        BY <2>1, <2>2, <2>4, <2>5, NodeStep, Zenon
<1>8. CASE ~Accepted(ledger[n].wallets, b)
    <2> DEFINE t == [s EXCEPT !.status = "refusing"]
    <2>1. node' = [node EXCEPT ![n] = t] /\ UNCHANGED <<chain, offered>>
        BY <1>8 DEF Follow
    <2>2. t \in NodeType
        BY <1>1 DEF NodeType
    <2>3. /\ t.height = s.height /\ t.node_statistics = s.node_statistics
          /\ t.tried = s.tried /\ t.stray = s.stray
        BY <1>1 DEF NodeType
    <2>4. t.height > 0 /\ ~t.stray => Knows(t)
        BY <2>3 DEF IInv, StatisticsKnown, Knows
    <2> HIDE DEF t
    <2>5. t.height <= Len(chain)
        BY <2>3, <1>1
    <2> QED
        BY <2>1, <2>2, <2>4, <2>5, NodeStep, Zenon
<1> QED
    BY <1>7, <1>8

LEMMA TryInv ==
    ASSUME IInv, NEW n \in Node, Try(n)
    PROVE  IInv'
<1> DEFINE s == node[n]
<1>1. PICK b \in offered :
        /\ AtTip(s) /\ ~s.tried /\ UNCHANGED <<chain, offered>>
        /\ node' = [node EXCEPT ![n].tried = TRUE, ![n].node_statistics = Count(@, b)]
    BY DEF Try
<1> DEFINE t == [s EXCEPT !.tried = TRUE, !.node_statistics = Count(@, b)]
<1>2. s \in NodeType /\ s.height = Len(chain) /\ Len(chain) \in Nat \ {0}
    BY <1>1, ChainLength DEF IInv, NodesRight, AtTip
<1>3. Count(s.node_statistics, b) \in SUBSET (Role \X Addr)
    BY <1>2 DEF IInv, OfferedRight, Follows, NodeType, Count
<1>4. node' = [node EXCEPT ![n] = t] /\ UNCHANGED <<chain, offered>>
    BY <1>1
<1>5. t \in NodeType
    BY <1>2, <1>3 DEF NodeType
<1>6. /\ t.height = Len(chain) /\ t.tried = TRUE /\ t.stray = s.stray
      /\ t.node_statistics = Count(s.node_statistics, b)
    BY <1>2 DEF NodeType
<1>7. t.height > 0 /\ ~t.stray => Knows(t)
    <2>1. ~s.stray => s.node_statistics = Reported(s.height)
        BY <1>1, <1>2 DEF IInv, StatisticsKnown, Knows
    <2>2. Candidates(t.height) = offered
        BY <1>2, <1>6 DEF Candidates
    <2> QED
        BY <1>2, <1>6, <2>1, <2>2 DEF Knows
<1> HIDE DEF t
<1>8. t.height <= Len(chain)
    BY <1>2, <1>6
<1> QED
    BY <1>4, <1>5, <1>7, <1>8, NodeStep, Zenon

-----------------------------------------------------------------------------
(* A block that try_make_block makes. *)
Makeable(b) ==
    /\ b.ts \in Nat
    /\ b.reports \in SUBSET (Role \X Addr)
    /\ b.type # "common" => b.reports = {}

LEMMA OfferInv ==
    ASSUME IInv, NEW n \in Node, NEW b, Makeable(b), Offer(n, b)
    PROVE  IInv'
<1> DEFINE s == node[n]
<1>1. /\ s \in NodeType /\ s.height = Len(chain) /\ Len(chain) \in Nat \ {0}
      /\ offered = {} /\ chain' = chain
    BY ChainLength DEF IInv, NodesRight, Offer, AtTip
<1>2. Follows(chain[Len(chain)], b)
    BY <1>1 DEF Offer, Makeable, Follows
<1>3. CASE Accepted(ledger[n].wallets, b)
    <2>1. offered' = {b} /\ node' = [node EXCEPT ![n] = [s EXCEPT
            !.created = TRUE, !.tried = TRUE, !.node_statistics = Count(@, b)]]
        BY <1>3 DEF Offer
    <2>2. PICK t \in NodeType : t = [s EXCEPT
            !.created = TRUE, !.tried = TRUE, !.node_statistics = Count(@, b)]
        <3>1. Count(s.node_statistics, b) \in SUBSET (Role \X Addr)
            BY <1>1 DEF Makeable, NodeType, Count
        <3> QED
            BY <1>1, <3>1 DEF NodeType
    <2>3. /\ t.height = Len(chain) /\ t.tried = TRUE /\ t.stray = s.stray
          /\ t.node_statistics = Count(s.node_statistics, b)
        BY <1>1, <2>2 DEF NodeType
    <2>4. ChainRight' /\ DaysPass' /\ OneForgingPerDay'
        BY <1>1 DEF IInv, ChainRight, DaysPass, OneForgingPerDay
    <2>5. OfferedRight'
        BY <1>1, <1>2, <2>1 DEF OfferedRight
    <2>6. node'[n] = t /\ \A k \in Node \ {n} : node'[k] = node[k]
        BY <2>1, <2>2 DEF IInv, NodesRight
    <2>7. NodesRight'
        BY <1>1, <2>1, <2>2, <2>3, <2>6 DEF IInv, NodesRight
    <2>8. \A h : Reported(h)' = Reported(h)
        BY <1>1 DEF Reported
    <2>9. ~t.stray => Knows(t)'
        <3>1. s.height > 0 /\ ~s.stray => Knows(s)
            BY DEF IInv, StatisticsKnown
        <3>2. ~s.stray => s.node_statistics = Reported(s.height)
            BY <3>1, <1>1 DEF Knows, Candidates
        <3>3. Candidates(t.height)' = {b}
            BY <1>1, <2>1, <2>3 DEF Candidates
        <3>4. ~t.stray => t.node_statistics = Count(Reported(t.height)', b)
            BY <3>2, <2>3, <2>8, <1>1
        <3> QED
            BY <3>3, <3>4, <2>3 DEF Knows
    <2>10. \A r \in NodeType : Knows(r) => Knows(r)'
        <3>1. \A h \in Nat : Candidates(h) \subseteq Candidates(h)'
            BY <1>1 DEF Candidates
        <3> QED
            BY <3>1, <2>8 DEF Knows, NodeType
    <2>11. StatisticsKnown'
        BY <2>6, <2>9, <2>10 DEF IInv, StatisticsKnown, NodesRight
    <2> QED
        BY <2>4, <2>5, <2>7, <2>11 DEF IInv
<1>4. CASE ~Accepted(ledger[n].wallets, b)
    <2> DEFINE t == [s EXCEPT !.status = "exited"]
    <2>1. node' = [node EXCEPT ![n] = t] /\ UNCHANGED <<chain, offered>>
        BY <1>4 DEF Offer
    <2>2. t \in NodeType
        BY <1>1 DEF NodeType
    <2>3. /\ t.height = s.height /\ t.node_statistics = s.node_statistics
          /\ t.tried = s.tried /\ t.stray = s.stray
        BY <1>1 DEF NodeType
    <2>4. t.height > 0 /\ ~t.stray => Knows(t)
        BY <2>3 DEF IInv, StatisticsKnown, Knows
    <2> HIDE DEF t
    <2>5. t.height <= Len(chain)
        BY <2>3, <1>1
    <2> QED
        BY <2>1, <2>2, <2>4, <2>5, NodeStep, Zenon
<1> QED
    BY <1>3, <1>4

LEMMA DecideInv ==
    ASSUME IInv, Decide
    PROVE  IInv'
<1> DEFINE L == Len(chain)
<1>1. PICK b \in offered : chain' = Append(chain, b) /\ offered' = {} /\ node' = node
    BY DEF Decide
<1>2. PICK S : chain \in Seq(S)
    BY DEF IInv, ChainRight
<1>3. /\ L \in Nat \ {0} /\ DOMAIN chain = 1..L
      /\ chain' \in Seq(S \cup {b}) /\ chain' # << >>
      /\ Len(chain') = L + 1 /\ DOMAIN chain' = 1..(L + 1)
      /\ chain'[L + 1] = b /\ \A i \in 1..L : chain'[i] = chain[i]
    BY <1>1, <1>2, Appended, ChainLength DEF IInv
<1>4. Follows(chain[L], b) /\ offered = {b}
    BY <1>1 DEF IInv, OfferedRight
<1> HIDE DEF L
<1>5. ChainRight'
    <2>1. \A i \in 2..(L + 1) : Follows(chain'[i - 1], chain'[i])
        <3>1. ASSUME NEW i \in 2..(L + 1) PROVE Follows(chain'[i - 1], chain'[i])
            <4>1. CASE i = L + 1
                BY <4>1, <1>3, <1>4
            <4>2. CASE i \in 2..L
                <5>1. Follows(chain[i - 1], chain[i])
                    BY <4>2 DEF IInv, ChainRight, L
                <5> QED
                    BY <4>2, <5>1, <1>3
            <4> QED
                BY <4>1, <4>2, <1>3
        <3> QED
            BY <3>1
    <2>2. chain'[1] = chain[1]
        BY <1>3
    <2> QED
        BY <2>1, <2>2, <1>3 DEF IInv, ChainRight
<1>6. ASSUME NEW i \in 1..L, chain[i].type = "forging"
      PROVE  /\ (chain[i].ts + 1) \div DAY <= b.ts \div DAY
             /\ b.type = "forging" => (chain[i].ts + 1) \div DAY < (b.ts + 1) \div DAY
    <2>1. chain[i].ts \in Nat /\ chain[L].ts \in Nat /\ b.ts \in Nat /\ chain[L].ts < b.ts
        BY <1>3, <1>4, ChainTimes DEF IInv, Follows, Later
    <2>2. CASE i = L
        <3>1. b.type # "forging"
            BY <2>2, <1>4, <1>6 DEF Follows, NextType
        <3>2. chain[i].ts + 1 <= b.ts
            BY <2>1, <2>2
        <3> QED
            BY <3>1, <3>2, <2>1, DaysMonotone
    <2>3. CASE i < L
        <3>1. (chain[i].ts + 1) \div DAY <= chain[L].ts \div DAY
            BY <2>3, <1>3, <1>6 DEF IInv, DaysPass
        <3>2. /\ chain[L].ts \div DAY <= b.ts \div DAY
              /\ chain[L].ts \div DAY \in Nat /\ b.ts \div DAY \in Nat
            BY <2>1, DaysMonotone
        <3>3. b.type = "forging" => (b.ts + 1) \div DAY > chain[L].ts \div DAY
            BY <1>4 DEF Follows, NextType
        <3>4. (chain[i].ts + 1) \div DAY \in Nat /\ (b.ts + 1) \div DAY \in Nat
            BY <2>1, DaysMonotone
        <3> QED
            BY <3>1, <3>2, <3>3, <3>4
    <2> QED
        BY <2>2, <2>3, <1>3
<1>7. DaysPass'
    <2>1. ASSUME NEW i \in 1..(L + 1), NEW j \in 1..(L + 1), i < j, chain'[i].type = "forging"
          PROVE  (chain'[i].ts + 1) \div DAY <= chain'[j].ts \div DAY
        <3>1. i \in 1..L /\ chain'[i] = chain[i]
            BY <2>1, <1>3
        <3>2. CASE j = L + 1
            BY <3>1, <3>2, <2>1, <1>3, <1>6
        <3>3. CASE j \in 1..L
            BY <3>1, <3>3, <2>1, <1>3 DEF IInv, DaysPass
        <3> QED
            BY <3>2, <3>3, <1>3
    <2> QED
        BY <2>1, <1>3 DEF DaysPass
<1>8. OneForgingPerDay'
    <2>1. ASSUME NEW i \in 1..(L + 1), NEW j \in 1..(L + 1), i < j,
                 chain'[i].type = "forging", chain'[j].type = "forging"
          PROVE  (chain'[i].ts + 1) \div DAY < (chain'[j].ts + 1) \div DAY
        <3>1. i \in 1..L /\ chain'[i] = chain[i]
            BY <2>1, <1>3
        <3>2. CASE j = L + 1
            BY <3>1, <3>2, <2>1, <1>3, <1>6
        <3>3. CASE j \in 1..L
            BY <3>1, <3>3, <2>1, <1>3 DEF IInv, OneForgingPerDay
        <3> QED
            BY <3>2, <3>3, <1>3
    <2> QED
        BY <2>1, <1>3 DEF OneForgingPerDay
<1>9. OfferedRight'
    BY <1>1 DEF OfferedRight
<1>10. NodesRight'
    BY <1>1, <1>3 DEF IInv, NodesRight, NodeType, L
<1>11. StatisticsKnown'
    <2>1. \A h \in 1..L : Reported(h)' = Reported(h)
        BY <1>1, ReportedKept DEF IInv, L
    <2>2. \A h \in 1..L : Candidates(h)' = Candidates(h)
        <3>1. ASSUME NEW h \in 1..L PROVE Candidates(h)' = Candidates(h)
            <4>1. Candidates(h)' = {chain'[h + 1]}
                BY <1>3 DEF Candidates
            <4>2. CASE h = L
                BY <4>1, <4>2, <1>3, <1>4 DEF Candidates, L
            <4>3. CASE h \in 1..(L - 1)
                <5>1. chain'[h + 1] = chain[h + 1]
                    BY <4>3, <1>3
                <5> QED
                    BY <4>1, <4>3, <5>1, <1>3 DEF Candidates, L
            <4> QED
                BY <4>2, <4>3, <1>3
        <3> QED
            BY <3>1
    <2>3. \A r \in NodeType : r.height \in 1..L /\ Knows(r) => Knows(r)'
        BY <2>1, <2>2 DEF Knows
    <2>4. \A n \in Node : node[n] \in NodeType /\ (node[n].height > 0 => node[n].height \in 1..L)
        BY <1>3 DEF IInv, NodesRight, NodeType, L
    <2> QED
        BY <1>1, <2>3, <2>4 DEF IInv, StatisticsKnown
<1> QED
    BY <1>5, <1>7, <1>8, <1>9, <1>10, <1>11 DEF IInv

LEMMA LoseInv ==
    ASSUME IInv, Lose
    PROVE  IInv'
<1>1. PICK b \in offered : /\ offered' = {} /\ chain' = chain
                           /\ node' = [n \in Node |->
                                IF node[n].height = Len(chain) /\ node[n].tried
                                THEN [node[n] EXCEPT !.tried = FALSE, !.stray = @ \/ Distracts(b)]
                                ELSE node[n]]
    BY DEF Lose
<1>2. offered = {b} /\ Len(chain) \in Nat
    BY <1>1, ChainLength DEF IInv, OfferedRight
<1>3. ChainRight' /\ OfferedRight' /\ DaysPass' /\ OneForgingPerDay'
    BY <1>1 DEF IInv, ChainRight, OfferedRight, DaysPass, OneForgingPerDay
<1>4. \A h : Reported(h)' = Reported(h)
    BY <1>1 DEF Reported
<1>5. ASSUME NEW n \in Node, NEW s \in NodeType, s = node[n], NEW t, t = node'[n]
      PROVE  t \in NodeType /\ t.height = s.height /\ (t.height > 0 /\ ~t.stray => Knows(t)')
    <2>1. s.height <= Len(chain) /\ (s.height > 0 /\ ~s.stray => Knows(s))
        BY <1>5 DEF IInv, NodesRight, StatisticsKnown
    <2>2. CASE s.height = Len(chain) /\ s.tried
        <3>1. t = [s EXCEPT !.tried = FALSE, !.stray = @ \/ Distracts(b)]
            BY <2>2, <1>1, <1>5
        <3>2. (s.stray \/ Distracts(b)) \in BOOLEAN
            OBVIOUS
        <3>3. /\ t \in NodeType /\ t.height = s.height /\ t.tried = FALSE
              /\ t.node_statistics = s.node_statistics /\ (t.stray <=> s.stray \/ Distracts(b))
            BY <3>1, <3>2 DEF NodeType
        <3>4. Candidates(s.height) = {b}
            BY <2>2, <1>2 DEF Candidates
        <3>5. s.height > 0 /\ ~s.stray => s.node_statistics = Count(Reported(s.height), b)
            BY <3>4, <2>1, <2>2 DEF Knows
        <3>6. ~Distracts(b) => Count(Reported(s.height), b) = Reported(s.height)
            BY DEF Distracts, Count
        <3> QED
            BY <3>3, <3>5, <3>6, <1>4 DEF Knows
    <2>3. CASE ~(s.height = Len(chain) /\ s.tried)
        <3>1. t = s
            BY <2>3, <1>1, <1>5
        <3>2. s.tried => Candidates(s.height)' = Candidates(s.height)
            <4>1. s.tried => s.height < Len(chain)
                BY <2>1, <2>3, <1>2 DEF NodeType
            <4>2. chain' = chain
                BY <1>1
            <4> QED
                BY <4>1, <4>2 DEF Candidates
        <3> QED
            BY <3>1, <3>2, <2>1, <1>4 DEF Knows
    <2> QED
        BY <2>2, <2>3
<1>6. \A n \in Node : node[n] \in NodeType /\ node[n].height <= Len(chain)
    BY DEF IInv, NodesRight
<1>7. NodesRight'
    BY <1>1, <1>5, <1>6 DEF NodesRight
<1>8. StatisticsKnown'
    BY <1>5, <1>6 DEF StatisticsKnown
<1> QED
    BY <1>3, <1>7, <1>8 DEF IInv

-----------------------------------------------------------------------------
LEMMA MakeInv ==
    ASSUME IInv, NEW n \in Node, NEW ts \in 1..MAX_TIME,
           \/ MakeCommon(n, ts) \/ MakeStatistics(n, ts)
           \/ MakeForging(n, ts) \/ MakeState(n, ts)
    PROVE  IInv'
<1>1. CASE MakeCommon(n, ts)
    <2>1. PICK txs : Offer(n, [Block("common", ts) EXCEPT !.txs = txs])
        BY <1>1 DEF MakeCommon
    <2> DEFINE b == [Block("common", ts) EXCEPT !.txs = txs]
    <2>2. Makeable(b)
        BY DailyAssumption DEF Makeable, Block
    <2> QED
        BY <2>1, <2>2, OfferInv
<1>2. CASE MakeStatistics(n, ts)
    <2>1. PICK reports \in Reports : Offer(n, [Block("common", ts) EXCEPT !.reports = reports])
        BY <1>2 DEF MakeStatistics
    <2> DEFINE b == [Block("common", ts) EXCEPT !.reports = reports]
    <2>2. Makeable(b)
        BY DailyAssumption DEF Makeable, Block
    <2> QED
        BY <2>1, <2>2, OfferInv
<1>3. CASE MakeForging(n, ts)
    <2>1. PICK rewards : Offer(n, [Block("forging", ts) EXCEPT !.rewards = rewards])
        BY <1>3 DEF MakeForging
    <2> DEFINE b == [Block("forging", ts) EXCEPT !.rewards = rewards]
    <2>2. Makeable(b)
        BY DailyAssumption DEF Makeable, Block
    <2> QED
        BY <2>1, <2>2, OfferInv
<1>4. CASE MakeState(n, ts)
    <2> DEFINE b == StateBlock(ts, ledger[n].wallets)
    <2>1. Offer(n, b)
        BY <1>4 DEF MakeState
    <2>2. Makeable(b)
        BY DailyAssumption DEF Makeable, StateBlock, Block
    <2> QED
        BY <2>1, <2>2, OfferInv
<1> QED
    BY <1>1, <1>2, <1>3, <1>4

LEMMA NextInv ==
    ASSUME IInv, [Next]_vars
    PROVE  IInv'
<1>1. CASE UNCHANGED vars
    <2>1. chain' = chain /\ offered' = offered /\ node' = node
        BY <1>1 DEF vars
    <2>2. \A t : Knows(t)' <=> Knows(t)
        BY <2>1 DEF Knows, Candidates, Reported
    <2>3. StatisticsKnown'
        BY <2>1, <2>2 DEF IInv, StatisticsKnown
    <2> QED
        BY <2>1, <2>3 DEF IInv, ChainRight, OfferedRight, DaysPass, OneForgingPerDay, NodesRight
<1>2. CASE Next
    BY <1>2, BootstrapInv, FollowInv, TryInv, StopInv, MakeInv, DecideInv, LoseInv DEF Next
<1> QED
    BY <1>1, <1>2

(* The inductive invariant holds in every state: the blocks keep the order of
   the daily cycle, and each node knows what the chain reports to it. *)
THEOREM Invariance == Spec => []IInv
<1>1. Init => IInv
    BY InitInv
<1>2. IInv /\ [Next]_vars => IInv'
    BY NextInv
<1> QED
    BY <1>1, <1>2, PTL DEF Spec

(* The pool is forged at most once a day. *)
THEOREM DailyForging == Spec => []OneForgingPerDay
<1>1. IInv => OneForgingPerDay
    BY DEF IInv
<1> QED
    BY <1>1, Invariance, PTL

(* Nodes that no lost block disturbed know the nodes that the chain reports,
   whenever they started. *)
THEOREM StatisticsAgreement == Spec => []StatisticsAgree
<1>1. IInv => StatisticsAgree
    BY DEF IInv, StatisticsKnown, Knows, StatisticsAgree
<1> QED
    BY <1>1, Invariance, PTL

-----------------------------------------------------------------------------
(* A wallet whose sums are those of its lists, within its balance; one that
   has the flags of a node has coins to count for. *)
Good(w) ==
    /\ w \in Wallet
    /\ ~w.founder => w.used_limit = 0 /\ w.limit = 0
    /\ w.delegated_to_sum = Total(w.delegate_to)
    /\ w.delegated_from_sum = Total(w.delegated_from)
    /\ w.delegated_to_sum <= w.balance
    /\ w.pretend_common /\ w.soft # {} => Total(w.delegated_from_daly_snapshot) > 0

(* All wallets are good. *)
Sound(W) == W \in [Addr -> Wallet] /\ \A a \in Addr : Good(W[a])

(* A good wallet in place of another. *)
LEMMA PutSound ==
    ASSUME NEW W, Sound(W), NEW a \in Addr, NEW w, Good(w)
    PROVE  Sound([W EXCEPT ![a] = w])
<1>1. w \in Wallet
  BY DEF Good
<1>2. QED
  BY <1>1 DEF Sound

(* A payment within the free balance leaves a good wallet. *)
LEMMA PayGood ==
    ASSUME NEW w, Good(w), NEW total \in Nat, total <= w.balance - w.delegated_to_sum,
           NEW v, v = Pay(w, total)
    PROVE  Good(v)
<1>1. /\ w.balance \in Nat /\ w.delegated_to_sum \in Nat /\ w.transaction_id \in Nat
      /\ w.used_limit \in Nat
  BY DEF Good, Wallet
<1>2. w.balance - total \in Nat /\ w.transaction_id + 1 \in Nat /\ w.used_limit + total \in Nat
      /\ w.delegated_to_sum <= w.balance - total
  BY <1>1
<1>3. v \in Wallet
  BY <1>2 DEF Good, Wallet, Pay
<1>4. /\ v.founder = w.founder /\ v.limit = w.limit
      /\ ~w.founder => v.used_limit = w.used_limit
      /\ v.delegate_to = w.delegate_to /\ v.delegated_to_sum = w.delegated_to_sum
      /\ v.delegated_from = w.delegated_from /\ v.delegated_from_sum = w.delegated_from_sum
      /\ v.balance = w.balance - total
      /\ v.pretend_common = w.pretend_common /\ v.soft = w.soft
      /\ v.delegated_from_daly_snapshot = w.delegated_from_daly_snapshot
  BY DEF Good, Wallet, Pay
<1>5. QED
  BY <1>2, <1>3, <1>4 DEF Good

(* So does what a wallet receives, *)
LEMMA EarnGood ==
    ASSUME NEW w, Good(w), NEW value \in Nat,
           NEW v, v = [w EXCEPT !.balance = @ + value]
    PROVE  Good(v)
<1>1. w.balance \in Nat /\ w.delegated_to_sum \in Nat
  BY DEF Good, Wallet
<1>2. w.balance + value \in Nat /\ w.delegated_to_sum <= w.balance + value
  BY <1>1 DEF Good
<1>3. v \in Wallet
  BY <1>2 DEF Good, Wallet
<1>4. /\ v.founder = w.founder /\ v.limit = w.limit /\ v.used_limit = w.used_limit
      /\ v.delegate_to = w.delegate_to /\ v.delegated_to_sum = w.delegated_to_sum
      /\ v.delegated_from = w.delegated_from /\ v.delegated_from_sum = w.delegated_from_sum
      /\ v.balance = w.balance + value
      /\ v.pretend_common = w.pretend_common /\ v.soft = w.soft
      /\ v.delegated_from_daly_snapshot = w.delegated_from_daly_snapshot
  BY DEF Good, Wallet
<1>5. QED
  BY <1>2, <1>3, <1>4 DEF Good

(* a delegation within the free balance, *)
LEMMA LendGood ==
    ASSUME NEW w, Good(w), NEW to \in Addr, NEW amount \in Nat,
           amount <= w.balance - w.delegated_to_sum,
           NEW v, v = Lend(w, to, amount)
    PROVE  Good(v)
<1>1. /\ w.balance \in Nat /\ w.delegated_to_sum \in Nat
      /\ w.delegate_to \in Seq(Delegation)
  BY DEF Good, Wallet
<1>2. w.delegated_to_sum + amount \in Nat /\ w.delegated_to_sum + amount <= w.balance
  BY <1>1
<1> DEFINE d == <<to, amount>>
<1>3. d \in Delegation /\ d[2] = amount
  BY DEF Delegation
<1> HIDE DEF d
<1>4. /\ Append(w.delegate_to, d) \in Seq(Delegation)
      /\ Total(Append(w.delegate_to, d)) = Total(w.delegate_to) + amount
  BY <1>1, <1>3, TotalAppend
<1>5. v = [w EXCEPT !.delegate_to = Append(@, d), !.delegated_to_sum = @ + amount]
  BY DEF Lend, d
<1>6. v \in Wallet
  BY <1>2, <1>4, <1>5 DEF Good, Wallet
<1>7. /\ v.founder = w.founder /\ v.limit = w.limit /\ v.used_limit = w.used_limit
      /\ v.delegate_to = Append(w.delegate_to, d)
      /\ v.delegated_to_sum = w.delegated_to_sum + amount
      /\ v.delegated_from = w.delegated_from /\ v.delegated_from_sum = w.delegated_from_sum
      /\ v.balance = w.balance
      /\ v.pretend_common = w.pretend_common /\ v.soft = w.soft
      /\ v.delegated_from_daly_snapshot = w.delegated_from_daly_snapshot
  BY <1>5 DEF Good, Wallet
<1>8. QED
  BY <1>2, <1>4, <1>6, <1>7 DEF Good

(* the other side of it, *)
LEMMA BorrowGood ==
    ASSUME NEW w, Good(w), NEW from \in Addr, NEW amount \in Nat,
           NEW v, v = Borrow(w, from, amount)
    PROVE  Good(v)
<1>1. w.delegated_from_sum \in Nat /\ w.delegated_from \in Seq(Delegation)
  BY DEF Good, Wallet
<1>2. w.delegated_from_sum + amount \in Nat
  BY <1>1
<1> DEFINE d == <<from, amount>>
<1>3. d \in Delegation /\ d[2] = amount
  BY DEF Delegation
<1> HIDE DEF d
<1>4. /\ Append(w.delegated_from, d) \in Seq(Delegation)
      /\ Total(Append(w.delegated_from, d)) = Total(w.delegated_from) + amount
  BY <1>1, <1>3, TotalAppend
<1>5. v = [w EXCEPT !.delegated_from = Append(@, d), !.delegated_from_sum = @ + amount]
  BY DEF Borrow, d
<1>6. v \in Wallet
  BY <1>2, <1>4, <1>5 DEF Good, Wallet
<1>7. /\ v.founder = w.founder /\ v.limit = w.limit /\ v.used_limit = w.used_limit
      /\ v.delegate_to = w.delegate_to /\ v.delegated_to_sum = w.delegated_to_sum
      /\ v.delegated_from = Append(w.delegated_from, d)
      /\ v.delegated_from_sum = w.delegated_from_sum + amount
      /\ v.balance = w.balance
      /\ v.pretend_common = w.pretend_common /\ v.soft = w.soft
      /\ v.delegated_from_daly_snapshot = w.delegated_from_daly_snapshot
  BY <1>5 DEF Good, Wallet
<1>8. QED
  BY <1>2, <1>4, <1>6, <1>7 DEF Good

(* the last delegation to an address taken back, *)
LEMMA TakeBackGood ==
    ASSUME NEW w, Good(w), NEW to, Naming(w.delegate_to, to) # {},
           NEW v, v = TakeBack(w, to)
    PROVE  Good(v)
<1> DEFINE i == LastNaming(w.delegate_to, to)
<1>1. /\ w.balance \in Nat /\ w.delegated_to_sum \in Nat
      /\ w.delegate_to \in Seq(Delegation)
  BY DEF Good, Wallet
<1>2. i \in 1 .. Len(w.delegate_to)
  BY <1>1, LastNamingIn
<1>3. v = [w EXCEPT !.delegated_to_sum = @ - w.delegate_to[i][2],
                    !.delegate_to = RemoveAt(@, i)]
  BY DEF TakeBack
<1> HIDE DEF i
<1>4. /\ RemoveAt(w.delegate_to, i) \in Seq(Delegation)
      /\ w.delegate_to[i][2] \in Nat
      /\ Total(RemoveAt(w.delegate_to, i)) = Total(w.delegate_to) - w.delegate_to[i][2]
  BY <1>1, <1>2, TotalRemove DEF Delegation
<1>5. Total(RemoveAt(w.delegate_to, i)) \in Nat
  BY <1>4, TotalNat
<1>6. /\ w.delegated_to_sum - w.delegate_to[i][2] \in Nat
      /\ w.delegated_to_sum - w.delegate_to[i][2] <= w.balance
  BY <1>1, <1>4, <1>5 DEF Good
<1>7. v \in Wallet
  BY <1>3, <1>4, <1>6 DEF Good, Wallet
<1>8. /\ v.founder = w.founder /\ v.limit = w.limit /\ v.used_limit = w.used_limit
      /\ v.delegate_to = RemoveAt(w.delegate_to, i)
      /\ v.delegated_to_sum = w.delegated_to_sum - w.delegate_to[i][2]
      /\ v.delegated_from = w.delegated_from /\ v.delegated_from_sum = w.delegated_from_sum
      /\ v.balance = w.balance
      /\ v.pretend_common = w.pretend_common /\ v.soft = w.soft
      /\ v.delegated_from_daly_snapshot = w.delegated_from_daly_snapshot
  BY <1>3 DEF Good, Wallet
<1>9. QED
  BY <1>4, <1>6, <1>7, <1>8 DEF Good

(* and the other side of that. *)
LEMMA GiveBackGood ==
    ASSUME NEW w, Good(w), NEW from, Naming(w.delegated_from, from) # {},
           NEW v, v = GiveBack(w, from)
    PROVE  Good(v)
<1> DEFINE i == LastNaming(w.delegated_from, from)
<1>1. w.delegated_from_sum \in Nat /\ w.delegated_from \in Seq(Delegation)
  BY DEF Good, Wallet
<1>2. i \in 1 .. Len(w.delegated_from)
  BY <1>1, LastNamingIn
<1>3. v = [w EXCEPT !.delegated_from_sum = @ - w.delegated_from[i][2],
                    !.delegated_from = RemoveAt(@, i)]
  BY DEF GiveBack
<1> HIDE DEF i
<1>4. /\ RemoveAt(w.delegated_from, i) \in Seq(Delegation)
      /\ w.delegated_from[i][2] \in Nat
      /\ Total(RemoveAt(w.delegated_from, i)) = Total(w.delegated_from) - w.delegated_from[i][2]
  BY <1>1, <1>2, TotalRemove DEF Delegation
<1>5. Total(RemoveAt(w.delegated_from, i)) \in Nat
  BY <1>4, TotalNat
<1>6. w.delegated_from_sum - w.delegated_from[i][2] \in Nat
  BY <1>1, <1>4, <1>5 DEF Good
<1>7. v \in Wallet
  BY <1>3, <1>4, <1>6 DEF Good, Wallet
<1>8. /\ v.founder = w.founder /\ v.limit = w.limit /\ v.used_limit = w.used_limit
      /\ v.delegate_to = w.delegate_to /\ v.delegated_to_sum = w.delegated_to_sum
      /\ v.delegated_from = RemoveAt(w.delegated_from, i)
      /\ v.delegated_from_sum = w.delegated_from_sum - w.delegated_from[i][2]
      /\ v.balance = w.balance
      /\ v.pretend_common = w.pretend_common /\ v.soft = w.soft
      /\ v.delegated_from_daly_snapshot = w.delegated_from_daly_snapshot
  BY <1>3 DEF Good, Wallet
<1>9. QED
  BY <1>4, <1>6, <1>7, <1>8 DEF Good

(* Asking for roles. *)
LEMMA RegisterGood ==
    ASSUME NEW w, Good(w), NEW roles \in SUBSET Role,
           NEW v, v = [w EXCEPT !.state = roles]
    PROVE  Good(v)
<1>1. v \in Wallet
  BY DEF Good, Wallet
<1>2. /\ v.founder = w.founder /\ v.limit = w.limit /\ v.used_limit = w.used_limit
      /\ v.delegate_to = w.delegate_to /\ v.delegated_to_sum = w.delegated_to_sum
      /\ v.delegated_from = w.delegated_from /\ v.delegated_from_sum = w.delegated_from_sum
      /\ v.balance = w.balance
      /\ v.pretend_common = w.pretend_common /\ v.soft = w.soft
      /\ v.delegated_from_daly_snapshot = w.delegated_from_daly_snapshot
  BY DEF Good, Wallet
<1>3. QED
  BY <1>1, <1>2 DEF Good

-----------------------------------------------------------------------------
(* Wallets of all addresses. *)
LEMMA AddSound ==
    ASSUME NEW W, Sound(W), NEW a \in Addr, NEW value \in Nat
    PROVE  Sound(Add(W, a, value))
<1> DEFINE v == [W[a] EXCEPT !.balance = @ + value]
<1>1. Good(v)
  BY EarnGood DEF Sound
<1>2. Add(W, a, value) = [W EXCEPT ![a] = v]
  BY DEF Add, Sound
<1> HIDE DEF v
<1>3. Sound([W EXCEPT ![a] = v])
  BY <1>1, PutSound
<1>4. QED
  BY <1>2, <1>3

(* A transaction that sub accepts keeps the wallets sound. *)
LEMMA SubSound ==
    ASSUME NEW W, Sound(W), NEW tx \in Tx, NEW fee \in Nat,
           SubResult(W[tx.from], tx, fee) = 0
    PROVE  Sound(Sub(W, tx, fee))
<1>1. tx.from \in Addr /\ tx.to \in Addr /\ tx.value \in Nat
  BY TxAssumption
<1> DEFINE w == W[tx.from]
           v == Pay(w, tx.value + fee)
           U == [W EXCEPT ![tx.from] = v]
<1>2. Good(w) /\ w.balance \in Nat /\ w.delegated_to_sum \in Nat
  BY <1>1 DEF Sound, Good, Wallet
<1>3. tx.value + fee \in Nat /\ tx.value + fee <= w.balance - w.delegated_to_sum
  BY <1>1, <1>2 DEF SubResult, GetBalance, TX_REJECT_INSUFFICIENT_FUNDS_EXT
<1>4. Good(v)
  <2> HIDE DEF w
  <2>1. QED
    BY <1>2, <1>3, PayGood
<1> HIDE DEF v
<1>5. Sound(U)
  BY <1>1, <1>4, PutSound
<1>6. Sub(W, tx, fee) = Add(U, tx.to, tx.value)
  BY <1>1 DEF Sub, v, Sound
<1> HIDE DEF U
<1>7. QED
  BY <1>1, <1>5, <1>6, AddSound

(* Delegate keeps them sound, the sender and the receiver being one or two. *)
LEMMA DelegateSound ==
    ASSUME NEW W, Sound(W), NEW tx \in Tx, CanDelegate(W, tx)
    PROVE  Sound(Delegate(W, tx))
<1>1. tx.from \in Addr /\ tx.to \in Addr /\ tx.amount \in Nat
  BY TxAssumption
<1> DEFINE w == W[tx.from]
           v == Lend(w, tx.to, tx.amount)
           U == [W EXCEPT ![tx.from] = v]
           x == U[tx.to]
           y == Borrow(x, tx.from, tx.amount)
<1>2. Good(w) /\ w.balance \in Nat /\ w.delegated_to_sum \in Nat
  BY <1>1 DEF Sound, Good, Wallet
<1>3. tx.amount <= w.balance - w.delegated_to_sum
  BY <1>1, <1>2 DEF CanDelegate, GetBalance
<1>4. Good(v)
  <2> HIDE DEF w
  <2>1. QED
    BY <1>1, <1>2, <1>3, LendGood
<1> HIDE DEF v
<1>5. Sound(U)
  BY <1>1, <1>4, PutSound
<1>6. Delegate(W, tx) = [U EXCEPT ![tx.to] = y]
  BY <1>1 DEF Delegate, v, Sound
<1> HIDE DEF U
<1>7. Good(y)
  BY <1>1, <1>5, BorrowGood DEF Sound
<1> HIDE DEF y
<1>8. Sound([U EXCEPT ![tx.to] = y])
  BY <1>1, <1>5, <1>7, PutSound
<1>9. QED
  BY <1>6, <1>8

(* Undelegate does too. *)
LEMMA UndelegateSound ==
    ASSUME NEW W, Sound(W), NEW tx \in Tx, CanUndelegate(W, tx)
    PROVE  Sound(Undelegate(W, tx))
<1>1. tx.from \in Addr /\ tx.to \in Addr
  BY TxAssumption
<1> DEFINE w == W[tx.from]
           v == TakeBack(w, tx.to)
           U == [W EXCEPT ![tx.from] = v]
           x == U[tx.to]
           y == GiveBack(x, tx.from)
<1>2. Good(w) /\ W \in [Addr -> Wallet]
  BY <1>1 DEF Sound
<1>3. Good(v)
  BY <1>2, TakeBackGood DEF CanUndelegate
<1>4. v.delegated_from = w.delegated_from
  BY <1>2 DEF TakeBack, Good, Wallet
<1>5. Naming(x.delegated_from, tx.from) # {}
  <2> HIDE DEF v
  <2>1. QED
    BY <1>1, <1>2, <1>4 DEF CanUndelegate
<1> HIDE DEF v
<1>6. Sound(U)
  BY <1>1, <1>3, PutSound
<1>7. Undelegate(W, tx) = [U EXCEPT ![tx.to] = y]
  BY <1>1 DEF Undelegate, v, Sound
<1> HIDE DEF U
<1>8. Good(y)
  BY <1>1, <1>5, <1>6, GiveBackGood DEF Sound
<1> HIDE DEF y
<1>9. Sound([U EXCEPT ![tx.to] = y])
  BY <1>1, <1>6, <1>8, PutSound
<1>10. QED
  BY <1>7, <1>9

(* So does every method that succeeds. *)
LEMMA ApplyMethodSound ==
    ASSUME NEW W, Sound(W), NEW tx \in Tx, CanApplyMethod(W, tx)
    PROVE  Sound(ApplyMethod(W, tx))
<1>1. tx.from \in Addr /\ tx.roles \in SUBSET Role /\ tx.method \in Method
  BY TxAssumption
<1>2. CASE tx.method = "delegate"
  BY <1>2, DelegateSound DEF ApplyMethod, CanApplyMethod
<1>3. CASE tx.method = "undelegate"
  BY <1>3, UndelegateSound DEF ApplyMethod, CanApplyMethod
<1>4. CASE tx.method = "register"
  <2> DEFINE v == [W[tx.from] EXCEPT !.state = tx.roles]
  <2>1. Good(v)
    BY <1>1, RegisterGood DEF Sound
  <2>2. ApplyMethod(W, tx) = [W EXCEPT ![tx.from] = v]
    BY <1>1, <1>4 DEF ApplyMethod, Sound
  <2> HIDE DEF v
  <2>3. Sound([W EXCEPT ![tx.from] = v])
    BY <1>1, <2>1, PutSound
  <2>4. QED
    BY <2>2, <2>3
<1>5. CASE tx.method = "none"
  BY <1>5 DEF ApplyMethod
<1>6. QED
  BY <1>1, <1>2, <1>3, <1>4, <1>5 DEF Method

(* A transaction that a common block may carry. *)
LEMMA ApplyCommonSound ==
    ASSUME NEW W, Sound(W), NEW entry, entry.tx \in Tx, CommonAccepted(W, entry)
    PROVE  Sound(ApplyCommon(W, entry))
<1> DEFINE tx == entry.tx
           fee == RealFee(tx)
           U == Sub(W, tx, fee)
           V == IF entry.state = "accept" THEN ApplyMethod(U, tx) ELSE U
<1>1. fee \in Nat
  BY TxAssumption, WalletsAssumption DEF RealFee, Excess
<1>2. SubResult(W[tx.from], tx, fee) = 0 /\ (entry.state = "accept" => CanApplyMethod(U, tx))
  BY DEF CommonAccepted
<1> HIDE DEF fee
<1>3. Sound(U)
  BY <1>1, <1>2, SubSound
<1> HIDE DEF U
<1>4. Sound(V)
  BY <1>2, <1>3, ApplyMethodSound
<1>5. ApplyCommon(W, entry) = Add(V, STATE_FEE_WALLET, fee)
  BY DEF ApplyCommon, U, fee
<1> HIDE DEF V
<1>6. QED
  BY <1>1, <1>4, <1>5, AddSound, WalletsAssumption

-----------------------------------------------------------------------------
(* Rewards that a forging block can pay. *)
Payable(rewards) == IsFiniteSet(rewards) /\ \A r \in rewards : r.to \in Addr /\ r.value \in Nat

(* The smaller of two numbers. *)
LEMMA MinOfTwo ==
    ASSUME NEW a \in Int, NEW b \in Int
    PROVE  Min({a, b}) = IF a <= b THEN a ELSE b
<1> DEFINE m == IF a <= b THEN a ELSE b
<1>1. m \in {a, b} /\ \A y \in {a, b} : m <= y
  OBVIOUS
<1>2. \A x \in {a, b} : (\A y \in {a, b} : x <= y) => x = m
  OBVIOUS
<1>3. QED
  BY <1>1, <1>2 DEF Min

(* The larger of two numbers. *)
LEMMA MaxOfTwo ==
    ASSUME NEW a \in Int, NEW b \in Int
    PROVE  Max({a, b}) = IF a >= b THEN a ELSE b
<1> DEFINE m == IF a >= b THEN a ELSE b
<1>1. m \in {a, b} /\ \A y \in {a, b} : m >= y
  OBVIOUS
<1>2. \A x \in {a, b} : (\A y \in {a, b} : x >= y) => x = m
  OBVIOUS
<1>3. QED
  BY <1>1, <1>2 DEF Max

(* A share is a natural number. *)
LEMMA Quotient ==
    ASSUME NEW a \in Nat, NEW b \in Nat \ {0}
    PROVE  a \div b \in Nat
OBVIOUS

(* A set described by the members of a finite set is finite. *)
LEMMA ImageFinite ==
    ASSUME NEW S, IsFiniteSet(S), NEW f, NEW T, \A t \in T : \E x \in S : t = f[x]
    PROVE  IsFiniteSet(T)
<1> DEFINE U == {x \in S : f[x] \in T}
           g == [x \in U |-> f[x]]
<1>1. IsFiniteSet(U)
  BY FS_Subset
<1>2. g \in Surjection(U, T)
  BY DEF Surjection
<1>3. QED
  BY <1>1, <1>2, FS_Surjection

(* Finitely many finite sets of pairs are finitely many pairs. *)
LEMMA PairsFinite ==
    ASSUME NEW A, IsFiniteSet(A), NEW D, \A a \in A : IsFiniteSet(D[a])
    PROVE  IsFiniteSet(UNION {{a} \X D[a] : a \in A})
<1> DEFINE Pairs(s) == UNION {{a} \X D[a] : a \in s}
           P == {s \in SUBSET A : IsFiniteSet(Pairs(s))}
<1>1. {} \in P
  <2>1. Pairs({}) = {}
    OBVIOUS
  <2>2. QED
    BY <2>1, FS_EmptySet
<1>2. ASSUME NEW s \in SUBSET A, NEW x \in A, s \in P, x \notin s
      PROVE  s \cup {x} \in P
  <2> DEFINE f == [d \in D[x] |-> <<x, d>>]
  <2>1. IsFiniteSet({x} \X D[x])
    <3>1. \A t \in {x} \X D[x] : \E d \in D[x] : t = f[d]
      OBVIOUS
    <3> HIDE DEF f
    <3>2. QED
      BY <3>1, ImageFinite
  <2>2. Pairs(s \cup {x}) = Pairs(s) \cup ({x} \X D[x])
    OBVIOUS
  <2> HIDE DEF Pairs
  <2>3. IsFiniteSet(Pairs(s) \cup ({x} \X D[x]))
    BY <1>2, <2>1, FS_Union
  <2>4. QED
    BY <2>2, <2>3
<1>3. A \in P
  <2> HIDE DEF P
  <2>1. QED
    BY <1>1, <1>2, FiniteInduction
<1>4. QED
  BY <1>3

(* Nodes that are paid count for something. *)
LEMMA ChosenCount ==
    ASSUME NEW W, Sound(W), NEW statistics \in SUBSET (Role \X Addr),
           NEW choice \in RoleChoices(W, statistics)
    PROVE  /\ DOMAIN choice \in SUBSET Addr /\ IsFiniteSet(DOMAIN choice)
           /\ choice \in [DOMAIN choice -> Role]
           /\ \A a \in DOMAIN choice :
                /\ Units(W, choice, a) \in Nat \ {0}
                /\ NODE_HARD_CAP[choice[a]] \in Nat \ {0}
<1> DEFINE fit == {p \in statistics : p[1] \in ForgingRoles(W[p[2]])}
<1>1. PICK A \in SUBSET {p[2] : p \in fit} : choice \in [A -> Role]
  BY DEF RoleChoices
<1>2. A = DOMAIN choice /\ A \in SUBSET Addr
  BY <1>1
<1>3. IsFiniteSet(A)
  BY <1>2, FS_Subset, ForgingAssumption
<1>4. \A a \in A : choice[a] \in ForgingRoles(W[a])
  BY <1>1 DEF RoleChoices
<1>5. ASSUME NEW a \in A
      PROVE  Units(W, choice, a) \in Nat \ {0} /\ NODE_HARD_CAP[choice[a]] \in Nat \ {0}
  <2> DEFINE cap == NODE_HARD_CAP[choice[a]]
             total == Total(W[a].delegated_from_daly_snapshot)
  <2>1. Good(W[a])
    BY <1>2 DEF Sound
  <2>2. W[a].pretend_common /\ W[a].soft # {}
    BY <1>4 DEF ForgingRoles
  <2>3. total \in Nat /\ total > 0
    BY <2>1, <2>2, TotalNat DEF Good, Wallet
  <2>4. cap \in Nat \ {0}
    BY <1>1, ForgingAssumption
  <2> HIDE DEF total
  <2>5. Min({cap, total}) \in Nat \ {0}
    BY <2>3, <2>4, MinOfTwo
  <2>6. QED
    BY <2>4, <2>5 DEF Units, total
<1>6. QED
  BY <1>1, <1>2, <1>3, <1>5

(* A sum of positive numbers over a set that has one is positive. *)
LEMMA SumPositive ==
    ASSUME NEW S, IsFiniteSet(S), NEW f, \A x \in S : f[x] \in Nat, NEW x \in S, f[x] # 0
    PROVE  SumFunctionOnSet(f, S) \in Nat \ {0}
<1>1. IsFiniteSet(S \ {x}) /\ \A y \in S : f[y] \in Int
  BY FS_RemoveElement
<1>2. SumFunctionOnSet(f, S) = f[x] + SumFunctionOnSet(f, S \ {x})
  BY <1>1, SumRemove
<1>3. SumFunctionOnSet(f, S \ {x}) \in Nat
  BY <1>1, SumNat
<1>4. QED
  BY <1>2, <1>3

(* The rewards of the forging nodes can be paid: finitely many, to addresses,
   natural numbers of coins. *)
LEMMA NodeRewardsPayable ==
    ASSUME NEW W, Sound(W), NEW statistics \in SUBSET (Role \X Addr),
           NEW choice \in RoleChoices(W, statistics), NEW pool \in Nat
    PROVE  Payable(NodeRewards(W, pool, choice))
<1> DEFINE C == DOMAIN choice
           u == [b \in C |-> Units(W, choice, b)]
           peers(a) == {b \in C : choice[b] = choice[a] /\ Region[b] = Region[a]}
           units(A) == SumFunction([b \in A |-> Units(W, choice, b)])
           share(coins, a, A) == (coins * Units(W, choice, a)) \div units(A)
           value(a) == share((pool * 10) \div 100, a, C) + share((pool * 2) \div 100, a, peers(a))
           T == {Reward(a, value(a), "N") : a \in C}
<1>1. /\ C \in SUBSET Addr /\ IsFiniteSet(C)
      /\ \A a \in C : Units(W, choice, a) \in Nat \ {0}
  BY ChosenCount
<1>2. ASSUME NEW A \in SUBSET C, NEW a \in A
      PROVE  units(A) \in Nat \ {0}
  <2> DEFINE f == [b \in A |-> Units(W, choice, b)]
  <2>1. IsFiniteSet(A)
    BY <1>1, FS_Subset
  <2>2. \A b \in A : f[b] \in Nat \ {0}
    BY <1>1
  <2>3. units(A) = SumFunctionOnSet(f, A)
    BY DEF SumFunction
  <2> HIDE DEF f, units
  <2>4. SumFunctionOnSet(f, A) \in Nat \ {0}
    BY <2>1, <2>2, SumPositive
  <2>5. QED
    BY <2>3, <2>4
<1> HIDE DEF units
<1>3. ASSUME NEW A \in SUBSET C, NEW a \in A, NEW coins \in Nat
      PROVE  share(coins, a, A) \in Nat
  <2> DEFINE x == coins * Units(W, choice, a)
             y == units(A)
  <2>1. x \in Nat
    <3> DEFINE z == Units(W, choice, a)
    <3>1. z \in Nat
      BY <1>1
    <3> HIDE DEF z
    <3>2. coins * z \in Nat
      BY <3>1
    <3>3. QED
      BY <3>2 DEF z
  <2>2. y \in Nat \ {0}
    BY <1>2
  <2> HIDE DEF x, y
  <2>3. x \div y \in Nat
    BY <2>1, <2>2, Quotient
  <2>4. QED
    BY <2>3 DEF x, y
<1> HIDE DEF share
<1>4. \A a \in C : value(a) \in Nat
  <2> SUFFICES ASSUME NEW a \in C PROVE value(a) \in Nat
    OBVIOUS
  <2>1. (pool * 10) \div 100 \in Nat /\ (pool * 2) \div 100 \in Nat
    OBVIOUS
  <2>2. C \in SUBSET C /\ peers(a) \in SUBSET C /\ a \in peers(a)
    OBVIOUS
  <2>3. share((pool * 10) \div 100, a, C) \in Nat
    BY <1>3, <2>1, <2>2
  <2>4. share((pool * 2) \div 100, a, peers(a)) \in Nat
    <3> HIDE DEF peers
    <3>1. QED
      BY <1>3, <2>1, <2>2
  <2>5. QED
    BY <2>3, <2>4
<1>5. NodeRewards(W, pool, choice) = T
  BY DEF NodeRewards, share, units
<1> HIDE DEF value
<1>6. IsFiniteSet(T)
  <2> DEFINE f == [a \in C |-> Reward(a, value(a), "N")]
  <2>1. \A t \in T : \E a \in C : t = f[a]
    OBVIOUS
  <2> HIDE DEF f, T
  <2>2. QED
    BY <1>1, <2>1, ImageFinite
<1>7. \A r \in T : r.to \in Addr /\ r.value \in Nat
  BY <1>1, <1>4 DEF Reward
<1> HIDE DEF T
<1>8. QED
  BY <1>5, <1>6, <1>7 DEF Payable

(* What a delegation counts for is what the cap leaves of it. *)
LEMMA CountedNat ==
    ASSUME NEW list \in Seq(Delegation), NEW cap \in Nat, NEW i \in DOMAIN list
    PROVE  Counted(list, cap)[i] \in Nat
<1> DEFINE before == Total(SubSeq(list, 1, i - 1))
<1>1. i \in 1 .. Len(list) /\ Len(list) \in Nat
  BY LenProperties
<1>2. SubSeq(list, 1, i - 1) \in Seq(Delegation)
  BY <1>1, Around
<1>3. before \in Nat
  BY <1>2, TotalNat
<1>4. list[i][2] \in Nat
  BY <1>1, ElementOfSeq DEF Delegation
<1>5. Counted(list, cap)[i] = Min({list[i][2], Max({0, cap - before})})
  BY DEF Counted
<1> HIDE DEF before
<1> DEFINE x == list[i][2]
           y == Max({0, cap - before})
<1>6. x \in Nat /\ y \in Nat
  BY <1>3, <1>4, MaxOfTwo
<1> HIDE DEF x, y
<1>7. Min({x, y}) \in Nat
  BY <1>6, MinOfTwo
<1>8. QED
  BY <1>5, <1>7 DEF x, y

(* So can those for the coins delegated, to the nodes and to who delegated, *)
LEMMA CoinRewardsPayable ==
    ASSUME NEW W, Sound(W), NEW statistics \in SUBSET (Role \X Addr),
           NEW choice \in RoleChoices(W, statistics), NEW pool \in Nat
    PROVE  Payable(CoinRewards(W, pool, choice))
<1> DEFINE C == DOMAIN choice
           list(a) == W[a].delegated_from_daly_snapshot
           D == [a \in C |-> DOMAIN list(a)]
           places == UNION {{a} \X DOMAIN list(a) : a \in C}
           count(p) == Counted(list(p[1]), NODE_HARD_CAP[choice[p[1]]])[p[2]]
           units(P) == SumFunction([p \in P |-> count(p)])
           from(d) == {p \in places : list(p[1])[p[2]][1] = d}
           half == (pool * 50) \div 100
           paid == IF units(places) = 0 THEN {} ELSE places
           to(p) == list(p[1])[p[2]][1]
           value(d) == (half * units(from(d))) \div units(places)
           T == {Reward(d, value(d), "C") : d \in {to(p) : p \in paid}}
<1>1. /\ C \in SUBSET Addr /\ IsFiniteSet(C)
      /\ \A a \in C : NODE_HARD_CAP[choice[a]] \in Nat
  BY ChosenCount
<1>2. \A a \in C : list(a) \in Seq(Delegation)
  BY <1>1 DEF Sound, Good, Wallet
<1>3. IsFiniteSet(places)
  <2>1. \A a \in C : IsFiniteSet(D[a])
    <3> SUFFICES ASSUME NEW a \in C PROVE IsFiniteSet(DOMAIN list(a))
      OBVIOUS
    <3>1. DOMAIN list(a) = 1 .. Len(list(a)) /\ IsFiniteSet(1 .. Len(list(a)))
      BY <1>2, CoinNat, LenProperties
    <3>2. QED
      BY <3>1
  <2>2. places = UNION {{a} \X D[a] : a \in C}
    OBVIOUS
  <2> HIDE DEF D
  <2>3. IsFiniteSet(UNION {{a} \X D[a] : a \in C})
    BY <1>1, <2>1, PairsFinite
  <2> HIDE DEF places
  <2>4. QED
    BY <2>2, <2>3
<1>4. ASSUME NEW p \in places PROVE count(p) \in Nat /\ to(p) \in Addr
  <2>1. p[1] \in C /\ p[2] \in DOMAIN list(p[1])
    OBVIOUS
  <2> HIDE DEF places
  <2> DEFINE l == list(p[1])
  <2>2. l \in Seq(Delegation) /\ p[2] \in DOMAIN l
    BY <1>2, <2>1
  <2>3. l[p[2]] \in Delegation
    BY <2>2, LenProperties, ElementOfSeq
  <2>4. NODE_HARD_CAP[choice[p[1]]] \in Nat
    BY <1>1, <2>1
  <2> HIDE DEF l
  <2>5. Counted(l, NODE_HARD_CAP[choice[p[1]]])[p[2]] \in Nat
    BY <2>2, <2>4, CountedNat
  <2>6. QED
    BY <2>3, <2>5 DEF l, Delegation
<1>5. ASSUME NEW P \in SUBSET places PROVE units(P) \in Nat
  <2> DEFINE f == [p \in P |-> count(p)]
  <2>1. IsFiniteSet(P)
    BY <1>3, FS_Subset
  <2>2. \A p \in P : f[p] \in Nat
    BY <1>4
  <2>3. units(P) = SumFunctionOnSet(f, P)
    BY DEF SumFunction
  <2> HIDE DEF f, units
  <2>4. SumFunctionOnSet(f, P) \in Nat
    BY <2>1, <2>2, SumNat
  <2>5. QED
    BY <2>3, <2>4
<1>6. half \in Nat
  BY Quotient
<1>7. CoinRewards(W, pool, choice) = T
  BY DEF CoinRewards
<1> HIDE DEF half, count
<1>8. ASSUME NEW d, units(places) # 0
      PROVE  value(d) \in Nat
  <2> DEFINE x == units(from(d))
             y == units(places)
  <2>1. from(d) \in SUBSET places /\ places \in SUBSET places
    OBVIOUS
  <2> HIDE DEF from, places, units
  <2>2. x \in Nat /\ y \in Nat \ {0}
    BY <1>5, <1>8, <2>1
  <2> HIDE DEF x, y
  <2>3. half * x \in Nat
    BY <1>6, <2>2
  <2>4. (half * x) \div y \in Nat
    BY <2>2, <2>3, Quotient
  <2>5. QED
    BY <2>4 DEF x, y
<1> HIDE DEF value, to, units
<1>9. IsFiniteSet(T)
  <2> DEFINE f == [p \in paid |-> Reward(to(p), value(to(p)), "C")]
  <2>1. \A t \in T : \E p \in paid : t = f[p]
    <3> HIDE DEF paid
    <3>1. QED
      OBVIOUS
  <2>2. IsFiniteSet(paid)
    BY <1>3, FS_EmptySet
  <2> HIDE DEF f, T, paid
  <2>3. QED
    BY <2>1, <2>2, ImageFinite
<1>10. \A r \in T : r.to \in Addr /\ r.value \in Nat
  <2> SUFFICES ASSUME NEW p \in paid
               PROVE  to(p) \in Addr /\ value(to(p)) \in Nat
    <3>1. \A r \in T : \E p \in paid : r = Reward(to(p), value(to(p)), "C")
      <4> HIDE DEF paid
      <4>1. QED
        OBVIOUS
    <3> HIDE DEF T, paid
    <3>2. QED
      BY <3>1 DEF Reward
  <2>1. p \in places /\ units(places) # 0
    OBVIOUS
  <2> HIDE DEF paid, places
  <2>2. QED
    BY <1>4, <1>8, <2>1
<1> HIDE DEF T
<1>11. QED
  BY <1>7, <1>9, <1>10 DEF Payable

(* those of the wallets chosen for having coins, *)
LEMMA WalletRewardsPayable ==
    ASSUME NEW pool \in Nat, NEW answer \in Answers
    PROVE  Payable(WalletRewards(pool, answer.passive))
<1> DEFINE passive == answer.passive
           A == DOMAIN passive
           shares == SumFunction(passive)
           coins == ((pool * 10) \div 100) \div 10
           per_share == coins \div shares
           T == {Reward(a, passive[a] * per_share, "W") : a \in A}
<1>1. A \in SUBSET Addr /\ \A a \in A : passive[a] \in Nat \ {0}
  BY ForgingAssumption
<1>2. IsFiniteSet(A)
  BY <1>1, ForgingAssumption, FS_Subset
<1>3. coins \in Nat
  OBVIOUS
<1>4. shares = SumFunctionOnSet(passive, A)
  BY DEF SumFunction
<1>5. WalletRewards(pool, answer.passive) = T
  BY DEF WalletRewards
<1> HIDE DEF coins, shares
<1>6. \A r \in T : r.to \in Addr /\ r.value \in Nat
  <2> SUFFICES ASSUME NEW a \in A
               PROVE  a \in Addr /\ passive[a] * per_share \in Nat
    BY DEF Reward
  <2>1. shares \in Nat \ {0}
    BY <1>1, <1>2, <1>4, SumPositive
  <2>2. per_share \in Nat
    BY <1>3, <2>1, Quotient
  <2>3. passive[a] \in Nat
    BY <1>1
  <2> HIDE DEF per_share, passive
  <2>4. passive[a] * per_share \in Nat
    BY <2>2, <2>3
  <2>5. QED
    BY <1>1, <2>4
<1>7. IsFiniteSet(T)
  <2> DEFINE f == [a \in A |-> Reward(a, passive[a] * per_share, "W")]
  <2>1. \A t \in T : \E a \in A : t = f[a]
    OBVIOUS
  <2> HIDE DEF f, T
  <2>2. QED
    BY <1>2, <2>1, ImageFinite
<1> HIDE DEF T
<1>8. QED
  BY <1>5, <1>6, <1>7 DEF Payable

(* The places of the lottery that win something. *)
Prizes == 1..1000

(* They are finitely many. *)
LEMMA PrizesFinite == IsFiniteSet(Prizes)
<1> DEFINE last == 1000
<1>1. last \in Nat /\ Prizes = 1..last
  BY DEF Prizes
<1> HIDE DEF last
<1>2. QED
  BY <1>1, CountTo

(* The share of a place is what its group wins. *)
LEMMA PlaceGroup ==
    ASSUME NEW total, NEW i, i # 1, i # 2, i # 3, i # 4, i # 5
    PROVE  /\ i \in 6..100 => Place(total, i) = total \div 1000
           /\ i \notin 6..100 /\ i \in 101..1000 => Place(total, i) = (total * 2) \div 10000
<1> DEFINE A == (total * 4) \div 10
           B == total \div 10
           C == (total * 5) \div 100
           D == (total * 415) \div 10000
           E == (total * 335) \div 10000
           F == total \div 1000
           G == (total * 2) \div 10000
           M == 6..100
           N == 101..1000
<1>1. Place(total, i) = CASE i = 1 -> A [] i = 2 -> B [] i = 3 -> C [] i = 4 -> D [] i = 5 -> E
                          [] i \in M -> F [] i \in N -> G
  BY DEF Place
<1> HIDE DEF A, B, C, D, E, F, G, M, N
<1>2. i \in M => i \notin N
  <2>1. i \in M => i \in Int /\ i <= 100
    BY DEF M
  <2>2. i \in N => i > 100
    BY DEF N
  <2>3. QED
    BY <2>1, <2>2
<1>3. i \in M => Place(total, i) = F
  BY <1>1, <1>2, Zenon
<1>4. i \notin M /\ i \in N => Place(total, i) = G
  BY <1>1, Zenon
<1>5. QED
  BY <1>3, <1>4 DEF F, G, M, N

(* The places of the second group win alike, *)
LEMMA MiddlePlace ==
    ASSUME NEW total, NEW i \in 6..100
    PROVE  Place(total, i) = total \div 1000
<1>1. i # 1 /\ i # 2 /\ i # 3 /\ i # 4 /\ i # 5
  OBVIOUS
<1>2. QED
  BY <1>1, PlaceGroup

(* and those of the third. *)
LEMMA LastPlace ==
    ASSUME NEW total, NEW i \in 101..1000
    PROVE  Place(total, i) = (total * 2) \div 10000
<1>1. i # 1 /\ i # 2 /\ i # 3 /\ i # 4 /\ i # 5
  OBVIOUS
<1>2. i \notin 6..100
  <2>1. i \in Int /\ i > 100
    OBVIOUS
  <2>2. i \in 6..100 => i <= 100
    OBVIOUS
  <2>3. QED
    BY <2>1, <2>2
<1> DEFINE M == 6..100
           N == 101..1000
           y == (total * 2) \div 10000
<1>3. i \in N /\ i \notin M
  BY <1>2
<1>4. i \notin M /\ i \in N => Place(total, i) = y
  BY <1>1, PlaceGroup
<1> HIDE DEF M, N, y
<1>5. Place(total, i) = y
  BY <1>3, <1>4
<1>6. QED
  BY <1>5 DEF y

(* The share of a place is a natural number. *)
LEMMA PlaceNat ==
    ASSUME NEW total \in Nat, NEW i \in Prizes
    PROVE  Place(total, i) \in Nat
<1>1. i \in 1..5 \/ i \in 6..100 \/ i \in 101..1000
  BY DEF Prizes
<1>2. \A a \in Nat, b \in Nat \ {0} : (total * a) \div b \in Nat
  OBVIOUS
<1>3. total \div 10 \in Nat /\ total \div 1000 \in Nat
  OBVIOUS
<1>4. CASE i \in 1..5
  BY <1>2, <1>3, <1>4 DEF Place
<1>5. CASE i \in 6..100
  BY <1>3, <1>5, MiddlePlace
<1>6. CASE i \in 101..1000
  <2>1. Place(total, i) = (total * 2) \div 10000
    BY <1>6, LastPlace
  <2>2. QED
    BY <1>2, <2>1
<1>7. QED
  BY <1>1, <1>4, <1>5, <1>6

(* The shares of the places up to one are a natural number of coins. *)
LEMMA BankNat ==
    ASSUME NEW total \in Nat, NEW n \in Nat
    PROVE  Bank(total, n) \in Nat
<1> DEFINE S == (n + 1) .. 5
           f == [i \in S |-> Place(total, i)]
<1>1. SumFunction(f) \in Nat
  <2>1. \A i \in S : f[i] \in Nat
    <3>1. S \subseteq Prizes
      BY DEF Prizes
    <3>2. \A i \in S : f[i] = Place(total, i)
      OBVIOUS
    <3> HIDE DEF S, f
    <3>3. SUFFICES ASSUME NEW i \in S PROVE f[i] \in Nat
      OBVIOUS
    <3>4. i \in Prizes
      BY <3>1, Zenon
    <3>5. Place(total, i) \in Nat
      BY <3>4, PlaceNat, Zenon
    <3>6. QED
      BY <3>2, <3>5
  <2>2. IsFiniteSet(S)
    BY FS_Interval
  <2>3. SumFunction(f) = SumFunctionOnSet(f, S)
    BY DEF SumFunction
  <2> HIDE DEF f, S
  <2>4. SumFunctionOnSet(f, S) \in Nat
    BY <2>1, <2>2, SumNat
  <2>5. QED
    BY <2>3, <2>4
<1>2. Place(total, 6) \in Nat /\ Place(total, 101) \in Nat
  <2>1. 6 \in Prizes /\ 101 \in Prizes
    BY DEF Prizes
  <2>2. QED
    BY <2>1, PlaceNat
<1>3. Max({0, 100 - n}) \in Nat
  BY MaxOfTwo
<1>4. Max({n, 100}) \in Nat
  BY MaxOfTwo
<1>5. Max({0, 1000 - Max({n, 100})}) \in Nat
  BY <1>4, MaxOfTwo
<1> DEFINE x == SumFunction(f)
           y == Place(total, 6)
           k == IF n >= 6 THEN Max({0, 100 - n}) ELSE 94
           z == Place(total, 101)
           l == Max({0, 1000 - Max({n, 100})})
<1>6. x \in Nat /\ y \in Nat /\ k \in Nat /\ z \in Nat /\ l \in Nat
  BY <1>1, <1>2, <1>3, <1>5
<1>7. Bank(total, n) = x + y * k + z * l
  BY DEF Bank
<1> HIDE DEF x, y, z, k, l
<1>8. y * k \in Nat /\ z * l \in Nat
  BY <1>6
<1>9. QED
  BY <1>6, <1>7, <1>8

(* those of the wallets chosen for being active, *)
LEMMA RandomRewardsPayable ==
    ASSUME NEW pool \in Nat, NEW answer \in Answers
    PROVE  Payable(RandomRewards(pool, answer.active))
<1> DEFINE active == answer.active
           total == (pool * 10) \div 100
           n == Len(active)
           I == DOMAIN active \cap Prizes
           value(i) == Place(total, i) + Bank(total, n) \div n
           T == {Reward(active[i], value(i), "R") : i \in I}
<1>1. active \in Seq(Addr)
  BY ForgingAssumption
<1>2. n \in Nat /\ DOMAIN active = 1 .. n /\ \A i \in 1 .. n : active[i] \in Addr
  BY <1>1, LenProperties, ElementOfSeq
<1>3. total \in Nat
  BY Quotient
<1>4. RandomRewards(pool, answer.active) = T
  BY DEF RandomRewards, Prizes
<1>5. IsFiniteSet(I)
  BY PrizesFinite, FS_Intersection
<1> HIDE DEF n, total
<1>6. \A r \in T : r.to \in Addr /\ r.value \in Nat
  <2> SUFFICES ASSUME NEW i \in I
               PROVE  active[i] \in Addr /\ value(i) \in Nat
    BY DEF Reward
  <2>1. i \in 1 .. n /\ i \in Prizes /\ n \in Nat \ {0}
    BY <1>2
  <2> DEFINE p == Place(total, i)
             b == Bank(total, n)
  <2>2. p \in Nat /\ b \in Nat
    <3>1. p \in Nat
      BY <1>3, <2>1, PlaceNat
    <3>2. b \in Nat
      BY <1>3, <2>1, BankNat
    <3>3. QED
      BY <3>1, <3>2
  <2> HIDE DEF p, b
  <2>3. b \div n \in Nat
    BY <2>1, <2>2, Quotient
  <2>4. p + b \div n \in Nat
    BY <2>2, <2>3
  <2>5. QED
    BY <1>2, <2>1, <2>4 DEF p, b
<1> HIDE DEF value
<1>7. IsFiniteSet(T)
  <2> DEFINE f == [i \in I |-> Reward(active[i], value(i), "R")]
  <2>1. \A t \in T : \E i \in I : t = f[i]
    OBVIOUS
  <2> HIDE DEF f, T, I
  <2>2. QED
    BY <1>5, <2>1, ImageFinite
<1> HIDE DEF T
<1>8. QED
  BY <1>4, <1>6, <1>7 DEF Payable

(* and all the rewards of a forging block. *)
LEMMA RewardsPayable ==
    ASSUME NEW W, Sound(W), NEW statistics \in SUBSET (Role \X Addr),
           NEW choice \in RoleChoices(W, statistics), NEW answer \in Answers
    PROVE  Payable(ForgingRewards(W, choice, answer))
<1> DEFINE pool == FORGING_POOL + W[STATE_FEE_WALLET].balance
           N == NodeRewards(W, pool, choice)
           C == CoinRewards(W, pool, choice)
           P == WalletRewards(pool, answer.passive)
           R == RandomRewards(pool, answer.active)
           team == Reward(TEAM_WALLET, FORGING_TEAM_REWARD, "TEAM")
<1>1. pool \in Nat
  BY WalletsAssumption, ForgingAssumption DEF Sound, Good, Wallet
<1>2. ForgingRewards(W, choice, answer) = N \cup C \cup P \cup R \cup {team}
  BY DEF ForgingRewards
<1> HIDE DEF pool
<1>3. Payable(N) /\ Payable(C) /\ Payable(P) /\ Payable(R)
  BY <1>1, NodeRewardsPayable, CoinRewardsPayable, WalletRewardsPayable, RandomRewardsPayable
<1>4. team.to \in Addr /\ team.value \in Nat
  BY DailyAssumption, ForgingAssumption DEF Reward
<1> HIDE DEF N, C, P, R, team
<1>5. IsFiniteSet(N \cup C \cup P \cup R \cup {team})
  <2>1. IsFiniteSet(N \cup C)
    BY <1>3, FS_Union DEF Payable
  <2>2. IsFiniteSet((N \cup C) \cup P)
    BY <1>3, <2>1, FS_Union DEF Payable
  <2>3. IsFiniteSet((N \cup C \cup P) \cup R)
    BY <1>3, <2>2, FS_Union DEF Payable
  <2>4. QED
    BY <2>3, FS_AddElement
<1>6. QED
  BY <1>2, <1>3, <1>4, <1>5 DEF Payable

-----------------------------------------------------------------------------
(* The snapshots of a wallet tell its delegations. *)
Settled(w) ==
    /\ w.delegate_to_daly_snapshot = w.delegate_to
    /\ w.delegated_from_daly_snapshot = w.delegated_from

(* The coins of rewards that can be paid are a natural number. *)
LEMMA ValuesNat ==
    ASSUME NEW rewards, Payable(rewards), NEW S \in SUBSET rewards
    PROVE  SumValues(S) \in Nat
<1> DEFINE f == [r \in S |-> r.value]
<1>1. IsFiniteSet(S)
  BY FS_Subset DEF Payable
<1>2. \A r \in S : f[r] \in Nat
  BY DEF Payable
<1>3. SumValues(S) = SumFunctionOnSet(f, S)
  BY DEF SumValues, SumFunction
<1> HIDE DEF f
<1>4. SumFunctionOnSet(f, S) \in Nat
  BY <1>1, <1>2, SumNat
<1>5. QED
  BY <1>3, <1>4

(* A new wallet is good, and has no delegations. *)
LEMMA PlainGood ==
    ASSUME NEW value \in Nat, NEW nonce \in Nat, NEW v, v = Plain(value, nonce)
    PROVE  Good(v) /\ Settled(v)
<1>1. << >> \in Seq(Delegation)
  OBVIOUS
<1>2. v \in Wallet
  BY <1>1 DEF Plain, Wallet
<1>3. /\ ~v.founder /\ v.used_limit = 0 /\ v.limit = 0
      /\ v.delegate_to = << >> /\ v.delegated_to_sum = 0
      /\ v.delegated_from = << >> /\ v.delegated_from_sum = 0
      /\ v.delegate_to_daly_snapshot = << >> /\ v.delegated_from_daly_snapshot = << >>
      /\ v.balance = value /\ v.soft = {}
  BY DEF Plain
<1>4. QED
  BY <1>2, <1>3, TotalEmpty DEF Good, Settled

(* The trust of a wallet is not part of what makes it good. *)
LEMMA TrustGood ==
    ASSUME NEW w, Good(w), NEW trust \in Nat, NEW v, v = [w EXCEPT !.trust = trust]
    PROVE  Good(v)
<1>1. v \in Wallet
  BY DEF Good, Wallet
<1>2. /\ v.founder = w.founder /\ v.limit = w.limit /\ v.used_limit = w.used_limit
      /\ v.delegate_to = w.delegate_to /\ v.delegated_to_sum = w.delegated_to_sum
      /\ v.delegated_from = w.delegated_from /\ v.delegated_from_sum = w.delegated_from_sum
      /\ v.balance = w.balance
      /\ v.pretend_common = w.pretend_common /\ v.soft = w.soft
      /\ v.delegated_from_daly_snapshot = w.delegated_from_daly_snapshot
  BY DEF Good, Wallet
<1>3. QED
  BY <1>1, <1>2 DEF Good

(* Nor is what check_caps does to the trust. *)
LEMMA RevisedGood ==
    ASSUME NEW w, Good(w), NEW x, x \in {w, AddTrust(w), SubTrust(w)}
    PROVE  Good(x)
<1>1. w.trust \in Nat
  BY DEF Good, Wallet
<1>2. (IF w.trust < 200 THEN w.trust + 1 ELSE 200) \in Nat
  BY <1>1
<1>3. (IF w.trust >= 12 THEN w.trust - 10 ELSE 2) \in Nat
  BY <1>1
<1>4. Good(AddTrust(w))
  BY <1>2, TrustGood DEF AddTrust
<1>5. Good(SubTrust(w))
  BY <1>3, TrustGood DEF SubTrust
<1>6. QED
  BY <1>4, <1>5

(* The snapshots are taken, and the flags set from them. *)
LEMMA SnapshotGood ==
    ASSUME NEW w, Good(w), NEW a, NEW x, x = ApplyDelegates(w),
           NEW v, v = CheckCaps([x EXCEPT !.pretend_common = TRUE], a)
                    \/ v = [x EXCEPT !.pretend_common = FALSE]
    PROVE  Good(v) /\ Settled(v)
<1>1. /\ w.limit \in Nat /\ FOUNDER_DAILY_LIMIT_UP \in Nat
      /\ w.delegated_from \in Seq(Delegation)
  BY ForgingAssumption DEF Good, Wallet
<1> DEFINE limit == IF w.founder THEN w.limit + FOUNDER_DAILY_LIMIT_UP ELSE w.limit
<1>2. limit \in Nat /\ (~w.founder => limit = w.limit)
  BY <1>1
<1>3. x = [w EXCEPT !.delegate_to_daly_snapshot = w.delegate_to,
                    !.delegated_from_daly_snapshot = w.delegated_from,
                    !.limit = limit]
  BY DEF ApplyDelegates
<1> HIDE DEF limit
<1>4. x \in Wallet
  BY <1>2, <1>3 DEF Good, Wallet
<1>5. /\ x.founder = w.founder /\ x.limit = limit /\ x.used_limit = w.used_limit
      /\ x.delegate_to = w.delegate_to /\ x.delegated_to_sum = w.delegated_to_sum
      /\ x.delegated_from = w.delegated_from /\ x.delegated_from_sum = w.delegated_from_sum
      /\ x.balance = w.balance /\ x.state = w.state
      /\ x.delegate_to_daly_snapshot = w.delegate_to
      /\ x.delegated_from_daly_snapshot = w.delegated_from
  BY <1>3 DEF Good, Wallet
<1>6. CASE v = [x EXCEPT !.pretend_common = FALSE]
  <2>1. v \in Wallet
    BY <1>4, <1>6 DEF Wallet
  <2>2. /\ v.founder = x.founder /\ v.limit = x.limit /\ v.used_limit = x.used_limit
        /\ v.delegate_to = x.delegate_to /\ v.delegated_to_sum = x.delegated_to_sum
        /\ v.delegated_from = x.delegated_from /\ v.delegated_from_sum = x.delegated_from_sum
        /\ v.balance = x.balance /\ ~v.pretend_common
        /\ v.delegate_to_daly_snapshot = x.delegate_to_daly_snapshot
        /\ v.delegated_from_daly_snapshot = x.delegated_from_daly_snapshot
    BY <1>4, <1>6 DEF Wallet
  <2>3. QED
    BY <1>2, <1>5, <2>1, <2>2 DEF Good, Settled
<1>7. CASE v = CheckCaps([x EXCEPT !.pretend_common = TRUE], a)
  <2> DEFINE list == w.delegated_from
             seed_sum == SumOf(list, a)
             soft == {r \in x.state : x.delegated_from_sum >= NODE_SOFT_CAP[r]}
             seed == {r \in x.state : seed_sum >= NODE_SEED_CAP[r]}
  <2>1. v = [x EXCEPT !.pretend_common = TRUE, !.soft = soft, !.seed = seed]
    BY <1>4, <1>5, <1>7 DEF CheckCaps, Wallet
  <2>2. soft \in SUBSET Role /\ seed \in SUBSET Role
    BY <1>4 DEF Wallet
  <2>3. soft # {} => Total(list) > 0
    <3>1. \A r \in soft : /\ NODE_SOFT_CAP[r] \in Nat \ {0}
                          /\ x.delegated_from_sum >= NODE_SOFT_CAP[r]
      BY <2>2, ForgingAssumption
    <3>2. x.delegated_from_sum = Total(list) /\ Total(list) \in Nat
      BY <1>1, <1>5, TotalNat DEF Good
    <3> HIDE DEF soft, list
    <3>3. QED
      BY <3>1, <3>2
  <2> HIDE DEF soft, seed
  <2>4. v \in Wallet
    BY <1>4, <2>1, <2>2 DEF Wallet
  <2>5. /\ v.founder = x.founder /\ v.limit = x.limit /\ v.used_limit = x.used_limit
        /\ v.delegate_to = x.delegate_to /\ v.delegated_to_sum = x.delegated_to_sum
        /\ v.delegated_from = x.delegated_from /\ v.delegated_from_sum = x.delegated_from_sum
        /\ v.balance = x.balance /\ v.soft = soft
        /\ v.delegate_to_daly_snapshot = x.delegate_to_daly_snapshot
        /\ v.delegated_from_daly_snapshot = x.delegated_from_daly_snapshot
    BY <1>4, <2>1 DEF Wallet
  <2>6. QED
    BY <1>2, <1>5, <2>3, <2>4, <2>5 DEF Good, Settled
<1>8. QED
  BY <1>6, <1>7

(* What a forging block leaves of the fees is a natural number. *)
LEMMA FeesLeftNat ==
    ASSUME NEW fees \in Nat, NEW total \in Nat
    PROVE  FeesLeft(fees, total) \in Nat
<1>1. FORGING_POOL \in Nat
  BY ForgingAssumption
<1>2. (FORGING_POOL * 110) \div 100 \in Nat
  BY <1>1
<1> DEFINE more == (FORGING_POOL * 110) \div 100
<1>3. /\ total <= FORGING_POOL + fees => fees + FORGING_POOL - total \in Nat
      /\ ~(total > more + fees) => more + fees - total \in Nat
  <2> HIDE DEF more
  <2>1. more \in Nat
    BY <1>2 DEF more
  <2>2. QED
    BY <1>1, <2>1
<1>4. QED
  BY <1>3 DEF FeesLeft

(* A forging block keeps the wallets sound and ends with snapshots of the lists. *)
LEMMA ApplyForgingSound ==
    ASSUME NEW W, Sound(W), NEW rewards, Payable(rewards)
    PROVE  /\ Sound(ApplyForging(W, rewards))
           /\ \A a \in Addr : Settled(ApplyForging(W, rewards)[a])
<1> DEFINE paid == PayRewards(W, rewards)
           total == SumValues({r \in rewards : r.kind # "TEAM"})
           fees == FeesLeft(paid[STATE_FEE_WALLET].balance, total)
           left == Plain(fees, 0)
           settled == [paid EXCEPT ![STATE_FEE_WALLET] = left]
           chosen == {r.to : r \in {q \in rewards : q.kind = "N"}}
           trusted == ReviseTrust(settled, chosen)
           taken == [a \in Addr |-> ApplyDelegates(trusted[a])]
           all == ReviseFlags(taken)
<1>1. ApplyForging(W, rewards) = all
  BY DEF ApplyForging
<1>2. Sound(paid)
  <2>1. \A a \in Addr : Good(paid[a])
    <3> SUFFICES ASSUME NEW a \in Addr PROVE Good(paid[a])
      OBVIOUS
    <3> DEFINE value == SumValues({r \in rewards : r.to = a})
    <3>1. value \in Nat
      BY ValuesNat
    <3>2. paid[a] = [W[a] EXCEPT !.balance = @ + value]
      BY DEF PayRewards
    <3> HIDE DEF value, paid
    <3>3. Good(W[a])
      BY DEF Sound
    <3>4. QED
      BY <3>1, <3>2, <3>3, EarnGood
  <2>2. paid = [a \in Addr |-> paid[a]]
    BY DEF PayRewards
  <2> HIDE DEF paid
  <2>3. QED
    BY <2>1, <2>2 DEF Sound, Good
<1>3. total \in Nat
  BY ValuesNat
<1> HIDE DEF paid, total
<1>4. fees \in Nat
  BY <1>2, <1>3, FeesLeftNat, WalletsAssumption DEF Sound, Good, Wallet
<1> HIDE DEF fees
<1>5. Good(left)
  BY <1>4, PlainGood
<1> HIDE DEF left
<1>6. Sound(settled)
  BY <1>2, <1>5, PutSound, WalletsAssumption
<1> HIDE DEF settled, chosen
<1>7. \A a \in Addr : Good(trusted[a])
  <2> SUFFICES ASSUME NEW a \in Addr PROVE Good(trusted[a])
    OBVIOUS
  <2>1. trusted[a] \in {settled[a], AddTrust(settled[a]), SubTrust(settled[a])}
    BY DEF ReviseTrust
  <2>2. Good(settled[a])
    BY <1>6 DEF Sound
  <2> HIDE DEF trusted
  <2>3. QED
    BY <2>1, <2>2, RevisedGood
<1> HIDE DEF trusted
<1>8. ASSUME NEW a \in Addr
      PROVE  Good(all[a]) /\ Settled(all[a])
  <2>1. \/ all[a] = CheckCaps([taken[a] EXCEPT !.pretend_common = TRUE], a)
        \/ all[a] = [taken[a] EXCEPT !.pretend_common = FALSE]
    BY DEF ReviseFlags
  <2>2. taken[a] = ApplyDelegates(trusted[a])
    OBVIOUS
  <2> HIDE DEF taken, all
  <2>3. QED
    BY <1>7, <2>1, <2>2, SnapshotGood
<1>9. all = [a \in Addr |-> all[a]]
  BY DEF ReviseFlags
<1> HIDE DEF all
<1>10. QED
  BY <1>1, <1>8, <1>9 DEF Sound, Good

(* The wallets without the delegations of the zero wallet are sound. *)
LEMMA ResetZeroSound ==
    ASSUME NEW W, Sound(W)
    PROVE  Sound(ResetZero(W))
<1> DEFINE v == Plain(0, 0)
<1>1. Good(v)
  BY PlainGood
<1>2. ResetZero(W) = [W EXCEPT ![ZERO_WALLET] = v]
  BY DEF ResetZero
<1> HIDE DEF v
<1>3. Sound([W EXCEPT ![ZERO_WALLET] = v])
  BY <1>1, PutSound, DailyAssumption
<1>4. QED
  BY <1>2, <1>3

-----------------------------------------------------------------------------
(* A wallet by its members, both snapshots being the lists, *)
Members(b, n, fo, ul, li, st, pc, so, se, tr, dt, ts, df, fs) == [
    balance |-> b, transaction_id |-> n,
    founder |-> fo, used_limit |-> ul, limit |-> li,
    state |-> st, pretend_common |-> pc, soft |-> so, seed |-> se, trust |-> tr,
    delegate_to |-> dt, delegated_to_sum |-> ts,
    delegated_from |-> df, delegated_from_sum |-> fs,
    delegate_to_daly_snapshot |-> dt, delegated_from_daly_snapshot |-> df]

(* and as initialize sets them on a plain one: *)
Given(b, n, fo, ul, li, st, pc, so, se, tr, dt, ts, df, fs) == [Plain(b, n) EXCEPT
    !.founder = fo, !.used_limit = ul, !.limit = li,
    !.state = st, !.pretend_common = pc, !.soft = so, !.seed = se, !.trust = tr,
    !.delegate_to = dt, !.delegated_to_sum = ts,
    !.delegated_from = df, !.delegated_from_sum = fs,
    !.delegate_to_daly_snapshot = dt, !.delegated_from_daly_snapshot = df]

(* it is the same, *)
LEMMA GivenMembers ==
    ASSUME NEW b, NEW n, NEW fo, NEW ul, NEW li, NEW st, NEW pc, NEW so, NEW se, NEW tr,
           NEW dt, NEW ts, NEW df, NEW fs
    PROVE  Given(b, n, fo, ul, li, st, pc, so, se, tr, dt, ts, df, fs)
            = Members(b, n, fo, ul, li, st, pc, so, se, tr, dt, ts, df, fs)
<1> SUFFICES ASSUME NEW w, w = Given(b, n, fo, ul, li, st, pc, so, se, tr, dt, ts, df, fs)
             PROVE  w = Members(b, n, fo, ul, li, st, pc, so, se, tr, dt, ts, df, fs)
  OBVIOUS
<1> QED
  BY Zenon DEF Given, Members, Plain

(* and a wallet if the members are of its types. *)
LEMMA MembersWallet ==
    ASSUME NEW b \in Nat, NEW n \in Nat, NEW fo \in BOOLEAN, NEW ul \in Nat, NEW li \in Nat,
           NEW st \in SUBSET Role, NEW pc \in BOOLEAN,
           NEW so \in SUBSET Role, NEW se \in SUBSET Role, NEW tr \in Nat,
           NEW dt \in Seq(Delegation), NEW ts \in Nat, NEW df \in Seq(Delegation), NEW fs \in Nat
    PROVE  Members(b, n, fo, ul, li, st, pc, so, se, tr, dt, ts, df, fs) \in Wallet
BY DEF Members, Wallet

(* What a state block tells of a wallet, and what is read of it. *)
LEMMA RoundTrip ==
    ASSUME NEW w \in Wallet, NEW v, v = Initialize(Serialize(w))
    PROVE  /\ v \in Wallet
           /\ v.balance = w.balance /\ v.transaction_id = w.transaction_id
           /\ v.founder = w.founder
           /\ v.used_limit = IF w.founder THEN w.used_limit ELSE 0
           /\ v.limit = IF w.founder THEN w.limit ELSE 0
           /\ v.state = w.state /\ v.pretend_common = w.pretend_common
           /\ v.soft = w.soft /\ v.seed = w.seed /\ v.trust = w.trust
           /\ v.delegate_to = w.delegate_to_daly_snapshot
           /\ v.delegated_to_sum = Total(w.delegate_to_daly_snapshot)
           /\ v.delegated_from = w.delegated_from_daly_snapshot
           /\ v.delegated_from_sum = Total(w.delegated_from_daly_snapshot)
           /\ v.delegate_to_daly_snapshot = w.delegate_to_daly_snapshot
           /\ v.delegated_from_daly_snapshot = w.delegated_from_daly_snapshot
<1> DEFINE r == Serialize(w)
           flags == Flags(w)
           t_to == Total(w.delegate_to_daly_snapshot)
           t_from == Total(w.delegated_from_daly_snapshot)
           used == IF w.founder THEN w.used_limit ELSE 0
           limit == IF w.founder THEN w.limit ELSE 0
<1>1. /\ w.balance \in Nat /\ w.transaction_id \in Nat /\ w.founder \in BOOLEAN
      /\ w.used_limit \in Nat /\ w.limit \in Nat /\ w.trust \in Nat
      /\ w.state \in SUBSET Role /\ w.pretend_common \in BOOLEAN
      /\ w.soft \in SUBSET Role /\ w.seed \in SUBSET Role
      /\ w.delegate_to_daly_snapshot \in Seq(Delegation)
      /\ w.delegated_from_daly_snapshot \in Seq(Delegation)
  BY DEF Wallet
<1>2. t_to \in Nat /\ t_from \in Nat
  BY <1>1, TotalNat
<1>3. /\ r.value = w.balance /\ r.nonce = w.transaction_id
      /\ r.limits = IF w.founder THEN <<w.used_limit, w.limit>> ELSE << >>
      /\ r.flags = IF flags # Flags(NewWallet) \/ w.trust # NewWallet.trust
                   THEN <<flags, w.trust * 5>> ELSE << >>
      /\ r.delegate_to = w.delegate_to_daly_snapshot
      /\ r.delegated_from = w.delegated_from_daly_snapshot
  BY DEF Serialize
<1> HIDE DEF r
<1>4. /\ r.limits # << >> <=> w.founder
      /\ (IF r.limits # << >> THEN r.limits[1] ELSE 0) = used
      /\ (IF r.limits # << >> THEN r.limits[2] ELSE 0) = limit
  <2>1. CASE w.founder
    <3>1. r.limits = <<w.used_limit, w.limit>>
      BY <1>3, <2>1
    <3>2. r.limits # << >> /\ r.limits[1] = w.used_limit /\ r.limits[2] = w.limit
      BY <3>1
    <3>3. QED
      BY <2>1, <3>2
  <2>2. CASE ~w.founder
    <3>1. r.limits = << >>
      BY <1>3, <2>2
    <3>2. QED
      BY <1>1, <2>2, <3>1
  <2>3. QED
    BY <2>1, <2>2
<1>5. /\ (IF r.flags = << >> THEN Flags(NewWallet) ELSE r.flags[1]) = flags
      /\ (IF r.flags = << >> THEN NewWallet.trust ELSE r.flags[2] \div 5) = w.trust
  <2> DEFINE default == Flags(NewWallet)
             trust == NewWallet.trust
  <2> HIDE DEF flags, default, trust
  <2>1. CASE flags # default \/ w.trust # trust
    <3>1. r.flags = <<flags, w.trust * 5>>
      BY <1>3, <2>1 DEF default, trust
    <3>2. (w.trust * 5) \div 5 = w.trust
      BY <1>1
    <3>3. r.flags # << >> /\ r.flags[1] = flags /\ r.flags[2] = w.trust * 5
      BY <3>1
    <3>4. QED
      BY <3>2, <3>3
  <2>2. CASE flags = default /\ w.trust = trust
    <3>1. r.flags = << >>
      BY <1>3, <2>2 DEF default, trust
    <3>2. QED
      BY <2>2, <3>1 DEF default, trust
  <2>3. QED
    BY <2>1, <2>2
<1>6. flags[1] = w.state /\ flags[2] = w.pretend_common /\ flags[3] = w.soft /\ flags[4] = w.seed
  BY DEF Flags
<1>7. v = Members(w.balance, w.transaction_id, w.founder, used, limit,
                flags[1], flags[2], flags[3], flags[4], w.trust,
                w.delegate_to_daly_snapshot, t_to, w.delegated_from_daly_snapshot, t_from)
  <2> DEFINE fo == r.limits # << >>
             ul == IF fo THEN r.limits[1] ELSE 0
             li == IF fo THEN r.limits[2] ELSE 0
             fl == IF r.flags = << >> THEN Flags(NewWallet) ELSE r.flags[1]
             tr == IF r.flags = << >> THEN NewWallet.trust ELSE r.flags[2] \div 5
  <2>1. v = Given(r.value, r.nonce, fo, ul, li, fl[1], fl[2], fl[3], fl[4], tr,
                  r.delegate_to, Total(r.delegate_to), r.delegated_from, Total(r.delegated_from))
    BY Zenon DEF Initialize, r, Given
  <2>2. fo = w.founder /\ ul = used /\ li = limit /\ fl = flags /\ tr = w.trust
    <3>1. fo = w.founder
      BY <1>1, <1>4
    <3>2. ul = used /\ li = limit
      BY <1>4, Zenon
    <3>3. fl = flags /\ tr = w.trust
      BY <1>5, Zenon
    <3>4. QED
      BY <3>1, <3>2, <3>3
  <2> HIDE DEF fo, ul, li, fl, tr
  <2>3. v = Members(r.value, r.nonce, fo, ul, li, fl[1], fl[2], fl[3], fl[4], tr,
                    r.delegate_to, Total(r.delegate_to), r.delegated_from, Total(r.delegated_from))
    BY <2>1, GivenMembers, Zenon
  <2> HIDE DEF used, limit, flags
  <2>4. QED
    BY <1>3, <2>2, <2>3
<1>8. used \in Nat /\ limit \in Nat
  BY <1>1
<1> HIDE DEF flags, used, limit, t_to, t_from
<1>9. v \in Wallet
  <2>1. v = Members(w.balance, w.transaction_id, w.founder, used, limit,
                  w.state, w.pretend_common, w.soft, w.seed, w.trust,
                  w.delegate_to_daly_snapshot, t_to, w.delegated_from_daly_snapshot, t_from)
    BY <1>6, <1>7, Zenon
  <2>2. Members(w.balance, w.transaction_id, w.founder, used, limit,
                w.state, w.pretend_common, w.soft, w.seed, w.trust,
                w.delegate_to_daly_snapshot, t_to, w.delegated_from_daly_snapshot, t_from) \in Wallet
    BY <1>1, <1>2, <1>8, MembersWallet
  <2>3. QED
    BY <2>1, <2>2, Zenon
<1>10. QED
  BY <1>6, <1>7, <1>9 DEF Members, used, limit, t_to, t_from

(* A wallet is told by its members. *)
LEMMA WalletRecord ==
    ASSUME NEW w \in Wallet
    PROVE  w = [
        balance |-> w.balance, transaction_id |-> w.transaction_id,
        founder |-> w.founder, used_limit |-> w.used_limit, limit |-> w.limit,
        state |-> w.state, pretend_common |-> w.pretend_common,
        soft |-> w.soft, seed |-> w.seed, trust |-> w.trust,
        delegate_to |-> w.delegate_to, delegated_to_sum |-> w.delegated_to_sum,
        delegated_from |-> w.delegated_from, delegated_from_sum |-> w.delegated_from_sum,
        delegate_to_daly_snapshot |-> w.delegate_to_daly_snapshot,
        delegated_from_daly_snapshot |-> w.delegated_from_daly_snapshot]
BY SMTT(60) DEF Wallet

(* A wallet read from a state block is good, if its snapshot is within its balance. *)
LEMMA ReadGood ==
    ASSUME NEW w \in Wallet, Total(w.delegate_to_daly_snapshot) <= w.balance,
           w.pretend_common /\ w.soft # {} => Total(w.delegated_from_daly_snapshot) > 0,
           NEW v, v = Initialize(Serialize(w))
    PROVE  Good(v)
BY RoundTrip DEF Good

(* A wallet whose snapshots are its lists is read as it was written. *)
LEMMA ReadSame ==
    ASSUME NEW w, Good(w), Settled(w), NEW v, v = Initialize(Serialize(w))
    PROVE  v = w
<1>1. w \in Wallet
  BY DEF Good
<1> HIDE DEF Settled
<1>2. v \in Wallet
  BY <1>1, RoundTrip
<1>3. /\ v.balance = w.balance /\ v.transaction_id = w.transaction_id
      /\ v.founder = w.founder /\ v.used_limit = w.used_limit /\ v.limit = w.limit
      /\ v.state = w.state /\ v.pretend_common = w.pretend_common
      /\ v.soft = w.soft /\ v.seed = w.seed /\ v.trust = w.trust
      /\ v.delegate_to = w.delegate_to /\ v.delegated_to_sum = w.delegated_to_sum
      /\ v.delegated_from = w.delegated_from /\ v.delegated_from_sum = w.delegated_from_sum
      /\ v.delegate_to_daly_snapshot = w.delegate_to_daly_snapshot
      /\ v.delegated_from_daly_snapshot = w.delegated_from_daly_snapshot
  BY <1>1, RoundTrip DEF Good, Settled
<1>4. QED
  BY <1>1, <1>2, <1>3, WalletRecord, Zenon

(* The wallets of a ledger. *)
LEMMA LedgerWallets ==
    ASSUME NEW W
    PROVE  Ledger(W).wallets = W
BY DEF Ledger

(* The wallets of a state block. *)
LEMMA StateWallets ==
    ASSUME NEW ts, NEW W, NEW a \in Addr
    PROVE  StateBlock(ts, W).wallets[a] = Serialize(ResetZero(W)[a])
BY DEF StateBlock, Block

(* Who reads a state block made on a forging block has the wallets of those
   who apply it. *)
LEMMA StateRead ==
    ASSUME NEW W, Sound(W), \A a \in Addr : Settled(W[a]), NEW ts
    PROVE  ReadState(StateBlock(ts, W)) = Ledger(ResetZero(W))
<1> DEFINE U == ResetZero(W)
           V == [a \in Addr |-> Initialize(StateBlock(ts, W).wallets[a])]
<1>1. Sound(U)
  BY ResetZeroSound
<1>2. \A a \in Addr : Settled(U[a])
  <2>1. Settled(Plain(0, 0))
    BY PlainGood
  <2>2. \A a \in Addr : U[a] \in {W[a], Plain(0, 0)}
    BY DEF ResetZero, Sound
  <2> HIDE DEF U
  <2>3. QED
    BY <2>1, <2>2
<1>3. \A a \in Addr : V[a] = U[a]
  <2> SUFFICES ASSUME NEW a \in Addr PROVE V[a] = U[a]
    OBVIOUS
  <2>1. V[a] = Initialize(Serialize(U[a]))
    BY StateWallets
  <2>2. Good(U[a])
    BY <1>1 DEF Sound
  <2> HIDE DEF U, V
  <2>3. QED
    BY <1>2, <2>1, <2>2, ReadSame
<1>4. U = [a \in Addr |-> U[a]] /\ V = [a \in Addr |-> V[a]]
  BY <1>1 DEF Sound
<1>5. ReadState(StateBlock(ts, W)) = Ledger(V)
  BY DEF ReadState
<1> HIDE DEF U, V
<1>6. U = V
  BY <1>3, <1>4
<1>7. QED
  BY <1>5, <1>6 DEF U

(* The first state block is read as sound wallets. *)
LEMMA OpeningSound ==
    ASSUME NEW ts
    PROVE  Sound(ReadState(StateBlock(ts, Opening)).wallets)
<1> DEFINE U == ResetZero(Opening)
           V == [a \in Addr |-> Initialize(StateBlock(ts, Opening).wallets[a])]
<1>1. \A a \in Addr : Good(V[a])
  <2> SUFFICES ASSUME NEW a \in Addr PROVE Good(V[a])
    OBVIOUS
  <2>1. V[a] = Initialize(Serialize(U[a]))
    BY StateWallets
  <2>2. U[a] = Opening[a] \/ U[a] = Plain(0, 0)
    BY OpeningAssumption DEF ResetZero
  <2> HIDE DEF U, V
  <2>3. CASE U[a] = Opening[a]
    BY <2>1, <2>3, ReadGood, OpeningAssumption
  <2>4. CASE U[a] = Plain(0, 0)
    <3>1. Good(U[a]) /\ Settled(U[a])
      BY <2>4, PlainGood
    <3>2. V[a] = U[a]
      BY <2>1, <3>1, ReadSame
    <3>3. QED
      BY <3>1, <3>2
  <2>5. QED
    BY <2>2, <2>3, <2>4
<1>2. V = [a \in Addr |-> V[a]]
  OBVIOUS
<1>3. ReadState(StateBlock(ts, Opening)).wallets = V
  BY LedgerWallets DEF ReadState
<1> HIDE DEF V
<1>4. QED
  BY <1>1, <1>2, <1>3 DEF Sound, Good

-----------------------------------------------------------------------------
(* The wallets that forget no delegation. *)
Kept == Addr \ {STATE_FEE_WALLET, ZERO_WALLET}

(* The lists of the two sides tell the same delegations. *)
Matched(W) == \A a, b \in Kept :
    /\ Amounts(W[a].delegate_to, b) = Amounts(W[b].delegated_from, a)
    /\ Amounts(W[a].delegate_to_daly_snapshot, b) = Amounts(W[b].delegated_from_daly_snapshot, a)

(* Two wallets with the same lists. *)
SameLists(w, v) ==
    /\ v.delegate_to = w.delegate_to /\ v.delegated_from = w.delegated_from
    /\ v.delegate_to_daly_snapshot = w.delegate_to_daly_snapshot
    /\ v.delegated_from_daly_snapshot = w.delegated_from_daly_snapshot

(* Wallets with the same lists match too. *)
LEMMA SameMatched ==
    ASSUME NEW W, Matched(W), NEW U, \A a \in Kept : SameLists(W[a], U[a])
    PROVE  Matched(U)
BY DEF Matched, SameLists

(* A payment changes no list of the receiver, *)
LEMMA AddLists ==
    ASSUME NEW W, Sound(W), NEW a \in Addr, NEW value, NEW b \in Addr
    PROVE  SameLists(W[b], Add(W, a, value)[b])
BY DEF Sound, Wallet, Add, SameLists

(* and none of the sender. *)
LEMMA SubLists ==
    ASSUME NEW W, Sound(W), NEW tx \in Tx, NEW fee, NEW b \in Addr
    PROVE  SameLists(W[b], Sub(W, tx, fee)[b])
<1> DEFINE v == Pay(W[tx.from], tx.value + fee)
           U == [W EXCEPT ![tx.from] = v]
<1>1. tx.from \in Addr /\ tx.to \in Addr
  BY TxAssumption
<1>2. SameLists(W[tx.from], v) /\ DOMAIN v = DOMAIN W[tx.from]
  BY <1>1 DEF Sound, Wallet, Pay, SameLists
<1>3. Sub(W, tx, fee) = [U EXCEPT ![tx.to].balance = @ + tx.value]
  BY <1>1 DEF Sub, Add, Sound
<1> HIDE DEF v
<1>4. \A a \in Addr : SameLists(W[a], U[a]) /\ DOMAIN U[a] = DOMAIN W[a]
  BY <1>1, <1>2 DEF Sound, SameLists
<1>5. U = [a \in Addr |-> U[a]]
  BY DEF Sound
<1> HIDE DEF U
<1>6. SameLists(U[b], Sub(W, tx, fee)[b])
  BY <1>1, <1>3, <1>5 DEF SameLists
<1>7. QED
  BY <1>4, <1>6 DEF SameLists

(* A delegation is appended to one list of each of the two wallets. *)
LEMMA DelegateLists ==
    ASSUME NEW W, Sound(W), NEW tx \in Tx, NEW V, V = Delegate(W, tx), NEW a \in Addr
    PROVE  /\ V[a].delegate_to = IF a = tx.from THEN Append(W[a].delegate_to, <<tx.to, tx.amount>>)
                                                ELSE W[a].delegate_to
           /\ V[a].delegated_from = IF a = tx.to THEN Append(W[a].delegated_from, <<tx.from, tx.amount>>)
                                                 ELSE W[a].delegated_from
           /\ V[a].delegate_to_daly_snapshot = W[a].delegate_to_daly_snapshot
           /\ V[a].delegated_from_daly_snapshot = W[a].delegated_from_daly_snapshot
<1> DEFINE v == Lend(W[tx.from], tx.to, tx.amount)
           U == [W EXCEPT ![tx.from] = v]
           d == <<tx.to, tx.amount>>
           e == <<tx.from, tx.amount>>
<1>1. tx.from \in Addr /\ tx.to \in Addr
  BY TxAssumption
<1>2. /\ v.delegate_to = Append(W[tx.from].delegate_to, d)
      /\ v.delegated_from = W[tx.from].delegated_from
      /\ v.delegate_to_daly_snapshot = W[tx.from].delegate_to_daly_snapshot
      /\ v.delegated_from_daly_snapshot = W[tx.from].delegated_from_daly_snapshot
      /\ DOMAIN v = DOMAIN W[tx.from]
  <2> HIDE DEF d
  <2>1. W[tx.from] \in Wallet
    BY <1>1 DEF Sound
  <2>2. v = [W[tx.from] EXCEPT !.delegate_to = Append(@, d), !.delegated_to_sum = @ + tx.amount]
    BY DEF Lend, d
  <2>3. QED
    BY <2>1, <2>2 DEF Wallet
<1>3. V = [U EXCEPT ![tx.to] = Borrow(U[tx.to], tx.from, tx.amount)]
  BY <1>1 DEF Delegate, Sound
<1>4. \A b \in Addr : "delegated_from" \in DOMAIN W[b]
  BY DEF Sound, Wallet
<1> HIDE DEF v, d
<1>5. U = [b \in Addr |-> IF b = tx.from THEN v ELSE W[b]]
  BY <1>1 DEF Sound
<1> HIDE DEF U
<1>6. CASE a = tx.to
  <2> HIDE DEF e
  <2>1. V[a] = [U[a] EXCEPT !.delegated_from = Append(@, e), !.delegated_from_sum = @ + tx.amount]
    BY <1>1, <1>3, <1>5, <1>6 DEF Borrow, e
  <2>2. "delegated_from" \in DOMAIN U[a]
    BY <1>1, <1>2, <1>4, <1>5
  <2>3. /\ V[a].delegate_to = U[a].delegate_to
        /\ V[a].delegated_from = Append(U[a].delegated_from, e)
        /\ V[a].delegate_to_daly_snapshot = U[a].delegate_to_daly_snapshot
        /\ V[a].delegated_from_daly_snapshot = U[a].delegated_from_daly_snapshot
    BY <2>1, <2>2
  <2>4. QED
    BY <1>1, <1>2, <1>5, <1>6, <2>3 DEF d, e
<1>7. CASE a # tx.to
  <2>1. V[a] = U[a]
    BY <1>1, <1>3, <1>5, <1>7
  <2>2. QED
    BY <1>1, <1>2, <1>5, <1>7, <2>1 DEF d
<1>8. QED
  BY <1>6, <1>7

(* An undelegation takes one out of each of the two. *)
LEMMA UndelegateLists ==
    ASSUME NEW W, Sound(W), NEW tx \in Tx, NEW V, V = Undelegate(W, tx), NEW a \in Addr
    PROVE  /\ V[a].delegate_to = IF a = tx.from
                THEN RemoveAt(W[a].delegate_to, LastNaming(W[a].delegate_to, tx.to))
                ELSE W[a].delegate_to
           /\ V[a].delegated_from = IF a = tx.to
                THEN RemoveAt(W[a].delegated_from, LastNaming(W[a].delegated_from, tx.from))
                ELSE W[a].delegated_from
           /\ V[a].delegate_to_daly_snapshot = W[a].delegate_to_daly_snapshot
           /\ V[a].delegated_from_daly_snapshot = W[a].delegated_from_daly_snapshot
<1> DEFINE w == W[tx.from]
           i == LastNaming(w.delegate_to, tx.to)
           v == TakeBack(w, tx.to)
           U == [W EXCEPT ![tx.from] = v]
           u == U[tx.to]
           j == LastNaming(u.delegated_from, tx.from)
<1>1. tx.from \in Addr /\ tx.to \in Addr
  BY TxAssumption
<1>2. /\ v.delegate_to = RemoveAt(w.delegate_to, i)
      /\ v.delegated_from = w.delegated_from
      /\ v.delegate_to_daly_snapshot = w.delegate_to_daly_snapshot
      /\ v.delegated_from_daly_snapshot = w.delegated_from_daly_snapshot
      /\ DOMAIN v = DOMAIN w
  <2>1. w \in Wallet
    BY <1>1 DEF Sound
  <2>2. v = [w EXCEPT !.delegated_to_sum = @ - w.delegate_to[i][2],
                      !.delegate_to = RemoveAt(@, i)]
    BY DEF TakeBack
  <2> HIDE DEF i, w, v
  <2>3. QED
    BY <2>1, <2>2 DEF Wallet
<1>3. V = [U EXCEPT ![tx.to] = GiveBack(u, tx.from)]
  BY <1>1 DEF Undelegate, Sound
<1>4. \A b \in Addr : "delegated_from" \in DOMAIN W[b]
  BY DEF Sound, Wallet
<1> HIDE DEF v, i
<1>5. U = [b \in Addr |-> IF b = tx.from THEN v ELSE W[b]]
  BY <1>1 DEF Sound
<1> HIDE DEF U
<1>6. CASE a = tx.to
  <2>1. V[a] = [u EXCEPT !.delegated_from_sum = @ - u.delegated_from[j][2],
                         !.delegated_from = RemoveAt(@, j)]
    BY <1>1, <1>3, <1>5, <1>6 DEF GiveBack
  <2>2. "delegated_from" \in DOMAIN u
    BY <1>1, <1>2, <1>4, <1>5
  <2> HIDE DEF j
  <2>3. /\ V[a].delegate_to = u.delegate_to
        /\ V[a].delegated_from = RemoveAt(u.delegated_from, j)
        /\ V[a].delegate_to_daly_snapshot = u.delegate_to_daly_snapshot
        /\ V[a].delegated_from_daly_snapshot = u.delegated_from_daly_snapshot
    BY <2>1, <2>2
  <2>4. u.delegated_from = W[a].delegated_from
    BY <1>1, <1>2, <1>5, <1>6
  <2>5. j = LastNaming(W[a].delegated_from, tx.from)
    BY <2>4 DEF j
  <2>6. QED
    BY <1>1, <1>2, <1>5, <1>6, <2>3, <2>4, <2>5 DEF i
<1>7. CASE a # tx.to
  <2>1. V[a] = U[a]
    BY <1>1, <1>3, <1>5, <1>7
  <2>2. QED
    BY <1>1, <1>2, <1>5, <1>7, <2>1 DEF i
<1>8. QED
  BY <1>6, <1>7

(* Delegate keeps the two sides telling the same. *)
LEMMA DelegateMatched ==
    ASSUME NEW W, Sound(W), Matched(W), NEW tx \in Tx
    PROVE  Matched(Delegate(W, tx))
<1> DEFINE V == Delegate(W, tx)
           d == <<tx.to, tx.amount>>
           e == <<tx.from, tx.amount>>
<1>1. tx.from \in Addr /\ tx.to \in Addr /\ tx.amount \in Nat
  BY TxAssumption
<1>2. d \in Delegation /\ d[1] = tx.to /\ d[2] = tx.amount
      /\ e \in Delegation /\ e[1] = tx.from /\ e[2] = tx.amount
  BY <1>1 DEF Delegation
<1>3. \A a \in Addr :
        /\ V[a].delegate_to = IF a = tx.from THEN Append(W[a].delegate_to, d) ELSE W[a].delegate_to
        /\ V[a].delegated_from = IF a = tx.to THEN Append(W[a].delegated_from, e)
                                              ELSE W[a].delegated_from
        /\ V[a].delegate_to_daly_snapshot = W[a].delegate_to_daly_snapshot
        /\ V[a].delegated_from_daly_snapshot = W[a].delegated_from_daly_snapshot
  BY DelegateLists
<1>4. \A a \in Addr : W[a].delegate_to \in Seq(Delegation) /\ W[a].delegated_from \in Seq(Delegation)
  BY DEF Sound, Wallet
<1> HIDE DEF V, d, e
<1>5. ASSUME NEW a \in Addr, NEW b
      PROVE  Amounts(V[a].delegate_to, b)
                = IF a = tx.from /\ b = tx.to THEN Append(Amounts(W[a].delegate_to, b), tx.amount)
                                              ELSE Amounts(W[a].delegate_to, b)
  <2>1. Amounts(Append(W[a].delegate_to, d), b)
            = IF d[1] = b THEN Append(Amounts(W[a].delegate_to, b), d[2])
                          ELSE Amounts(W[a].delegate_to, b)
    BY <1>2, <1>4, AmountsAppend
  <2>2. QED
    BY <1>2, <1>3, <2>1
<1>6. ASSUME NEW b \in Addr, NEW a
      PROVE  Amounts(V[b].delegated_from, a)
                = IF b = tx.to /\ a = tx.from THEN Append(Amounts(W[b].delegated_from, a), tx.amount)
                                              ELSE Amounts(W[b].delegated_from, a)
  <2>1. Amounts(Append(W[b].delegated_from, e), a)
            = IF e[1] = a THEN Append(Amounts(W[b].delegated_from, a), e[2])
                          ELSE Amounts(W[b].delegated_from, a)
    BY <1>2, <1>4, AmountsAppend
  <2>2. QED
    BY <1>2, <1>3, <2>1
<1>7. ASSUME NEW a \in Kept, NEW b \in Kept
      PROVE  /\ Amounts(V[a].delegate_to, b) = Amounts(V[b].delegated_from, a)
             /\ Amounts(V[a].delegate_to_daly_snapshot, b)
                    = Amounts(V[b].delegated_from_daly_snapshot, a)
  <2>1. a \in Addr /\ b \in Addr
    BY DEF Kept
  <2>2. QED
    BY <1>3, <1>5, <1>6, <2>1 DEF Matched
<1>8. QED
  BY <1>7 DEF Matched, V

(* So does Undelegate: the last amounts that name one another are equal. *)
LEMMA UndelegateMatched ==
    ASSUME NEW W, Sound(W), Matched(W), NEW tx \in Tx, CanUndelegate(W, tx)
    PROVE  Matched(Undelegate(W, tx))
<1> DEFINE V == Undelegate(W, tx)
           s == W[tx.from].delegate_to
           i == LastNaming(s, tx.to)
           t == W[tx.to].delegated_from
           j == LastNaming(t, tx.from)
<1>1. tx.from \in Addr /\ tx.to \in Addr
  BY TxAssumption
<1>2. s \in Seq(Delegation) /\ t \in Seq(Delegation)
  BY <1>1 DEF Sound, Wallet
<1>3. \A a \in Addr :
        /\ V[a].delegate_to = IF a = tx.from THEN RemoveAt(s, i) ELSE W[a].delegate_to
        /\ V[a].delegated_from = IF a = tx.to THEN RemoveAt(t, j) ELSE W[a].delegated_from
        /\ V[a].delegate_to_daly_snapshot = W[a].delegate_to_daly_snapshot
        /\ V[a].delegated_from_daly_snapshot = W[a].delegated_from_daly_snapshot
  BY UndelegateLists
<1>4. Naming(s, tx.to) # {} /\ Naming(t, tx.from) # {}
  BY DEF CanUndelegate
<1> HIDE DEF V, s, t
<1>5. /\ i \in 1 .. Len(s) /\ s[i][1] = tx.to
      /\ \A k \in 1 .. Len(s) : k > i => s[k][1] # tx.to
  BY <1>2, <1>4, LastNamingIn
<1>6. /\ j \in 1 .. Len(t) /\ t[j][1] = tx.from
      /\ \A k \in 1 .. Len(t) : k > j => t[k][1] # tx.from
  BY <1>2, <1>4, LastNamingIn
<1> HIDE DEF i, j
<1>7. /\ \A b : b # tx.to => Amounts(RemoveAt(s, i), b) = Amounts(s, b)
      /\ RemoveAt(s, i) \in Seq(Delegation) /\ s[i][2] \in Nat
      /\ Amounts(s, tx.to) = Append(Amounts(RemoveAt(s, i), tx.to), s[i][2])
  <2>1. \A b : /\ RemoveAt(s, i) \in Seq(Delegation)
               /\ b # tx.to => Amounts(RemoveAt(s, i), b) = Amounts(s, b)
               /\ s[i][2] \in Nat
               /\ Amounts(s, tx.to) = Append(Amounts(RemoveAt(s, i), tx.to), s[i][2])
    BY <1>2, <1>5, AmountsRemove
  <2>2. QED
    BY <2>1
<1>8. /\ \A a : a # tx.from => Amounts(RemoveAt(t, j), a) = Amounts(t, a)
      /\ RemoveAt(t, j) \in Seq(Delegation) /\ t[j][2] \in Nat
      /\ Amounts(t, tx.from) = Append(Amounts(RemoveAt(t, j), tx.from), t[j][2])
  <2>1. \A a : /\ RemoveAt(t, j) \in Seq(Delegation)
               /\ a # tx.from => Amounts(RemoveAt(t, j), a) = Amounts(t, a)
               /\ t[j][2] \in Nat
               /\ Amounts(t, tx.from) = Append(Amounts(RemoveAt(t, j), tx.from), t[j][2])
    BY <1>2, <1>6, AmountsRemove
  <2>2. QED
    BY <2>1
<1>9. ASSUME Amounts(s, tx.to) = Amounts(t, tx.from)
      PROVE  Amounts(RemoveAt(s, i), tx.to) = Amounts(RemoveAt(t, j), tx.from)
  <2> DEFINE x == Amounts(RemoveAt(s, i), tx.to)
             y == Amounts(RemoveAt(t, j), tx.from)
             p == s[i][2]
             q == t[j][2]
  <2>1. x \in Seq(Nat) /\ y \in Seq(Nat)
    BY <1>7, <1>8, AmountsIn
  <2>2. p \in Nat /\ q \in Nat /\ Append(x, p) = Append(y, q)
    BY <1>7, <1>8, <1>9
  <2> HIDE DEF x, y, p, q
  <2>3. x = y
    BY <2>1, <2>2, AppendedSame
  <2>4. QED
    BY <2>3 DEF x, y
<1>10. ASSUME NEW a \in Kept, NEW b \in Kept
       PROVE  /\ Amounts(V[a].delegate_to, b) = Amounts(V[b].delegated_from, a)
              /\ Amounts(V[a].delegate_to_daly_snapshot, b)
                    = Amounts(V[b].delegated_from_daly_snapshot, a)
  <2>1. a \in Addr /\ b \in Addr
    BY DEF Kept
  <2>2. Amounts(W[a].delegate_to, b) = Amounts(W[b].delegated_from, a)
    BY DEF Matched
  <2>3. Amounts(V[a].delegate_to_daly_snapshot, b) = Amounts(V[b].delegated_from_daly_snapshot, a)
    BY <1>3, <2>1 DEF Matched
  <2>4. CASE a = tx.from /\ b = tx.to
    <3>1. V[a].delegate_to = RemoveAt(s, i) /\ V[b].delegated_from = RemoveAt(t, j)
      BY <1>3, <2>1, <2>4
    <3>2. Amounts(s, tx.to) = Amounts(t, tx.from)
      BY <2>2, <2>4 DEF s, t
    <3>3. QED
      BY <1>9, <2>3, <2>4, <3>1, <3>2
  <2>5. CASE ~(a = tx.from /\ b = tx.to)
    <3>1. Amounts(V[a].delegate_to, b) = Amounts(W[a].delegate_to, b)
      BY <1>3, <1>7, <2>1, <2>5 DEF s
    <3>2. Amounts(V[b].delegated_from, a) = Amounts(W[b].delegated_from, a)
      BY <1>3, <1>8, <2>1, <2>5 DEF t
    <3>3. QED
      BY <2>2, <2>3, <3>1, <3>2
  <2>6. QED
    BY <2>4, <2>5
<1>11. QED
  BY <1>10 DEF Matched, V

(* So does every method that succeeds, *)
LEMMA MethodMatched ==
    ASSUME NEW W, Sound(W), Matched(W), NEW tx \in Tx, CanApplyMethod(W, tx)
    PROVE  Matched(ApplyMethod(W, tx))
<1>1. tx.from \in Addr /\ tx.method \in Method
  BY TxAssumption
<1>2. CASE tx.method = "delegate"
  BY <1>2, DelegateMatched DEF ApplyMethod
<1>3. CASE tx.method = "undelegate"
  BY <1>3, UndelegateMatched DEF ApplyMethod, CanApplyMethod
<1>4. CASE tx.method = "register"
  <2> DEFINE V == ApplyMethod(W, tx)
  <2>1. V = [W EXCEPT ![tx.from].state = tx.roles]
    BY <1>4 DEF ApplyMethod
  <2> HIDE DEF V
  <2>2. \A a \in Addr : SameLists(W[a], V[a])
    BY <1>1, <2>1 DEF Sound, Wallet, SameLists
  <2>3. Matched(V)
    BY <2>2, SameMatched DEF Kept
  <2>4. QED
    BY <2>3 DEF V
<1>5. CASE tx.method = "none"
  BY <1>5 DEF ApplyMethod
<1>6. QED
  BY <1>1, <1>2, <1>3, <1>4, <1>5 DEF Method

(* an entry of a common block, *)
LEMMA ApplyCommonMatched ==
    ASSUME NEW W, Sound(W), Matched(W), NEW entry, entry.tx \in Tx, CommonAccepted(W, entry)
    PROVE  Matched(ApplyCommon(W, entry))
<1> DEFINE tx == entry.tx
           fee == RealFee(tx)
           U == Sub(W, tx, fee)
           V == IF entry.state = "accept" THEN ApplyMethod(U, tx) ELSE U
<1>1. fee \in Nat
  BY TxAssumption, WalletsAssumption DEF RealFee, Excess
<1>2. SubResult(W[tx.from], tx, fee) = 0 /\ (entry.state = "accept" => CanApplyMethod(U, tx))
  BY DEF CommonAccepted
<1> HIDE DEF fee
<1>3. Sound(U)
  BY <1>1, <1>2, SubSound
<1>4. Matched(U)
  BY <1>1, SubLists, SameMatched DEF Kept
<1> HIDE DEF U
<1>5. Sound(V) /\ Matched(V)
  BY <1>2, <1>3, <1>4, ApplyMethodSound, MethodMatched
<1>6. ApplyCommon(W, entry) = Add(V, STATE_FEE_WALLET, fee)
  BY DEF ApplyCommon, U, fee
<1> HIDE DEF V
<1>7. \A b \in Kept : SameLists(V[b], Add(V, STATE_FEE_WALLET, fee)[b])
  BY <1>5, AddLists, WalletsAssumption DEF Kept
<1>8. QED
  BY <1>5, <1>6, <1>7, SameMatched

(* Trust that is revised changes no list. *)
LEMMA TrustLists ==
    ASSUME NEW u, "delegate_to" \in DOMAIN u, "delegated_from" \in DOMAIN u,
           NEW w, w \in {u, AddTrust(u), SubTrust(u)}
    PROVE  /\ w.delegate_to = u.delegate_to /\ w.delegated_from = u.delegated_from
           /\ DOMAIN w = DOMAIN u
<1>1. CASE w = u
  BY <1>1
<1>2. CASE w = AddTrust(u)
  BY <1>2 DEF AddTrust
<1>3. CASE w = SubTrust(u)
  BY <1>3 DEF SubTrust
<1>4. QED
  BY <1>1, <1>2, <1>3

(* a forging block, *)
LEMMA ApplyForgingMatched ==
    ASSUME NEW W, Sound(W), Matched(W), NEW rewards, Payable(rewards)
    PROVE  Matched(ApplyForging(W, rewards))
<1> DEFINE paid == PayRewards(W, rewards)
           total == SumValues({r \in rewards : r.kind # "TEAM"})
           fees == FeesLeft(paid[STATE_FEE_WALLET].balance, total)
           left == Plain(fees, 0)
           settled == [paid EXCEPT ![STATE_FEE_WALLET] = left]
           chosen == {r.to : r \in {q \in rewards : q.kind = "N"}}
           trusted == ReviseTrust(settled, chosen)
           taken == [a \in Addr |-> ApplyDelegates(trusted[a])]
           all == ReviseFlags(taken)
<1>1. ApplyForging(W, rewards) = all
  BY DEF ApplyForging
<1>2. ASSUME NEW a \in Kept
      PROVE  all[a].delegate_to = W[a].delegate_to /\ all[a].delegated_from = W[a].delegated_from
  <2>1. a \in Addr /\ a # STATE_FEE_WALLET
    BY DEF Kept
  <2>2. W[a] \in Wallet
    BY <2>1 DEF Sound
  <2>3. /\ paid[a].delegate_to = W[a].delegate_to /\ paid[a].delegated_from = W[a].delegated_from
        /\ DOMAIN paid[a] = DOMAIN W[a]
    <3> DEFINE value == SumValues({r \in rewards : r.to = a})
    <3>1. paid[a] = [W[a] EXCEPT !.balance = @ + value]
      BY <2>1 DEF PayRewards
    <3> HIDE DEF value, paid
    <3>2. QED
      BY <2>2, <3>1 DEF Wallet
  <2> HIDE DEF paid, left
  <2>4. settled[a] = paid[a]
    BY <2>1
  <2>5. trusted[a] \in {settled[a], AddTrust(settled[a]), SubTrust(settled[a])}
    <3> HIDE DEF settled, chosen
    <3>1. QED
      BY <2>1 DEF ReviseTrust
  <2> HIDE DEF settled
  <2>0. "delegate_to" \in DOMAIN W[a] /\ "delegated_from" \in DOMAIN W[a]
    BY <2>2 DEF Wallet
  <2>6. /\ trusted[a].delegate_to = W[a].delegate_to
        /\ trusted[a].delegated_from = W[a].delegated_from
        /\ DOMAIN trusted[a] = DOMAIN W[a]
    <3> DEFINE u == settled[a]
               w == trusted[a]
    <3>1. "delegate_to" \in DOMAIN u /\ "delegated_from" \in DOMAIN u
      BY <2>3, <2>4, <2>0, Zenon
    <3> HIDE DEF trusted, u, w
    <3>2. w \in {u, AddTrust(u), SubTrust(u)}
      BY <2>5, Zenon DEF u, w
    <3>3. /\ w.delegate_to = u.delegate_to /\ w.delegated_from = u.delegated_from
          /\ DOMAIN w = DOMAIN u
      BY <3>1, <3>2, TrustLists
    <3>4. QED
      BY <2>3, <2>4, <3>3, Zenon DEF u, w
  <2> HIDE DEF trusted
  <2>7. /\ taken[a].delegate_to = W[a].delegate_to
        /\ taken[a].delegated_from = W[a].delegated_from
        /\ {"delegate_to", "delegated_from"} \subseteq DOMAIN taken[a]
    <3>1. taken[a] = ApplyDelegates(trusted[a])
      BY <2>1
    <3> HIDE DEF taken
    <3>2. QED
      BY <2>2, <2>6, <3>1 DEF ApplyDelegates, Wallet
  <2>8. \/ all[a] = CheckCaps([taken[a] EXCEPT !.pretend_common = TRUE], a)
        \/ all[a] = [taken[a] EXCEPT !.pretend_common = FALSE]
    <3> HIDE DEF taken
    <3>1. QED
      BY <2>1 DEF ReviseFlags
  <2> DEFINE t == taken[a]
             v == all[a]
  <2> HIDE DEF taken, all, t, v
  <2>9. /\ {"delegate_to", "delegated_from"} \subseteq DOMAIN t
        /\ t.delegate_to = W[a].delegate_to /\ t.delegated_from = W[a].delegated_from
    BY <2>7 DEF t
  <2>10. v = CheckCaps([t EXCEPT !.pretend_common = TRUE], a) \/ v = [t EXCEPT !.pretend_common = FALSE]
    BY <2>8 DEF t, v
  <2>11. v.delegate_to = t.delegate_to /\ v.delegated_from = t.delegated_from
    BY <2>9, <2>10 DEF CheckCaps
  <2>12. QED
    BY <2>9, <2>11 DEF v
<1>3. \A a \in Kept : Settled(all[a])
  BY <1>1, ApplyForgingSound DEF Kept
<1> HIDE DEF all
<1>4. Matched(all)
  BY <1>2, <1>3 DEF Matched, Settled
<1>5. QED
  BY <1>1, <1>4

(* and the reset of the zero wallet, which is not one of the kept. *)
LEMMA ResetZeroMatched ==
    ASSUME NEW W, Sound(W), Matched(W)
    PROVE  Matched(ResetZero(W))
<1> DEFINE U == ResetZero(W)
<1>1. \A a \in Kept : U[a] = W[a]
  BY DEF ResetZero, Kept, Sound
<1> HIDE DEF U
<1>2. Matched(U)
  BY <1>1, SameMatched DEF SameLists
<1>3. QED
  BY <1>2 DEF U

(* The first state block tells the same on both sides. *)
LEMMA OpeningMatched ==
    ASSUME NEW ts
    PROVE  Matched(ReadState(StateBlock(ts, Opening)).wallets)
<1> DEFINE U == ResetZero(Opening)
           V == [a \in Addr |-> Initialize(StateBlock(ts, Opening).wallets[a])]
<1>1. ASSUME NEW a \in Kept
      PROVE  /\ V[a].delegate_to = Opening[a].delegate_to_daly_snapshot
             /\ V[a].delegated_from = Opening[a].delegated_from_daly_snapshot
             /\ V[a].delegate_to_daly_snapshot = Opening[a].delegate_to_daly_snapshot
             /\ V[a].delegated_from_daly_snapshot = Opening[a].delegated_from_daly_snapshot
  <2>1. a \in Addr
    BY DEF Kept
  <2>2. V[a] = Initialize(Serialize(U[a]))
    BY <2>1, StateWallets
  <2>3. U[a] = Opening[a] /\ Opening[a] \in Wallet
    BY <2>1, OpeningAssumption DEF ResetZero, Kept
  <2> HIDE DEF U, V
  <2>4. QED
    BY <2>2, <2>3, RoundTrip
<1>2. ReadState(StateBlock(ts, Opening)).wallets = V
  BY LedgerWallets DEF ReadState
<1> HIDE DEF V
<1>3. Matched(V)
  BY <1>1, OpeningAssumption DEF Matched, Kept
<1>4. QED
  BY <1>2, <1>3

-----------------------------------------------------------------------------
(* Rewards are together within the sum of the shares they pay. *)
LEMMA ValuesWithin ==
    ASSUME NEW S, IsFiniteSet(S), NEW reward, NEW T, \A t \in T : \E x \in S : t = reward[x],
           NEW share, \A x \in S : share[x] \in Nat /\ reward[x].value = share[x]
    PROVE  SumValues(T) <= SumFunctionOnSet(share, S)
<1> DEFINE f == [r \in T |-> r.value]
<1>1. SumValues(T) = SumFunctionOnSet(f, T)
  BY DEF SumValues, SumFunction
<1>2. \A t \in T : f[t] \in Nat
  OBVIOUS
<1>3. \A x \in S : reward[x] \in T => share[x] = f[reward[x]]
  OBVIOUS
<1>4. \A x \in S : share[x] \in Nat
  OBVIOUS
<1> HIDE DEF f
<1>5. SumFunctionOnSet(f, T) <= SumFunctionOnSet(share, S)
  BY <1>2, <1>3, <1>4, SumImage
<1>6. QED
  BY <1>1, <1>5

(* The pairs of a role and a region. *)
Groups == Role \X {Region[a] : a \in Addr}

(* There are at most fifteen. *)
LEMMA FifteenGroups == IsFiniteSet(Groups) /\ Cardinality(Groups) \in 0..15
<1> DEFINE R == {Region[a] : a \in Addr}
           n == Cardinality(Role)
           m == Cardinality(R)
<1>1. IsFiniteSet(R)
  <2>1. IsFiniteSet(Addr) /\ \A r \in R : \E a \in Addr : r = Region[a]
    BY ForgingAssumption
  <2> HIDE DEF R
  <2>2. QED
    BY <2>1, ImageFinite
<1>2. n \in Nat /\ n <= 5
  BY ForgingAssumption, ShareAssumption, FS_CardinalityType
<1>3. m \in Nat /\ m <= 3
  BY <1>1, ShareAssumption, FS_CardinalityType
<1>4. IsFiniteSet(Groups) /\ Cardinality(Groups) = n * m
  BY <1>1, ForgingAssumption, FS_Product DEF Groups
<1> HIDE DEF n, m
<1>5. n * m \in 0..15
  <2>1. n \in {0, 1, 2, 3, 4, 5}
    BY <1>2
  <2>2. QED
    BY <1>3, <2>1
<1>6. QED
  BY <1>4, <1>5

(* The nodes get at most a tenth of the pool, and a fiftieth per role and region. *)
LEMMA NodeRewardsWithin ==
    ASSUME NEW W, Sound(W), NEW statistics \in SUBSET (Role \X Addr),
           NEW choice \in RoleChoices(W, statistics), NEW pool \in Nat
    PROVE  SumValues(NodeRewards(W, pool, choice))
                <= (pool * 10) \div 100 + ((pool * 2) \div 100) * 15
<1> DEFINE C == DOMAIN choice
           u == [b \in C |-> Units(W, choice, b)]
           peers(a) == {b \in C : choice[b] = choice[a] /\ Region[b] = Region[a]}
           units(A) == SumFunction([b \in A |-> Units(W, choice, b)])
           share(coins, a, A) == (coins * Units(W, choice, a)) \div units(A)
           tenth == (pool * 10) \div 100
           fiftieth == (pool * 2) \div 100
           all == [a \in C |-> share(tenth, a, C)]
           near == [a \in C |-> share(fiftieth, a, peers(a))]
           value == [a \in C |-> share(tenth, a, C) + share(fiftieth, a, peers(a))]
           reward == [a \in C |-> Reward(a, share(tenth, a, C) + share(fiftieth, a, peers(a)), "N")]
           T == {Reward(a, share(tenth, a, C) + share(fiftieth, a, peers(a)), "N") : a \in C}
<1>1. /\ C \in SUBSET Addr /\ IsFiniteSet(C) /\ choice \in [C -> Role]
      /\ \A a \in C : u[a] \in Nat \ {0}
  BY ChosenCount
<1>2. tenth \in Nat /\ fiftieth \in Nat
  OBVIOUS
<1>3. ASSUME NEW A \in SUBSET C
      PROVE  units(A) = SumFunctionOnSet(u, A)
  <2> DEFINE f == [b \in A |-> Units(W, choice, b)]
  <2>1. units(A) = SumFunctionOnSet(f, A)
    BY DEF SumFunction
  <2>2. \A b \in A : f[b] = u[b]
    OBVIOUS
  <2>3. IsFiniteSet(A)
    BY <1>1, FS_Subset
  <2> HIDE DEF f, u
  <2>4. SumFunctionOnSet(f, A) = SumFunctionOnSet(u, A)
    BY <2>2, <2>3, SumCongruent
  <2>5. QED
    BY <2>1, <2>4
<1>4. ASSUME NEW A \in SUBSET C, NEW coins \in Nat,
             NEW q, \A a \in A : q[a] = share(coins, a, A)
      PROVE  /\ \A a \in A : q[a] \in Nat
             /\ SumFunctionOnSet(q, A) \in Nat /\ SumFunctionOnSet(q, A) <= coins
  <2>1. IsFiniteSet(A)
    BY <1>1, FS_Subset
  <2>2. CASE A = {}
    BY <2>2, SumEmpty
  <2>3. CASE A # {}
    <3> DEFINE total == units(A)
    <3>1. total = SumFunctionOnSet(u, A)
      BY <1>3
    <3>2. PICK a \in A : u[a] # 0
      BY <1>1, <2>3
    <3>3. \A b \in A : u[b] \in Nat
      BY <1>1
    <3>4. \A b \in A : q[b] = (coins * u[b]) \div total
      BY <1>4
    <3> HIDE DEF u, total
    <3>5. total \in Nat \ {0}
      BY <2>1, <3>1, <3>2, <3>3, SumPositive
    <3>6. QED
      BY <2>1, <3>1, <3>3, <3>4, <3>5, SharesWithin
  <2>4. QED
    BY <2>2, <2>3
<1> HIDE DEF units, u, tenth, fiftieth
<1>5. /\ \A a \in C : all[a] \in Nat
      /\ SumFunctionOnSet(all, C) \in Nat /\ SumFunctionOnSet(all, C) <= tenth
  <2>1. \A a \in C : all[a] = share(tenth, a, C)
    OBVIOUS
  <2> HIDE DEF all, share
  <2>2. QED
    BY <1>2, <1>4, <2>1
<1> DEFINE kind == [a \in C |-> <<choice[a], Region[a]>>]
           of(k) == {a \in C : kind[a] = k}
           sums == KindSums(near, C, kind, Groups)
<1>6. ASSUME NEW k
      PROVE  /\ \A a \in of(k) : near[a] \in Nat
             /\ SumFunctionOnSet(near, of(k)) \in Nat
             /\ SumFunctionOnSet(near, of(k)) <= fiftieth
  <2>1. \A a \in of(k) : peers(a) = of(k)
    OBVIOUS
  <2>2. \A a \in of(k) : near[a] = share(fiftieth, a, peers(a))
    OBVIOUS
  <2>3. of(k) \in SUBSET C
    OBVIOUS
  <2> HIDE DEF near, of, share, peers
  <2>4. \A a \in of(k) : near[a] = share(fiftieth, a, of(k))
    BY <2>1, <2>2
  <2>5. QED
    BY <1>2, <1>4, <2>3, <2>4
<1>7. \A a \in C : near[a] \in Nat
  <2>1. \A a \in C : a \in of(kind[a])
    OBVIOUS
  <2> HIDE DEF near, of, kind
  <2>2. QED
    BY <1>6, <2>1
<1>8. \A a \in C : kind[a] \in Groups
  BY <1>1 DEF Groups
<1>10. \A k \in Groups : sums[k] \in Nat /\ sums[k] <= fiftieth
  <2>1. \A k \in Groups : sums[k] = SumFunctionOnSet(near, of(k))
    BY DEF KindSums
  <2> HIDE DEF sums, near, of
  <2>2. QED
    BY <1>6, <2>1
<1> HIDE DEF kind, near, all
<1>11. SumFunctionOnSet(sums, Groups) = SumFunctionOnSet(near, C)
  <2>1. \A a \in C : near[a] \in Int
    BY <1>7
  <2>2. IsFiniteSet(Groups)
    BY FifteenGroups
  <2>3. IsFiniteSet(C)
    BY <1>1
  <2> HIDE DEF C
  <2>4. QED
    BY <1>8, <2>1, <2>2, <2>3, SumByKind
<1> HIDE DEF sums
<1>12. SumFunctionOnSet(sums, Groups) <= fiftieth * 15
  <2> DEFINE n == Cardinality(Groups)
  <2>1. \A k \in Groups : sums[k] \in Int /\ sums[k] <= fiftieth
    BY <1>10
  <2>2. SumFunctionOnSet(sums, Groups) <= fiftieth * n
    BY <1>2, <2>1, FifteenGroups, SumBound
  <2>3. n \in 0..15
    BY FifteenGroups
  <2>4. SumFunctionOnSet(sums, Groups) \in Nat
    BY <1>10, FifteenGroups, SumNat
  <2> HIDE DEF n
  <2>5. fiftieth * n <= fiftieth * 15 /\ fiftieth * n \in Nat
    BY <1>2, <2>3
  <2>6. QED
    BY <1>2, <2>2, <2>4, <2>5
<1>13. \A a \in C : value[a] = all[a] + near[a]
  BY DEF all, near
<1>14. \A a \in C : value[a] \in Nat
  BY <1>5, <1>7, <1>13
<1>15. \A a \in C : reward[a].value = value[a]
  BY DEF Reward
<1>16. \A t \in T : \E a \in C : t = reward[a]
  OBVIOUS
<1>17. NodeRewards(W, pool, choice) = T
  BY DEF NodeRewards, units, tenth, fiftieth
<1> HIDE DEF T, reward, value
<1>18. SumValues(T) <= SumFunctionOnSet(value, C)
  BY <1>1, <1>14, <1>15, <1>16, ValuesWithin
<1>19. SumFunctionOnSet(value, C) = SumFunctionOnSet(all, C) + SumFunctionOnSet(near, C)
  <2>1. \A a \in C : all[a] \in Int /\ near[a] \in Int /\ value[a] = all[a] + near[a]
    BY <1>5, <1>7, <1>13
  <2>2. QED
    BY <1>1, <2>1, SumPlus
<1>20. SumFunctionOnSet(near, C) \in Nat
  BY <1>1, <1>7, SumNat
<1>21. Payable(T)
  BY <1>17, NodeRewardsPayable
<1>22. SumValues(T) \in Nat
  BY <1>21, ValuesNat
<1>23. QED
  BY <1>2, <1>5, <1>11, <1>12, <1>17, <1>18, <1>19, <1>20, <1>22 DEF tenth, fiftieth

(* Those who delegated to the nodes get at most half of the pool, *)
LEMMA CoinRewardsWithin ==
    ASSUME NEW W, Sound(W), NEW statistics \in SUBSET (Role \X Addr),
           NEW choice \in RoleChoices(W, statistics), NEW pool \in Nat
    PROVE  SumValues(CoinRewards(W, pool, choice)) <= (pool * 50) \div 100
<1> DEFINE C == DOMAIN choice
           list(a) == W[a].delegated_from_daly_snapshot
           D == [a \in C |-> DOMAIN list(a)]
           places == UNION {{a} \X DOMAIN list(a) : a \in C}
           count(p) == Counted(list(p[1]), NODE_HARD_CAP[choice[p[1]]])[p[2]]
           units(P) == SumFunction([p \in P |-> count(p)])
           from(d) == {p \in places : list(p[1])[p[2]][1] = d}
           half == (pool * 50) \div 100
           paid == IF units(places) = 0 THEN {} ELSE places
           to(p) == list(p[1])[p[2]][1]
           value(d) == (half * units(from(d))) \div units(places)
           T == {Reward(d, value(d), "C") : d \in {to(p) : p \in paid}}
           f == [p \in places |-> count(p)]
           kind == [p \in places |-> to(p)]
           who == {to(p) : p \in places}
           u == KindSums(f, places, kind, who)
           share == [d \in who |-> value(d)]
           reward == [d \in who |-> Reward(d, value(d), "C")]
<1>1. /\ C \in SUBSET Addr /\ IsFiniteSet(C)
      /\ \A a \in C : NODE_HARD_CAP[choice[a]] \in Nat
  BY ChosenCount
<1>2. \A a \in C : list(a) \in Seq(Delegation)
  BY <1>1 DEF Sound, Good, Wallet
<1>3. IsFiniteSet(places)
  <2>1. \A a \in C : IsFiniteSet(D[a])
    <3> SUFFICES ASSUME NEW a \in C PROVE IsFiniteSet(DOMAIN list(a))
      OBVIOUS
    <3>1. DOMAIN list(a) = 1 .. Len(list(a)) /\ IsFiniteSet(1 .. Len(list(a)))
      BY <1>2, CoinNat, LenProperties
    <3>2. QED
      BY <3>1
  <2>2. places = UNION {{a} \X D[a] : a \in C}
    OBVIOUS
  <2> HIDE DEF D
  <2>3. IsFiniteSet(UNION {{a} \X D[a] : a \in C})
    BY <1>1, <2>1, PairsFinite
  <2> HIDE DEF places
  <2>4. QED
    BY <2>2, <2>3
<1>4. \A p \in places : f[p] \in Nat
  <2> SUFFICES ASSUME NEW p \in places PROVE count(p) \in Nat
    OBVIOUS
  <2>1. p[1] \in C /\ p[2] \in DOMAIN list(p[1])
    OBVIOUS
  <2> HIDE DEF places
  <2> DEFINE l == list(p[1])
  <2>2. l \in Seq(Delegation) /\ p[2] \in DOMAIN l
    BY <1>2, <2>1
  <2>3. NODE_HARD_CAP[choice[p[1]]] \in Nat
    BY <1>1, <2>1
  <2> HIDE DEF l
  <2>4. Counted(l, NODE_HARD_CAP[choice[p[1]]])[p[2]] \in Nat
    BY <2>2, <2>3, CountedNat
  <2>5. QED
    BY <2>4 DEF l
<1>5. ASSUME NEW P \in SUBSET places
      PROVE  units(P) = SumFunctionOnSet(f, P) /\ units(P) \in Nat
  <2> DEFINE g == [p \in P |-> count(p)]
  <2>1. IsFiniteSet(P)
    BY <1>3, FS_Subset
  <2>2. \A p \in P : g[p] = f[p]
    OBVIOUS
  <2>3. units(P) = SumFunctionOnSet(g, P)
    BY DEF SumFunction
  <2> HIDE DEF g, f, units
  <2>4. SumFunctionOnSet(g, P) = SumFunctionOnSet(f, P)
    BY <2>1, <2>2, SumCongruent
  <2>5. SumFunctionOnSet(f, P) \in Nat
    BY <1>4, <2>1, SumNat
  <2>6. QED
    BY <2>3, <2>4, <2>5
<1>6. half \in Nat
  BY Quotient
<1>7. CoinRewards(W, pool, choice) = T
  BY DEF CoinRewards
<1>8. IsFiniteSet(who)
  <2>1. \A d \in who : \E p \in places : d = kind[p]
    OBVIOUS
  <2> HIDE DEF who, kind, places
  <2>2. QED
    BY <1>3, <2>1, ImageFinite
<1>9. \A p \in places : kind[p] \in who
  OBVIOUS
<1>10. \A d \in who : u[d] = units(from(d)) /\ u[d] \in Nat
  <2> SUFFICES ASSUME NEW d \in who PROVE u[d] = units(from(d)) /\ u[d] \in Nat
    OBVIOUS
  <2>1. u[d] = SumFunctionOnSet(f, {p \in places : kind[p] = d})
    BY DEF KindSums
  <2>2. {p \in places : kind[p] = d} = from(d)
    OBVIOUS
  <2>3. from(d) \in SUBSET places
    OBVIOUS
  <2> HIDE DEF from, units, u, kind, f, places
  <2>4. QED
    BY <1>5, <2>1, <2>2, <2>3
<1>11. T = {} \/ units(places) # 0
  OBVIOUS
<1>12. \A d \in who : share[d] = (half * units(from(d))) \div units(places)
  OBVIOUS
<1>13. \A d \in who : reward[d].value = share[d]
  BY DEF Reward
<1>14. \A t \in T : \E d \in who : t = reward[d]
  <2>1. \A p \in paid : to(p) \in who
    OBVIOUS
  <2> HIDE DEF paid, to, value, who
  <2>2. QED
    BY <2>1
<1>15. SumValues({}) = 0
  BY SumEmpty DEF SumValues, SumFunction
<1>16. units(places) = SumFunctionOnSet(f, places) /\ units(places) \in Nat
  <2>1. places \in SUBSET places
    OBVIOUS
  <2> HIDE DEF places, units, f
  <2>2. QED
    BY <1>5, <2>1
<1> HIDE DEF T, share, reward, half, f, kind, who, units, from, places, to
<1>17. SumFunctionOnSet(u, who) = SumFunctionOnSet(f, places)
  <2>1. \A p \in places : f[p] \in Int
    BY <1>4
  <2>2. QED
    BY <1>3, <1>8, <1>9, <2>1, SumByKind
<1> HIDE DEF u
<1>18. CASE units(places) = 0
  <2>1. T = {}
    BY <1>11, <1>18
  <2>2. SumValues(T) = 0
    BY <1>15, <2>1
  <2>3. QED
    BY <1>6, <1>7, <2>2 DEF half
<1>19. CASE units(places) # 0
  <2> DEFINE total == units(places)
  <2>1. total \in Nat \ {0} /\ total = SumFunctionOnSet(u, who)
    BY <1>16, <1>17, <1>19
  <2>2. \A d \in who : u[d] \in Nat /\ share[d] = (half * u[d]) \div total
    BY <1>10, <1>12
  <2> HIDE DEF total
  <2>3. /\ \A d \in who : share[d] \in Nat
        /\ SumFunctionOnSet(share, who) \in Nat /\ SumFunctionOnSet(share, who) <= half
    BY <1>6, <1>8, <2>1, <2>2, SharesWithin
  <2>4. SumValues(T) <= SumFunctionOnSet(share, who)
    BY <1>8, <1>13, <1>14, <2>3, ValuesWithin
  <2>5. SumValues(T) \in Nat
    BY <1>7, CoinRewardsPayable, ValuesNat
  <2>6. QED
    BY <1>6, <1>7, <2>3, <2>4, <2>5 DEF half
<1>20. QED
  BY <1>18, <1>19

(* the wallets that were seen at most a hundredth, *)
LEMMA WalletRewardsWithin ==
    ASSUME NEW pool \in Nat, NEW answer \in Answers
    PROVE  SumValues(WalletRewards(pool, answer.passive)) <= ((pool * 10) \div 100) \div 10
<1> DEFINE passive == answer.passive
           A == DOMAIN passive
           shares == SumFunction(passive)
           coins == ((pool * 10) \div 100) \div 10
           per_share == coins \div shares
           T == {Reward(a, passive[a] * per_share, "W") : a \in A}
           share == [a \in A |-> passive[a] * per_share]
           reward == [a \in A |-> Reward(a, passive[a] * per_share, "W")]
<1>1. A \in SUBSET Addr /\ \A a \in A : passive[a] \in Nat \ {0}
  BY ForgingAssumption
<1>2. IsFiniteSet(A)
  BY <1>1, ForgingAssumption, FS_Subset
<1>3. coins \in Nat
  OBVIOUS
<1>4. shares = SumFunctionOnSet(passive, A)
  BY DEF SumFunction
<1>5. WalletRewards(pool, answer.passive) = T
  BY DEF WalletRewards
<1>6. SumValues({}) = 0
  BY SumEmpty DEF SumValues, SumFunction
<1>7. A = {} => T = {}
  OBVIOUS
<1>8. /\ \A a \in A : reward[a].value = share[a] /\ share[a] = passive[a] * per_share
      /\ \A t \in T : \E a \in A : t = reward[a]
  BY DEF Reward
<1> HIDE DEF coins, shares, T, share, reward
<1>9. CASE A = {}
  BY <1>3, <1>5, <1>6, <1>7, <1>9 DEF coins
<1>10. CASE A # {}
  <2>1. PICK a \in A : TRUE
    BY <1>10
  <2>2. \A b \in A : passive[b] \in Nat
    BY <1>1
  <2>3. passive[a] # 0
    BY <1>1
  <2>4. shares \in Nat \ {0}
    <3> HIDE DEF passive, A
    <3>1. QED
      BY <1>2, <1>4, <2>2, <2>3, SumPositive
  <2>5. per_share \in Nat /\ shares * per_share <= coins
    BY <1>3, <2>4, DivBound
  <2> HIDE DEF per_share, passive, A
  <2>6. \A b \in A : share[b] \in Nat
    <3> SUFFICES ASSUME NEW b \in A PROVE share[b] \in Nat
      OBVIOUS
    <3> DEFINE x == passive[b]
    <3>1. x \in Nat /\ share[b] = x * per_share
      BY <1>8, <2>2
    <3> HIDE DEF x
    <3>2. QED
      BY <2>5, <3>1
  <2>7. SumFunctionOnSet(share, A) = shares * per_share
    <3>1. \A b \in A : passive[b] \in Int /\ share[b] = passive[b] * per_share
      BY <1>8, <2>2
    <3>2. QED
      BY <1>2, <1>4, <2>5, <3>1, SumTimes
  <2>8. SumValues(T) <= SumFunctionOnSet(share, A)
    BY <1>2, <1>8, <2>6, ValuesWithin
  <2>9. SumValues(T) \in Nat
    BY <1>5, WalletRewardsPayable, ValuesNat
  <2>10. SumFunctionOnSet(share, A) \in Nat
    BY <1>2, <2>6, SumNat
  <2>11. QED
    BY <1>3, <1>5, <2>5, <2>7, <2>8, <2>9, <2>10 DEF coins
<1>11. QED
  BY <1>9, <1>10

(* The sum of no more than k numbers that are equal. *)
LEMMA SumEqual ==
    ASSUME NEW S, IsFiniteSet(S), NEW k \in Nat, Cardinality(S) <= k,
           NEW c \in Nat, NEW f, \A x \in S : f[x] = c
    PROVE  SumFunctionOnSet(f, S) \in Nat /\ SumFunctionOnSet(f, S) <= c * k
<1> DEFINE n == Cardinality(S)
<1>1. n \in Nat /\ n <= k
  BY FS_CardinalityType
<1>2. \A x \in S : f[x] \in Int /\ f[x] \in Nat /\ f[x] <= c
  OBVIOUS
<1>3. SumFunctionOnSet(f, S) <= c * n
  BY <1>2, SumBound
<1>4. SumFunctionOnSet(f, S) \in Nat
  BY <1>2, SumNat
<1> HIDE DEF n
<1>5. c * n <= c * k
  <2>1. PICK d \in Nat : k = n + d
    <3>1. k - n \in Nat /\ k = n + (k - n)
      BY <1>1
    <3>2. QED
      BY <3>1
  <2>2. c * (n + d) = c * n + c * d /\ c * d \in Nat
    BY <1>1
  <2>3. c * n \in Nat
    BY <1>1
  <2>4. QED
    BY <2>1, <2>2, <2>3
<1>6. c * n \in Int /\ c * k \in Int
  BY <1>1
<1>7. QED
  BY <1>3, <1>4, <1>5, <1>6

(* The first five places get at most 6250 parts in ten thousand. *)
LEMMA FirstPlaces ==
    ASSUME NEW total \in Nat, NEW f, \A i \in 1..5 : f[i] = Place(total, i)
    PROVE  /\ SumFunctionOnSet(f, 1..5) \in Nat
           /\ 10000 * SumFunctionOnSet(f, 1..5) <= 6250 * total
<1>1. /\ f[1] = (total * 4) \div 10 /\ f[2] = total \div 10 /\ f[3] = (total * 5) \div 100
      /\ f[4] = (total * 415) \div 10000 /\ f[5] = (total * 335) \div 10000
  BY DEF Place
<1>2. /\ f[1] \in Nat /\ 10 * f[1] <= total * 4
      /\ f[2] \in Nat /\ 10 * f[2] <= total
      /\ f[3] \in Nat /\ 100 * f[3] <= total * 5
      /\ f[4] \in Nat /\ 10000 * f[4] <= total * 415
      /\ f[5] \in Nat /\ 10000 * f[5] <= total * 335
  BY <1>1
<1>3. \A n \in 1..5 : \A i \in 1..n : f[i] \in Int
  BY <1>2
<1>4. \A n \in Nat : IsFiniteSet(1..n)
  BY CountTo
<1>5. \A n \in 0..4 : SumFunctionOnSet(f, 1..(n + 1)) = SumFunctionOnSet(f, 1..n) + f[n + 1]
  <2> SUFFICES ASSUME NEW n \in 0..4
               PROVE  SumFunctionOnSet(f, 1..(n + 1)) = SumFunctionOnSet(f, 1..n) + f[n + 1]
    OBVIOUS
  <2> DEFINE S == 1..n
             x == n + 1
  <2>1. S \cup {x} = 1..(n + 1) /\ x \notin S
    OBVIOUS
  <2>2. \A y \in S \cup {x} : f[y] \in Int
    <3>1. n + 1 \in 1..5
      OBVIOUS
    <3>2. QED
      BY <1>3, <2>1, <3>1
  <2>3. IsFiniteSet(S)
    BY <1>4
  <2> HIDE DEF S, x
  <2>4. SumFunctionOnSet(f, S \cup {x}) = SumFunctionOnSet(f, S) + f[x]
    BY <2>1, <2>2, <2>3, SumAdd
  <2>5. QED
    BY <2>1, <2>4 DEF S, x
<1>6. SumFunctionOnSet(f, 1..0) = 0
  <2>1. 1..0 = {}
    OBVIOUS
  <2>2. QED
    BY <2>1, SumEmpty
<1>7. SumFunctionOnSet(f, 1..1) = f[1]
  <2>1. SumFunctionOnSet(f, 1..(0 + 1)) = SumFunctionOnSet(f, 1..0) + f[0 + 1]
    BY <1>5
  <2>2. QED
    BY <1>2, <1>6, <2>1
<1>8. SumFunctionOnSet(f, 1..2) = f[1] + f[2]
  <2>1. SumFunctionOnSet(f, 1..(1 + 1)) = SumFunctionOnSet(f, 1..1) + f[1 + 1]
    BY <1>5
  <2>2. QED
    BY <1>2, <1>7, <2>1
<1>9. SumFunctionOnSet(f, 1..3) = f[1] + f[2] + f[3]
  <2>1. SumFunctionOnSet(f, 1..(2 + 1)) = SumFunctionOnSet(f, 1..2) + f[2 + 1]
    BY <1>5
  <2>2. QED
    BY <1>2, <1>8, <2>1
<1>10. SumFunctionOnSet(f, 1..4) = f[1] + f[2] + f[3] + f[4]
  <2>1. SumFunctionOnSet(f, 1..(3 + 1)) = SumFunctionOnSet(f, 1..3) + f[3 + 1]
    BY <1>5
  <2>2. QED
    BY <1>2, <1>9, <2>1
<1>11. SumFunctionOnSet(f, 1..5) = f[1] + f[2] + f[3] + f[4] + f[5]
  <2>1. SumFunctionOnSet(f, 1..(4 + 1)) = SumFunctionOnSet(f, 1..4) + f[4 + 1]
    BY <1>5
  <2>2. QED
    BY <1>2, <1>10, <2>1
<1>12. QED
  BY <1>2, <1>11

(* A range of numbers. *)
LEMMA Span ==
    ASSUME NEW a \in Int, NEW b \in Int
    PROVE  IsFiniteSet(a..b) /\ Cardinality(a..b) = IF a > b THEN 0 ELSE b - a + 1
BY FS_Interval

(* The places of the lottery. *)
Places(total) == [i \in Prizes |-> Place(total, i)]

(* The places that are won and what is left of the others, nine tenths. *)
LEMMA LotteryWithin ==
    ASSUME NEW total \in Nat, NEW n \in Nat \ {0}
    PROVE  10 * (SumFunctionOnSet(Places(total), 1..n \cap Prizes) + Bank(total, n)) <= 9 * total
<1> DEFINE f == Places(total)
<1>0. \A i \in Prizes : f[i] = Place(total, i)
  BY DEF Places
<1> HIDE DEF f
<1> DEFINE I == 1..n \cap Prizes
           I1 == 1..n \cap 1..5
           I2 == 1..n \cap 6..100
           I3 == 1..n \cap 101..1000
           R == (n + 1)..5
           x == Place(total, 6)
           y == Place(total, 101)
           k == IF n >= 6 THEN Max({0, 100 - n}) ELSE 94
           l == Max({0, 1000 - Max({n, 100})})
           k2 == IF n < 6 THEN 0 ELSE IF n <= 100 THEN n - 5 ELSE 95
           k3 == IF n <= 100 THEN 0 ELSE IF n <= 1000 THEN n - 100 ELSE 900
<1>1. x \in Nat /\ 1000 * x <= total /\ y \in Nat /\ 10000 * y <= 2 * total
  BY DEF Place
<1>2. I = (I1 \cup I2) \cup I3 /\ I1 \cap I2 = {} /\ (I1 \cup I2) \cap I3 = {}
  BY DEF Prizes
<1>3. 1..5 = I1 \cup R /\ I1 \cap R = {}
  OBVIOUS
<1>4. IsFiniteSet(1..5) /\ IsFiniteSet(R) /\ IsFiniteSet(6..100) /\ IsFiniteSet(101..1000)
  <2>2. \A a, b \in Int : IsFiniteSet(a..b)
    BY Span
  <2>3. QED
    <3> DEFINE a == 1
               b == 5
               c == n + 1
               d == 6
               e == 100
               g == 101
               h == 1000
    <3>1. a \in Int /\ b \in Int /\ c \in Int /\ d \in Int /\ e \in Int /\ g \in Int /\ h \in Int
      OBVIOUS
    <3>2. R = c..b
      OBVIOUS
    <3> HIDE DEF a, b, c, d, e, g, h, R
    <3>3. IsFiniteSet(a..b) /\ IsFiniteSet(R) /\ IsFiniteSet(d..e) /\ IsFiniteSet(g..h)
      BY <2>2, <3>1, <3>2
    <3>4. QED
      BY <3>3 DEF a, b, d, e, g, h
<1>5. IsFiniteSet(I1) /\ IsFiniteSet(I2) /\ IsFiniteSet(I3)
  <2> DEFINE A == 1..5
             B == 6..100
             D == 101..1000
  <2>1. I1 \in SUBSET A /\ I2 \in SUBSET B /\ I3 \in SUBSET D
    OBVIOUS
  <2>2. IsFiniteSet(A) /\ IsFiniteSet(B) /\ IsFiniteSet(D)
    BY <1>4
  <2> HIDE DEF I1, I2, I3, A, B, D
  <2>3. QED
    BY <2>1, <2>2, FS_Subset
<1>12. k2 \in Nat /\ k3 \in Nat
  OBVIOUS
<1>6. Cardinality(I2) <= k2
  <2> DEFINE m == IF n <= 100 THEN n ELSE 100
             a == 6
  <2>1. I2 = a..m /\ a \in Int /\ m \in Int
    OBVIOUS
  <2>2. k2 = IF a > m THEN 0 ELSE m - a + 1
    OBVIOUS
  <2> HIDE DEF m, a, I2, k2
  <2>3. Cardinality(a..m) = IF a > m THEN 0 ELSE m - a + 1
    BY <2>1, Span, Zenon
  <2>4. Cardinality(I2) = k2
    BY <2>1, <2>2, <2>3
  <2>5. QED
    BY <1>12, <2>4
<1>7. Cardinality(I3) <= k3
  <2> DEFINE m == IF n <= 1000 THEN n ELSE 1000
             a == 101
  <2>1. I3 = a..m /\ a \in Int /\ m \in Int
    OBVIOUS
  <2>2. k3 = IF a > m THEN 0 ELSE m - a + 1
    OBVIOUS
  <2> HIDE DEF m, a, I3, k3
  <2>3. Cardinality(a..m) = IF a > m THEN 0 ELSE m - a + 1
    BY <2>1, Span, Zenon
  <2>4. Cardinality(I3) = k3
    BY <2>1, <2>2, <2>3
  <2>5. QED
    BY <1>12, <2>4
<1>9. \A i \in Prizes : f[i] \in Nat
  <2> SUFFICES ASSUME NEW i \in Prizes PROVE f[i] \in Nat
    OBVIOUS
  <2>1. f[i] = Place(total, i)
    BY <1>0, Zenon
  <2>2. Place(total, i) \in Nat
    BY PlaceNat
  <2>3. QED
    BY <2>1, <2>2, Zenon
<1>10. I1 \subseteq Prizes /\ I2 \subseteq Prizes /\ I3 \subseteq Prizes /\ R \subseteq Prizes
  BY DEF Prizes
<1>8. /\ \A i \in I2 : f[i] = x
      /\ \A i \in I3 : f[i] = y
  <2> DEFINE M == 6..100
             N == 101..1000
  <2>1. \A i \in M : Place(total, i) = total \div 1000
    BY MiddlePlace
  <2>2. \A i \in N : Place(total, i) = (total * 2) \div 10000
    BY LastPlace
  <2>3. 6 \in M /\ 101 \in N
    OBVIOUS
  <2>4. I2 \subseteq M /\ I3 \subseteq N
    OBVIOUS
  <2> HIDE DEF I2, I3, M, N, x, y
  <2>5. x = total \div 1000 /\ y = (total * 2) \div 10000
    BY <2>1, <2>2, <2>3 DEF x, y
  <2>6. (\A i \in I2 : Place(total, i) = x) /\ (\A i \in I3 : Place(total, i) = y)
    BY <2>1, <2>2, <2>4, <2>5
  <2>7. QED
    BY <1>0, <1>10, <2>6
<1>11. Bank(total, n) = SumFunctionOnSet(f, R) + x * k + y * l
  <2> DEFINE g == [i \in R |-> Place(total, i)]
  <2>1. SumFunction(g) = SumFunctionOnSet(g, R)
    BY DEF SumFunction
  <2>2. \A i \in R : g[i] = f[i]
    BY <1>0, <1>10
  <2>3. Bank(total, n) = SumFunction(g) + x * k + y * l
    BY DEF Bank
  <2> HIDE DEF g, R, x, y, k, l
  <2>4. SumFunctionOnSet(g, R) = SumFunctionOnSet(f, R)
    BY <1>4, <2>2, SumCongruent
  <2>5. QED
    BY <2>1, <2>3, <2>4
<1>13. k \in Nat /\ l \in Nat /\ k2 + k <= 95 /\ k3 + l <= 900
  <2> DEFINE z == 0
             h == 100
             c == 100 - n
             j == IF n >= 100 THEN n ELSE 100
             d == 1000 - j
  <2>1. z \in Int /\ h \in Int /\ c \in Int /\ d \in Int /\ n \in Int
    OBVIOUS
  <2>2. k = IF n >= 6 THEN Max({z, c}) ELSE 94
    OBVIOUS
  <2>3. l = Max({z, 1000 - Max({n, h})})
    OBVIOUS
  <2>4. Max({n, h}) = j
    <3> HIDE DEF h
    <3>1. Max({n, h}) = IF n >= h THEN n ELSE h
      BY <2>1, MaxOfTwo
    <3>2. QED
      BY <3>1 DEF h
  <2>5. l = Max({z, d})
    <3> HIDE DEF l, z, h, j
    <3>1. QED
      BY <2>3, <2>4 DEF d
  <2> HIDE DEF k, l
  <2>6. k = IF n >= 6 THEN (IF z >= c THEN z ELSE c) ELSE 94
    <3> HIDE DEF z, c
    <3>1. Max({z, c}) = IF z >= c THEN z ELSE c
      BY <2>1, MaxOfTwo
    <3>2. QED
      BY <2>2, <3>1
  <2>7. l = IF z >= d THEN z ELSE d
    <3> HIDE DEF z, d
    <3>1. QED
      BY <2>1, <2>5, MaxOfTwo
  <2>8. k \in Nat /\ k2 + k <= 95
    BY <2>6
  <2>9. l \in Nat /\ k3 + l <= 900
    BY <2>7
  <2>10. QED
    BY <2>8, <2>9
<1>14. \A i \in 1..5 : f[i] = Place(total, i)
  <2>1. 1..5 \subseteq Prizes
    BY DEF Prizes
  <2>2. QED
    BY <1>0, <2>1
<1> HIDE DEF I, I1, I2, I3, R, x, y, k, l, k2, k3
<1>15. SumFunctionOnSet(f, 1..5) \in Nat /\ 10000 * SumFunctionOnSet(f, 1..5) <= 6250 * total
  BY <1>14, FirstPlaces
<1>16. SumFunctionOnSet(f, 1..5) = SumFunctionOnSet(f, I1) + SumFunctionOnSet(f, R)
  <2>1. \A i \in I1 \cup R : f[i] \in Int
    BY <1>9, <1>10
  <2>2. QED
    BY <1>3, <1>4, <1>5, <2>1, SumUnion
<1>17. /\ SumFunctionOnSet(f, I2) \in Nat /\ SumFunctionOnSet(f, I2) <= x * k2
       /\ SumFunctionOnSet(f, I3) \in Nat /\ SumFunctionOnSet(f, I3) <= y * k3
  BY <1>1, <1>5, <1>6, <1>7, <1>8, <1>12, SumEqual
<1>18. SumFunctionOnSet(f, I)
            = SumFunctionOnSet(f, I1) + SumFunctionOnSet(f, I2) + SumFunctionOnSet(f, I3)
  <2> DEFINE J == I1 \cup I2
  <2>1. \A i \in J : f[i] \in Int
    BY <1>9, <1>10
  <2>2. \A i \in J \cup I3 : f[i] \in Int
    BY <1>9, <1>10
  <2>3. SumFunctionOnSet(f, I1 \cup I2) = SumFunctionOnSet(f, I1) + SumFunctionOnSet(f, I2)
    BY <1>2, <1>5, <2>1, SumUnion
  <2>4. IsFiniteSet(J) /\ J \cap I3 = {} /\ I = J \cup I3
    BY <1>2, <1>5, FS_Union
  <2> HIDE DEF J
  <2>5. SumFunctionOnSet(f, J \cup I3) = SumFunctionOnSet(f, J) + SumFunctionOnSet(f, I3)
    BY <1>5, <2>2, <2>4, SumUnion
  <2>6. QED
    BY <2>3, <2>4, <2>5 DEF J
<1>19. SumFunctionOnSet(f, I1) \in Nat /\ SumFunctionOnSet(f, R) \in Nat
  <2>1. (\A i \in I1 : f[i] \in Nat) /\ \A i \in R : f[i] \in Nat
    BY <1>9, <1>10
  <2>2. QED
    BY <1>4, <1>5, <2>1, SumNat
<1>20. x * k2 + x * k <= x * 95 /\ y * k3 + y * l <= y * 900
  <2>1. \A a, b, c, d \in Nat : b + c <= d => a * b + a * c <= a * d
    <3> SUFFICES ASSUME NEW a \in Nat, NEW b \in Nat, NEW c \in Nat, NEW d \in Nat, b + c <= d
                 PROVE  a * b + a * c <= a * d
      OBVIOUS
    <3>1. PICK e \in Nat : d = b + c + e
      <4>1. d - (b + c) \in Nat /\ d = b + c + (d - (b + c))
        OBVIOUS
      <4>2. QED
        BY <4>1
    <3>2. a * (b + c + e) = a * b + a * c + a * e /\ a * e \in Nat /\ a * b \in Nat /\ a * c \in Nat
      OBVIOUS
    <3>3. QED
      BY <3>1, <3>2
  <2>2. QED
    BY <1>1, <1>12, <1>13, <2>1
<1>21. x * k2 \in Nat /\ x * k \in Nat /\ y * k3 \in Nat /\ y * l \in Nat
  <2>1. \A a, b \in Nat : a * b \in Nat
    OBVIOUS
  <2>2. QED
    BY <1>1, <1>12, <1>13, <2>1
<1> DEFINE p == SumFunctionOnSet(f, I1)
           q == SumFunctionOnSet(f, R)
           s2 == SumFunctionOnSet(f, I2)
           s3 == SumFunctionOnSet(f, I3)
           sum == SumFunctionOnSet(f, I)
           bank == Bank(total, n)
<1>22. /\ p \in Nat /\ q \in Nat /\ s2 \in Nat /\ s3 \in Nat
       /\ 10000 * (p + q) <= 6250 * total
       /\ s2 <= x * k2 /\ s3 <= y * k3
       /\ sum = p + s2 + s3 /\ bank = q + x * k + y * l
  BY <1>11, <1>15, <1>16, <1>17, <1>18, <1>19
<1> HIDE DEF p, q, s2, s3, sum, bank
<1>23. sum + bank <= p + q + 95 * x + 900 * y
  BY <1>1, <1>20, <1>21, <1>22
<1>24. 10 * (sum + bank) <= 9 * total
  <2>1. sum + bank \in Int
    BY <1>21, <1>22
  <2> DEFINE z == sum + bank
             w == p + q
  <2>2. z \in Int /\ w \in Nat /\ 10000 * w <= 6250 * total /\ z <= w + 95 * x + 900 * y
    BY <1>22, <1>23, <2>1
  <2> HIDE DEF z, w
  <2>3. 10 * z <= 9 * total
    BY <1>1, <2>2
  <2>4. QED
    BY <2>3 DEF z
<1>25. QED
  BY <1>24 DEF sum, bank, I, f

(* and the winners of the lottery at most nine hundredths: a tenth of their
   share is for the places that are never drawn. *)
LEMMA RandomRewardsWithin ==
    ASSUME NEW pool \in Nat, NEW answer \in Answers
    PROVE  10 * SumValues(RandomRewards(pool, answer.active)) <= 9 * ((pool * 10) \div 100)
<1> DEFINE active == answer.active
           total == (pool * 10) \div 100
           n == Len(active)
           I == DOMAIN active \cap Prizes
           bank == Bank(total, n)
           b == bank \div n
           T == {Reward(active[i], Place(total, i) + bank \div n, "R") : i \in I}
           f == Places(total)
           g == [i \in I |-> bank \div n]
           share == [i \in I |-> Place(total, i) + bank \div n]
           reward == [i \in I |-> Reward(active[i], Place(total, i) + bank \div n, "R")]
<1>1. active \in Seq(Addr)
  BY ForgingAssumption
<1>2. n \in Nat /\ DOMAIN active = 1 .. n
  BY <1>1, LenProperties
<1>3. total \in Nat
  BY Quotient
<1>4. RandomRewards(pool, answer.active) = T
  BY DEF RandomRewards, Prizes
<1>5. SumValues({}) = 0
  BY SumEmpty DEF SumValues, SumFunction
<1>6. I = 1..n \cap Prizes
  BY <1>2
<1>7. I = {} => T = {}
  OBVIOUS
<1>8. CASE n = 0
  <2>1. I = {}
    BY <1>6, <1>8
  <2>2. T = {}
    BY <1>7, <2>1
  <2> HIDE DEF T, I
  <2>3. SumValues(T) = 0
    BY <1>5, <2>2
  <2>4. QED
    BY <1>3, <1>4, <2>3
<1>9. CASE n # 0
  <2>1. n \in Nat \ {0}
    BY <1>2, <1>9
  <2>2. \A i \in Prizes : f[i] = Place(total, i)
    BY DEF Places
  <2>9. I \subseteq Prizes
    OBVIOUS
  <2>23. \A i \in I : g[i] = b
    OBVIOUS
  <2>24. \A i \in I : reward[i].value = share[i]
    BY DEF Reward
  <2>25. \A t \in T : \E i \in I : t = reward[i]
    OBVIOUS
  <2>3. \A i \in I : share[i] = f[i] + g[i]
    <3>1. \A i \in I : share[i] = Place(total, i) + b
      OBVIOUS
    <3> HIDE DEF I, f, g, share, b
    <3>2. \A i \in I : f[i] = Place(total, i)
      BY <2>2, <2>9, Zenon
    <3>3. QED
      BY <2>23, <3>1, <3>2
  <2>0. I \in SUBSET (1..n)
    <3> DEFINE A == 1..n
               B == Prizes
    <3>1. I = A \cap B
      BY <1>6
    <3> HIDE DEF I, A, B
    <3>2. I \in SUBSET A
      BY <3>1
    <3>3. QED
      BY <3>2 DEF A
  <2>4. IsFiniteSet(I)
    <3>1. IsFiniteSet(1..n)
      BY <1>2, CountTo
    <3> HIDE DEF I, n
    <3>2. QED
      BY <2>0, <3>1, FS_Subset
  <2>5. Cardinality(I) <= n
    <3>1. IsFiniteSet(1..n)
      BY <1>2, CountTo
    <3>2. Cardinality(1..n) = n
      <4> DEFINE o == 1
      <4>1. o \in Int /\ n \in Int
        BY <1>2
      <4> HIDE DEF o, n
      <4>2. Cardinality(o..n) = IF o > n THEN 0 ELSE n - o + 1
        BY <4>1, Span
      <4>3. QED
        BY <2>1, <4>2 DEF o
    <3> HIDE DEF I, n
    <3>3. QED
      BY <2>0, <3>1, <3>2, FS_Subset
  <2> HIDE DEF n, total
  <2>6. bank \in Nat
    BY <1>3, <2>1, BankNat
  <2> HIDE DEF bank
  <2>7. b \in Nat /\ n * b <= bank
    BY <2>1, <2>6, DivBound
  <2>8. \A i \in Prizes : f[i] \in Nat
    <3> HIDE DEF f
    <3> SUFFICES ASSUME NEW i \in Prizes PROVE f[i] \in Nat
      OBVIOUS
    <3>1. Place(total, i) \in Nat
      BY <1>3, PlaceNat
    <3>2. QED
      BY <2>2, <3>1, Zenon
  <2>10. 10 * (SumFunctionOnSet(f, I) + bank) <= 9 * total
    <3>1. 10 * (SumFunctionOnSet(f, 1..n \cap Prizes) + Bank(total, n)) <= 9 * total
      BY <1>3, <2>1, LotteryWithin
    <3> HIDE DEF I
    <3>2. QED
      BY <1>6, <3>1 DEF bank
  <2> HIDE DEF I, b, T, f, g, share, reward
  <2>11. \A i \in I : f[i] \in Nat
    BY <2>8, <2>9, Zenon
  <2>12. \A i \in I : share[i] \in Nat /\ f[i] \in Int /\ g[i] \in Int
    <3>1. \A i \in I : g[i] \in Nat
      BY <2>7, <2>23
    <3>2. QED
      BY <2>3, <2>11, <3>1
  <2>13. SumValues(T) <= SumFunctionOnSet(share, I)
    <3>1. \A i \in I : share[i] \in Nat /\ reward[i].value = share[i]
      BY <2>12, <2>24, Zenon
    <3>2. QED
      BY <2>4, <2>25, <3>1, ValuesWithin
  <2>14. SumFunctionOnSet(share, I) = SumFunctionOnSet(f, I) + SumFunctionOnSet(g, I)
    <3>1. \A i \in I : f[i] \in Int /\ g[i] \in Int /\ share[i] = f[i] + g[i]
      BY <2>3, <2>12, Zenon
    <3>2. QED
      BY <2>4, <3>1, SumPlus
  <2>15. SumFunctionOnSet(g, I) \in Nat /\ SumFunctionOnSet(g, I) <= b * n
    <3>1. n \in Nat
      BY <2>1
    <3>2. QED
      BY <2>4, <2>5, <2>7, <2>23, <3>1, SumEqual
  <2>16. SumFunctionOnSet(f, I) \in Nat
    BY <2>4, <2>11, SumNat
  <2>17. SumValues(T) \in Nat
    BY <1>4, RandomRewardsPayable, ValuesNat
  <2>18. b * n = n * b /\ b * n \in Nat
    BY <2>1, <2>7
  <2> DEFINE v == SumValues(T)
             s == SumFunctionOnSet(share, I)
             p == SumFunctionOnSet(f, I)
             q == SumFunctionOnSet(g, I)
             m == b * n
  <2>19. /\ v \in Nat /\ p \in Nat /\ q \in Nat /\ m \in Nat
         /\ v <= s /\ s = p + q /\ q <= m /\ m <= bank /\ 10 * (p + bank) <= 9 * total
    BY <2>7, <2>10, <2>13, <2>14, <2>15, <2>16, <2>17, <2>18
  <2>20. SumValues(T) = v /\ T = RandomRewards(pool, answer.active) /\ total = (pool * 10) \div 100
    BY <1>4 DEF total
  <2> HIDE DEF v, s, p, q, m
  <2>21. 10 * v <= 9 * total
    BY <1>3, <2>6, <2>19
  <2>22. QED
    BY <2>20, <2>21
<1>10. QED
  BY <1>8, <1>9

(* The coins of two sets of rewards. *)
LEMMA ValuesUnion ==
    ASSUME NEW A, Payable(A), NEW B, Payable(B), A \cap B = {}
    PROVE  Payable(A \cup B) /\ SumValues(A \cup B) = SumValues(A) + SumValues(B)
<1> DEFINE U == A \cup B
           f == [r \in U |-> r.value]
           g == [r \in A |-> r.value]
           h == [r \in B |-> r.value]
<1>1. /\ SumValues(U) = SumFunctionOnSet(f, U)
      /\ SumValues(A) = SumFunctionOnSet(g, A)
      /\ SumValues(B) = SumFunctionOnSet(h, B)
  BY DEF SumValues, SumFunction
<1>2. (\A r \in U : f[r] \in Int) /\ (\A r \in A : g[r] = f[r]) /\ (\A r \in B : h[r] = f[r])
  BY DEF Payable
<1>3. IsFiniteSet(A) /\ IsFiniteSet(B) /\ IsFiniteSet(A \cup B)
  BY FS_Union DEF Payable
<1> HIDE DEF f, g, h
<1>4. SumFunctionOnSet(g, A) = SumFunctionOnSet(f, A) /\ SumFunctionOnSet(h, B) = SumFunctionOnSet(f, B)
  BY <1>2, <1>3, SumCongruent
<1>5. SumFunctionOnSet(f, A \cup B) = SumFunctionOnSet(f, A) + SumFunctionOnSet(f, B)
  BY <1>2, <1>3, SumUnion
<1>6. QED
  BY <1>1, <1>3, <1>4, <1>5 DEF Payable

(* The rewards that are paid from the pool. *)
Pooled(rewards) == {r \in rewards : r.kind # "TEAM"}

(* Rewards within the pool of wallets W, and the reward of the team. *)
Within(W, rewards) ==
    /\ Payable(rewards)
    /\ SumValues(Pooled(rewards)) <= FORGING_POOL + W[STATE_FEE_WALLET].balance
    /\ SumValues(rewards) = SumValues(Pooled(rewards)) + FORGING_TEAM_REWARD

(* A forging block never pays more than there is to pay: at most 15 pairs of a
   role and a region take 2 % each, and with the 10 % of all nodes, the 50 % of
   those who delegate, the 1 % of the wallets and the 9 % of the lottery this
   makes the whole pool. *)
THEOREM RewardsWithin ==
    ASSUME NEW W, Sound(W), NEW statistics \in SUBSET (Role \X Addr),
           NEW choice \in RoleChoices(W, statistics), NEW answer \in Answers
    PROVE  Within(W, ForgingRewards(W, choice, answer))
<1> DEFINE pool == FORGING_POOL + W[STATE_FEE_WALLET].balance
           N == NodeRewards(W, pool, choice)
           C == CoinRewards(W, pool, choice)
           P == WalletRewards(pool, answer.passive)
           R == RandomRewards(pool, answer.active)
           team == Reward(TEAM_WALLET, FORGING_TEAM_REWARD, "TEAM")
           T == {team}
           rewards == ForgingRewards(W, choice, answer)
<1>1. pool \in Nat
  BY WalletsAssumption, ForgingAssumption DEF Sound, Good, Wallet
<1>2. rewards = (((N \cup C) \cup P) \cup R) \cup T
  BY DEF ForgingRewards
<1>3. Payable(rewards)
  BY RewardsPayable
<1>4. /\ \A r \in N : r.kind = "N"
      /\ \A r \in C : r.kind = "C"
      /\ \A r \in P : r.kind = "W"
      /\ \A r \in R : r.kind = "R"
      /\ \A r \in T : r.kind = "TEAM" /\ r.value = FORGING_TEAM_REWARD
  <2> HIDE DEF pool
  <2>1. \A r \in N : r.kind = "N"
    <3>1. \A r \in N : \E a, v : r = Reward(a, v, "N")
      BY DEF NodeRewards
    <3> HIDE DEF N, C
    <3>2. \A a, v : Reward(a, v, "N").kind = "N"
      BY DEF Reward
    <3>3. QED
      BY <3>1, <3>2
  <2>2. \A r \in C : r.kind = "C"
    <3>1. \A r \in C : \E a, v : r = Reward(a, v, "C")
      BY DEF CoinRewards
    <3> HIDE DEF N, C
    <3>2. \A a, v : Reward(a, v, "C").kind = "C"
      BY DEF Reward
    <3>3. QED
      BY <3>1, <3>2
  <2>3. \A r \in P : r.kind = "W"
    BY DEF WalletRewards, Reward
  <2>4. \A r \in R : r.kind = "R"
    BY DEF RandomRewards, Reward
  <2>5. \A r \in T : r.kind = "TEAM" /\ r.value = FORGING_TEAM_REWARD
    BY DEF Reward
  <2> HIDE DEF N, C, P, R, T
  <2>6. QED
    BY <2>1, <2>2, <2>3, <2>4, <2>5
<1>5. FORGING_TEAM_REWARD \in Nat /\ T = {team} /\ team.value = FORGING_TEAM_REWARD
      /\ team.to \in Addr
  BY DailyAssumption, ForgingAssumption DEF Reward
<1> DEFINE tenth == (pool * 10) \div 100
           fiftieth == (pool * 2) \div 100
           half == (pool * 50) \div 100
           hundredth == tenth \div 10
           n == SumValues(N)
           c == SumValues(C)
           p == SumValues(P)
           r == SumValues(R)
<1>6. /\ tenth \in Nat /\ 100 * tenth <= 10 * pool
      /\ fiftieth \in Nat /\ 100 * fiftieth <= 2 * pool
      /\ half \in Nat /\ 100 * half <= 50 * pool
      /\ hundredth \in Nat /\ 10 * hundredth <= tenth
  <2> HIDE DEF pool
  <2>1. /\ tenth \in Nat /\ 100 * tenth <= 10 * pool
        /\ fiftieth \in Nat /\ 100 * fiftieth <= 2 * pool
        /\ half \in Nat /\ 100 * half <= 50 * pool
    BY <1>1
  <2> HIDE DEF tenth
  <2>2. hundredth \in Nat /\ 10 * hundredth <= tenth
    BY <2>1
  <2>3. QED
    BY <2>1, <2>2
<1>7. Payable(N) /\ Payable(C) /\ Payable(P) /\ Payable(R)
  <2> HIDE DEF pool
  <2>1. QED
    BY <1>1, NodeRewardsPayable, CoinRewardsPayable, WalletRewardsPayable, RandomRewardsPayable
<1>8. n <= tenth + fiftieth * 15
  <2> HIDE DEF pool
  <2>1. QED
    BY <1>1, NodeRewardsWithin
<1>9. c <= half
  <2> HIDE DEF pool
  <2>1. QED
    BY <1>1, CoinRewardsWithin
<1>10. p <= hundredth
  <2> HIDE DEF pool
  <2>1. QED
    BY <1>1, WalletRewardsWithin
<1>11. 10 * r <= 9 * tenth
  <2> HIDE DEF pool
  <2>1. QED
    BY <1>1, RandomRewardsWithin
<1>12. n \in Nat /\ c \in Nat /\ p \in Nat /\ r \in Nat
  <2> HIDE DEF N, C, P, R
  <2>1. N \in SUBSET N /\ C \in SUBSET C /\ P \in SUBSET P /\ R \in SUBSET R
    OBVIOUS
  <2>2. QED
    BY <1>7, <2>1, ValuesNat
<1>13. Payable(T)
  <2>1. IsFiniteSet(T)
    BY FS_Singleton
  <2> HIDE DEF team
  <2>2. QED
    BY <1>5, <2>1 DEF Payable
<1>14. SumValues(T) = FORGING_TEAM_REWARD
  <2> DEFINE f == [q \in T |-> q.value]
             E == {}
  <2>1. SumValues(T) = SumFunctionOnSet(f, T)
    BY DEF SumValues, SumFunction
  <2>2. f[team] = FORGING_TEAM_REWARD
    BY <1>5
  <2>3. T = E \cup {team} /\ team \notin E /\ IsFiniteSet(E)
    BY FS_EmptySet
  <2>4. \A q \in E \cup {team} : f[q] \in Int
    BY <1>5, <2>2
  <2>5. SumFunctionOnSet(f, E) = 0
    BY SumEmpty
  <2> HIDE DEF f, E, team, T
  <2>6. SumFunctionOnSet(f, E \cup {team}) = SumFunctionOnSet(f, E) + f[team]
    BY <2>3, <2>4, SumAdd
  <2>7. QED
    BY <1>5, <2>1, <2>2, <2>3, <2>5, <2>6
<1> HIDE DEF N, C, P, R, T, team, tenth, fiftieth, half, hundredth, rewards
<1>15. Payable(N \cup C) /\ SumValues(N \cup C) = n + c
  <2>1. N \cap C = {}
    BY <1>4
  <2>2. QED
    BY <1>7, <2>1, ValuesUnion
<1>16. Payable((N \cup C) \cup P) /\ SumValues((N \cup C) \cup P) = n + c + p
  <2>1. (N \cup C) \cap P = {}
    BY <1>4
  <2>2. QED
    BY <1>7, <1>15, <2>1, ValuesUnion
<1> DEFINE Q == ((N \cup C) \cup P) \cup R
<1>17. Payable(Q) /\ SumValues(Q) = n + c + p + r
  <2>1. ((N \cup C) \cup P) \cap R = {}
    BY <1>4
  <2>2. QED
    BY <1>7, <1>16, <2>1, ValuesUnion
<1>18. Q = Pooled(rewards) /\ rewards = Q \cup T /\ Q \cap T = {}
  BY <1>2, <1>4 DEF Pooled
<1> HIDE DEF Q
<1>19. SumValues(rewards) = SumValues(Q) + FORGING_TEAM_REWARD
  BY <1>13, <1>14, <1>17, <1>18, ValuesUnion
<1>20. n + c + p + r <= pool
  <2> HIDE DEF n, c, p, r, pool
  <2>1. QED
    BY <1>1, <1>6, <1>8, <1>9, <1>10, <1>11, <1>12
<1>21. SumValues(Q) <= FORGING_POOL + W[STATE_FEE_WALLET].balance
  BY <1>17, <1>20
<1>22. QED
  BY <1>3, <1>18, <1>19, <1>21 DEF Within, rewards

-----------------------------------------------------------------------------
(* The coins of all wallets. *)
LEMMA CoinsNat ==
    ASSUME NEW W, Sound(W)
    PROVE  Coins(W) \in Nat
<1> DEFINE f == [a \in Addr |-> W[a].balance]
<1>1. Coins(W) = SumFunctionOnSet(f, Addr) /\ IsFiniteSet(Addr)
  BY ForgingAssumption DEF Coins, SumFunction
<1>2. \A a \in Addr : f[a] \in Nat
  BY DEF Sound, Good, Wallet
<1> HIDE DEF f
<1>3. QED
  BY <1>1, <1>2, SumNat

LEMMA CoinsKept ==
    ASSUME NEW W, NEW V, \A a \in Addr : V[a].balance = W[a].balance
    PROVE  Coins(V) = Coins(W)
<1>1. [a \in Addr |-> V[a].balance] = [a \in Addr |-> W[a].balance]
  OBVIOUS
<1>2. QED
  BY <1>1 DEF Coins

LEMMA PutCoins ==
    ASSUME NEW W, Sound(W), NEW a \in Addr, NEW w, w.balance \in Nat
    PROVE  Coins([W EXCEPT ![a] = w]) = Coins(W) - W[a].balance + w.balance
<1> DEFINE V == [W EXCEPT ![a] = w]
           f == [b \in Addr |-> W[b].balance]
           g == [b \in Addr |-> V[b].balance]
<1>1. /\ Coins(W) = SumFunctionOnSet(f, Addr) /\ Coins(V) = SumFunctionOnSet(g, Addr)
      /\ IsFiniteSet(Addr)
  BY ForgingAssumption DEF Coins, SumFunction
<1>2. \A b \in Addr : W[b].balance \in Nat
  BY DEF Sound, Good, Wallet
<1>3. V[a] = w /\ \A b \in Addr \ {a} : V[b] = W[b]
  BY DEF Sound
<1>4. \A b \in Addr : f[b] = W[b].balance /\ g[b] = V[b].balance
  OBVIOUS
<1> HIDE DEF f, g, V
<1>5. /\ \A b \in Addr : f[b] \in Int
      /\ \A b \in Addr : g[b] \in Int
      /\ \A b \in Addr \ {a} : g[b] = f[b]
      /\ f[a] = W[a].balance /\ g[a] = w.balance
  <2>1. \A b \in Addr : b = a \/ b \in Addr \ {a}
    OBVIOUS
  <2>2. QED
    BY <1>2, <1>3, <1>4, <2>1
<1>6. SumFunctionOnSet(g, Addr) = SumFunctionOnSet(f, Addr) - f[a] + g[a]
  BY <1>1, <1>5, SumPut
<1>7. QED
  BY <1>1, <1>5, <1>6 DEF V

LEMMA AddCoins ==
    ASSUME NEW W, Sound(W), NEW a \in Addr, NEW value \in Nat
    PROVE  Coins(Add(W, a, value)) = Coins(W) + value
<1> DEFINE v == [W[a] EXCEPT !.balance = @ + value]
<1>1. W[a] \in Wallet /\ W[a].balance \in Nat
  BY DEF Sound, Good, Wallet
<1>2. v.balance = W[a].balance + value
  BY <1>1 DEF Wallet
<1>3. Add(W, a, value) = [W EXCEPT ![a] = v]
  BY DEF Add, Sound
<1> HIDE DEF v
<1>4. Coins([W EXCEPT ![a] = v]) = Coins(W) - W[a].balance + v.balance
  BY <1>1, <1>2, PutCoins
<1>5. Coins(W) \in Nat
  BY CoinsNat
<1>6. QED
  BY <1>1, <1>2, <1>3, <1>4, <1>5

(* What is sent and the fee leave the sender, and only the fee is gone. *)
LEMMA SubCoins ==
    ASSUME NEW W, Sound(W), NEW tx \in Tx, NEW fee \in Nat,
           SubResult(W[tx.from], tx, fee) = 0
    PROVE  Coins(Sub(W, tx, fee)) + fee = Coins(W)
<1>1. tx.from \in Addr /\ tx.to \in Addr /\ tx.value \in Nat
  BY TxAssumption
<1> DEFINE w == W[tx.from]
           v == Pay(w, tx.value + fee)
           U == [W EXCEPT ![tx.from] = v]
<1>2. Good(w) /\ w \in Wallet /\ w.balance \in Nat /\ w.delegated_to_sum \in Nat
  BY <1>1 DEF Sound, Good, Wallet
<1>3. tx.value + fee \in Nat /\ tx.value + fee <= w.balance - w.delegated_to_sum
  BY <1>1, <1>2 DEF SubResult, GetBalance, TX_REJECT_INSUFFICIENT_FUNDS_EXT
<1>4. Good(v)
  <2> HIDE DEF w
  <2>1. QED
    BY <1>2, <1>3, PayGood
<1>5. v.balance = w.balance - (tx.value + fee) /\ v.balance \in Nat
  <2> HIDE DEF w
  <2>1. QED
    BY <1>2, <1>3 DEF Pay, Wallet
<1> HIDE DEF v
<1>6. Sound(U)
  BY <1>1, <1>4, PutSound
<1>7. Sub(W, tx, fee) = Add(U, tx.to, tx.value)
  BY <1>1 DEF Sub, v, Sound
<1>8. Coins(U) = Coins(W) - w.balance + v.balance
  BY <1>1, <1>5, PutCoins
<1> HIDE DEF U, w
<1>9. Coins(Add(U, tx.to, tx.value)) = Coins(U) + tx.value
  BY <1>1, <1>6, AddCoins
<1>10. Coins(W) \in Nat /\ Coins(U) \in Nat
  BY <1>6, CoinsNat
<1>11. QED
  BY <1>1, <1>2, <1>5, <1>7, <1>8, <1>9, <1>10

(* Methods move no coins. *)
LEMMA MethodCoins ==
    ASSUME NEW W, Sound(W), NEW tx \in Tx
    PROVE  Coins(ApplyMethod(W, tx)) = Coins(W)
<1>1. tx.from \in Addr /\ tx.to \in Addr /\ tx.method \in Method
  BY TxAssumption
<1>2. W \in [Addr -> Wallet]
  BY DEF Sound
<1>3. \A w \in Wallet : \A x :
        /\ [w EXCEPT !.delegate_to = x].balance = w.balance
        /\ [w EXCEPT !.state = x].balance = w.balance
  BY DEF Wallet
<1>4. ASSUME NEW U, NEW a \in Addr, NEW x, DOMAIN U = Addr, x.balance = U[a].balance
      PROVE  /\ DOMAIN [U EXCEPT ![a] = x] = Addr
             /\ \A b \in Addr : [U EXCEPT ![a] = x][b].balance = U[b].balance
  <2>1. \A b \in Addr : [U EXCEPT ![a] = x][b] = IF b = a THEN x ELSE U[b]
    BY <1>4
  <2>2. DOMAIN [U EXCEPT ![a] = x] = Addr
    BY <1>4
  <2>3. QED
    BY <1>4, <2>1, <2>2
<1>5. CASE tx.method = "delegate"
  <2> DEFINE x == Lend(W[tx.from], tx.to, tx.amount)
             U == [W EXCEPT ![tx.from] = x]
             y == Borrow(U[tx.to], tx.from, tx.amount)
             V == [U EXCEPT ![tx.to] = y]
  <2>1. ApplyMethod(W, tx) = V
    BY <1>1, <1>2, <1>5 DEF ApplyMethod, Delegate
  <2>2. W[tx.from] \in Wallet /\ W[tx.to] \in Wallet
    BY <1>1, <1>2
  <2>3. x.balance = W[tx.from].balance /\ DOMAIN x = DOMAIN W[tx.from]
    BY <2>2 DEF Lend, Wallet
  <2>4. U[tx.to] = IF tx.to = tx.from THEN x ELSE W[tx.to]
    BY <1>1, <1>2
  <2> HIDE DEF x
  <2>5. "balance" \in DOMAIN U[tx.to]
    BY <2>2, <2>3, <2>4 DEF Wallet
  <2>6. DOMAIN U = Addr /\ \A b \in Addr : U[b].balance = W[b].balance
    BY <1>1, <1>2, <1>4, <2>3
  <2> HIDE DEF U
  <2>7. y.balance = U[tx.to].balance
    BY <2>5 DEF Borrow
  <2> HIDE DEF y
  <2>8. \A b \in Addr : V[b].balance = U[b].balance
    BY <1>1, <1>4, <2>6, <2>7
  <2> HIDE DEF V
  <2>9. \A b \in Addr : V[b].balance = W[b].balance
    BY <2>6, <2>8
  <2>10. QED
    BY <2>1, <2>9, CoinsKept
<1>6. CASE tx.method = "undelegate"
  <2> DEFINE x == TakeBack(W[tx.from], tx.to)
             U == [W EXCEPT ![tx.from] = x]
             y == GiveBack(U[tx.to], tx.from)
             V == [U EXCEPT ![tx.to] = y]
  <2>1. ApplyMethod(W, tx) = V
    BY <1>1, <1>2, <1>6 DEF ApplyMethod, Undelegate
  <2>2. W[tx.from] \in Wallet /\ W[tx.to] \in Wallet
    BY <1>1, <1>2
  <2>3. x.balance = W[tx.from].balance /\ DOMAIN x = DOMAIN W[tx.from]
    BY <2>2 DEF TakeBack, Wallet
  <2>4. U[tx.to] = IF tx.to = tx.from THEN x ELSE W[tx.to]
    BY <1>1, <1>2
  <2> HIDE DEF x
  <2>5. "balance" \in DOMAIN U[tx.to]
    BY <2>2, <2>3, <2>4 DEF Wallet
  <2>6. DOMAIN U = Addr /\ \A b \in Addr : U[b].balance = W[b].balance
    BY <1>1, <1>2, <1>4, <2>3
  <2> HIDE DEF U
  <2>7. y.balance = U[tx.to].balance
    BY <2>5 DEF GiveBack
  <2> HIDE DEF y
  <2>8. \A b \in Addr : V[b].balance = U[b].balance
    BY <1>1, <1>4, <2>6, <2>7
  <2> HIDE DEF V
  <2>9. \A b \in Addr : V[b].balance = W[b].balance
    BY <2>6, <2>8
  <2>10. QED
    BY <2>1, <2>9, CoinsKept
<1>7. CASE tx.method = "register"
  <2> DEFINE x == [W[tx.from] EXCEPT !.state = tx.roles]
             V == [W EXCEPT ![tx.from] = x]
  <2>1. ApplyMethod(W, tx) = V
    BY <1>1, <1>2, <1>7 DEF ApplyMethod
  <2>2. x.balance = W[tx.from].balance
    BY <1>1, <1>2, <1>3
  <2> HIDE DEF x
  <2>3. \A b \in Addr : V[b].balance = W[b].balance
    BY <1>1, <1>2, <1>4, <2>2
  <2> HIDE DEF V
  <2>4. QED
    BY <2>1, <2>3, CoinsKept
<1>8. CASE tx.method = "none"
  BY <1>8 DEF ApplyMethod
<1>9. QED
  BY <1>1, <1>5, <1>6, <1>7, <1>8 DEF Method

(* A common block makes and loses no coins, *)
LEMMA ApplyCommonCoins ==
    ASSUME NEW W, Sound(W), NEW entry, entry.tx \in Tx, CommonAccepted(W, entry)
    PROVE  Coins(ApplyCommon(W, entry)) = Coins(W)
<1> DEFINE tx == entry.tx
           fee == RealFee(tx)
           U == Sub(W, tx, fee)
           V == IF entry.state = "accept" THEN ApplyMethod(U, tx) ELSE U
<1>1. fee \in Nat
  BY TxAssumption, WalletsAssumption DEF RealFee, Excess
<1>2. SubResult(W[tx.from], tx, fee) = 0 /\ (entry.state = "accept" => CanApplyMethod(U, tx))
  BY DEF CommonAccepted
<1> HIDE DEF fee
<1>3. Sound(U) /\ Coins(U) + fee = Coins(W)
  BY <1>1, <1>2, SubSound, SubCoins
<1> HIDE DEF U
<1>4. Sound(V) /\ Coins(V) = Coins(U)
  BY <1>2, <1>3, ApplyMethodSound, MethodCoins
<1>5. ApplyCommon(W, entry) = Add(V, STATE_FEE_WALLET, fee)
  BY DEF ApplyCommon, U, fee
<1> HIDE DEF V
<1>6. Coins(Add(V, STATE_FEE_WALLET, fee)) = Coins(V) + fee
  BY <1>1, <1>4, AddCoins, WalletsAssumption
<1>7. QED
  BY <1>3, <1>4, <1>5, <1>6

(* a state block loses those of the zero wallet, *)
LEMMA ResetZeroCoins ==
    ASSUME NEW W, Sound(W)
    PROVE  Coins(ResetZero(W)) = Coins(W) - W[ZERO_WALLET].balance
<1> DEFINE v == Plain(0, 0)
<1>1. v.balance = 0
  BY DEF Plain
<1>2. ResetZero(W) = [W EXCEPT ![ZERO_WALLET] = v]
  BY DEF ResetZero
<1> HIDE DEF v
<1>3. ZERO_WALLET \in Addr
  BY DailyAssumption
<1>4. Coins([W EXCEPT ![ZERO_WALLET] = v]) = Coins(W) - W[ZERO_WALLET].balance + v.balance
  BY <1>1, <1>3, PutCoins
<1>5. Coins(W) \in Nat /\ W[ZERO_WALLET].balance \in Nat
  BY <1>3, CoinsNat DEF Sound, Good, Wallet
<1>6. QED
  BY <1>1, <1>2, <1>4, <1>5

(* The rewards are paid to the coin. *)
LEMMA PayCoins ==
    ASSUME NEW W, Sound(W), NEW rewards, Payable(rewards)
    PROVE  Coins(PayRewards(W, rewards)) = Coins(W) + SumValues(rewards)
<1> DEFINE V == PayRewards(W, rewards)
           value == [r \in rewards |-> r.value]
           to == [r \in rewards |-> r.to]
           f == [a \in Addr |-> W[a].balance]
           g == KindSums(value, rewards, to, Addr)
           h == [a \in Addr |-> V[a].balance]
<1>1. /\ Coins(W) = SumFunctionOnSet(f, Addr) /\ Coins(V) = SumFunctionOnSet(h, Addr)
      /\ SumValues(rewards) = SumFunctionOnSet(value, rewards)
      /\ IsFiniteSet(Addr) /\ IsFiniteSet(rewards)
  BY ForgingAssumption DEF Coins, SumFunction, SumValues, Payable
<1>2. \A r \in rewards : value[r] \in Int /\ to[r] \in Addr
  BY DEF Payable
<1>3. SumFunctionOnSet(g, Addr) = SumFunctionOnSet(value, rewards)
  <2> HIDE DEF value, to
  <2>1. QED
    BY <1>1, <1>2, SumByKind
<1>4. ASSUME NEW a \in Addr
      PROVE  f[a] \in Int /\ g[a] \in Int /\ h[a] = f[a] + g[a]
  <2> DEFINE S == {r \in rewards : r.to = a}
             x == [r \in S |-> r.value]
             s == SumValues(S)
  <2>1. s \in Nat
    BY ValuesNat
  <2>2. s = SumFunctionOnSet(x, S)
    BY DEF SumValues, SumFunction
  <2>3. IsFiniteSet(S) /\ \A r \in S : x[r] = value[r]
    BY <1>1, FS_Subset
  <2>4. g[a] = SumFunctionOnSet(value, {r \in rewards : to[r] = a})
    BY DEF KindSums
  <2>5. {r \in rewards : to[r] = a} = S
    OBVIOUS
  <2>6. V[a] = [W[a] EXCEPT !.balance = @ + s]
    BY DEF PayRewards
  <2> HIDE DEF S, x, value, to, g, s, V
  <2>7. SumFunctionOnSet(x, S) = SumFunctionOnSet(value, S)
    BY <2>3, SumCongruent
  <2>8. g[a] = s
    BY <2>2, <2>4, <2>5, <2>7
  <2>9. W[a] \in Wallet /\ W[a].balance \in Nat
    BY DEF Sound, Good, Wallet
  <2>10. V[a].balance = W[a].balance + s
    BY <2>6, <2>9 DEF Wallet
  <2>11. QED
    BY <2>1, <2>8, <2>9, <2>10
<1> HIDE DEF V, value, to, f, g, h
<1>5. SumFunctionOnSet(h, Addr) = SumFunctionOnSet(f, Addr) + SumFunctionOnSet(g, Addr)
  BY <1>1, <1>4, SumPlus
<1>6. QED
  BY <1>1, <1>3, <1>5 DEF V

(* Neither the trust nor the snapshots move coins. *)
LEMMA SnapshotBalance ==
    ASSUME NEW u \in Wallet, NEW w, w \in {u, AddTrust(u), SubTrust(u)}, NEW a,
           NEW x, x = ApplyDelegates(w),
           NEW v, v = CheckCaps([x EXCEPT !.pretend_common = TRUE], a)
                    \/ v = [x EXCEPT !.pretend_common = FALSE]
    PROVE  v.balance = u.balance
<1>1. w.balance = u.balance /\ DOMAIN w = DOMAIN u
  BY DEF AddTrust, SubTrust, Wallet
<1>2. "balance" \in DOMAIN w
  BY <1>1 DEF Wallet
<1>3. x.balance = w.balance /\ "balance" \in DOMAIN x
  BY <1>2 DEF ApplyDelegates
<1> DEFINE y == [x EXCEPT !.pretend_common = TRUE]
<1>4. y.balance = x.balance /\ "balance" \in DOMAIN y
  BY <1>3
<1>5. [x EXCEPT !.pretend_common = FALSE].balance = x.balance
  BY <1>3
<1> HIDE DEF y
<1>6. CheckCaps(y, a).balance = y.balance
  BY <1>4 DEF CheckCaps
<1>7. v.balance = x.balance
  BY <1>4, <1>5, <1>6 DEF y
<1>8. QED
  BY <1>1, <1>3, <1>7

(* a forging block makes those of the pool and of the team, whatever it pays. *)
LEMMA ApplyForgingCoins ==
    ASSUME NEW W, Sound(W), NEW rewards, Within(W, rewards)
    PROVE  Coins(ApplyForging(W, rewards)) = Coins(W) + FORGING_POOL + FORGING_TEAM_REWARD
<1> DEFINE paid == PayRewards(W, rewards)
           total == SumValues(Pooled(rewards))
           before == paid[STATE_FEE_WALLET].balance
           fees == FeesLeft(before, total)
           left == Plain(fees, 0)
           settled == [paid EXCEPT ![STATE_FEE_WALLET] = left]
           chosen == {r.to : r \in {q \in rewards : q.kind = "N"}}
           trusted == ReviseTrust(settled, chosen)
           taken == [a \in Addr |-> ApplyDelegates(trusted[a])]
           all == ReviseFlags(taken)
<1>1. ApplyForging(W, rewards) = all
  BY DEF ApplyForging, Pooled
<1>2. Payable(rewards) /\ STATE_FEE_WALLET \in Addr
  BY WalletsAssumption DEF Within
<1>3. W \in [Addr -> Wallet] /\ \A a \in Addr : W[a].balance \in Nat
  BY DEF Sound, Good, Wallet
<1>4. ASSUME NEW a \in Addr
      PROVE  paid[a] \in Wallet /\ paid[a].balance \in Nat /\ paid[a].balance >= W[a].balance
             /\ Good(paid[a])
  <2> DEFINE value == SumValues({r \in rewards : r.to = a})
  <2>1. value \in Nat
    BY <1>2, ValuesNat
  <2>2. paid[a] = [W[a] EXCEPT !.balance = @ + value]
    BY DEF PayRewards
  <2> HIDE DEF value, paid
  <2>3. Good(W[a]) /\ W[a] \in Wallet
    BY DEF Sound, Good
  <2>4. Good(paid[a])
    BY <2>1, <2>2, <2>3, EarnGood
  <2>5. paid[a].balance = W[a].balance + value
    BY <2>2, <2>3 DEF Wallet
  <2>6. QED
    BY <1>3, <2>1, <2>4, <2>5 DEF Good
<1>5. Sound(paid)
  <2>1. paid = [a \in Addr |-> paid[a]]
    BY DEF PayRewards
  <2> HIDE DEF paid
  <2>2. QED
    BY <1>4, <2>1 DEF Sound
<1>6. Coins(paid) = Coins(W) + SumValues(rewards)
  BY <1>2, PayCoins
<1>7. total \in Nat
  <2>1. Pooled(rewards) \in SUBSET rewards
    BY DEF Pooled
  <2>2. QED
    BY <1>2, <2>1, ValuesNat
<1>8. /\ FORGING_POOL \in Nat /\ FORGING_TEAM_REWARD \in Nat
      /\ SumValues(rewards) = total + FORGING_TEAM_REWARD
      /\ total <= FORGING_POOL + W[STATE_FEE_WALLET].balance
  BY ForgingAssumption DEF Within
<1>9. W[STATE_FEE_WALLET].balance \in Nat /\ before \in Nat /\ before >= W[STATE_FEE_WALLET].balance
  BY <1>2, <1>3, <1>4
<1> HIDE DEF paid, total, before
<1>10. fees = before + FORGING_POOL - total /\ fees \in Nat
  BY <1>7, <1>8, <1>9 DEF FeesLeft
<1> HIDE DEF fees
<1>11. left \in Wallet /\ left.balance = fees
  <2>1. left.balance = fees
    BY DEF Plain
  <2>2. Good(left)
    BY <1>10, PlainGood
  <2>3. QED
    BY <2>1, <2>2 DEF Good
<1>12. Good(left)
  BY <1>10, PlainGood
<1> HIDE DEF left
<1>13. Coins(settled) = Coins(paid) - before + fees
  <2>1. Coins(settled) = Coins(paid) - paid[STATE_FEE_WALLET].balance + left.balance
    BY <1>2, <1>5, <1>10, <1>11, PutCoins
  <2>2. QED
    BY <1>11, <2>1 DEF before
<1>14. Sound(settled)
  BY <1>2, <1>5, <1>12, PutSound
<1> HIDE DEF settled, chosen
<1>15. ASSUME NEW a \in Addr
       PROVE  all[a].balance = settled[a].balance
  <2>1. \/ all[a] = CheckCaps([taken[a] EXCEPT !.pretend_common = TRUE], a)
        \/ all[a] = [taken[a] EXCEPT !.pretend_common = FALSE]
    BY DEF ReviseFlags
  <2>2. taken[a] = ApplyDelegates(trusted[a])
    OBVIOUS
  <2>3. trusted[a] \in {settled[a], AddTrust(settled[a]), SubTrust(settled[a])}
    BY DEF ReviseTrust
  <2>4. settled[a] \in Wallet
    BY <1>14 DEF Sound
  <2> HIDE DEF trusted, taken, all
  <2>5. QED
    BY <2>1, <2>2, <2>3, <2>4, SnapshotBalance
<1> HIDE DEF all
<1>16. Coins(all) = Coins(settled)
  BY <1>15, CoinsKept
<1>17. Coins(W) \in Nat /\ Coins(paid) \in Nat
  BY <1>5, CoinsNat
<1>18. QED
  BY <1>1, <1>6, <1>7, <1>8, <1>9, <1>10, <1>13, <1>16, <1>17

-----------------------------------------------------------------------------
(* A ledger whose wallets are sound, and whose delegations match. *)
SoundLedger(l) ==
    /\ l \in [wallets : [Addr -> Wallet], node_state : SUBSET (Role \X Addr)]
    /\ Sound(l.wallets)
    /\ Matched(l.wallets)

(* A ledger of sound wallets that match. *)
LEMMA LedgerSound ==
    ASSUME NEW W, Sound(W), Matched(W)
    PROVE  SoundLedger(Ledger(W)) /\ Ledger(W).wallets = W
<1>1. \A a \in Addr : ForgingRoles(W[a]) \in SUBSET Role
  BY DEF Sound, Good, Wallet, ForgingRoles
<1>2. UNION {ForgingRoles(W[a]) \X {a} : a \in Addr} \in SUBSET (Role \X Addr)
  BY <1>1
<1>3. W \in [Addr -> Wallet]
  BY DEF Sound
<1>4. QED
  BY <1>2, <1>3 DEF SoundLedger, Ledger

(* What a block leaves of a ledger, if it is not a state block. *)
LEMMA NextLedger ==
    ASSUME NEW l, SoundLedger(l), NEW b, b.type # "state",
           Sound(Applied(l.wallets, b)), Matched(Applied(l.wallets, b))
    PROVE  SoundLedger(ApplyBlock(l, b)) /\ ApplyBlock(l, b).wallets = Applied(l.wallets, b)
<1> DEFINE W == Applied(l.wallets, b)
<1>1. W \in [Addr -> Wallet]
  BY DEF Sound
<1>2. ApplyBlock(l, b) = [l EXCEPT !.wallets = W]
  BY DEF ApplyBlock
<1> HIDE DEF W
<1>3. QED
  BY <1>1, <1>2 DEF SoundLedger, W

(* Block b makes and takes the coins that a block of its type does. *)
Mints(l, b) == Coins(ApplyBlock(l, b).wallets) = Coins(l.wallets) +
    CASE b.type = "forging" -> FORGING_POOL + FORGING_TEAM_REWARD
      [] b.type = "state" -> -l.wallets[ZERO_WALLET].balance
      [] b.type = "common" -> 0

(* Block b can be applied to ledger l, and leaves a ledger in order. *)
Fits(l, b) ==
    /\ Accepted(l.wallets, b)
    /\ Mints(l, b)
    /\ SoundLedger(ApplyBlock(l, b))
    /\ b.type = "forging" => \A a \in Addr : Settled(ApplyBlock(l, b).wallets[a])
    /\ b.type = "state" => ReadState(b) = ApplyBlock(l, b)

(* L[h] is the ledger behind block h, for all nodes. *)
LedgersOf(L) ==
    /\ L[1] = ReadState(chain[1])
    /\ SoundLedger(L[1])
    /\ \A h \in 2..Len(chain) : Fits(L[h - 1], chain[h]) /\ L[h] = ApplyBlock(L[h - 1], chain[h])
    /\ ledger = [n \in Node |-> IF node[n].height = 0 THEN NoLedger ELSE L[node[n].height]]
    /\ \A n \in Node : node[n].status = "running"
    /\ \A b \in offered : Fits(L[Len(chain)], b)

(* There are such ledgers. *)
LedgersRight == \E L : LedgersOf(L)

(* What is known of the ledger behind a block. *)
LEMMA LedgerBehind ==
    ASSUME IInv, NEW L, LedgersOf(L), NEW h \in 1..Len(chain)
    PROVE  /\ SoundLedger(L[h])
           /\ chain[h].type = "state" => L[h] = ReadState(chain[h])
           /\ chain[h].type = "forging" => \A a \in Addr : Settled(L[h].wallets[a])
<1>1. CASE h = 1
  BY <1>1 DEF LedgersOf, IInv, ChainRight
<1>2. CASE h \in 2..Len(chain)
  BY <1>2 DEF LedgersOf, Fits
<1>3. Len(chain) \in Nat
  BY ChainLength DEF IInv
<1>4. QED
  BY <1>1, <1>2, <1>3

(* Steps that apply nothing. *)
LEMMA LedgersKept ==
    ASSUME NEW L, LedgersOf(L), UNCHANGED <<chain, ledger>>,
           \A n \in Node : node'[n].height = node[n].height /\ node'[n].status = node[n].status,
           \A b \in offered' : Fits(L[Len(chain)], b)
    PROVE  LedgersOf(L)'
BY DEF LedgersOf

(* A block offered that fits keeps the ledgers right. *)
LEMMA OfferedFits ==
    ASSUME IInv, NEW L, LedgersOf(L), NEW n \in Node, NEW b, Offer(n, b),
           Fits(L[Len(chain)], b)
    PROVE  LedgersOf(L)'
<1> DEFINE s == node[n]
           t == [s EXCEPT !.created = TRUE, !.tried = TRUE,
                          !.node_statistics = Count(@, b)]
<1>1. s.height = Len(chain) /\ s \in NodeType /\ Len(chain) \in Nat \ {0}
  BY ChainLength DEF Offer, AtTip, IInv, NodesRight
<1>2. ledger[n] = L[Len(chain)]
  BY <1>1 DEF LedgersOf
<1>3. /\ offered' = {b} /\ UNCHANGED <<chain, ledger>>
      /\ node' = [node EXCEPT ![n] = t]
  BY <1>2 DEF Offer, Fits
<1>4. t.height = s.height /\ t.status = s.status
  BY <1>1 DEF NodeType
<1> HIDE DEF t
<1>5. \A k \in Node : node'[k].height = node[k].height /\ node'[k].status = node[k].status
  BY <1>3, <1>4 DEF IInv, NodesRight
<1>6. QED
  BY <1>3, <1>5, LedgersKept

(* The common block made fits, *)
LEMMA CommonFits ==
    ASSUME NEW l, SoundLedger(l), NEW b, b.type = "common",
           \/ b.txs = << >>
           \/ \E entry : /\ b.txs = <<entry>> /\ entry.tx \in Tx
                         /\ CommonAccepted(l.wallets, entry)
    PROVE  Fits(l, b)
<1>1. CASE b.txs = << >>
  <2>1. Accepted(l.wallets, b) /\ Applied(l.wallets, b) = l.wallets
    BY <1>1 DEF Accepted, Applied
  <2>2. SoundLedger(ApplyBlock(l, b)) /\ ApplyBlock(l, b).wallets = l.wallets
    BY <2>1, NextLedger DEF SoundLedger
  <2>3. Coins(l.wallets) \in Nat
    BY CoinsNat DEF SoundLedger
  <2>4. Mints(l, b)
    BY <2>2, <2>3 DEF Mints
  <2>5. QED
    BY <2>1, <2>2, <2>4 DEF Fits
<1>2. ASSUME NEW entry, b.txs = <<entry>>, entry.tx \in Tx, CommonAccepted(l.wallets, entry)
      PROVE  Fits(l, b)
  <2>1. DOMAIN b.txs = {1} /\ b.txs[1] = entry /\ b.txs # << >>
    BY <1>2
  <2>2. Accepted(l.wallets, b) /\ Applied(l.wallets, b) = ApplyCommon(l.wallets, entry)
    BY <1>2, <2>1 DEF Accepted, Applied
  <2>3. Sound(Applied(l.wallets, b)) /\ Matched(Applied(l.wallets, b))
    BY <1>2, <2>2, ApplyCommonSound, ApplyCommonMatched DEF SoundLedger
  <2>4. SoundLedger(ApplyBlock(l, b)) /\ ApplyBlock(l, b).wallets = Applied(l.wallets, b)
    BY <2>3, NextLedger
  <2>5. /\ Coins(l.wallets) \in Nat
        /\ Coins(ApplyCommon(l.wallets, entry)) = Coins(l.wallets)
    BY <1>2, CoinsNat, ApplyCommonCoins DEF SoundLedger
  <2>6. Mints(l, b)
    BY <2>2, <2>4, <2>5 DEF Mints
  <2>7. QED
    BY <2>2, <2>4, <2>6 DEF Fits
<1>3. QED
  BY <1>1, <1>2

(* the forging block, *)
LEMMA ForgingFits ==
    ASSUME NEW l, SoundLedger(l), NEW b, b.type = "forging",
           Within(l.wallets, b.rewards)
    PROVE  Fits(l, b)
<1>1. Accepted(l.wallets, b) /\ Applied(l.wallets, b) = ApplyForging(l.wallets, b.rewards)
  BY DEF Accepted, Applied
<1>2. /\ Sound(Applied(l.wallets, b)) /\ Matched(Applied(l.wallets, b))
      /\ \A a \in Addr : Settled(Applied(l.wallets, b)[a])
  BY <1>1, ApplyForgingSound, ApplyForgingMatched DEF SoundLedger, Within
<1>3. SoundLedger(ApplyBlock(l, b)) /\ ApplyBlock(l, b).wallets = Applied(l.wallets, b)
  BY <1>2, NextLedger
<1>4. /\ Coins(l.wallets) \in Nat
      /\ Coins(ApplyForging(l.wallets, b.rewards))
            = Coins(l.wallets) + FORGING_POOL + FORGING_TEAM_REWARD
  BY CoinsNat, ApplyForgingCoins DEF SoundLedger
<1>5. Mints(l, b)
  BY <1>1, <1>3, <1>4, ForgingAssumption DEF Mints
<1>6. QED
  BY <1>1, <1>2, <1>3, <1>5 DEF Fits

(* and the state block, whose state is that of the wallets when it is read. *)
LEMMA StateFits ==
    ASSUME NEW l, SoundLedger(l), \A a \in Addr : Settled(l.wallets[a]),
           NEW ts, NEW b, b = StateBlock(ts, l.wallets)
    PROVE  Fits(l, b)
<1> DEFINE W == l.wallets
           U == ResetZero(W)
<1>1. b.type = "state"
  BY DEF StateBlock, Block
<1>2. \A a \in Addr : b.wallets[a] = Serialize(U[a])
  BY StateWallets
<1>3. Accepted(W, b) /\ Applied(W, b) = U
  <2>1. \A a \in Addr : b.wallets[a].nonce = U[a].transaction_id
                        /\ b.wallets[a].value = U[a].balance
    <3> HIDE DEF U
    <3>1. \A w : Serialize(w).nonce = w.transaction_id /\ Serialize(w).value = w.balance
      BY DEF Serialize
    <3>2. QED
      BY <1>2, <3>1
  <2>2. StateAccepted(W, b.wallets)
    BY <2>1 DEF StateAccepted
  <2>3. QED
    BY <1>1, <2>2 DEF Accepted, Applied
<1>4. ApplyBlock(l, b) = Ledger(U)
  BY <1>1, <1>3 DEF ApplyBlock
<1>5. ReadState(b) = Ledger(U)
  BY StateRead DEF SoundLedger
<1>6. Sound(U) /\ Matched(U)
  BY ResetZeroSound, ResetZeroMatched DEF SoundLedger
<1>7. SoundLedger(Ledger(U)) /\ Ledger(U).wallets = U
  BY <1>6, LedgerSound
<1>8. Coins(U) = Coins(W) - W[ZERO_WALLET].balance /\ Coins(W) \in Nat
      /\ W[ZERO_WALLET].balance \in Nat
  BY CoinsNat, ResetZeroCoins, DailyAssumption DEF SoundLedger, Sound, Good, Wallet
<1>9. Mints(l, b)
  <2> HIDE DEF U
  <2>1. Coins(ApplyBlock(l, b).wallets) = Coins(W) + (-W[ZERO_WALLET].balance)
    BY <1>4, <1>7, <1>8
  <2>2. QED
    BY <1>1, <2>1 DEF Mints
<1>10. QED
  BY <1>1, <1>3, <1>4, <1>5, <1>7, <1>9 DEF Fits

(* Every block that is made fits its ledger. *)
LEMMA MakeLedgers ==
    ASSUME IInv, NEW L, LedgersOf(L), NEW n \in Node, NEW ts \in 1..MAX_TIME,
           \/ MakeCommon(n, ts) \/ MakeStatistics(n, ts)
           \/ MakeForging(n, ts) \/ MakeState(n, ts)
    PROVE  LedgersOf(L)'
<1> DEFINE l == L[Len(chain)]
           tip == chain[Len(chain)]
<1>1. Len(chain) \in Nat \ {0}
  BY ChainLength DEF IInv
<1>2. /\ SoundLedger(l)
      /\ tip.type = "forging" => \A a \in Addr : Settled(l.wallets[a])
  BY <1>1, LedgerBehind
<1>3. \A b : Offer(n, b) => /\ node[n].height = Len(chain)
                            /\ b.type = NextType(tip, b.ts)
  BY DEF Offer, AtTip
<1>4. ASSUME node[n].height = Len(chain) PROVE ledger[n] = l
  BY <1>1, <1>4 DEF LedgersOf
<1> HIDE DEF l, tip
<1>5. ASSUME NEW b, Offer(n, b), Fits(l, b) PROVE LedgersOf(L)'
  BY <1>5, OfferedFits DEF l
<1>6. CASE MakeCommon(n, ts)
  <2>1. PICK tx \in Tx, state \in {"accept", "wrong_data"} :
            /\ SubResult(ledger[n].wallets[tx.from], tx, RealFee(tx)) = 0
            /\ state = "accept" => CanApplyMethod(Sub(ledger[n].wallets, tx, RealFee(tx)), tx)
            /\ Offer(n, [Block("common", ts) EXCEPT !.txs = <<[tx |-> tx, state |-> state]>>])
    BY <1>6 DEF MakeCommon
  <2> DEFINE entry == [tx |-> tx, state |-> state]
             b == [Block("common", ts) EXCEPT !.txs = <<entry>>]
  <2>2. b.type = "common" /\ b.txs = <<entry>> /\ entry.tx = tx /\ entry.state = state
    BY DEF Block
  <2>3. Offer(n, b)
    BY <2>1
  <2>4. ledger[n] = l
    BY <1>3, <1>4, <2>3
  <2> HIDE DEF entry, b
  <2>5. CommonAccepted(l.wallets, entry)
    BY <2>1, <2>2, <2>4 DEF CommonAccepted
  <2>6. Fits(l, b)
    BY <1>2, <2>2, <2>5, CommonFits
  <2>7. QED
    BY <1>5, <2>3, <2>6
<1>7. CASE MakeStatistics(n, ts)
  <2>1. PICK reports \in Reports : Offer(n, [Block("common", ts) EXCEPT !.reports = reports])
    BY <1>7 DEF MakeStatistics
  <2> DEFINE b == [Block("common", ts) EXCEPT !.reports = reports]
  <2>2. b.type = "common" /\ b.txs = << >>
    BY DEF Block
  <2>3. Offer(n, b)
    BY <2>1
  <2> HIDE DEF b
  <2>4. Fits(l, b)
    BY <1>2, <2>2, CommonFits
  <2>5. QED
    BY <1>5, <2>3, <2>4
<1>8. CASE MakeForging(n, ts)
  <2> DEFINE W == ledger[n].wallets
  <2>1. PICK choice \in RoleChoices(W, node[n].node_statistics), answer \in Answers :
            Offer(n, [Block("forging", ts) EXCEPT !.rewards = ForgingRewards(W, choice, answer)])
    BY <1>8 DEF MakeForging
  <2> DEFINE rewards == ForgingRewards(W, choice, answer)
             b == [Block("forging", ts) EXCEPT !.rewards = rewards]
  <2>2. b.type = "forging" /\ b.rewards = rewards
    BY DEF Block
  <2>3. Offer(n, b)
    BY <2>1
  <2> HIDE DEF b
  <2>4. W = l.wallets
    BY <1>3, <1>4, <2>3
  <2>5. node[n].node_statistics \in SUBSET (Role \X Addr)
    BY DEF IInv, NodesRight, NodeType
  <2>6. Sound(W)
    BY <1>2, <2>4 DEF SoundLedger
  <2> HIDE DEF W
  <2>7. Within(W, rewards)
    BY <2>5, <2>6, RewardsWithin
  <2> HIDE DEF rewards
  <2>8. Fits(l, b)
    BY <1>2, <2>2, <2>4, <2>7, ForgingFits
  <2>9. QED
    BY <1>5, <2>3, <2>8
<1>9. CASE MakeState(n, ts)
  <2> DEFINE W == ledger[n].wallets
             b == StateBlock(ts, W)
  <2>1. Offer(n, b)
    BY <1>9 DEF MakeState
  <2>2. b.type = "state"
    BY DEF StateBlock, Block
  <2>3. W = l.wallets
    BY <1>3, <1>4, <2>1
  <2>4. tip.type = "forging"
    <3> HIDE DEF b
    <3>1. QED
      BY <1>3, <2>1, <2>2 DEF NextType
  <2>5. b = StateBlock(ts, l.wallets)
    BY <2>3
  <2> HIDE DEF b
  <2>6. Fits(l, b)
    BY <1>2, <2>4, <2>5, StateFits
  <2>7. QED
    BY <1>5, <2>1, <2>6
<1>10. QED
  BY <1>6, <1>7, <1>8, <1>9

(* Nodes that change their ledgers change to the one behind their blocks. *)
LEMMA BootstrapLedgers ==
    ASSUME IInv, NEW L, LedgersOf(L), NEW n \in Node, Bootstrap(n)
    PROVE  LedgersOf(L)'
<1>1. PICK h \in DOMAIN chain :
        /\ chain[h].type = "state"
        /\ node' = [node EXCEPT ![n] = [Fresh EXCEPT !.height = h]]
        /\ ledger' = [ledger EXCEPT ![n] = ReadState(chain[h])]
        /\ UNCHANGED <<chain, offered>>
  BY DEF Bootstrap
<1> DEFINE t == [Fresh EXCEPT !.height = h]
<1>2. h \in 1..Len(chain) /\ Len(chain) \in Nat
  BY ChainLength DEF IInv
<1>3. L[h] = ReadState(chain[h])
  BY <1>1, <1>2, LedgerBehind
<1>4. t.height = h /\ t.status = "running" /\ h # 0
  BY <1>2 DEF Fresh
<1>5. node' = [node EXCEPT ![n] = t]
  BY <1>1
<1> HIDE DEF t
<1>6. node'[n] = t /\ \A k \in Node \ {n} : node'[k] = node[k]
  BY <1>5 DEF IInv, NodesRight
<1>7. ledger' = [k \in Node |-> IF node'[k].height = 0 THEN NoLedger ELSE L[node'[k].height]]
  BY <1>1, <1>3, <1>4, <1>6 DEF LedgersOf
<1>8. \A k \in Node : node'[k].status = "running"
  BY <1>4, <1>6 DEF LedgersOf
<1>9. UNCHANGED <<chain, offered>>
  BY <1>1
<1>10. QED
  BY <1>7, <1>8, <1>9 DEF LedgersOf

(* A stop takes the ledger of the node away. *)
LEMMA StopLedgers ==
    ASSUME IInv, NEW L, LedgersOf(L), NEW n \in Node, Stop(n)
    PROVE  LedgersOf(L)'
<1>1. Fresh.height = 0 /\ Fresh.status = "running"
  BY DEF Fresh
<1>2. node' = [node EXCEPT ![n] = Fresh]
  BY DEF Stop
<1>3. node'[n] = Fresh /\ \A k \in Node \ {n} : node'[k] = node[k]
  BY <1>2 DEF IInv, NodesRight
<1>4. ledger' = [ledger EXCEPT ![n] = NoLedger] /\ UNCHANGED <<chain, offered>>
  BY DEF Stop
<1>5. ledger' = [k \in Node |-> IF node'[k].height = 0 THEN NoLedger ELSE L[node'[k].height]]
  BY <1>1, <1>3, <1>4 DEF LedgersOf
<1>6. QED
  BY <1>1, <1>3, <1>4, <1>5 DEF LedgersOf

(* A block applied by a follower leads to the ledger behind it. *)
LEMMA FollowLedgers ==
    ASSUME IInv, NEW L, LedgersOf(L), NEW n \in Node, Follow(n)
    PROVE  LedgersOf(L)'
<1> DEFINE s == node[n]
           h == s.height
           b == chain[h + 1]
           t == [s EXCEPT !.height = @ + 1,
                          !.node_statistics = Count(@, b),
                          !.created = FALSE,
                          !.tried = FALSE,
                          !.stray = @ /\ b.type # "forging"]
<1>1. s \in NodeType /\ Len(chain) \in Nat /\ h \in 1 .. Len(chain) - 1
  BY ChainLength DEF Follow, IInv, NodesRight
<1>2. Fits(L[h], b) /\ L[h + 1] = ApplyBlock(L[h], b)
  <2>1. h + 1 \in 2..Len(chain) /\ (h + 1) - 1 = h
    BY <1>1
  <2> HIDE DEF h
  <2>2. QED
    BY <2>1 DEF LedgersOf
<1>3. ledger[n] = L[h]
  BY <1>1 DEF LedgersOf
<1>4. /\ node' = [node EXCEPT ![n] = t]
      /\ ledger' = [ledger EXCEPT ![n] = ApplyBlock(ledger[n], b)]
      /\ UNCHANGED <<chain, offered>>
  BY <1>2, <1>3 DEF Follow, Fits
<1>5. t.height = h + 1 /\ t.status = s.status /\ h + 1 # 0
  BY <1>1 DEF NodeType
<1> HIDE DEF t
<1>6. node'[n] = t /\ \A k \in Node \ {n} : node'[k] = node[k]
  BY <1>4 DEF IInv, NodesRight
<1> HIDE DEF b
<1>7. ledger' = [k \in Node |-> IF node'[k].height = 0 THEN NoLedger ELSE L[node'[k].height]]
  BY <1>2, <1>3, <1>4, <1>5, <1>6 DEF LedgersOf
<1>8. QED
  BY <1>4, <1>5, <1>6, <1>7 DEF LedgersOf

(* A block decided appends the ledger behind it. *)
LEMMA DecideLedgers ==
    ASSUME IInv, NEW L, LedgersOf(L), Decide
    PROVE  LedgersRight'
<1>1. PICK b \in offered : chain' = Append(chain, b) /\ offered' = {}
                           /\ UNCHANGED <<node, ledger>>
  BY DEF Decide
<1> DEFINE N == Len(chain)
<1>0. PICK M : M = [h \in 1..N + 1 |-> IF h <= N THEN L[h] ELSE ApplyBlock(L[N], b)]
  OBVIOUS
<1>2. PICK S : chain \in Seq(S)
  BY DEF IInv, ChainRight
<1>3. /\ N \in Nat \ {0} /\ Len(chain') = N + 1
      /\ chain'[N + 1] = b /\ \A i \in 1..N : chain'[i] = chain[i]
  BY <1>1, <1>2, Appended, ChainLength DEF IInv
<1>4. Fits(L[N], b)
  BY <1>1 DEF LedgersOf
<1>5. \A n \in Node : node[n].height = 0 \/ node[n].height \in 1..N
  BY <1>3 DEF IInv, NodesRight, NodeType
<1> HIDE DEF N
<1>6. (\A h \in 1..N : M[h] = L[h]) /\ M[N + 1] = ApplyBlock(L[N], b)
  BY <1>0, <1>3
<1>7. M[1] = ReadState(chain'[1]) /\ SoundLedger(M[1])
  BY <1>3, <1>6 DEF LedgersOf
<1>8. ASSUME NEW h \in 2..N + 1
      PROVE  Fits(M[h - 1], chain'[h]) /\ M[h] = ApplyBlock(M[h - 1], chain'[h])
  <2>1. CASE h = N + 1
    <3>1. h - 1 = N /\ M[h - 1] = L[N] /\ chain'[h] = b /\ M[h] = ApplyBlock(L[N], b)
      BY <1>3, <1>6, <2>1
    <3>2. QED
      BY <1>4, <3>1
  <2>2. CASE h \in 2..N
    <3>1. h - 1 \in 1..N /\ h \in 1..N
      BY <1>3, <2>2
    <3>2. M[h - 1] = L[h - 1] /\ M[h] = L[h] /\ chain'[h] = chain[h]
      BY <1>3, <1>6, <3>1
    <3>3. Fits(L[h - 1], chain[h]) /\ L[h] = ApplyBlock(L[h - 1], chain[h])
      BY <2>2 DEF LedgersOf, N
    <3>4. QED
      BY <3>2, <3>3
  <2>3. QED
    BY <1>3, <2>1, <2>2
<1>9. ledger' = [n \in Node |-> IF node'[n].height = 0 THEN NoLedger ELSE M[node'[n].height]]
  BY <1>1, <1>5, <1>6 DEF LedgersOf
<1>10. LedgersOf(M)'
  BY <1>1, <1>3, <1>7, <1>8, <1>9 DEF LedgersOf
<1>11. QED
  BY <1>10 DEF LedgersRight

(* The ledgers of the first state block. *)
LEMMA InitLedgers ==
    ASSUME Init
    PROVE  LedgersRight
<1> DEFINE b == StateBlock(0, Opening)
           l == ReadState(b)
           L == [h \in {1} |-> l]
<1>1. Len(chain) = 1 /\ chain[1] = b /\ offered = {}
  BY DEF Init
<1>2. \A n \in Node : node[n].height = 0 /\ node[n].status = "running"
  BY DEF Init, Fresh
<1>3. ledger = [n \in Node |-> NoLedger]
  BY DEF Init
<1>4. SoundLedger(l)
  <2> DEFINE V == [a \in Addr |-> Initialize(b.wallets[a])]
  <2>1. l = Ledger(V)
    BY DEF ReadState
  <2>2. Sound(l.wallets) /\ Matched(l.wallets)
    BY OpeningSound, OpeningMatched
  <2> HIDE DEF V, l
  <2>3. Sound(V) /\ Matched(V)
    BY <2>1, <2>2, LedgerWallets
  <2>4. QED
    BY <2>1, <2>3, LedgerSound
<1>5. L[1] = l
  OBVIOUS
<1> HIDE DEF b, L
<1>6. 2..Len(chain) = {}
  BY <1>1
<1>7. LedgersOf(L)
  BY <1>1, <1>2, <1>3, <1>4, <1>5, <1>6 DEF LedgersOf
<1>8. QED
  BY <1>7 DEF LedgersRight

(* Every step keeps the ledgers right. *)
LEMMA NextLedgers ==
    ASSUME IInv, LedgersRight, [Next]_vars
    PROVE  LedgersRight'
<1>1. PICK L : LedgersOf(L)
  BY DEF LedgersRight
<1>2. LedgersOf(L)' => LedgersRight'
  BY DEF LedgersRight
<1>3. CASE UNCHANGED vars
  <2>1. LedgersOf(L)'
    BY <1>1, <1>3 DEF LedgersOf, vars
  <2>2. QED
    BY <1>2, <2>1
<1>4. ASSUME NEW n \in Node, Try(n) PROVE LedgersOf(L)'
  <2> DEFINE t(b) == [node[n] EXCEPT !.tried = TRUE, !.node_statistics = Count(@, b)]
  <2>1. PICK b \in offered : /\ node' = [node EXCEPT ![n].tried = TRUE, ![n].node_statistics = Count(@, b)]
                             /\ UNCHANGED <<chain, offered, ledger>>
    BY <1>4 DEF Try
  <2>2. node[n] \in NodeType /\ node \in [Node -> NodeType]
    BY DEF IInv, NodesRight
  <2>3. \A k \in Node : node'[k].height = node[k].height /\ node'[k].status = node[k].status
    BY <2>1, <2>2 DEF NodeType
  <2>4. \A c \in offered' : Fits(L[Len(chain)], c)
    BY <1>1, <2>1 DEF LedgersOf
  <2>5. QED
    BY <1>1, <2>1, <2>3, <2>4, LedgersKept
<1>5. ASSUME Lose PROVE LedgersOf(L)'
  <2>1. PICK b \in offered : /\ offered' = {} /\ UNCHANGED <<chain, ledger>>
                             /\ node' = [n \in Node |->
                                  IF node[n].height = Len(chain) /\ node[n].tried
                                  THEN [node[n] EXCEPT !.tried = FALSE, !.stray = @ \/ Distracts(b)]
                                  ELSE node[n]]
    BY <1>5 DEF Lose
  <2>2. \A k \in Node : node'[k].height = node[k].height /\ node'[k].status = node[k].status
    BY <2>1 DEF IInv, NodesRight, NodeType
  <2>3. QED
    BY <1>1, <2>1, <2>2, LedgersKept
<1>6. CASE Next
  BY <1>1, <1>2, <1>4, <1>5, <1>6, BootstrapLedgers, FollowLedgers, StopLedgers,
     MakeLedgers, DecideLedgers DEF Next
<1>7. QED
  BY <1>3, <1>6

(* The ledgers of all nodes are those behind their blocks. *)
THEOREM LedgerInvariance == Spec => []LedgersRight
<1>1. Init => LedgersRight
  BY InitLedgers
<1>2. IInv /\ LedgersRight /\ [Next]_vars => LedgersRight'
  BY NextLedgers
<1>3. QED
  BY <1>1, <1>2, Invariance, PTL DEF Spec

(* All nodes that have applied the same blocks have the same wallets, of one
   that has just read the state block as of one that applied all of the blocks:
   a state block is read as the state that its makers had. *)
THEOREM NodesAgreement == Spec => []NodesAgree
<1>1. LedgersRight => NodesAgree
  BY DEF LedgersRight, LedgersOf, NodesAgree
<1>2. QED
  BY <1>1, LedgerInvariance, PTL

(* Delegated coins are counted once. *)
LEMMA NothingDelegated ==
    /\ Sound([a \in Addr |-> NewWallet])
    /\ Matched([a \in Addr |-> NewWallet])
<1> DEFINE v == NewWallet
           W == [a \in Addr |-> v]
<1>1. Good(v) /\ Settled(v)
  BY PlainGood DEF NewWallet
<1>2. v.delegate_to = << >> /\ v.delegated_from = << >>
  BY DEF NewWallet, Plain
<1> HIDE DEF v
<1>3. Sound(W)
  BY <1>1 DEF Sound, Good
<1>4. \A a \in Kept : W[a] = v
  BY DEF Kept
<1>5. v.delegate_to_daly_snapshot = << >> /\ v.delegated_from_daly_snapshot = << >>
  BY <1>1, <1>2 DEF Settled
<1>6. Matched(W)
  <2> HIDE DEF W
  <2> SUFFICES ASSUME NEW a \in Kept, NEW b \in Kept
               PROVE  /\ Amounts(W[a].delegate_to, b) = Amounts(W[b].delegated_from, a)
                      /\ Amounts(W[a].delegate_to_daly_snapshot, b)
                            = Amounts(W[b].delegated_from_daly_snapshot, a)
    BY DEF Matched
  <2>0. Amounts(<< >>, a) = Amounts(<< >>, b)
    <3>1. << >> \in Seq(Delegation) /\ Len(<< >>) = 0
      OBVIOUS
    <3>2. \A k \in 1 .. Len(<< >>) : FALSE
      BY <3>1
    <3>3. Amounts(<< >>, a) = << >>
      BY <3>1, <3>2, AmountsNone, Zenon
    <3>4. Amounts(<< >>, b) = << >>
      BY <3>1, <3>2, AmountsNone, Zenon
    <3>5. QED
      BY <3>3, <3>4
  <2>1. W[a] = v /\ W[b] = v
    BY <1>4
  <2>2. QED
    BY <2>0, <2>1, <1>2, <1>5
<1>7. QED
  BY <1>3, <1>6 DEF v

(* No chain of transactions, forging blocks and state blocks makes the sums of
   a wallet differ from its lists, exceed its balance, or one side of a
   delegation differ from the other. *)
THEOREM DelegationsAgreement == Spec => []DelegationsMatch
<1>1. IInv /\ LedgersRight => DelegationsMatch
  <2> SUFFICES ASSUME IInv, LedgersRight, NEW n \in Node
               PROVE  Sound(ledger[n].wallets) /\ Matched(ledger[n].wallets)
    BY DEF DelegationsMatch, Sound, Good, Matched, Kept
  <2>1. PICK L : LedgersOf(L)
    BY DEF LedgersRight
  <2>2. Len(chain) \in Nat /\ node[n].height \in Nat /\ node[n].height <= Len(chain)
    BY ChainLength DEF IInv, NodesRight, NodeType
  <2>3. CASE node[n].height = 0
    <3>1. ledger[n] = NoLedger
      BY <2>1, <2>3 DEF LedgersOf
    <3>2. ledger[n].wallets = [a \in Addr |-> NewWallet]
      BY <3>1, LedgerWallets DEF NoLedger
    <3>3. QED
      BY <3>2, NothingDelegated
  <2>4. CASE node[n].height # 0
    <3>1. ledger[n] = L[node[n].height]
      BY <2>1, <2>4 DEF LedgersOf
    <3>2. node[n].height \in 1..Len(chain)
      BY <2>2, <2>4
    <3>3. SoundLedger(L[node[n].height])
      BY <2>1, <3>2, LedgerBehind
    <3>4. QED
      BY <3>1, <3>3 DEF SoundLedger
  <2>5. QED
    BY <2>3, <2>4
<1>2. QED
  BY <1>1, Invariance, LedgerInvariance, PTL

(* Only a node that applies the next block comes one block further. *)
LEMMA OnlyFollowAdvances ==
    ASSUME IInv, [Next]_vars, NEW n \in Node,
           node[n].height > 0, node'[n].height = node[n].height + 1
    PROVE  Follow(n)
<1>1. node \in [Node -> NodeType] /\ node[n].height \in Nat
  BY DEF IInv, NodesRight, NodeType
<1>2. node'[n].height # node[n].height
  BY <1>1
<1>3. ASSUME NEW k \in Node, NEW t, node' = [node EXCEPT ![k] = t] PROVE k = n /\ node'[n] = t
  BY <1>1, <1>2, <1>3
<1>4. ASSUME NEW k \in Node, Bootstrap(k) PROVE FALSE
  <2>1. PICK t : node' = [node EXCEPT ![k] = t] /\ node[k].height = 0
    BY <1>4 DEF Bootstrap
  <2>2. k = n
    BY <1>3, <2>1, Zenon
  <2>3. QED
    BY <2>1, <2>2
<1>5. ASSUME NEW k \in Node, Follow(k) PROVE k = n
  <2>1. PICK t : node' = [node EXCEPT ![k] = t]
    BY <1>5 DEF Follow
  <2>2. QED
    BY <1>3, <2>1, Zenon
<1>6. ASSUME NEW k \in Node, Stop(k) PROVE FALSE
  <2>1. node'[n] = Fresh
    BY <1>3, <1>6 DEF Stop
  <2>2. Fresh.height = 0
    BY DEF Fresh
  <2>3. QED
    BY <1>1, <2>1, <2>2
<1>7. ASSUME NEW k \in Node, Try(k) PROVE FALSE
  <2>1. PICK b \in offered :
            node' = [node EXCEPT ![k].tried = TRUE, ![k].node_statistics = Count(@, b)]
    BY <1>7 DEF Try
  <2>2. node'[n].height = node[n].height
    BY <1>1, <2>1 DEF NodeType
  <2>3. QED
    BY <1>2, <2>2
<1>8. ASSUME NEW k \in Node, NEW b, Offer(k, b) PROVE FALSE
  <2> DEFINE t == [node[k] EXCEPT !.created = TRUE, !.tried = TRUE,
                                  !.node_statistics = Count(@, b)]
             u == [node[k] EXCEPT !.status = "exited"]
  <2>1. node' = [node EXCEPT ![k] = t] \/ node' = [node EXCEPT ![k] = u]
    BY <1>8 DEF Offer
  <2>2. t.height = node[k].height /\ u.height = node[k].height
    BY <1>1 DEF NodeType
  <2> HIDE DEF t, u
  <2>3. k = n /\ (node'[n] = t \/ node'[n] = u)
    BY <1>3, <2>1, Zenon
  <2>4. QED
    BY <1>2, <2>2, <2>3
<1>9. ASSUME NEW k \in Node, NEW ts \in 1..MAX_TIME,
             \/ MakeCommon(k, ts) \/ MakeStatistics(k, ts)
             \/ MakeForging(k, ts) \/ MakeState(k, ts)
      PROVE  FALSE
  <2>1. \E b : Offer(k, b)
    BY <1>9 DEF MakeCommon, MakeStatistics, MakeForging, MakeState
  <2>2. QED
    BY <1>8, <2>1
<1>10. ~Decide
  BY <1>2 DEF Decide
<1>11. ~Lose
  <2> SUFFICES ASSUME Lose PROVE FALSE
    OBVIOUS
  <2>1. PICK b \in offered : node' = [k \in Node |->
                IF node[k].height = Len(chain) /\ node[k].tried
                THEN [node[k] EXCEPT !.tried = FALSE, !.stray = @ \/ Distracts(b)]
                ELSE node[k]]
    BY DEF Lose
  <2>2. node'[n].height = node[n].height
    BY <1>1, <2>1 DEF NodeType
  <2>3. QED
    BY <1>2, <2>2
<1>12. ~UNCHANGED vars
  BY <1>2 DEF vars
<1>13. QED
  BY <1>4, <1>5, <1>6, <1>7, <1>9, <1>10, <1>11, <1>12 DEF Next

(* A block that is applied makes and takes the coins of its type: what a forging
   block does not pay out of the pool goes to the fee wallet, and it never pays
   more than the pool. *)
THEOREM CoinsAreMinted == Spec => CoinsMinted
<1> DEFINE Minted(n) ==
        node[n].height > 0 /\ node'[n].height = node[n].height + 1 =>
            Coins(ledger'[n].wallets) = Coins(ledger[n].wallets) +
                CASE chain[node'[n].height].type = "forging" -> FORGING_POOL + FORGING_TEAM_REWARD
                  [] chain[node'[n].height].type = "state" -> -ledger[n].wallets[ZERO_WALLET].balance
                  [] chain[node'[n].height].type = "common" -> 0
<1>1. ASSUME IInv, LedgersRight, [Next]_vars
      PROVE  \A n \in Node : Minted(n)
  <2> SUFFICES ASSUME NEW n \in Node,
                      node[n].height > 0, node'[n].height = node[n].height + 1
               PROVE  Minted(n)
    OBVIOUS
  <2>1. PICK L : LedgersOf(L)
    BY <1>1 DEF LedgersRight
  <2> DEFINE h == node[n].height
             b == chain[h + 1]
  <2>2. Follow(n)
    BY <1>1, OnlyFollowAdvances
  <2>3. h \in 1 .. Len(chain) - 1 /\ Len(chain) \in Nat
    BY <1>1, <2>2, ChainLength DEF Follow, IInv
  <2>4. Fits(L[h], b)
    <3>1. h + 1 \in 2..Len(chain) /\ (h + 1) - 1 = h
      BY <2>3
    <3> HIDE DEF h
    <3>2. QED
      BY <2>1, <3>1 DEF LedgersOf
  <2>5. ledger[n] = L[h] /\ n \in DOMAIN ledger
    BY <2>1, <2>3 DEF LedgersOf
  <2>6. ledger' = [ledger EXCEPT ![n] = ApplyBlock(ledger[n], b)]
    BY <2>2, <2>4, <2>5 DEF Follow, Fits
  <2>7. ledger'[n] = ApplyBlock(ledger[n], b) /\ Mints(ledger[n], b)
    BY <2>4, <2>5, <2>6 DEF Fits
  <2>8. chain[node'[n].height] = b
    OBVIOUS
  <2> HIDE DEF b
  <2>9. QED
    BY <2>7, <2>8 DEF Mints
<1>2. IInv /\ LedgersRight /\ [Next]_vars => [\A n \in Node : Minted(n)]_vars
  BY <1>1
<1>3. [\A n \in Node : Minted(n)]_vars => [\A n \in Node :
        LET b == chain[node'[n].height]
            W == ledger[n].wallets
        IN  node[n].height > 0 /\ node'[n].height = node[n].height + 1 =>
                Coins(ledger'[n].wallets) = Coins(W) +
                    CASE b.type = "forging" -> FORGING_POOL + FORGING_TEAM_REWARD
                      [] b.type = "state" -> -W[ZERO_WALLET].balance
                      [] b.type = "common" -> 0]_vars
  OBVIOUS
<1>4. QED
  BY <1>2, <1>3, Invariance, LedgerInvariance, PTL DEF Spec, CoinsMinted
=============================================================================
