--------------------------- MODULE ChainSyncProofs ---------------------------
(* Theorems about ChainSync, for any chain, any cores and any answers. *)
EXTENDS ChainSync, WellFoundedInduction, TLAPS

(* The fixed facts the proofs use. *)
LEMMA Constants ==
    /\ MAX_HEIGHT \in Nat /\ Made \in Height /\ Primary \in Peer /\ NoPeer \notin Peer
    /\ Height = 1..MAX_HEIGHT /\ None = -2 /\ Asked = -1
    /\ Starts \subseteq [applied : 0..Made, proved : 0..Made]
    /\ MAX_LOST \in Nat
BY ChainAssumption, PeerAssumption, StartAssumption DEF Height, None, Asked

(* A last block is a height, between what the core applied and the newest. *)
LEMMA LastBlockBounds ==
    ASSUME TypeOK, PeersInv, NEW p \in Peer
    PROVE  LastBlock(p) \in Height /\ applied[p] <= LastBlock(p) /\ LastBlock(p) <= top[Primary]
<1>1. /\ applied[p] <= top[p] /\ top[p] <= top[Primary]
      /\ applied[p] \in 1..MAX_HEIGHT /\ top[p] \in 1..MAX_HEIGHT /\ top[Primary] \in 1..MAX_HEIGHT
    BY Constants DEF TypeOK, PeersInv
<1> QED  BY <1>1, Constants DEF LastBlock

(* One question for a last block changes. *)
LEMMA CallChanged ==
    ASSUME TypeOK, NEW p \in Peer, NEW i \in 0..1, NEW v \in {None, Asked} \cup Height,
           last_block_calls' = [last_block_calls EXCEPT ![p][i] = v]
    PROVE  /\ last_block_calls' \in [Peer -> [0..1 -> {None, Asked} \cup Height]]
           /\ \A r \in Peer, j \in 0..1 :
                last_block_calls'[r][j] = IF r = p /\ j = i THEN v ELSE last_block_calls[r][j]
BY DEF TypeOK

-----------------------------------------------------------------------------
(* What the history behind says after a step: nothing of a core that is not
   connected, or whose last block moved or came. *)
LEMMA Watched ==
    ASSUME NEW polled \in BOOLEAN, Watch(polled), TypeOK
    PROVE  /\ behind' \in [Peer -> 0..2]
           /\ \A p \in Peer : behind'[p] > 0 =>
                /\ p \in cores /\ Lacking(p)' /\ LastBlock(p)' = LastBlock(p)
                /\ ~polled => behind'[p] = behind[p]
                /\ polled => AllAnswered /\ (behind'[p] = 2 => behind[p] > 0)
<1>1. ASSUME NEW p \in Peer
      PROVE  behind[p] \in 0..2
    BY <1>1 DEF TypeOK
<1> QED  BY <1>1 DEF Watch

(* Steps that leave the questions for last blocks and the counters alone. *)
LEMMA BehindKept ==
    ASSUME IInv, Watch(FALSE), cores' = cores, lost' = lost,
           UNCHANGED <<not_actualized, actualization_iteration, last_block_calls>>
    PROVE  BehindInv'
<1>1. SUFFICES ASSUME NEW p \in Peer, behind'[p] > 0
               PROVE  /\ p \in cores' /\ Lacking(p)'
                      /\ lost' = 0 =>
                            /\ \/ last_block_calls'[p][1 - Counter'] \in {Asked, LastBlock(p)'}
                               \/ not_actualized'[1 - Counter'] > 0
                            /\ behind'[p] = 2 => not_actualized'[Counter'] > 0
    BY DEF BehindInv
<1>2. /\ p \in cores /\ Lacking(p)' /\ LastBlock(p)' = LastBlock(p) /\ behind'[p] = behind[p]
    BY <1>1, Watched DEF IInv
<1>3. Counter' = Counter
    BY DEF Counter
<1> QED  BY <1>1, <1>2, <1>3 DEF IInv, BehindInv

(* A step that only moves the calls and the store of this core. *)
LEMMA SelfStep ==
    ASSUME IInv, Watch(FALSE), lost' = lost, heard' \subseteq Height,
           UNCHANGED <<peers, last_applied_block, proved_block, not_actualized,
                       actualization_iteration, last_block_calls>>,
           blocks' \subseteq Height,
           missing_blocks' \subseteq (Peer \cup {NoPeer}) \X Height,
           list_calls' \subseteq cores \X (0..MAX_HEIGHT),
           block_calls' \subseteq cores \X Height,
           pretended' \subseteq Height
    PROVE  IInv'
<1>1. cores' = cores /\ top' = top /\ applied' = applied
    BY DEF peers
<1>2. BehindInv'
    BY <1>1, BehindKept
<1>3. TypeOK'
    BY <1>1, Watched DEF IInv, TypeOK
<1>4. PeersInv'
    BY <1>1 DEF IInv, PeersInv
<1> QED  BY <1>2, <1>3, <1>4 DEF IInv

-----------------------------------------------------------------------------
(* One lemma per action. *)

LEMMA InitInv == Init => IInv
<1> SUFFICES ASSUME Init PROVE IInv
    OBVIOUS
<1> USE Constants
<1>1. PICK s \in Starts : last_applied_block = s.applied /\ proved_block = s.proved
                            /\ blocks = 1..s.applied
    BY DEF Init
<1>2. s.applied \in 0..Made /\ s.proved \in 0..Made /\ Made \in 1..MAX_HEIGHT
    BY <1>1
<1>3. blocks \subseteq Height /\ last_applied_block \in 0..MAX_HEIGHT
        /\ proved_block \in 0..MAX_HEIGHT
    BY <1>1, <1>2
<1>4. cores \subseteq Peer
    BY StartAssumption DEF Init
<1>5. TypeOK
    BY <1>3, <1>4 DEF Init, TypeOK
<1>6. PeersInv
    BY DEF Init, PeersInv
<1>7. BehindInv
    BY DEF Init, BehindInv
<1> QED  BY <1>5, <1>6, <1>7 DEF IInv

LEMMA MakeBlockInv == IInv /\ MakeBlock => IInv'
<1> SUFFICES ASSUME IInv, MakeBlock PROVE IInv'
    OBVIOUS
<1> USE Constants
<1>1. /\ applied' = applied /\ cores' = cores /\ lost' = lost
      /\ UNCHANGED <<blocks, last_applied_block, proved_block, missing_blocks, not_actualized,
                     actualization_iteration, last_block_calls, list_calls, block_calls, heard>>
    BY DEF MakeBlock, self
<1>2. BehindInv'
    BY <1>1, BehindKept DEF MakeBlock
<1>3. top[Primary] \in 1..MAX_HEIGHT /\ top[Primary] + 1 \in Height
    BY DEF IInv, TypeOK, MakeBlock
<1>4. top' \in [Peer -> Height] /\ \A p \in Peer : top'[p] = IF p = Primary THEN top[p] + 1 ELSE top[p]
    BY <1>3 DEF IInv, TypeOK, MakeBlock
<1>5. pretended' \subseteq Height
    BY <1>3 DEF IInv, TypeOK, MakeBlock
<1>6. TypeOK'
    BY <1>1, <1>4, <1>5, Watched DEF IInv, TypeOK, MakeBlock
<1>7. \A p \in Peer : applied[p] \in 1..MAX_HEIGHT /\ top[p] \in 1..MAX_HEIGHT
    BY DEF IInv, TypeOK
<1>8. PeersInv'
    BY <1>1, <1>4, <1>7 DEF IInv, PeersInv
<1> QED  BY <1>2, <1>6, <1>8 DEF IInv

LEMMA PeerInv ==
    ASSUME IInv, NEW p \in Peer, PeerStores(p) \/ PeerApplies(p)
    PROVE  IInv'
<1> USE Constants
<1>1. /\ cores' = cores /\ lost' = lost
      /\ UNCHANGED <<blocks, last_applied_block, proved_block, missing_blocks, not_actualized,
                     actualization_iteration, last_block_calls, list_calls, block_calls,
                     pretended, heard>>
    BY DEF PeerStores, PeerApplies, self, calls
<1>2. Watch(FALSE)
    BY DEF PeerStores, PeerApplies
<1>3. BehindInv'
    BY <1>1, <1>2, BehindKept
<1>4. \A r \in Peer : /\ applied[r] \in 1..MAX_HEIGHT /\ top[r] \in 1..MAX_HEIGHT
                     /\ applied[r] <= top[r] /\ top[r] <= top[Primary]
    BY DEF IInv, TypeOK, PeersInv
<1>5. /\ top' \in [Peer -> Height] /\ applied' \in [Peer -> Height]
      /\ \A r \in Peer : applied'[r] <= top'[r] /\ top'[r] <= top'[Primary]
  <2>1. CASE PeerStores(p)
    <3>1. top[p] < top[Primary] /\ top' = [top EXCEPT ![p] = top[p] + 1] /\ applied' = applied
        BY <2>1 DEF PeerStores
    <3>2. top[p] + 1 \in Height /\ p # Primary
        BY <3>1, <1>4
    <3> QED  BY <3>1, <3>2, <1>4 DEF IInv, TypeOK
  <2>2. CASE PeerApplies(p)
    <3>1. applied[p] < top[p] /\ applied' = [applied EXCEPT ![p] = applied[p] + 1] /\ top' = top
        BY <2>2 DEF PeerApplies
    <3>2. applied[p] + 1 \in Height
        BY <3>1, <1>4
    <3> QED  BY <3>1, <3>2, <1>4 DEF IInv, TypeOK
  <2> QED  BY <2>1, <2>2
<1>6. TypeOK'
    BY <1>1, <1>2, <1>5, Watched DEF IInv, TypeOK
<1>7. PeersInv'
    BY <1>1, <1>5 DEF IInv, PeersInv
<1> QED  BY <1>3, <1>6, <1>7 DEF IInv

(* What may be applied next is stored. *)
LEMMA AwaitedStored == Awaited \subseteq blocks /\ Unfound \subseteq Height
BY DEF Awaited, Unfound

LEMMA MainLoopInv ==
    ASSUME IInv, NEW poll \in BOOLEAN, MainLoop(poll)
    PROVE  IInv'
<1> USE Constants
<1>1. /\ cores' = cores /\ lost' = lost /\ top' = top /\ applied' = applied
      /\ UNCHANGED <<blocks, proved_block, list_calls, block_calls, pretended, heard>>
      /\ Watch(poll)
    BY DEF MainLoop, peers
<1>2. last_applied_block' \in 0..MAX_HEIGHT
    BY AwaitedStored DEF MainLoop, CheckAwaitedBlocks, IInv, TypeOK
<1>3. missing_blocks' \subseteq (Peer \cup {NoPeer}) \X Height
    BY AwaitedStored DEF MainLoop, IInv, TypeOK
<1>4. CASE ~poll
  <2>1. UNCHANGED <<not_actualized, actualization_iteration, last_block_calls>>
      BY <1>4 DEF MainLoop
  <2>2. BehindInv'
      BY <1>1, <1>4, <2>1, BehindKept
  <2>3. TypeOK'
      BY <1>1, <1>2, <1>3, <2>1, Watched DEF IInv, TypeOK
  <2>4. PeersInv'
      BY <1>1, <2>1 DEF IInv, PeersInv
  <2> QED  BY <2>2, <2>3, <2>4 DEF IInv
<1>5. CASE poll
  <2>1. /\ not_actualized' = [not_actualized EXCEPT ![Counter] = 0]
        /\ actualization_iteration' = 1 - Counter
        /\ last_block_calls' = [p \in Peer |->
                [last_block_calls[p] EXCEPT ![Counter] = IF p \in cores THEN Asked ELSE None]]
      BY <1>5 DEF MainLoop, CheckIfChainActual, Ask
  <2>2. Counter \in 0..1 /\ 1 - Counter \in 0..1 /\ Counter' = 1 - Counter /\ 1 - Counter' = Counter
      BY <2>1 DEF Counter, IInv, TypeOK
  <2>3. /\ not_actualized' \in [0..1 -> Nat]
        /\ not_actualized'[1 - Counter] = not_actualized[1 - Counter]
      BY <2>1, <2>2 DEF IInv, TypeOK
  <2>4. ASSUME NEW p \in Peer
        PROVE  /\ last_block_calls'[p] \in [0..1 -> {None, Asked} \cup Height]
               /\ last_block_calls'[p][Counter] = IF p \in cores THEN Asked ELSE None
               /\ last_block_calls'[p][1 - Counter] = last_block_calls[p][1 - Counter]
    <3>1. last_block_calls[p] \in [0..1 -> {None, Asked} \cup Height]
        BY DEF IInv, TypeOK
    <3>2. last_block_calls'[p] = [last_block_calls[p] EXCEPT ![Counter] = IF p \in cores THEN Asked ELSE None]
        BY <2>1
    <3>3. Counter # 1 - Counter
        BY <2>2
    <3> QED  BY <2>2, <3>1, <3>2, <3>3
  <2>5. last_block_calls' \in [Peer -> [0..1 -> {None, Asked} \cup Height]]
      BY <2>1, <2>4
  <2>6. TypeOK'
      BY <1>1, <1>2, <1>3, <2>1, <2>2, <2>3, <2>5, Watched DEF IInv, TypeOK
  <2>7. PeersInv'
    <3>1. ASSUME NEW p \in Peer, NEW i \in 0..1, last_block_calls'[p][i] # None
          PROVE  p \in cores
      <4>1. CASE i = Counter
          BY <2>4, <3>1, <4>1
      <4>2. CASE i = 1 - Counter
          BY <2>2, <2>4, <3>1, <4>2 DEF IInv, PeersInv
      <4> QED  BY <2>2, <4>1, <4>2
    <3> QED  BY <1>1, <3>1 DEF IInv, PeersInv
  <2>8. BehindInv'
    <3>1. SUFFICES ASSUME NEW p \in Peer, behind'[p] > 0
                   PROVE  /\ p \in cores' /\ Lacking(p)'
                          /\ lost' = 0 =>
                             /\ \/ last_block_calls'[p][1 - Counter'] \in {Asked, LastBlock(p)'}
                                \/ not_actualized'[1 - Counter'] > 0
                             /\ behind'[p] = 2 => not_actualized'[Counter'] > 0
        BY DEF BehindInv
    <3>2. /\ p \in cores /\ Lacking(p)' /\ AllAnswered
          /\ behind'[p] = 2 => behind[p] > 0
        BY <1>1, <1>5, <3>1, Watched DEF IInv
    <3>3. last_block_calls'[p][1 - Counter'] = Asked
        BY <2>2, <2>4, <3>2
    <3>4. ASSUME lost = 0, behind[p] > 0
          PROVE  not_actualized[1 - Counter] > 0
      <4>1. last_block_calls[p][1 - Counter] = None
          BY <2>2, <3>2 DEF AllAnswered
      <4>2. LastBlock(p) \in Height
          BY LastBlockBounds DEF IInv
      <4> QED  BY <3>4, <4>1, <4>2 DEF IInv, BehindInv
    <3> QED  BY <1>1, <2>2, <2>3, <3>2, <3>3, <3>4
  <2> QED  BY <2>6, <2>7, <2>8 DEF IInv
<1> QED  BY <1>4, <1>5

(* An answer is written down, or handled: the history of the other polls
   stays, and what the answer tells is counted. *)
LEMMA LastBlockStepInv ==
    ASSUME IInv, NEW p \in Peer, NEW i \in 0..1,
           AnswerLastBlock(p, i) \/ HandleLastBlock(p, i)
    PROVE  IInv'
<1> USE Constants
<1>1. /\ cores' = cores /\ lost' = lost /\ top' = top /\ applied' = applied
      /\ UNCHANGED <<blocks, last_applied_block, proved_block, missing_blocks,
                     actualization_iteration, block_calls, pretended, heard>>
      /\ Watch(FALSE) /\ Counter' = Counter
    BY DEF AnswerLastBlock, HandleLastBlock, peers, self, Counter
<1>2. last_block_calls[p][i] # None
  <2>1. AnswerLastBlock(p, i) => last_block_calls[p][i] # None
      BY DEF AnswerLastBlock
  <2>2. HandleLastBlock(p, i) => last_block_calls[p][i] # None
      BY DEF HandleLastBlock
  <2> QED  BY <2>1, <2>2
<1>3. LastBlock(p) \in Height /\ p \in cores
    BY <1>2, LastBlockBounds DEF IInv, PeersInv
<1>4. PICK v \in {None, Asked} \cup Height :
            last_block_calls' = [last_block_calls EXCEPT ![p][i] = v]
  <2>1. AnswerLastBlock(p, i) => last_block_calls' = [last_block_calls EXCEPT ![p][i] = LastBlock(p)]
      BY DEF AnswerLastBlock
  <2>2. HandleLastBlock(p, i) => last_block_calls' = [last_block_calls EXCEPT ![p][i] = None]
      BY DEF HandleLastBlock
  <2> QED  BY <1>3, <2>1, <2>2
<1>5. /\ last_block_calls' \in [Peer -> [0..1 -> {None, Asked} \cup Height]]
      /\ \A r \in Peer, j \in 0..1 :
            (r # p \/ j # i) => last_block_calls'[r][j] = last_block_calls[r][j]
  <2>1. TypeOK
      BY DEF IInv
  <2>2. /\ last_block_calls' \in [Peer -> [0..1 -> {None, Asked} \cup Height]]
        /\ \A r \in Peer, j \in 0..1 :
            last_block_calls'[r][j] = IF r = p /\ j = i THEN v ELSE last_block_calls[r][j]
      BY <1>4, <2>1 DEF TypeOK
  <2> QED  BY <2>2
<1>6. /\ not_actualized' \in [0..1 -> Nat]
      /\ \A j \in 0..1 : not_actualized'[j] >= not_actualized[j]
      /\ list_calls' \subseteq cores \X (0..MAX_HEIGHT)
  <2>1. not_actualized \in [0..1 -> Nat] /\ list_calls \subseteq cores \X (0..MAX_HEIGHT)
      BY DEF IInv, TypeOK
  <2>2. Since \in 0..MAX_HEIGHT
      BY DEF Since, IInv, TypeOK
  <2>3. \/ not_actualized' = not_actualized /\ list_calls' = list_calls
        \/ /\ not_actualized' = [not_actualized EXCEPT ![i] = @ + 1]
           /\ list_calls' = list_calls \cup {<<p, Since>>}
      BY DEF AnswerLastBlock, HandleLastBlock, self
  <2>4. not_actualized[i] + 1 \in Nat
      BY <2>1
  <2>5. CASE not_actualized' = not_actualized /\ list_calls' = list_calls
      BY <2>1, <2>5
  <2>6. CASE /\ not_actualized' = [not_actualized EXCEPT ![i] = @ + 1]
             /\ list_calls' = list_calls \cup {<<p, Since>>}
    <3>1. not_actualized' \in [0..1 -> Nat]
        BY <2>1, <2>4, <2>6
    <3>2. \A j \in 0..1 : not_actualized'[j] = IF j = i THEN not_actualized[i] + 1 ELSE not_actualized[j]
        BY <2>1, <2>6
    <3>3. \A j \in 0..1 : not_actualized[j] \in Nat
        BY <2>1
    <3> QED  BY <2>1, <2>2, <2>6, <3>1, <3>2, <3>3, <1>3
  <2> QED  BY <2>3, <2>5, <2>6
<1>7. TypeOK'
    BY <1>1, <1>5, <1>6, Watched DEF IInv, TypeOK
<1>8. PeersInv'
    BY <1>1, <1>3, <1>5 DEF IInv, PeersInv
<1>9. BehindInv'
  <2>1. SUFFICES ASSUME NEW r \in Peer, behind'[r] > 0
                 PROVE  /\ r \in cores' /\ Lacking(r)'
                        /\ lost' = 0 =>
                           /\ \/ last_block_calls'[r][1 - Counter] \in {Asked, LastBlock(r)'}
                              \/ not_actualized'[1 - Counter] > 0
                           /\ behind'[r] = 2 => not_actualized'[Counter] > 0
      BY <1>1 DEF BehindInv
  <2>2. /\ r \in cores /\ Lacking(r)' /\ LastBlock(r)' = LastBlock(r) /\ behind'[r] = behind[r]
      BY <1>1, <2>1, Watched DEF IInv
  <2>3. Counter \in 0..1 /\ 1 - Counter \in 0..1
      BY DEF Counter, IInv, TypeOK
  <2>4. not_actualized[Counter] \in Nat /\ not_actualized[1 - Counter] \in Nat
        /\ not_actualized'[Counter] \in Nat /\ not_actualized'[1 - Counter] \in Nat
        /\ not_actualized'[Counter] >= not_actualized[Counter]
        /\ not_actualized'[1 - Counter] >= not_actualized[1 - Counter]
      BY <1>6, <2>3 DEF IInv, TypeOK
  <2>5. ASSUME lost = 0
        PROVE  behind'[r] = 2 => not_actualized'[Counter] > 0
    <3>1. behind'[r] = 2 => not_actualized[Counter] > 0
        BY <2>1, <2>2, <2>5 DEF IInv, BehindInv
    <3> QED  BY <2>4, <3>1
  <2>6. ASSUME lost = 0
        PROVE  \/ last_block_calls'[r][1 - Counter] \in {Asked, LastBlock(r)}
               \/ not_actualized'[1 - Counter] > 0
    <3>1. \/ last_block_calls[r][1 - Counter] \in {Asked, LastBlock(r)}
          \/ not_actualized[1 - Counter] > 0
        BY <2>1, <2>2, <2>6 DEF IInv, BehindInv
    <3>2. CASE not_actualized[1 - Counter] > 0
        BY <2>4, <3>2
    <3>3. CASE r # p \/ 1 - Counter # i
        BY <1>5, <2>3, <2>4, <3>1, <3>3
    <3>4. CASE r = p /\ 1 - Counter = i /\ last_block_calls[r][i] \in {Asked, LastBlock(r)}
      <4>1. CASE AnswerLastBlock(p, i)
        <5>1. last_block_calls'[p][i] = LastBlock(p)
            BY <1>3, <4>1, CallChanged DEF AnswerLastBlock, IInv
        <5> QED  BY <3>4, <5>1
      <4>2. CASE HandleLastBlock(p, i)
        <5>1. last_block_calls[p][i] = LastBlock(p)
            BY <3>4, <4>2 DEF HandleLastBlock
        <5>2. Unknown(LastBlock(p))
          <6>1. Lacking(p)
              BY <2>1, <2>2, <3>4 DEF IInv, BehindInv
          <6> QED  BY <6>1 DEF Lacking, Unknown
        <5>3. not_actualized' = [not_actualized EXCEPT ![i] = @ + 1]
            BY <4>2, <5>1, <5>2 DEF HandleLastBlock
        <5>4. not_actualized \in [0..1 -> Nat]
            BY DEF IInv, TypeOK
        <5>5. not_actualized'[i] = not_actualized[i] + 1
            BY <5>3, <5>4
        <5> QED  BY <3>4, <2>4, <5>5
      <4> QED  BY <4>1, <4>2
    <3> QED  BY <3>1, <3>2, <3>3, <3>4
  <2> QED  BY <1>1, <2>2, <2>5, <2>6
<1> QED  BY <1>7, <1>8, <1>9 DEF IInv

LEMMA AnswerListInv ==
    ASSUME IInv, NEW c \in list_calls, AnswerList(c[1], c[2])
    PROVE  IInv'
<1>1. c[1] \in cores /\ cores \subseteq Peer
    BY DEF IInv, TypeOK
<1>2. MissingBlockList(c[1], c[2]) \subseteq Height
    BY DEF MissingBlockList
<1>3. missing_blocks' \subseteq (Peer \cup {NoPeer}) \X Height
  <2>1. missing_blocks' = missing_blocks \cup ({c[1]} \X (MissingBlockList(c[1], c[2]) \ blocks))
      BY DEF AnswerList
  <2>2. {c[1]} \X (MissingBlockList(c[1], c[2]) \ blocks) \subseteq Peer \X Height
      BY <1>1, <1>2
  <2>3. missing_blocks \subseteq (Peer \cup {NoPeer}) \X Height
      BY DEF IInv, TypeOK
  <2> QED  BY <2>1, <2>2, <2>3
<1>4. list_calls' \subseteq list_calls
    BY DEF AnswerList
<1>5. /\ Watch(FALSE) /\ lost' = lost
      /\ UNCHANGED <<peers, blocks, last_applied_block, proved_block, not_actualized,
                     actualization_iteration, last_block_calls, block_calls, pretended, heard>>
    BY DEF AnswerList
<1>6. list_calls \subseteq cores \X (0..MAX_HEIGHT) /\ blocks \subseteq Height /\ heard \subseteq Height
        /\ block_calls \subseteq cores \X Height /\ pretended \subseteq Height
    BY DEF IInv, TypeOK
<1> QED  BY <1>3, <1>4, <1>5, <1>6, SelfStep

LEMMA ActualizeChainInv == IInv /\ ActualizeChain => IInv'
<1> SUFFICES ASSUME IInv, ActualizeChain PROVE IInv'
    OBVIOUS
<1> DEFINE wanted == {miss[2] : miss \in missing_blocks} \ blocks
<1>1. wanted \subseteq Height
    BY DEF IInv, TypeOK
<1>2. block_calls' \subseteq cores \X Height
  <2>1. PICK asked \in [wanted -> {{p} : p \in cores} \cup {cores}] :
            block_calls' = block_calls \cup UNION {asked[h] \X {h} : h \in wanted}
      BY DEF ActualizeChain
  <2>2. ASSUME NEW h \in wanted
        PROVE  asked[h] \X {h} \subseteq cores \X Height
    <3>1. asked[h] \subseteq cores
        BY <2>1
    <3> QED  BY <1>1, <3>1
  <2>3. block_calls \subseteq cores \X Height
      BY DEF IInv, TypeOK
  <2> HIDE DEF wanted
  <2>4. UNION {asked[h] \X {h} : h \in wanted} \subseteq cores \X Height
      BY <2>2
  <2> QED  BY <2>1, <2>3, <2>4
<1>3. /\ Watch(FALSE) /\ lost' = lost /\ missing_blocks' = {}
      /\ UNCHANGED <<peers, blocks, last_applied_block, proved_block, not_actualized,
                     actualization_iteration, last_block_calls, list_calls, pretended, heard>>
    BY DEF ActualizeChain
<1>4. list_calls \subseteq cores \X (0..MAX_HEIGHT) /\ blocks \subseteq Height /\ heard \subseteq Height
        /\ pretended \subseteq Height
    BY DEF IInv, TypeOK
<1> QED  BY <1>2, <1>3, <1>4, SelfStep

LEMMA BlockStepInv ==
    ASSUME IInv, \/ \E c \in block_calls : AnswerBlock(c[1], c[2])
                 \/ \E h \in pretended : PretendBlock(h)
    PROVE  IInv'
<1>1. /\ list_calls \subseteq cores \X (0..MAX_HEIGHT) /\ blocks \subseteq Height
      /\ heard \subseteq Height /\ block_calls \subseteq cores \X Height
      /\ pretended \subseteq Height /\ missing_blocks \subseteq (Peer \cup {NoPeer}) \X Height
    BY DEF IInv, TypeOK
<1>2. /\ Watch(FALSE) /\ lost' = lost /\ block_calls' \subseteq block_calls /\ pretended' \subseteq pretended
      /\ missing_blocks' \subseteq missing_blocks /\ blocks' \subseteq Height /\ heard' \subseteq Height
      /\ UNCHANGED <<peers, last_applied_block, proved_block, not_actualized,
                     actualization_iteration, last_block_calls, list_calls>>
  <2>1. CASE \E c \in block_calls : AnswerBlock(c[1], c[2])
    <3>1. PICK c \in block_calls : AnswerBlock(c[1], c[2])
        BY <2>1
    <3>2. c[2] \in Height
        BY <1>1
    <3> QED  BY <1>1, <3>1, <3>2 DEF AnswerBlock, Store
  <2>2. CASE \E h \in pretended : PretendBlock(h)
    <3>1. PICK h \in pretended : PretendBlock(h)
        BY <2>2
    <3> QED  BY <1>1, <3>1 DEF PretendBlock, Store
  <2> QED  BY <2>1, <2>2
<1> QED  BY <1>1, <1>2, SelfStep

LEMMA LoseInv == IInv /\ Lose => IInv'
<1> SUFFICES ASSUME IInv, Lose PROVE IInv'
    OBVIOUS
<1> USE Constants
<1>1. /\ lost < MAX_LOST /\ lost' = lost + 1 /\ Watch(FALSE)
      /\ cores' = cores /\ top' = top /\ applied' = applied
      /\ UNCHANGED <<blocks, last_applied_block, proved_block, missing_blocks, not_actualized,
                     actualization_iteration, pretended, heard>>
    BY DEF Lose, peers, self
<1>2. lost \in 0..MAX_LOST
    BY DEF IInv, TypeOK
<1>3. lost' \in 0..MAX_LOST /\ lost' # 0
    BY <1>1, <1>2
<1>4. /\ last_block_calls' \in [Peer -> [0..1 -> {None, Asked} \cup Height]]
      /\ \A p \in Peer, i \in 0..1 : last_block_calls'[p][i] # None => last_block_calls[p][i] # None
  <2>1. CASE last_block_calls' = last_block_calls
      BY <2>1 DEF IInv, TypeOK
  <2>2. CASE \E p \in Peer, i \in 0..1 : last_block_calls' = [last_block_calls EXCEPT ![p][i] = None]
    <3>1. PICK p \in Peer, i \in 0..1 : last_block_calls' = [last_block_calls EXCEPT ![p][i] = None]
        BY <2>2
    <3>2. TypeOK
        BY DEF IInv
    <3>3. /\ last_block_calls' \in [Peer -> [0..1 -> {None, Asked} \cup Height]]
          /\ \A r \in Peer, j \in 0..1 :
                last_block_calls'[r][j] = IF r = p /\ j = i THEN None ELSE last_block_calls[r][j]
        BY <3>1, <3>2 DEF TypeOK
    <3> QED  BY <3>3
  <2> QED  BY <2>1, <2>2 DEF Lose
<1>5. list_calls' \subseteq list_calls /\ block_calls' \subseteq block_calls
    BY DEF Lose
<1>6. TypeOK'
    BY <1>1, <1>3, <1>4, <1>5, Watched DEF IInv, TypeOK
<1>7. PeersInv'
    BY <1>1, <1>4 DEF IInv, PeersInv
<1>8. BehindInv'
    BY <1>1, <1>3, Watched DEF IInv, BehindInv
<1> QED  BY <1>6, <1>7, <1>8 DEF IInv

-----------------------------------------------------------------------------
LEMMA NextInv == IInv /\ [Next]_vars => IInv'
<1> SUFFICES ASSUME IInv, [Next]_vars PROVE IInv'
    OBVIOUS
<1>1. CASE MakeBlock
    BY <1>1, MakeBlockInv
<1>2. CASE \E p \in Peer : PeerStores(p) \/ PeerApplies(p)
    BY <1>2, PeerInv
<1>3. CASE \E poll \in BOOLEAN : MainLoop(poll)
    BY <1>3, MainLoopInv
<1>4. CASE \E p \in Peer, i \in 0..1 : AnswerLastBlock(p, i) \/ HandleLastBlock(p, i)
    BY <1>4, LastBlockStepInv
<1>5. CASE \E c \in list_calls : AnswerList(c[1], c[2])
    BY <1>5, AnswerListInv
<1>6. CASE ActualizeChain
    BY <1>6, ActualizeChainInv
<1>7. CASE (\E c \in block_calls : AnswerBlock(c[1], c[2])) \/ \E h \in pretended : PretendBlock(h)
    BY <1>7, BlockStepInv
<1>8. CASE Lose
    BY <1>8, LoseInv
<1>9. CASE UNCHANGED vars
  <2>1. UNCHANGED <<top, applied, cores, blocks, last_applied_block, proved_block, missing_blocks,
                    not_actualized, actualization_iteration, last_block_calls, list_calls,
                    block_calls, pretended, heard, lost, behind>>
      BY <1>9 DEF vars, peers, self, calls
  <2> QED  BY <2>1 DEF IInv, TypeOK, PeersInv, BehindInv, Lacking, LastBlock, Counter
<1> QED  BY <1>1, <1>2, <1>3, <1>4, <1>5, <1>6, <1>7, <1>8, <1>9 DEF Next

(* What a core knows of the chains of the others stays within what they
   have, and the two counters of check_if_chain_actual hold what the last
   polls found. *)
THEOREM SyncInvariance == Spec => []IInv
<1>1. Init => IInv
    BY InitInv
<1>2. IInv /\ [Next]_vars => IInv'
    BY NextInv
<1> QED  BY <1>1, <1>2, PTL DEF Spec

(* A core that lacks another's last block for two polls makes no block: one
   of not_actualized[0] and not_actualized[1] is not zero, as long as the
   answers come within the second. *)
THEOREM BehindBlocked == Spec => []BehindIsBlocked
<1>1. IInv => BehindIsBlocked
  <2>1. SUFFICES ASSUME IInv, lost = 0, NEW p \in Peer, behind[p] = 2
                 PROVE  \E i \in 0..1 : not_actualized[i] > 0
      BY DEF BehindIsBlocked
  <2>2. not_actualized[Counter] > 0
      BY <2>1 DEF IInv, BehindInv
  <2>3. Counter \in 0..1
      BY <2>1 DEF IInv, TypeOK, Counter
  <2> QED  BY <2>2, <2>3
<1> QED  BY <1>1, SyncInvariance, PTL

(* A gap below the newest blocks is never filled, whatever is asked and
   answered, until a new block is made: check_if_chain_actual looks for the
   last block of the others only. *)
LEMMA GapStep ==
    ASSUME IInv, Gap, [Next]_vars, top'[Primary] = top[Primary]
    PROVE  Gap'
<1> USE Constants
<1>1. /\ last_applied_block # top[Primary] /\ Awaited = {} /\ Unfound = {}
      /\ missing_blocks = {} /\ list_calls = {}
      /\ {c[2] : c \in block_calls} \cup pretended \subseteq blocks
    BY DEF Gap, CaughtUp
<1>2. top[Primary] \in 1..MAX_HEIGHT
    BY DEF IInv, TypeOK
<1>3. ~MakeBlock
  <2>1. ASSUME MakeBlock PROVE FALSE
    <3>1. top'[Primary] = top[Primary] + 1
        BY <2>1 DEF MakeBlock, IInv, TypeOK
    <3> QED  BY <1>2, <3>1
  <2> QED  BY <2>1
<1>4. /\ blocks' = blocks /\ last_applied_block' = last_applied_block /\ proved_block' = proved_block
      /\ missing_blocks' = {} /\ list_calls' = {} /\ cores' = cores
      /\ block_calls' \subseteq block_calls /\ pretended' \subseteq pretended
      /\ \A p \in Peer : applied'[p] >= applied[p]
      /\ \A p \in Peer, i \in 0..1 :
            \/ last_block_calls'[p][i] \in {last_block_calls[p][i], None, Asked}
            \/ p \in cores /\ last_block_calls'[p][i] = LastBlock(p)
  <2>0. \A p \in Peer : applied[p] \in 1..MAX_HEIGHT
      BY DEF IInv, TypeOK
  <2>1. CASE \E p \in Peer : PeerStores(p) \/ PeerApplies(p)
    <3>1. PICK p \in Peer : PeerStores(p) \/ PeerApplies(p)
        BY <2>1
    <3>2. \A r \in Peer : applied'[r] >= applied[r]
      <4>1. CASE applied' = applied
          BY <2>0, <4>1
      <4>2. CASE applied' = [applied EXCEPT ![p] = applied[p] + 1]
          BY <2>0, <4>2 DEF IInv, TypeOK
      <4> QED  BY <3>1, <4>1, <4>2 DEF PeerStores, PeerApplies
    <3>3. /\ UNCHANGED <<blocks, last_applied_block, proved_block, missing_blocks, list_calls,
                         cores, block_calls, pretended, last_block_calls>>
        BY <3>1 DEF PeerStores, PeerApplies, self, calls
    <3> QED  BY <1>1, <3>2, <3>3
  <2>2. CASE \E poll \in BOOLEAN : MainLoop(poll)
    <3>1. PICK poll \in BOOLEAN : MainLoop(poll)
        BY <2>2
    <3>2. last_applied_block' = last_applied_block
        BY <1>1, <3>1 DEF MainLoop, CheckAwaitedBlocks
    <3>3. missing_blocks' = {}
        BY <1>1, <3>1 DEF MainLoop
    <3>4. \A p \in Peer, i \in 0..1 : last_block_calls'[p][i] \in {last_block_calls[p][i], None, Asked}
      <4>1. CASE ~poll
          BY <3>1, <4>1 DEF MainLoop
      <4>2. CASE poll
        <5>1. last_block_calls' = [p \in Peer |->
                [last_block_calls[p] EXCEPT ![Counter] = IF p \in cores THEN Asked ELSE None]]
            BY <3>1, <4>2 DEF MainLoop, CheckIfChainActual, Ask
        <5> QED  BY <5>1 DEF IInv, TypeOK
      <4> QED  BY <4>1, <4>2
    <3> QED  BY <1>1, <2>0, <3>1, <3>2, <3>3, <3>4 DEF MainLoop, peers
  <2>3. CASE \E p \in Peer, i \in 0..1 : AnswerLastBlock(p, i)
    <3>1. PICK p \in Peer, i \in 0..1 : AnswerLastBlock(p, i)
        BY <2>3
    <3>2. p \in cores
        BY <3>1 DEF AnswerLastBlock, IInv, PeersInv, None, Asked
    <3>3. \A r \in Peer, j \in 0..1 :
            last_block_calls'[r][j] = IF r = p /\ j = i THEN LastBlock(p) ELSE last_block_calls[r][j]
        BY <3>1 DEF AnswerLastBlock, IInv, TypeOK
    <3> QED  BY <1>1, <2>0, <3>1, <3>2, <3>3 DEF AnswerLastBlock, peers, self
  <2>4. CASE \E p \in Peer, i \in 0..1 : HandleLastBlock(p, i)
    <3>1. PICK p \in Peer, i \in 0..1 : HandleLastBlock(p, i)
        BY <2>4
    <3>2. ~Unknown(last_block_calls[p][i])
      <4>1. last_block_calls[p][i] \notin {None, Asked}
          BY <3>1 DEF HandleLastBlock
      <4>2. last_block_calls[p][i] < last_applied_block \/ last_block_calls[p][i] \in blocks
          BY <4>1 DEF Gap
      <4>3. last_block_calls[p][i] \in Int /\ last_applied_block \in Int
        <5>1. last_block_calls[p][i] \in {None, Asked} \cup Height
            BY DEF IInv, TypeOK
        <5> QED  BY <4>1, <5>1 DEF IInv, TypeOK
      <4> QED  BY <4>2, <4>3 DEF Unknown
    <3>3. \A r \in Peer, j \in 0..1 :
            last_block_calls'[r][j] = IF r = p /\ j = i THEN None ELSE last_block_calls[r][j]
        BY <3>1 DEF HandleLastBlock, IInv, TypeOK
    <3> QED  BY <1>1, <2>0, <3>1, <3>2, <3>3 DEF HandleLastBlock, peers
  <2>5. CASE \E c \in list_calls : AnswerList(c[1], c[2])
      BY <1>1, <2>5
  <2>6. CASE ActualizeChain
      BY <1>1, <2>6 DEF ActualizeChain
  <2>7. CASE \E c \in block_calls : AnswerBlock(c[1], c[2])
    <3>1. PICK c \in block_calls : AnswerBlock(c[1], c[2])
        BY <2>7
    <3>2. c[2] \in blocks
        BY <1>1
    <3>3. blocks' = blocks /\ missing_blocks' = {}
        BY <1>1, <3>1, <3>2 DEF AnswerBlock, Store
    <3>4. /\ UNCHANGED <<last_applied_block, proved_block, list_calls, cores, applied, pretended,
                         last_block_calls>>
          /\ block_calls' \subseteq block_calls
        BY <3>1 DEF AnswerBlock, peers
    <3> QED  BY <1>1, <2>0, <3>3, <3>4
  <2>8. CASE \E h \in pretended : PretendBlock(h)
    <3>1. PICK h \in pretended : PretendBlock(h)
        BY <2>8
    <3>2. h \in blocks
        BY <1>1
    <3>3. blocks' = blocks /\ missing_blocks' = {}
        BY <1>1, <3>1, <3>2 DEF PretendBlock, Store
    <3>4. /\ UNCHANGED <<last_applied_block, proved_block, list_calls, cores, applied, block_calls,
                         last_block_calls>>
          /\ pretended' \subseteq pretended
        BY <3>1 DEF PretendBlock, peers
    <3> QED  BY <1>1, <2>0, <3>3, <3>4
  <2>9. CASE Lose
    <3>1. \A p \in Peer, i \in 0..1 : last_block_calls'[p][i] \in {last_block_calls[p][i], None, Asked}
      <4>1. CASE last_block_calls' = last_block_calls
          BY <4>1
      <4>2. CASE \E p \in Peer, i \in 0..1 : last_block_calls' = [last_block_calls EXCEPT ![p][i] = None]
          BY <4>2, CallChanged DEF IInv
      <4> QED  BY <2>9, <4>1, <4>2 DEF Lose
    <3> QED  BY <1>1, <2>0, <2>9, <3>1 DEF Lose, peers, self
  <2>10. CASE UNCHANGED vars
      BY <1>1, <2>0, <2>10 DEF vars, peers, self, calls
  <2> QED  BY <1>3, <2>1, <2>2, <2>3, <2>4, <2>5, <2>6, <2>7, <2>8, <2>9, <2>10 DEF Next
<1>5. Awaited' = {} /\ Unfound' = {}
  <2>1. Foot' = Foot
      BY <1>4 DEF Foot
  <2> QED  BY <1>1, <1>4, <2>1 DEF Awaited, Unfound
<1>6. \A p \in cores, h \in Height :
        last_applied_block <= h /\ applied[p] <= h /\ h <= top[Primary] => h \in blocks
    BY DEF Gap
<1>7. cores \subseteq Peer /\ (\A p \in Peer : applied[p] \in 1..MAX_HEIGHT)
        /\ (\A p \in Peer : applied'[p] \in 1..MAX_HEIGHT)
    BY NextInv DEF IInv, TypeOK
<1>8. \A p \in cores', h \in Height :
        last_applied_block' <= h /\ applied'[p] <= h /\ h <= top'[Primary] => h \in blocks'
    BY <1>4, <1>6, <1>7
<1>9. ASSUME NEW p \in Peer, NEW i \in 0..1, last_block_calls'[p][i] \notin {None, Asked}
      PROVE  last_block_calls'[p][i] < last_applied_block' \/ last_block_calls'[p][i] \in blocks'
  <2>1. CASE last_block_calls'[p][i] = last_block_calls[p][i]
      BY <1>4, <1>9, <2>1 DEF Gap
  <2>2. CASE p \in cores /\ last_block_calls'[p][i] = LastBlock(p)
    <3>1. LastBlock(p) \in Height /\ applied[p] <= LastBlock(p) /\ LastBlock(p) <= top[Primary]
        BY LastBlockBounds DEF IInv
    <3>2. last_applied_block \in 0..MAX_HEIGHT
        BY DEF IInv, TypeOK
    <3> QED  BY <1>4, <1>6, <2>2, <3>1, <3>2
  <2> QED  BY <1>4, <1>9, <2>1, <2>2
<1>10. ~CaughtUp'
    BY <1>1, <1>4 DEF CaughtUp
<1>11. {c[2] : c \in block_calls'} \cup pretended' \subseteq blocks'
    BY <1>1, <1>4
<1> QED  BY <1>4, <1>5, <1>8, <1>9, <1>10, <1>11 DEF Gap

THEOREM GapsStay == Spec => GapStays
<1>1. IInv /\ [Next]_vars => [Gap => Gap' \/ top'[Primary] # top[Primary]]_vars
    BY GapStep
<1> QED  BY <1>1, SyncInvariance, PTL DEF Spec, GapStays

-----------------------------------------------------------------------------
(* What a core pulls leaves no gap. *)

(* Block h is stored here, or will be once the calls under way are answered. *)
Held(h) ==
    \/ h \in blocks
    \/ \E p \in cores : <<p, h>> \in missing_blocks \cup block_calls /\ Stores(p, h)

(* A block that is asked for below the proved block, by the walk back. *)
WalkedTo(h) ==
    last_applied_block = 0 /\ h < proved_block /\ Foot <= h /\ proved_block \in blocks

(* Nothing is ahead of the master; who listed a block stores it. *)
StoreInv ==
    /\ proved_block <= Made
    /\ \A p \in Peer : Made <= top[p]
    /\ \A h \in blocks \cup pretended : h <= top[Primary]
    /\ last_applied_block <= top[Primary]
    /\ \A p \in Peer, h \in Height : <<p, h>> \in missing_blocks => p \in cores /\ Stores(p, h)

(* What is held has no holes above Since, as far as the others store it. *)
NoHoles ==
    \A h, k \in Height :
        Held(h) /\ k < h /\ Since < k /\ (\A p \in cores : Oldest[p] <= k) => Held(k)

(* A list begins where the blocks stored here end. *)
ListsMeet ==
    \A p \in cores, s \in 0 .. MAX_HEIGHT :
        <<p, s>> \in list_calls =>
            /\ \A k \in Height : Since < k /\ k <= s => k \in blocks
            /\ last_applied_block = 0 => s = proved_block

(* A core that starts with a proved block gets that one with any other. *)
ProvedHeld ==
    last_applied_block = 0 /\ proved_block > 0 /\ (\A p \in cores : Oldest[p] <= 1) =>
        \A h \in Height : Held(h) => Held(proved_block)

(* Blocks are asked for because they were listed, or found to lack. *)
AskedFor ==
    \A p \in Peer \cup {NoPeer}, h \in Height :
        <<p, h>> \in missing_blocks \cup block_calls => Held(h) \/ WalkedTo(h)

PullInv == heard = {} /\ lost = 0 => NoHoles /\ ListsMeet /\ ProvedHeld /\ AskedFor

(* What is held stays held, and what comes to it was found by the walk. *)
LEMMA HeldMore ==
    ASSUME IInv, NoHoles, ProvedHeld,
           UNCHANGED <<cores, last_applied_block, proved_block>>,
           \A h \in Height : Held(h) => Held(h)',
           \A h \in Height : Held(h)' => Held(h) \/ WalkedTo(h)
    PROVE  NoHoles' /\ ProvedHeld'
<1>1. proved_block \in 0 .. MAX_HEIGHT /\ last_applied_block \in 0 .. MAX_HEIGHT
        /\ MAX_HEIGHT \in Nat /\ Height = 1 .. MAX_HEIGHT
  BY Constants DEF IInv, TypeOK
<1>2. Since' = Since
  BY DEF Since
<1>3. ASSUME NEW h \in Height, NEW k \in Height, Held(h)', k < h, Since < k,
             \A p \in cores : Oldest[p] <= k
      PROVE  Held(k)'
  <2>1. CASE Held(h)
    BY <1>3, <2>1 DEF NoHoles
  <2>2. CASE WalkedTo(h)
    <3>1. Since = proved_block /\ h < proved_block
      BY <2>2 DEF WalkedTo, Since
    <3>2. QED
      BY <1>1, <1>3, <3>1
  <2>3. QED
    BY <1>3, <2>1, <2>2
<1>4. NoHoles'
  BY <1>2, <1>3 DEF NoHoles
<1>5. ASSUME last_applied_block = 0, proved_block > 0, \A p \in cores : Oldest[p] <= 1,
             NEW h \in Height, Held(h)'
      PROVE  Held(proved_block)'
  <2>1. proved_block \in Height
    BY <1>1, <1>5
  <2>2. Held(proved_block)
    BY <1>5 DEF ProvedHeld, WalkedTo, Held
  <2>3. QED
    BY <2>1, <2>2
<1>6. ProvedHeld'
  <2>1. Held(proved_block)' = Held(proved_block)'
    OBVIOUS
  <2>2. QED
    BY <1>5 DEF ProvedHeld
<1>7. QED
  BY <1>4, <1>6

(* What is held stays so, while the cores store more and more is asked. *)
LEMMA HeldGrows ==
    ASSUME IInv, IInv', cores' = cores, blocks \subseteq blocks',
           missing_blocks \cup block_calls \subseteq missing_blocks' \cup block_calls',
           \A p \in Peer : top[p] <= top'[p],
           NEW h \in Height, Held(h)
    PROVE  Held(h)'
<1>1. MAX_HEIGHT \in Nat /\ Height = 1 .. MAX_HEIGHT /\ cores \subseteq Peer
  BY Constants DEF IInv, TypeOK
<1>2. CASE h \in blocks
  BY <1>2 DEF Held
<1>3. ASSUME NEW p \in cores, <<p, h>> \in missing_blocks \cup block_calls, Stores(p, h)
      PROVE  Held(h)'
  <2>1. top[p] \in Height /\ top'[p] \in Height
    BY <1>1 DEF IInv, TypeOK
  <2>2. h <= top'[p]
    BY <1>1, <1>3, <2>1 DEF Stores
  <2>3. Stores(p, h)'
    BY <1>3, <2>2 DEF Stores
  <2>4. <<p, h>> \in missing_blocks' \cup block_calls' /\ p \in cores'
    BY <1>3
  <2>5. QED
    BY <2>3, <2>4 DEF Held
<1>4. QED
  BY <1>2, <1>3 DEF Held

(* A list is asked for from where this core stands. *)
LEMMA ListsKept ==
    ASSUME IInv, ListsMeet, UNCHANGED <<cores, last_applied_block, proved_block>>,
           blocks \subseteq blocks',
           list_calls' \subseteq list_calls \cup (cores \X {Since})
    PROVE  ListsMeet'
<1>1. Since' = Since
  BY DEF Since
<1>2. SUFFICES ASSUME NEW p \in cores, NEW s \in 0 .. MAX_HEIGHT, <<p, s>> \in list_calls'
               PROVE  /\ \A k \in Height : Since < k /\ k <= s => k \in blocks'
                      /\ last_applied_block = 0 => s = proved_block
  BY <1>1 DEF ListsMeet
<1>3. CASE <<p, s>> \in list_calls
  BY <1>3 DEF ListsMeet
<1>4. CASE s = Since
  <2>1. Since \in 0 .. MAX_HEIGHT /\ \A k \in Height : k \in Int
    BY Constants DEF Since, IInv, TypeOK
  <2>2. QED
    BY <1>4, <2>1 DEF Since
<1>5. QED
  BY <1>2, <1>3, <1>4

(* The walk back from the proved block goes on. *)
LEMMA WalkGoesOn ==
    ASSUME UNCHANGED <<last_applied_block, proved_block>>, blocks \subseteq blocks',
           NEW h \in Height, WalkedTo(h)
    PROVE  WalkedTo(h)'
<1>1. Foot' = Foot
  BY DEF Foot
<1>2. QED
  BY <1>1 DEF WalkedTo

(* A step that changes nothing this core has or asks for. *)
LEMMA PullKept ==
    ASSUME IInv, IInv', PullInv,
           UNCHANGED <<cores, blocks, last_applied_block, proved_block, missing_blocks,
                       block_calls, heard, lost>>,
           list_calls' \subseteq list_calls \cup (cores \X {Since}),
           \A p \in Peer : top[p] <= top'[p]
    PROVE  PullInv'
<1>1. SUFFICES ASSUME heard = {}, lost = 0
               PROVE  NoHoles' /\ ListsMeet' /\ ProvedHeld' /\ AskedFor'
  BY DEF PullInv
<1>2. NoHoles /\ ListsMeet /\ ProvedHeld /\ AskedFor
  BY <1>1 DEF PullInv
<1>3. ASSUME NEW h \in Height, Held(h)
      PROVE  Held(h)'
  BY <1>3, HeldGrows
<1>4. cores \subseteq Peer
  BY DEF IInv, TypeOK
<1>5. ASSUME NEW h \in Height, Held(h)'
      PROVE  Held(h) \/ WalkedTo(h)
  <2>1. CASE h \in blocks
    BY <2>1 DEF Held
  <2>2. CASE \E p \in cores : <<p, h>> \in missing_blocks \cup block_calls
    BY <1>2, <1>4, <2>2 DEF AskedFor
  <2>3. QED
    BY <1>5, <2>1, <2>2 DEF Held
<1>6. NoHoles' /\ ProvedHeld'
  BY <1>2, <1>3, <1>5, HeldMore
<1>7. ListsMeet'
  BY <1>2, ListsKept
<1>8. AskedFor'
  BY <1>2, <1>3, WalkGoesOn DEF AskedFor
<1>9. QED
  BY <1>6, <1>7, <1>8

(* What the others store only grows, and the master is ahead. *)
LEMMA TopsGrow ==
    ASSUME IInv, [Next]_vars
    PROVE  /\ \A p \in Peer : top[p] <= top'[p]
           /\ cores' = cores /\ proved_block' = proved_block
<1> USE Constants
<1>1. \A p \in Peer : top[p] \in 1 .. MAX_HEIGHT
  BY DEF IInv, TypeOK
<1>2. CASE MakeBlock
  BY <1>1, <1>2 DEF MakeBlock, self, IInv, TypeOK
<1>3. CASE \E p \in Peer : PeerStores(p)
  BY <1>1, <1>3 DEF PeerStores, self, IInv, TypeOK
<1>4. CASE ~MakeBlock /\ ~(\E p \in Peer : PeerStores(p))
  <2>1. UNCHANGED <<top, cores, proved_block>>
    BY <1>4 DEF Next, vars, peers, self, PeerApplies, MainLoop, AnswerLastBlock, HandleLastBlock,
                AnswerList, ActualizeChain, AnswerBlock, PretendBlock, Lose
  <2>2. QED
    BY <1>1, <2>1
<1>5. QED
  BY <1>2, <1>3, <1>4

(* Only a core that lists a block is written down for it. *)
LEMMA ListedStored ==
    ASSUME IInv, StoreInv, [Next]_vars, NEW p \in Peer, NEW h \in Height,
           <<p, h>> \in missing_blocks'
    PROVE  p \in cores /\ Stores(p, h)
<1>1. CASE <<p, h>> \in missing_blocks
  BY <1>1 DEF StoreInv
<1>2. CASE \E c \in list_calls : AnswerList(c[1], c[2])
  <2>1. PICK c \in list_calls : AnswerList(c[1], c[2])
    BY <1>2
  <2>2. c[1] \in cores
    BY DEF IInv, TypeOK
  <2>3. <<p, h>> \in missing_blocks \/ (p = c[1] /\ h \in MissingBlockList(c[1], c[2]))
    BY <2>1 DEF AnswerList
  <2>4. QED
    BY <1>1, <2>2, <2>3 DEF MissingBlockList
<1>3. CASE \E poll \in BOOLEAN : MainLoop(poll)
  <2>1. <<p, h>> \in missing_blocks
    BY <1>3, Constants DEF MainLoop
  <2>2. QED
    BY <1>1, <2>1
<1>4. CASE missing_blocks' \subseteq missing_blocks
  BY <1>1, <1>4
<1>5. missing_blocks' \subseteq missing_blocks \/ (\E poll \in BOOLEAN : MainLoop(poll))
        \/ \E c \in list_calls : AnswerList(c[1], c[2])
  BY DEF Next, vars, self, MakeBlock, PeerStores, PeerApplies, AnswerLastBlock, HandleLastBlock,
         ActualizeChain, AnswerBlock, PretendBlock, Lose, Store
<1>6. QED
  BY <1>2, <1>3, <1>4, <1>5

(* What comes to the store is below the newest block of the master. *)
LEMMA StoredBelow ==
    ASSUME IInv, StoreInv, [Next]_vars
    PROVE  /\ \A h \in blocks' \cup pretended' : h <= top'[Primary]
           /\ last_applied_block' <= top'[Primary]
<1> USE Constants
<1>1. /\ top[Primary] \in 1 .. MAX_HEIGHT /\ top'[Primary] \in 1 .. MAX_HEIGHT
      /\ blocks \subseteq 1 .. MAX_HEIGHT /\ pretended \subseteq 1 .. MAX_HEIGHT
      /\ last_applied_block \in 0 .. MAX_HEIGHT /\ last_applied_block' \in 0 .. MAX_HEIGHT
      /\ block_calls \subseteq cores \X Height /\ cores \subseteq Peer
  BY NextInv DEF IInv, TypeOK
<1>2. top[Primary] <= top'[Primary]
  BY TopsGrow
<1>3. \A h \in blocks \cup pretended : h <= top'[Primary]
  BY <1>1, <1>2 DEF StoreInv
<1>4. last_applied_block <= top'[Primary]
  BY <1>1, <1>2 DEF StoreInv
<1>5. CASE MakeBlock
  <2>1. pretended' \subseteq pretended \cup {top'[Primary]}
    BY <1>5 DEF MakeBlock, IInv, TypeOK
  <2>2. QED
    BY <1>1, <1>3, <1>4, <1>5, <2>1 DEF MakeBlock, self
<1>6. CASE \E poll \in BOOLEAN : MainLoop(poll)
  <2>1. last_applied_block' = last_applied_block \/ last_applied_block' \in blocks
    BY <1>6, AwaitedStored DEF MainLoop, CheckAwaitedBlocks
  <2>2. blocks' = blocks /\ pretended' = pretended
    BY <1>6 DEF MainLoop
  <2>3. QED
    BY <1>3, <1>4, <2>1, <2>2
<1>7. CASE \E c \in block_calls : AnswerBlock(c[1], c[2])
  <2>1. PICK c \in block_calls : AnswerBlock(c[1], c[2])
    BY <1>7
  <2>2. c[1] \in Peer /\ c[2] \in 1 .. MAX_HEIGHT
    BY <1>1
  <2>3. top[c[1]] <= top[Primary] /\ top[c[1]] \in 1 .. MAX_HEIGHT
    BY <2>2 DEF IInv, PeersInv, TypeOK
  <2>4. blocks' \subseteq blocks \cup {c[2]} /\ (c[2] \in blocks \/ Stores(c[1], c[2]) \/ blocks' = blocks)
    BY <2>1 DEF AnswerBlock, Store
  <2>5. pretended' = pretended /\ last_applied_block' = last_applied_block
    BY <2>1 DEF AnswerBlock
  <2>6. Stores(c[1], c[2]) => c[2] <= top'[Primary]
    BY <1>1, <1>2, <2>2, <2>3 DEF Stores
  <2>7. QED
    BY <1>3, <1>4, <2>4, <2>5, <2>6
<1>8. CASE \E h \in pretended : PretendBlock(h)
  <2>1. blocks' \subseteq blocks \cup pretended /\ pretended' \subseteq pretended
          /\ last_applied_block' = last_applied_block
    BY <1>8 DEF PretendBlock, Store
  <2>2. QED
    BY <1>3, <1>4, <2>1
<1>9. CASE UNCHANGED <<blocks, pretended, last_applied_block>>
  BY <1>3, <1>4, <1>9
<1>10. QED
  BY <1>5, <1>6, <1>7, <1>8, <1>9 DEF Next, vars, self, calls, PeerStores, PeerApplies,
     AnswerLastBlock, HandleLastBlock, AnswerList, ActualizeChain, Lose

LEMMA StoreStep == IInv /\ StoreInv /\ [Next]_vars => StoreInv'
<1> SUFFICES ASSUME IInv, StoreInv, [Next]_vars PROVE StoreInv'
  OBVIOUS
<1> USE Constants
<1>1. \A p \in Peer : top[p] <= top'[p] /\ top[p] \in 1 .. MAX_HEIGHT /\ top'[p] \in 1 .. MAX_HEIGHT
  BY NextInv, TopsGrow DEF IInv, TypeOK
<1>2. cores' = cores /\ proved_block' = proved_block
  BY TopsGrow
<1>3. \A p \in Peer : Made <= top'[p]
  BY <1>1 DEF StoreInv
<1>4. ASSUME NEW p \in Peer, NEW h \in Height, <<p, h>> \in missing_blocks'
      PROVE  p \in cores' /\ Stores(p, h)'
  <2>1. p \in cores /\ Stores(p, h)
    BY <1>4, ListedStored
  <2>2. QED
    BY <1>1, <1>2, <2>1 DEF Stores
<1>5. /\ \A h \in blocks' \cup pretended' : h <= top'[Primary]
      /\ last_applied_block' <= top'[Primary]
  BY StoredBelow
<1>6. QED
  BY <1>2, <1>3, <1>4, <1>5 DEF StoreInv

LEMMA PullInit ==
    ASSUME Init
    PROVE  StoreInv /\ PullInv
<1> USE Constants
<1>1. PICK s \in Starts : last_applied_block = s.applied /\ proved_block = s.proved
                            /\ blocks = 1..s.applied
  BY DEF Init
<1>2. s.applied \in 0..Made /\ s.proved \in 0..Made /\ Made \in 1..MAX_HEIGHT
  BY <1>1
<1>3. top = [p \in Peer |-> Made] /\ missing_blocks = {} /\ list_calls = {} /\ block_calls = {}
        /\ pretended = {}
  BY DEF Init
<1>4. StoreInv
  BY <1>1, <1>2, <1>3 DEF StoreInv
<1>5. \A h \in Height : Held(h) <=> h \in blocks
  BY <1>3 DEF Held
<1>6. NoHoles
  BY <1>1, <1>2, <1>5 DEF NoHoles, Since
<1>7. ListsMeet /\ AskedFor
  BY <1>3 DEF ListsMeet, AskedFor
<1>8. ProvedHeld
  BY <1>1, <1>2, <1>5 DEF ProvedHeld
<1>9. QED
  BY <1>4, <1>6, <1>7, <1>8 DEF PullInv

(* A block or a list of heights that is asked for was listed by the core. *)
LEMMA AnswerListPull ==
    ASSUME IInv, IInv', StoreInv, PullInv, NEW p \in cores, NEW s \in 0 .. MAX_HEIGHT,
           AnswerList(p, s)
    PROVE  PullInv'
<1> USE Constants
<1> DEFINE found == MissingBlockList(p, s)
<1>1. /\ <<p, s>> \in list_calls /\ list_calls' = list_calls \ {<<p, s>>}
      /\ missing_blocks' = missing_blocks \cup ({p} \X (found \ blocks))
      /\ UNCHANGED <<top, applied, cores, blocks, last_applied_block, proved_block, block_calls,
                     heard, lost>>
  BY DEF AnswerList, peers
<1>2. SUFFICES ASSUME heard = {}, lost = 0
               PROVE  NoHoles' /\ ListsMeet' /\ ProvedHeld' /\ AskedFor'
  BY <1>1 DEF PullInv
<1>3. NoHoles /\ ListsMeet /\ ProvedHeld /\ AskedFor
  BY <1>2 DEF PullInv
<1>4. p \in Peer /\ NoPeer \notin cores
  BY DEF IInv, TypeOK
<1>5. \A h \in Height : h \in found <=>
        Stores(p, h) /\ (h = s \/ (h <= LastBlock(p) /\ (s < h \/ applied[p] < s)))
  BY DEF MissingBlockList
<1> HIDE DEF found
<1>6. Since' = Since /\ \A r, h : Stores(r, h)' <=> Stores(r, h)
  BY <1>1 DEF Since, Stores
<1>7. ASSUME NEW h \in Height
      PROVE  Held(h)' <=> Held(h) \/ h \in found
  <2>1. ASSUME h \in found PROVE Held(h)'
    <3>1. h \in blocks \/ <<p, h>> \in missing_blocks'
      BY <1>1, <2>1
    <3>2. QED
      BY <1>1, <1>5, <1>6, <2>1, <3>1 DEF Held
  <2>2. Held(h) => Held(h)'
    BY <1>1, <1>6 DEF Held
  <2>3. ASSUME Held(h)' PROVE Held(h) \/ h \in found
    BY <1>1, <1>6, <2>3 DEF Held
  <2>4. QED
    BY <2>1, <2>2, <2>3
<1>8. last_applied_block \in 0 .. MAX_HEIGHT /\ proved_block \in 0 .. MAX_HEIGHT
        /\ Since \in 0 .. MAX_HEIGHT /\ top[p] \in 1 .. MAX_HEIGHT
        /\ LastBlock(p) \in 1 .. MAX_HEIGHT /\ Oldest[p] \in 1 .. Made
  BY <1>4, LastBlockBounds, ChainAssumption DEF Since, IInv, TypeOK
<1>9. NoHoles'
  <2>1. SUFFICES ASSUME NEW h \in Height, NEW k \in Height, Held(h) \/ h \in found, k < h,
                        Since < k, \A r \in cores : Oldest[r] <= k
                 PROVE  Held(k) \/ k \in found
    BY <1>1, <1>6, <1>7 DEF NoHoles
  <2>2. CASE Held(h)
    BY <1>3, <2>1, <2>2 DEF NoHoles
  <2>3. CASE h \in found /\ k <= s
    <3>1. k \in blocks
      BY <1>1, <1>3, <2>1, <2>3 DEF ListsMeet
    <3>2. QED
      BY <3>1 DEF Held
  <2>4. CASE h \in found /\ ~(k <= s)
    <3>1. h # s /\ h <= LastBlock(p) /\ h <= top[p] /\ Oldest[p] <= k
      BY <1>5, <2>1, <2>4 DEF Stores
    <3>2. Stores(p, k) /\ k <= LastBlock(p) /\ s < k
      BY <1>8, <2>1, <2>4, <3>1 DEF Stores
    <3>3. QED
      BY <1>5, <3>2
  <2>5. QED
    BY <2>1, <2>2, <2>3, <2>4
<1>10. ProvedHeld'
  <2>1. SUFFICES ASSUME last_applied_block = 0, proved_block > 0, \A r \in cores : Oldest[r] <= 1,
                        NEW h \in Height, Held(h)'
                 PROVE  Held(proved_block)'
    BY <1>1 DEF ProvedHeld
  <2>2. PICK P \in Height : P = proved_block
    BY <1>8, <2>1
  <2>3. ASSUME Held(h) PROVE Held(P)'
    <3>1. Held(P)
      BY <1>3, <2>1, <2>2, <2>3 DEF ProvedHeld
    <3>2. QED
      BY <1>7, <3>1
  <2>4. ASSUME h \in found PROVE Held(P)'
    <3>1. s = P
      BY <1>1, <1>3, <2>1, <2>2 DEF ListsMeet
    <3>2. P <= Made /\ Made <= top[p] /\ Oldest[p] <= 1
      BY <1>4, <2>1, <2>2 DEF StoreInv
    <3>3. Stores(p, P)
      BY <1>8, <2>2, <3>2 DEF Stores
    <3>4. QED
      BY <1>5, <1>7, <2>2, <3>1, <3>3
  <2>5. Held(P)'
    BY <1>7, <2>1, <2>3, <2>4
  <2>6. P = proved_block'
    BY <1>1, <2>2
  <2>7. QED
    BY <2>5, <2>6 DEF Held
<1>11. ListsMeet'
  BY <1>1, <1>3, ListsKept
<1>12. AskedFor'
  <2>1. SUFFICES ASSUME NEW r \in Peer \cup {NoPeer}, NEW h \in Height,
                        <<r, h>> \in missing_blocks' \cup block_calls'
                 PROVE  Held(h)' \/ WalkedTo(h)'
    BY DEF AskedFor
  <2>2. CASE <<r, h>> \in missing_blocks \cup block_calls
    BY <1>1, <1>3, <1>7, <2>2, WalkGoesOn DEF AskedFor
  <2>3. CASE h \in found
    BY <1>7, <2>3
  <2>4. QED
    BY <1>1, <2>1, <2>2, <2>3
<1>13. QED
  BY <1>9, <1>10, <1>11, <1>12

(* A block asked for is asked of a core that stores it, if one listed it. *)
LEMMA ActualizeChainPull ==
    ASSUME IInv, IInv', StoreInv, PullInv, ActualizeChain
    PROVE  PullInv'
<1> USE Constants
<1> DEFINE wanted == {miss[2] : miss \in missing_blocks} \ blocks
<1>1. PICK asked \in [wanted -> {{p} : p \in cores} \cup {cores}] :
        /\ \A h \in wanted : asked[h] = cores \/ asked[h] \subseteq Listed(h)
        /\ block_calls' = block_calls \cup UNION {asked[h] \X {h} : h \in wanted}
  BY DEF ActualizeChain
<1>2. /\ missing_blocks' = {}
      /\ UNCHANGED <<top, cores, blocks, last_applied_block, proved_block, list_calls, heard, lost>>
  BY DEF ActualizeChain, peers
<1>3. SUFFICES ASSUME heard = {}, lost = 0
               PROVE  NoHoles' /\ ListsMeet' /\ ProvedHeld' /\ AskedFor'
  BY <1>2 DEF PullInv
<1>4. NoHoles /\ ListsMeet /\ ProvedHeld /\ AskedFor
  BY <1>3 DEF PullInv
<1>5. missing_blocks \subseteq (Peer \cup {NoPeer}) \X Height /\ cores \subseteq Peer
        /\ block_calls \subseteq cores \X Height
  BY DEF IInv, TypeOK
<1>6. ASSUME NEW p, NEW h \in Height, <<p, h>> \in missing_blocks, h \notin blocks
      PROVE  h \in wanted
  <2>1. <<p, h>>[2] = h
    OBVIOUS
  <2>2. QED
    BY <1>6, <2>1
<1>7. ASSUME NEW h \in wanted
      PROVE  h \in Height /\ \E p \in Peer \cup {NoPeer} : <<p, h>> \in missing_blocks
  <2>1. PICK miss \in missing_blocks : miss[2] = h
    OBVIOUS
  <2>2. miss = <<miss[1], miss[2]>> /\ miss[1] \in Peer \cup {NoPeer} /\ miss[2] \in Height
    BY <1>5
  <2>3. QED
    BY <2>1, <2>2
<1> HIDE DEF wanted
<1>8. \A p, h : <<p, h>> \in block_calls' <=>
        <<p, h>> \in block_calls \/ (h \in wanted /\ p \in asked[h])
  BY <1>1
<1>9. \A r, h : Stores(r, h)' <=> Stores(r, h)
  BY <1>2 DEF Stores
<1>10. ASSUME NEW h \in Height, Held(h)
       PROVE  Held(h)'
  <2>1. CASE h \in blocks
    BY <1>2, <2>1 DEF Held
  <2>2. CASE \E p \in cores : <<p, h>> \in block_calls /\ Stores(p, h)
    BY <1>2, <1>8, <1>9, <2>2 DEF Held
  <2>3. ASSUME NEW p \in cores, <<p, h>> \in missing_blocks, Stores(p, h), h \notin blocks
        PROVE  Held(h)'
    <3>1. h \in wanted
      BY <1>6, <2>3
    <3>2. CASE asked[h] = cores
      BY <1>2, <1>8, <1>9, <2>3, <3>1, <3>2 DEF Held
    <3>3. CASE asked[h] \subseteq Listed(h) /\ asked[h] # cores
      <4>1. PICK r \in cores : asked[h] = {r}
        BY <1>1, <3>1, <3>3
      <4>2. r \in Listed(h)
        BY <3>3, <4>1
      <4>3. Stores(r, h)
        BY <1>5, <4>2 DEF Listed, StoreInv
      <4>4. QED
        BY <1>2, <1>8, <1>9, <3>1, <4>1, <4>3 DEF Held
    <3>4. QED
      BY <1>1, <3>1, <3>2, <3>3
  <2>4. QED
    BY <1>10, <2>1, <2>2, <2>3 DEF Held
<1>11. ASSUME NEW p, NEW h \in Height, <<p, h>> \in block_calls'
       PROVE  Held(h) \/ WalkedTo(h)
  <2>1. CASE <<p, h>> \in block_calls
    BY <1>4, <1>5, <2>1 DEF AskedFor
  <2>2. CASE h \in wanted
    BY <1>4, <1>7, <2>2 DEF AskedFor
  <2>3. QED
    BY <1>8, <1>11, <2>1, <2>2
<1>12. ASSUME NEW h \in Height, Held(h)'
       PROVE  Held(h) \/ WalkedTo(h)
  BY <1>2, <1>11, <1>12 DEF Held
<1>13. NoHoles' /\ ProvedHeld'
  BY <1>2, <1>4, <1>10, <1>12, HeldMore
<1>14. ListsMeet'
  BY <1>2, <1>4, ListsKept
<1>15. AskedFor'
  BY <1>2, <1>10, <1>11, WalkGoesOn DEF AskedFor
<1>16. QED
  BY <1>13, <1>14, <1>15

(* A core that stores the block answers with it. *)
LEMMA AnswerBlockPull ==
    ASSUME IInv, IInv', PullInv, NEW p \in cores, NEW b \in Height, AnswerBlock(p, b)
    PROVE  PullInv'
<1> USE Constants
<1>1. /\ <<p, b>> \in block_calls /\ block_calls' = block_calls \ {<<p, b>>}
      /\ UNCHANGED <<top, cores, last_applied_block, proved_block, list_calls, heard, lost>>
  BY DEF AnswerBlock, peers
<1>2. /\ Stores(p, b) => /\ blocks' = blocks \cup {b}
                         /\ missing_blocks' = {miss \in missing_blocks : miss[2] # b}
      /\ ~Stores(p, b) => blocks' = blocks /\ missing_blocks' = missing_blocks
  BY DEF AnswerBlock, Store
<1>3. SUFFICES ASSUME heard = {}, lost = 0
               PROVE  NoHoles' /\ ListsMeet' /\ ProvedHeld' /\ AskedFor'
  BY <1>1 DEF PullInv
<1>4. NoHoles /\ ListsMeet /\ ProvedHeld /\ AskedFor
  BY <1>3 DEF PullInv
<1>5. \A r, h : Stores(r, h)' <=> Stores(r, h)
  BY <1>1 DEF Stores
<1>6. ASSUME NEW r, NEW h, h # b
      PROVE  <<r, h>> \in missing_blocks' \cup block_calls' <=> <<r, h>> \in missing_blocks \cup block_calls
  <2>1. <<r, h>>[2] = h /\ <<r, h>> # <<p, b>>
    BY <1>6
  <2>2. <<r, h>> \in missing_blocks' <=> <<r, h>> \in missing_blocks
    <3>1. CASE Stores(p, b)
      <4>1. missing_blocks' = {miss \in missing_blocks : miss[2] # b}
        BY <1>2, <3>1
      <4>2. <<r, h>> \in missing_blocks' <=> <<r, h>> \in missing_blocks /\ <<r, h>>[2] # b
        BY <4>1
      <4>3. QED
        BY <1>6, <2>1, <4>2
    <3>2. CASE ~Stores(p, b)
      BY <1>2, <3>2
    <3>3. QED
      BY <3>1, <3>2
  <2>3. <<r, h>> \in block_calls' <=> <<r, h>> \in block_calls
    BY <1>1, <2>1
  <2>4. QED
    BY <2>2, <2>3
<1>7. ASSUME NEW h \in Height
      PROVE  Held(h)' <=> Held(h)
  <2>1. CASE h # b
    <3>1. h \in blocks' <=> h \in blocks
      BY <1>2, <2>1
    <3>2. QED
      BY <1>1, <1>5, <1>6, <2>1, <3>1 DEF Held
  <2>2. CASE h = b /\ Stores(p, b)
    BY <1>1, <1>2, <2>2 DEF Held
  <2>3. CASE h = b /\ ~Stores(p, b)
    <3>1. missing_blocks' = missing_blocks /\ blocks' = blocks
      BY <1>2, <2>3
    <3>2. ASSUME NEW r \in cores, Stores(r, b)
          PROVE  <<r, b>> \in block_calls' <=> <<r, b>> \in block_calls
      <4>1. r # p
        BY <2>3, <3>2
      <4>2. QED
        BY <1>1, <4>1
    <3>3. QED
      BY <1>1, <1>5, <2>3, <3>1, <3>2 DEF Held
  <2>4. QED
    BY <2>1, <2>2, <2>3
<1>8. NoHoles' /\ ProvedHeld'
  BY <1>1, <1>4, <1>7, HeldMore
<1>9. blocks \subseteq blocks'
  BY <1>2
<1>10. ListsMeet'
  BY <1>1, <1>4, <1>9, ListsKept
<1>11. AskedFor'
  <2>1. missing_blocks' \cup block_calls' \subseteq missing_blocks \cup block_calls
    BY <1>1, <1>2
  <2>2. QED
    BY <1>1, <1>4, <1>7, <1>9, <2>1, WalkGoesOn DEF AskedFor
<1>12. QED
  BY <1>8, <1>10, <1>11

(* A pass that applies no block may ask for one the walk back lacks. *)
LEMMA WalkPull ==
    ASSUME IInv, IInv', PullInv, NEW poll \in BOOLEAN, MainLoop(poll),
           last_applied_block' = last_applied_block
    PROVE  PullInv'
<1> USE Constants
<1>1. /\ missing_blocks' = missing_blocks \cup {<<NoPeer, h>> : h \in Unfound}
      /\ UNCHANGED <<top, cores, blocks, proved_block, list_calls, block_calls, heard, lost>>
  BY DEF MainLoop, peers
<1>2. SUFFICES ASSUME heard = {}, lost = 0
               PROVE  NoHoles' /\ ListsMeet' /\ ProvedHeld' /\ AskedFor'
  BY <1>1 DEF PullInv
<1>3. NoHoles /\ ListsMeet /\ ProvedHeld /\ AskedFor
  BY <1>2 DEF PullInv
<1>4. NoPeer \notin cores
  BY DEF IInv, TypeOK
<1>5. ASSUME NEW h \in Height
      PROVE  Held(h)' <=> Held(h)
  <2>1. \A r \in cores : <<r, h>> \in missing_blocks' <=> <<r, h>> \in missing_blocks
    BY <1>1, <1>4
  <2>2. \A r \in cores : Stores(r, h)' <=> Stores(r, h)
    BY <1>1 DEF Stores
  <2>3. QED
    BY <1>1, <2>1, <2>2 DEF Held
<1>6. NoHoles' /\ ProvedHeld'
  BY <1>1, <1>3, <1>5, HeldMore
<1>7. ListsMeet'
  BY <1>1, <1>3, ListsKept
<1>8. ASSUME NEW h \in Unfound
      PROVE  WalkedTo(h)
  <2>1. proved_block \in 0 .. MAX_HEIGHT /\ h \in 1 .. MAX_HEIGHT
    BY DEF Unfound, IInv, TypeOK
  <2>2. h < proved_block /\ (h + 1)..proved_block \subseteq blocks
    BY DEF Unfound
  <2>3. proved_block \in blocks
    BY <2>1, <2>2
  <2>4. QED
    BY <2>3 DEF Unfound, WalkedTo
<1>9. AskedFor'
  <2>1. SUFFICES ASSUME NEW p \in Peer \cup {NoPeer}, NEW h \in Height,
                        <<p, h>> \in missing_blocks' \cup block_calls'
                 PROVE  Held(h)' \/ WalkedTo(h)'
    BY DEF AskedFor
  <2>2. <<p, h>> \in missing_blocks \cup block_calls \/ h \in Unfound
    BY <1>1, <2>1
  <2>3. Held(h) \/ WalkedTo(h)
    BY <1>3, <1>8, <2>2 DEF AskedFor
  <2>4. QED
    BY <1>1, <1>5, <2>3, WalkGoesOn
<1>10. QED
  BY <1>6, <1>7, <1>9

(* The block applied next is the one after the last, or where the walk
   back from the proved block ended: all above it, to that one, are here. *)
LEMMA NextApplied ==
    ASSUME IInv, NEW h \in Awaited
    PROVE  /\ h \in Height /\ h \in blocks /\ Unfound = {}
           /\ \A k \in Height : h < k => Since < k \/ k \in blocks
           /\ \A k \in Height : WalkedTo(k) => k \in blocks
<1> USE Constants
<1>1. /\ last_applied_block \in 0 .. MAX_HEIGHT /\ proved_block \in 0 .. MAX_HEIGHT
      /\ blocks \subseteq 1 .. MAX_HEIGHT
  BY DEF IInv, TypeOK
<1>2. h \in blocks /\ h \in 1 .. MAX_HEIGHT
  BY <1>1, AwaitedStored
<1>3. CASE last_applied_block # 0
  <2>1. h = last_applied_block + 1
    BY <1>3 DEF Awaited
  <2>2. Unfound = {} /\ \A k \in Height : ~WalkedTo(k)
    BY <1>3 DEF Unfound, WalkedTo
  <2>3. QED
    BY <1>1, <1>2, <1>3, <2>1, <2>2 DEF Since
<1>4. CASE last_applied_block = 0 /\ proved_block = 0
  <2>1. \A k \in Height : ~(k < proved_block)
    BY <1>4
  <2>2. Unfound = {} /\ \A k \in Height : ~WalkedTo(k)
    BY <2>1 DEF Unfound, WalkedTo
  <2>3. Since = 0
    BY <1>4 DEF Since
  <2>4. QED
    BY <1>2, <2>2, <2>3
<1>5. CASE last_applied_block = 0 /\ proved_block # 0
  <2>1. Foot..proved_block \subseteq blocks /\ h = Foot
    BY <1>5 DEF Awaited
  <2>2. \A k \in Height : Foot <= k /\ k <= proved_block => k \in blocks
    BY <1>1, <1>2, <2>1
  <2>3. Unfound = {}
    BY <1>1, <2>2 DEF Unfound
  <2>4. \A k \in Height : WalkedTo(k) => k \in blocks
    BY <1>1, <2>2 DEF WalkedTo
  <2>5. Since = proved_block
    BY <1>5 DEF Since
  <2>6. \A k \in Height : h < k => Since < k \/ k \in blocks
    BY <1>1, <1>2, <2>1, <2>2, <2>5
  <2>7. QED
    BY <1>2, <2>3, <2>4, <2>6
<1>6. QED
  BY <1>3, <1>4, <1>5

(* A pass that applies a block: where the lists began is still met. *)
LEMMA ApplyPull ==
    ASSUME IInv, IInv', PullInv, NEW poll \in BOOLEAN, MainLoop(poll), NEW b \in Awaited,
           last_applied_block' = b
    PROVE  PullInv'
<1> USE Constants
<1>1. /\ b \in Height /\ b \in blocks /\ Unfound = {}
      /\ \A k \in Height : b < k => Since < k \/ k \in blocks
      /\ \A k \in Height : WalkedTo(k) => k \in blocks
  BY NextApplied
<1>2. UNCHANGED <<top, cores, blocks, proved_block, list_calls, missing_blocks, block_calls,
                  heard, lost>>
  BY <1>1 DEF MainLoop, peers
<1>3. SUFFICES ASSUME heard = {}, lost = 0
               PROVE  NoHoles' /\ ListsMeet' /\ ProvedHeld' /\ AskedFor'
  BY <1>2 DEF PullInv
<1>4. NoHoles /\ ListsMeet /\ ProvedHeld /\ AskedFor
  BY <1>3 DEF PullInv
<1>5. \A h : Held(h)' <=> Held(h)
  BY <1>2 DEF Held, Stores
<1>6. last_applied_block' # 0 /\ Since' = b
  BY <1>1 DEF Since
<1>7. NoHoles'
  <2>1. SUFFICES ASSUME NEW h \in Height, NEW k \in Height, Held(h), k < h, b < k,
                        \A r \in cores : Oldest[r] <= k
                 PROVE  Held(k)
    BY <1>2, <1>5, <1>6 DEF NoHoles
  <2>2. CASE Since < k
    BY <1>4, <2>1, <2>2 DEF NoHoles
  <2>3. CASE k \in blocks
    BY <2>3 DEF Held
  <2>4. QED
    BY <1>1, <2>1, <2>2, <2>3
<1>8. ListsMeet'
  <2>1. SUFFICES ASSUME NEW p \in cores, NEW s \in 0 .. MAX_HEIGHT, <<p, s>> \in list_calls,
                        NEW k \in Height, b < k, k <= s
                 PROVE  k \in blocks
    BY <1>2, <1>6 DEF ListsMeet
  <2>2. QED
    BY <1>1, <1>4, <2>1 DEF ListsMeet
<1>9. ProvedHeld'
  BY <1>6 DEF ProvedHeld
<1>10. AskedFor'
  <2>1. \A h \in Height : WalkedTo(h) => Held(h)
    BY <1>1 DEF Held
  <2>2. QED
    BY <1>2, <1>4, <1>5, <2>1 DEF AskedFor
<1>11. QED
  BY <1>7, <1>8, <1>9, <1>10

(* Every step keeps what a core pulls without holes. *)
LEMMA PullStep ==
    ASSUME IInv, StoreInv, PullInv, [Next]_vars
    PROVE  PullInv'
<1> USE Constants
<1>1. IInv'
  BY NextInv
<1>2. \A p \in Peer : top[p] <= top'[p]
  BY TopsGrow
<1>3. CASE /\ UNCHANGED <<cores, blocks, last_applied_block, proved_block, missing_blocks,
                          block_calls, heard, lost>>
           /\ list_calls' \subseteq list_calls \cup (cores \X {Since})
  BY <1>1, <1>2, <1>3, PullKept
<1>4. CASE MakeBlock \/ \E p \in Peer : PeerStores(p) \/ PeerApplies(p)
  BY <1>3, <1>4 DEF MakeBlock, PeerStores, PeerApplies, self, calls
<1>5. CASE \E p \in Peer, i \in 0..1 : AnswerLastBlock(p, i) \/ HandleLastBlock(p, i)
  <2>1. PICK p \in Peer, i \in 0..1 : AnswerLastBlock(p, i) \/ HandleLastBlock(p, i)
    BY <1>5
  <2>2. CASE AnswerLastBlock(p, i)
    BY <1>3, <2>2 DEF AnswerLastBlock, self, peers
  <2>3. CASE HandleLastBlock(p, i)
    <3>1. p \in cores
      BY <2>3 DEF HandleLastBlock, IInv, PeersInv
    <3>2. list_calls' = list_calls \/ list_calls' = list_calls \cup {<<p, Since>>}
      BY <2>3 DEF HandleLastBlock
    <3>3. QED
      BY <1>3, <2>3, <3>1, <3>2 DEF HandleLastBlock, peers
  <2>4. QED
    BY <2>1, <2>2, <2>3
<1>6. CASE \E poll \in BOOLEAN : MainLoop(poll)
  <2>1. PICK poll \in BOOLEAN : MainLoop(poll)
    BY <1>6
  <2>2. last_applied_block' = last_applied_block
          \/ \E h \in Awaited : last_applied_block' = h
    BY <2>1 DEF MainLoop, CheckAwaitedBlocks
  <2>3. QED
    BY <1>1, <2>1, <2>2, WalkPull, ApplyPull
<1>7. CASE \E c \in list_calls : AnswerList(c[1], c[2])
  <2>1. PICK c \in list_calls : AnswerList(c[1], c[2])
    BY <1>7
  <2>2. c[1] \in cores /\ c[2] \in 0 .. MAX_HEIGHT
    BY DEF IInv, TypeOK
  <2>3. QED
    BY <1>1, <2>1, <2>2, AnswerListPull
<1>8. CASE ActualizeChain
  BY <1>1, <1>8, ActualizeChainPull
<1>9. CASE \E c \in block_calls : AnswerBlock(c[1], c[2])
  <2>1. PICK c \in block_calls : AnswerBlock(c[1], c[2])
    BY <1>9
  <2>2. c[1] \in cores /\ c[2] \in Height
    BY DEF IInv, TypeOK
  <2>3. QED
    BY <1>1, <2>1, <2>2, AnswerBlockPull
<1>10. CASE \E h \in pretended : PretendBlock(h)
  <2>1. PICK h \in pretended : PretendBlock(h)
    BY <1>10
  <2>2. CASE last_applied_block # 0
    <3>1. h \in heard'
      BY <2>1, <2>2 DEF PretendBlock
    <3>2. QED
      BY <3>1 DEF PullInv
  <2>3. CASE last_applied_block = 0
    BY <1>3, <2>1, <2>3 DEF PretendBlock, peers
  <2>4. QED
    BY <2>2, <2>3
<1>11. CASE Lose
  <2>1. lost' # 0
    BY <1>11 DEF Lose, IInv, TypeOK
  <2>2. QED
    BY <2>1 DEF PullInv
<1>12. CASE UNCHANGED vars
  BY <1>3, <1>12 DEF vars, peers, self, calls
<1>13. QED
  BY <1>4, <1>5, <1>6, <1>7, <1>8, <1>9, <1>10, <1>11, <1>12 DEF Next

(* A set of numbers up to n has a greatest one. *)
LEMMA Greatest ==
    ASSUME NEW n \in Nat, NEW S, S # {}, S \subseteq 0 .. n
    PROVE  \E x \in S : \A y \in S : y <= x
<1> DEFINE less == OpToRel(<, Nat)
<1> DEFINE T == {n - x : x \in S}
<1>1. \A x, y \in Nat : x < y => <<x, y>> \in less
  BY DEF OpToRel
<1>2. IsWellFoundedOn(less, Nat)
  BY NatLessThanWellFounded
<1> HIDE DEF less
<1>3. T # {} /\ T \subseteq Nat
  <2>1. PICK x : x \in S
    OBVIOUS
  <2>2. n - x \in T
    BY <2>1
  <2>3. \A y \in S : n - y \in Nat
    OBVIOUS
  <2>4. QED
    BY <2>2, <2>3
<1>4. PICK t \in T : \A y \in T : ~ (<<y, t>> \in less)
  <2> HIDE DEF T
  <2>1. QED
    BY <1>2, <1>3, WFMin
<1>5. PICK x \in S : t = n - x
  OBVIOUS
<1>6. ASSUME NEW y \in S
      PROVE  y <= x
  <2>1. n - y \in T /\ n - y \in Nat /\ t \in Nat
    BY <1>3
  <2>2. ~(n - y < t)
    BY <1>1, <1>4, <2>1
  <2>3. QED
    BY <1>5, <2>1, <2>2
<1>7. QED
  BY <1>6

(* The walk back from a proved block ends at a block below it. *)
LEMMA FootBounds ==
    ASSUME IInv, proved_block > 0
    PROVE  Foot \in 1 .. proved_block
<1>1. PICK P \in 0 .. MAX_HEIGHT : P = proved_block
  BY DEF IInv, TypeOK
<1>2. MAX_HEIGHT \in Nat
  BY Constants
<1> DEFINE feet == {h \in 1 .. P : h \in States \/ h = 1}
<1>3. feet # {} /\ feet \subseteq 0 .. P /\ feet \subseteq 1 .. P
  <2>1. 1 \in feet
    BY <1>1, <1>2
  <2>2. QED
    BY <2>1
<1>4. Foot = Max(feet)
  BY <1>1 DEF Foot
<1> HIDE DEF feet
<1>5. \E x \in feet : \A y \in feet : y <= x
  <2>1. P \in Nat
    BY <1>2
  <2>2. QED
    BY <1>3, <2>1, Greatest
<1>6. \E x \in feet : \A y \in feet : x >= y
  BY <1>2, <1>3, <1>5
<1>7. Max(feet) \in feet
  BY <1>6 DEF Max
<1>8. QED
  BY <1>1, <1>3, <1>4, <1>7

(* A core with the proved block stored has a block to apply, or walks back
   to one that it lacks. *)
LEMMA WalkBack ==
    ASSUME IInv, last_applied_block = 0, proved_block > 0, proved_block \in blocks
    PROVE  Awaited # {} \/ Unfound # {}
<1> USE Constants
<1>1. PICK P \in 1 .. MAX_HEIGHT : P = proved_block
  BY DEF IInv, TypeOK
<1>2. PICK F \in 1 .. P : F = Foot
  BY <1>1, FootBounds
<1> DEFINE lacked == (F .. P) \ blocks
<1>3. CASE lacked = {}
  <2>1. Foot..proved_block \subseteq blocks
    BY <1>1, <1>2, <1>3
  <2>2. Foot \in blocks
    BY <1>1, <1>2, <1>3
  <2>3. Awaited = blocks \cap {Foot}
    BY <2>1 DEF Awaited
  <2>4. QED
    BY <2>2, <2>3
<1>4. CASE lacked # {}
  <2>1. lacked \subseteq 0 .. P /\ P \in Nat
    OBVIOUS
  <2>2. PICK h \in lacked : \A k \in lacked : k <= h
    <3> HIDE DEF lacked
    <3>1. QED
      BY <1>4, <2>1, Greatest
  <2>3. h \in Height /\ h \notin blocks /\ F <= h /\ h <= P /\ h # P
    BY <1>1, <1>2, <2>2
  <2>4. (h + 1)..P \subseteq blocks
    BY <1>2, <2>2, <2>3
  <2>5. h \in Unfound
    BY <1>1, <1>2, <2>3, <2>4 DEF Unfound
  <2>6. QED
    BY <2>5
<1>5. QED
  BY <1>3, <1>4

(* With a gap, all that is held is stored, and the newest block is. *)
LEMMA GapNewest ==
    ASSUME IInv, StoreInv, cores # {}, Gap
    PROVE  /\ last_applied_block < top[Primary]
           /\ top[Primary] \in Height /\ top[Primary] \in blocks
           /\ \A h \in Height : Held(h) => h \in blocks
<1> USE Constants
<1>1. /\ last_applied_block \in 0 .. MAX_HEIGHT /\ top[Primary] \in 1 .. MAX_HEIGHT
      /\ block_calls \subseteq cores \X Height
  BY DEF IInv, TypeOK
<1>2. last_applied_block < top[Primary]
  BY <1>1 DEF Gap, CaughtUp, StoreInv
<1>3. PICK p \in cores : p \in Peer
  BY DEF IInv, TypeOK
<1>4. applied[p] <= top[Primary]
  <2>1. applied[p] \in 1 .. MAX_HEIGHT /\ top[p] \in 1 .. MAX_HEIGHT
    BY <1>3 DEF IInv, TypeOK
  <2>2. applied[p] <= top[p] /\ top[p] <= top[Primary]
    BY <1>3 DEF IInv, PeersInv
  <2>3. QED
    BY <1>1, <2>1, <2>2
<1>5. top[Primary] \in blocks
  BY <1>1, <1>2, <1>4 DEF Gap
<1>6. ASSUME NEW h \in Height, Held(h)
      PROVE  h \in blocks
  <2>1. ASSUME NEW r, <<r, h>> \in block_calls
        PROVE  h \in blocks
    <3>1. <<r, h>>[2] = h
      OBVIOUS
    <3>2. h \in {c[2] : c \in block_calls}
      BY <2>1, <3>1
    <3>3. QED
      BY <3>2 DEF Gap
  <2>2. missing_blocks = {}
    BY DEF Gap
  <2>3. QED
    BY <1>6, <2>1, <2>2 DEF Held
<1>7. QED
  BY <1>1, <1>2, <1>5, <1>6

(* What is pulled has no holes, so the next block is there to be applied. *)
LEMMA PulledHasNoGap ==
    ASSUME IInv, StoreInv, PullInv, cores # {}
    PROVE  GapNeedsPush
<1> USE Constants
<1>1. SUFFICES ASSUME Gap, heard = {}, ~(lost > 0),
                      \A p \in cores : ~(Oldest[p] > last_applied_block + 1)
               PROVE  FALSE
  BY DEF GapNeedsPush
<1>2. lost = 0
  BY <1>1 DEF IInv, TypeOK
<1>3. NoHoles /\ ProvedHeld
  BY <1>1, <1>2 DEF PullInv
<1>4. /\ last_applied_block < top[Primary]
      /\ top[Primary] \in Height /\ top[Primary] \in blocks
      /\ \A h \in Height : Held(h) => h \in blocks
  BY <1>1, GapNewest
<1>5. PICK T \in 1 .. MAX_HEIGHT : T = top[Primary]
  BY <1>4
<1>6. PICK L \in 0 .. MAX_HEIGHT : L = last_applied_block
  BY DEF IInv, TypeOK
<1>7. Awaited = {} /\ Unfound = {} /\ cores \subseteq Peer
  BY <1>1 DEF Gap, IInv, TypeOK
<1>8. \A p \in cores : Oldest[p] <= L + 1
  <2>1. \A p \in cores : Oldest[p] \in 1 .. Made
    BY <1>7, ChainAssumption
  <2>2. QED
    BY <1>1, <1>6, <2>1
<1>9. Held(T)
  BY <1>4, <1>5 DEF Held
<1>10. CASE L # 0 \/ proved_block = 0
  <2>1. Since = L
    BY <1>6, <1>10 DEF Since
  <2>2. L + 1 \in Height /\ L < T
    BY <1>4, <1>5, <1>6
  <2>3. L + 1 \in blocks
    <3>1. CASE L + 1 = T
      BY <1>4, <1>5, <3>1
    <3>2. CASE L + 1 < T
      <4>1. PICK k \in Height : k = L + 1
        BY <2>2
      <4>2. Held(k)
        BY <1>3, <1>5, <1>8, <1>9, <2>1, <3>2, <4>1 DEF NoHoles
      <4>3. QED
        BY <1>4, <4>1, <4>2
    <3>3. QED
      BY <2>2, <3>1, <3>2
  <2>4. L + 1 \in Awaited
    BY <1>6, <1>10, <2>3 DEF Awaited
  <2>5. QED
    BY <1>7, <2>4
<1>11. CASE L = 0 /\ proved_block # 0
  <2>1. PICK P \in Height : P = proved_block
    BY <1>11 DEF IInv, TypeOK
  <2>2. Held(proved_block)
    BY <1>3, <1>5, <1>6, <1>8, <1>9, <1>11, <2>1 DEF ProvedHeld
  <2>3. Held(P)
    BY <2>1, <2>2 DEF Held
  <2>4. proved_block \in blocks
    BY <1>4, <2>1, <2>3
  <2>5. QED
    BY <1>6, <1>7, <1>11, <2>1, <2>4, WalkBack
<1>12. QED
  BY <1>10, <1>11

(* A core that is connected to another pulls the chain without gaps: what
   check_if_chain_actual and actualize_chain ask for and get reaches down
   to the next block to apply, if every core it asks stores that block.  A
   gap comes of a block that was pushed, or of a request that was lost. *)
THEOREM GapsNeedPushes ==
    ASSUME {} \notin Connections
    PROVE  Spec => []GapNeedsPush
<1> DEFINE Inv == IInv /\ StoreInv /\ PullInv /\ cores # {}
<1>1. Init => Inv
  BY InitInv, PullInit DEF Init
<1>2. Inv /\ [Next]_vars => Inv'
  BY NextInv, StoreStep, PullStep, TopsGrow
<1>3. Inv => GapNeedsPush
  BY PulledHasNoGap
<1> HIDE DEF Inv
<1>4. QED
  BY <1>1, <1>2, <1>3, PTL DEF Spec

=============================================================================
