--------------------------- MODULE CoreListProofs ---------------------------
(***************************************************************************)
(* Proofs about CoreList for every number of cores and places and every    *)
(* shuffle.  Each action changes the state of one core, and what was sent  *)
(* only grows; NodeStep says what the new state must satisfy.              *)
(***************************************************************************)
EXTENDS CoreList, FiniteSetTheorems, TLAPS

-----------------------------------------------------------------------------
(* Counting. *)

LEMMA CountTypes ==
    /\ Cardinality(Core) \in Nat
    /\ RegisteredCoreNodesMinCount \in Nat
    /\ METAHASH_PRIMARY_CORES_COUNT \in Nat
<1>1. Cardinality(Core) \in Nat
  BY CoresAssumption, FS_CardinalityType
<1>2. QED
  BY <1>1, CoresAssumption DEF RegisteredCoreNodesMinCount

(* More cores give no smaller count. *)
LEMMA CountGrows ==
    ASSUME NEW A \in SUBSET Core, NEW B \in SUBSET Core, A \subseteq B
    PROVE  /\ Cardinality(A) \in Nat /\ Cardinality(B) \in Nat
           /\ Cardinality(A) <= Cardinality(B)
<1>1. IsFiniteSet(B)
  BY CoresAssumption, FS_Subset
<1>2. QED
  BY <1>1, FS_Subset, FS_CardinalityType

(* Two sets with more elements together than there are cores meet. *)
LEMMA Pigeonhole ==
    ASSUME NEW A \in SUBSET Core, NEW B \in SUBSET Core,
           Cardinality(A) + Cardinality(B) > Cardinality(Core)
    PROVE  A \cap B # {}
<1>1. IsFiniteSet(Core) /\ IsFiniteSet(A) /\ IsFiniteSet(B)
  BY CoresAssumption, FS_Subset
<1>2. Cardinality(A \cup B) = Cardinality(A) + Cardinality(B) - Cardinality(A \cap B)
  BY <1>1, FS_Union
<1>3. Cardinality(A \cup B) <= Cardinality(Core) /\ Cardinality(A \cup B) \in Nat
  BY CountGrows
<1>4. Cardinality(A) \in Nat /\ Cardinality(B) \in Nat /\ Cardinality(Core) \in Nat
  BY <1>1, FS_CardinalityType
<1>5. SUFFICES ASSUME A \cap B = {} PROVE FALSE
  OBVIOUS
<1>6. Cardinality(A \cap B) = 0
  BY <1>5, FS_EmptySet
<1>7. QED
  BY <1>2, <1>3, <1>4, <1>6

(* 51 percent, rounded up, is more than half. *)
LEMMA MajorityIsHalf ==
    ASSUME Core # {}
    PROVE  2 * RegisteredCoreNodesMinCount > Cardinality(Core)
<1>1. Cardinality(Core) \in Nat /\ Cardinality(Core) # 0
  BY CoresAssumption, FS_CardinalityType, FS_EmptySet
<1>2. \A k \in Nat \ {0} : 2 * ((k * 51 + 99) \div 100) > k
  BY Z3
<1>3. QED
  BY <1>1, <1>2 DEF RegisteredCoreNodesMinCount

-----------------------------------------------------------------------------
(* The making of a list. *)

(* Every core that get_online_core_list returns was reported by enough. *)
LEMMA OnlineAreReported ==
    ASSUME NEW table \in [Core -> SUBSET Core],
           NEW c \in GetOnlineCoreList(table)
    PROVE  LET count == Cardinality({m \in Core : c \in table[m]}) IN
           \/ count >= RegisteredCoreNodesMinCount
           \/ count >= METAHASH_PRIMARY_CORES_COUNT
<1> DEFINE who == {m \in Core : c \in table[m]}
<1>1. CASE c \in Everywhere(table)
  <2>1. Reporters(table) \subseteq who
    BY <1>1 DEF Everywhere, Reporters
  <2>2. Cardinality(Reporters(table)) >= METAHASH_PRIMARY_CORES_COUNT
    <3>1. Cardinality(Reporters(table)) \in Nat
      BY CountGrows DEF Reporters
    <3>2. QED
      BY <3>1, CountTypes DEF GetOnlineCoreList
  <2>3. Cardinality(Reporters(table)) <= Cardinality(who)
        /\ Cardinality(Reporters(table)) \in Nat /\ Cardinality(who) \in Nat
    BY <2>1, CountGrows DEF Reporters
  <2>4. QED
    BY <2>2, <2>3, CountTypes
<1>2. CASE c \in ReportedBy(table, RegisteredCoreNodesMinCount)
  BY <1>2 DEF ReportedBy
<1>3. CASE c \in ReportedBy(table, METAHASH_PRIMARY_CORES_COUNT)
  BY <1>3 DEF ReportedBy
<1>4. QED
  BY <1>1, <1>2, <1>3 DEF GetOnlineCoreList, Widened

(* The list of enough cores is a proper list, made of these cores. *)
LEMMA ShuffledList ==
    ASSUME NEW h \in Height, NEW g \in Generation, NEW S \in Candidates
    PROVE  LET list == Shuffle[<<h, g, S>>]
           IN  list \in List /\ Members(list) \subseteq S
<1> DEFINE seed == <<h, g, S>>
<1>1. seed \in Seed /\ seed[3] = S
  BY DEF Seed
<1> HIDE DEF seed
<1>2. Shuffle[seed] \in List /\ Members(Shuffle[seed]) \subseteq S
  BY <1>1, ShuffleAssumption DEF List
<1>3. QED
  BY <1>2 DEF seed

LEMMA ListsAreWellFormed == \A list \in List : WellFormed(list) /\ Members(list) \subseteq Core
<1> SUFFICES ASSUME NEW seed \in Seed
             PROVE  WellFormed(Shuffle[seed]) /\ Members(Shuffle[seed]) \subseteq Core
  BY DEF List
<1>1. seed[3] \subseteq Core
  BY DEF Seed, Candidates
<1>2. QED
  BY <1>1, ShuffleAssumption

-----------------------------------------------------------------------------
(* What was sent stays sent. *)

MoreSent ==
    /\ reports \subseteq reports'
    /\ proposals \subseteq proposals'
    /\ reports' \subseteq Core \X SUBSET Core

LEMMA WitnessesGrow ==
    ASSUME MoreSent, NEW c, WellWitnessed(c)
    PROVE  WellWitnessed(c)'
<1>1. Witnesses(c) \subseteq Witnesses(c)'
  BY DEF Witnesses, MoreSent
<1>2. Witnesses(c) \subseteq Core /\ Witnesses(c)' \subseteq Core
  BY DEF Witnesses
<1> DEFINE W == Witnesses(c)
           V == Witnesses(c)'
<1>3. Cardinality(W) \in Nat /\ Cardinality(V) \in Nat /\ Cardinality(W) <= Cardinality(V)
  <2> HIDE DEF W, V
  <2>1. W \in SUBSET Core /\ V \in SUBSET Core /\ W \subseteq V
    BY <1>1, <1>2 DEF W, V
  <2>2. QED
    BY <2>1, CountGrows
<1>4. Cardinality(Witnesses(c)') >= RegisteredCoreNodesMinCount
      \/ Cardinality(Witnesses(c)') >= METAHASH_PRIMARY_CORES_COUNT
  BY <1>3, CountTypes DEF WellWitnessed
<1>5. QED
  BY <1>4 DEF WellWitnessed

LEMMA WitnessedGrows ==
    ASSUME MoreSent, NEW list, Witnessed(list)
    PROVE  Witnessed(list)'
BY WitnessesGrow DEF Witnessed

LEMMA NodeInvGrows ==
    ASSUME MoreSent, NEW s, NodeInv(s)
    PROVE  NodeInv(s)'
<1>1. SentInv(s)'
  BY DEF NodeInv, SentInv, MoreSent, Witnesses
<1>2. ListInv(s)'
  BY WitnessedGrows DEF NodeInv, ListInv
<1>3. QED
  BY <1>1, <1>2 DEF NodeInv

(* A step of core n that ends in state t. *)
LEMMA NodeStep ==
    ASSUME IInv, MoreSent, NEW n \in Core, NEW t \in NodeState,
           node' = [node EXCEPT ![n] = t],
           proposals' \subseteq Core \X List,
           NodeInv(t)',
           \A p \in proposals' \ proposals : Witnessed(p[2])'
    PROVE  IInv'
<1>1. TypeOK'
  BY DEF IInv, TypeOK, MoreSent
<1>2. ProposalsInv'
  BY WitnessedGrows DEF IInv, ProposalsInv
<1>3. node'[n] = t /\ \A m \in Core \ {n} : node'[m] = node[m]
  BY DEF IInv, TypeOK
<1>4. \A m \in Core : NodeInv(node[m])'
  <2> SUFFICES ASSUME NEW m \in Core PROVE NodeInv(node[m])'
    OBVIOUS
  <2>1. CASE m = n
    BY <1>3, <2>1
  <2>2. CASE m # n
    <3>1. NodeInv(node[m]) /\ node'[m] = node[m]
      BY <1>3, <2>2 DEF IInv
    <3>2. \A s : NodeInv(s) => NodeInv(s)'
      BY NodeInvGrows
    <3>3. QED
      BY <3>1, <3>2
  <2>3. QED
    BY <2>1, <2>2
<1>5. QED
  BY <1>1, <1>2, <1>4 DEF IInv

-----------------------------------------------------------------------------
(* The steps of check_online_nodes, for a core in state s.  What was sent   *)
(* is that of the next state: a core sends before it installs.             *)

(* A report that was sent is filed. *)
LEMMA ReportFiled ==
    ASSUME NEW s \in NodeState, NodeInv(s)',
           NEW m \in Core, NEW cores \in SUBSET Core,
           cores = {} \/ <<m, cores>> \in reports'
    PROVE  LET t == MakeOnlineCoreList(m, s, cores) IN t \in NodeState /\ NodeInv(t)'
<1> DEFINE t == MakeOnlineCoreList(m, s, cores)
<1>1. /\ t \in NodeState
      /\ t.online_sync_cores = [s.online_sync_cores EXCEPT ![m] = @ \cup cores]
      /\ t.proposed_cores = s.proposed_cores /\ t.now = s.now
      /\ t.current_cores = s.current_cores /\ t.core_list_generation = s.core_list_generation
  BY DEF MakeOnlineCoreList, NodeState
<1> HIDE DEF t
<1>2. SentInv(t)'
  <2> SUFFICES ASSUME NEW o \in Core
               PROVE  /\ \A c \in t.online_sync_cores[o] : o \in Witnesses(c)'
                      /\ \A list \in List : o \in t.proposed_cores[list] => <<o, list>> \in proposals'
    BY DEF SentInv
  <2>1. ASSUME NEW c \in t.online_sync_cores[o] PROVE o \in Witnesses(c)'
    <3>1. CASE c \in s.online_sync_cores[o]
      BY <3>1 DEF NodeInv, SentInv
    <3>2. CASE c \notin s.online_sync_cores[o]
      <4>1. o = m /\ c \in cores
        BY <1>1, <2>1, <3>2 DEF NodeState
      <4>2. QED
        BY <4>1 DEF Witnesses
    <3>3. QED
      BY <3>1, <3>2
  <2>2. QED
    BY <1>1, <2>1 DEF NodeInv, SentInv
<1>3. ListInv(t)'
  BY <1>1 DEF NodeInv, ListInv, Enough
<1>4. QED
  BY <1>1, <1>2, <1>3 DEF NodeInv, t

(* A list that is installed stays a list that enough cores propose. *)
LEMMA EnoughGrows ==
    ASSUME NEW s \in NodeState, NEW list \in List, NEW other \in List,
           NEW m \in Core, Enough(s, list)
    PROVE  Enough(Propose(m, s, other), list)
<1> DEFINE A == s.proposed_cores[list]
           B == Propose(m, s, other).proposed_cores[list]
<1>1. A \in SUBSET Core /\ B \in SUBSET Core /\ A \subseteq B
  BY DEF Propose, NodeState
<1>2. Cardinality(A) \in Nat /\ Cardinality(B) \in Nat /\ Cardinality(A) <= Cardinality(B)
  BY <1>1, CountGrows
<1>3. \/ Cardinality(B) >= RegisteredCoreNodesMinCount
      \/ Cardinality(B) >= METAHASH_PRIMARY_CORES_COUNT /\ list[1] \in B
  <2>1. \/ Cardinality(A) >= RegisteredCoreNodesMinCount
        \/ Cardinality(A) >= METAHASH_PRIMARY_CORES_COUNT /\ list[1] \in A
    BY DEF Enough
  <2> HIDE DEF A, B
  <2>2. QED
    BY <1>1, <1>2, <2>1, CountTypes
<1>4. QED
  BY <1>3 DEF Enough

(* A proposal that was sent is filed. *)
LEMMA ProposalFiled ==
    ASSUME NEW s \in NodeState, NodeInv(s)',
           NEW m \in Core, NEW list \in List, <<m, list>> \in proposals'
    PROVE  LET t == Propose(m, s, list) IN t \in NodeState /\ NodeInv(t)'
<1> DEFINE t == Propose(m, s, list)
<1>1. /\ t \in NodeState
      /\ t.proposed_cores = [s.proposed_cores EXCEPT ![list] = @ \cup {m}]
      /\ t.online_sync_cores = s.online_sync_cores /\ t.now = s.now
      /\ t.current_cores = s.current_cores /\ t.core_list_generation = s.core_list_generation
  BY DEF Propose, NodeState
<1>2. \A other \in List : Enough(s, other) => Enough(t, other)
  BY EnoughGrows
<1> HIDE DEF t
<1>3. SentInv(t)'
  BY <1>1 DEF NodeInv, SentInv, NodeState
<1>4. ListInv(t)'
  BY <1>1, <1>2 DEF NodeInv, ListInv
<1>5. QED
  BY <1>1, <1>3, <1>4 DEF NodeInv, t

(* The cores of which a list is made were reported by enough others. *)
LEMMA OnlineWitnessed ==
    ASSUME NEW s \in NodeState, SentInv(s)',
           NEW c \in GetOnlineCoreList(s.online_sync_cores)
    PROVE  WellWitnessed(c)'
<1> DEFINE who == {m \in Core : c \in s.online_sync_cores[m]}
           W == Witnesses(c)'
<1>1. who \in SUBSET Core /\ W \in SUBSET Core /\ who \subseteq W
  BY DEF SentInv, Witnesses
<1>2. \/ Cardinality(who) >= RegisteredCoreNodesMinCount
      \/ Cardinality(who) >= METAHASH_PRIMARY_CORES_COUNT
  BY OnlineAreReported DEF NodeState
<1> HIDE DEF who, W
<1>3. \/ Cardinality(W) >= RegisteredCoreNodesMinCount
      \/ Cardinality(W) >= METAHASH_PRIMARY_CORES_COUNT
  BY <1>1, <1>2, CountGrows, CountTypes
<1>4. QED
  BY <1>3 DEF WellWitnessed, W

(* What enough cores propose, somebody proposed. *)
LEMMA EnoughWitnessed ==
    ASSUME NEW s \in NodeState, SentInv(s)', ProposalsInv', Core # {},
           NEW list \in List, Enough(s, list)
    PROVE  Witnessed(list)'
<1>1. s.proposed_cores[list] # {}
  <2>1. SUFFICES ASSUME s.proposed_cores[list] = {} PROVE FALSE
    OBVIOUS
  <2>2. Cardinality(s.proposed_cores[list]) = 0
    BY <2>1, FS_EmptySet
  <2>3. 2 * RegisteredCoreNodesMinCount > Cardinality(Core)
    BY MajorityIsHalf
  <2>4. QED
    BY <2>2, <2>3, CountTypes, CoresAssumption DEF Enough
<1>2. PICK m \in Core : m \in s.proposed_cores[list]
  BY <1>1 DEF NodeState
<1>3. <<m, list>> \in proposals'
  BY <1>2 DEF SentInv
<1>4. QED
  BY <1>3 DEF ProposalsInv

(* apply_approve_cores *)
LEMMA ListApplied ==
    ASSUME NEW s \in NodeState, s.now # 0, NodeInv(s)', ProposalsInv', Core # {},
           NEW t \in ApplyApproveCores(s)
    PROVE  t \in NodeState /\ NodeInv(t)'
<1>1. PICK list \in List : t = IF Enough(s, list) THEN Install(s, list) ELSE s
  BY DEF ApplyApproveCores, Chosen
<1>2. CASE ~ Enough(s, list)
  BY <1>1, <1>2
<1>3. CASE Enough(s, list)
  <2>1. list \in Seq(Core)
    BY ListsAreWellFormed DEF WellFormed
  <2>2. /\ t \in NodeState
        /\ t.current_cores = list /\ t.core_list_generation = s.now /\ t.now = s.now
        /\ t.proposed_cores = s.proposed_cores /\ t.online_sync_cores = s.online_sync_cores
    BY <1>1, <1>3, <2>1 DEF Install, NodeState
  <2>3. Witnessed(list)'
    BY <1>3, EnoughWitnessed DEF NodeInv
  <2>4. SentInv(t)'
    BY <2>2 DEF NodeInv, SentInv
  <2>5. Enough(t, list)
    BY <1>3, <2>2 DEF Enough
  <2>6. ListInv(t)'
    <3>1. s.now \in Nat
      BY DEF NodeState, Generation
    <3>2. QED
      BY <2>2, <2>3, <2>5, <3>1 DEF ListInv
  <2>7. QED
    BY <2>2, <2>4, <2>6 DEF NodeInv
<1>4. QED
  BY <1>2, <1>3

-----------------------------------------------------------------------------
(* The actions. *)

(* The state of a core before a step, after what the step sends. *)
LEMMA NodeBefore ==
    ASSUME IInv, MoreSent, NEW n \in Core
    PROVE  \E s \in NodeState : s = node[n] /\ NodeInv(s) /\ NodeInv(s)'
<1>1. PICK s \in NodeState : s = node[n]
  BY DEF IInv, TypeOK
<1>2. NodeInv(s)
  BY <1>1 DEF IInv
<1>3. NodeInv(s)'
  BY <1>2, NodeInvGrows
<1>4. QED
  BY <1>1, <1>2, <1>3

(* Where nothing is sent, what was sent has grown all the same. *)
LEMMA NothingSent ==
    ASSUME IInv, UNCHANGED <<reports, proposals>>
    PROVE  MoreSent /\ proposals' \subseteq Core \X List /\ proposals' \ proposals = {}
BY DEF MoreSent, IInv, TypeOK

LEMMA ReceiveOnlineInv ==
    ASSUME IInv, NEW n \in Core, NEW m, NEW cores, ReceiveOnline(n, m, cores)
    PROVE  IInv'
<1>1. MoreSent /\ proposals' \subseteq Core \X List /\ proposals' \ proposals = {}
  BY NothingSent DEF ReceiveOnline
<1>2. PICK s \in NodeState : s = node[n] /\ NodeInv(s)'
  BY <1>1, NodeBefore
<1> DEFINE t == MakeOnlineCoreList(m, s, cores)
<1>3. m \in Core /\ cores \in SUBSET Core /\ <<m, cores>> \in reports'
  BY DEF ReceiveOnline, IInv, TypeOK
<1>4. t \in NodeState /\ NodeInv(t)'
  BY <1>2, <1>3, ReportFiled
<1>5. node' = [node EXCEPT ![n] = t]
  BY <1>2 DEF ReceiveOnline, MakeOnlineCoreList
<1> HIDE DEF t
<1>6. QED
  BY <1>1, <1>4, <1>5, NodeStep

LEMMA ReceiveApproveInv ==
    ASSUME IInv, NEW n \in Core, NEW m, NEW list, ReceiveApprove(n, m, list)
    PROVE  IInv'
<1>1. MoreSent /\ proposals' \subseteq Core \X List /\ proposals' \ proposals = {}
  BY NothingSent DEF ReceiveApprove
<1>2. PICK s \in NodeState : s = node[n] /\ NodeInv(s)'
  BY <1>1, NodeBefore
<1> DEFINE t == Propose(m, s, list)
<1>3. m \in Core /\ list \in List /\ <<m, list>> \in proposals'
  BY DEF ReceiveApprove, IInv, TypeOK
<1>4. t \in NodeState /\ NodeInv(t)'
  BY <1>2, <1>3, ProposalFiled
<1>5. node' = [node EXCEPT ![n] = t]
  BY <1>2 DEF ReceiveApprove, Propose
<1> HIDE DEF t
<1>6. QED
  BY <1>1, <1>4, <1>5, NodeStep

(* The new tables are empty, and no list is of the new generation yet. *)
LEMMA NextGenerationInv ==
    ASSUME IInv, NEW n \in Core, NextGeneration(n)
    PROVE  IInv'
<1>1. MoreSent /\ proposals' \subseteq Core \X List /\ proposals' \ proposals = {}
  BY NothingSent DEF NextGeneration
<1>2. PICK s \in NodeState : s = node[n] /\ NodeInv(s)'
  BY <1>1, NodeBefore
<1> DEFINE t == [s EXCEPT !.now = @ + 1, !.online_sync_cores = NoReports,
                          !.proposed_cores = NoProposals]
<1>3. /\ t.now = s.now + 1 /\ t.height = s.height
      /\ t.online_sync_cores = NoReports /\ t.proposed_cores = NoProposals
      /\ t.current_cores = s.current_cores /\ t.core_list_generation = s.core_list_generation
  BY DEF NodeState
<1>4. t \in NodeState
  <2>1. s.now + 1 \in Generation
    BY <1>2, CoresAssumption DEF NextGeneration, NodeState, Generation
  <2>2. NoReports \in [Core -> SUBSET Core] /\ NoProposals \in [List -> SUBSET Core]
    BY DEF NoReports, NoProposals
  <2>3. QED
    BY <2>1, <2>2 DEF NodeState
<1>5. node' = [node EXCEPT ![n] = t]
  BY <1>2 DEF NextGeneration
<1> HIDE DEF t
<1>6. SentInv(t)'
  BY <1>3 DEF SentInv, NoReports, NoProposals
<1>7. ListInv(t)'
  <2>1. s.now \in Nat /\ s.core_list_generation \in Nat
    BY DEF NodeState, Generation
  <2>2. QED
    BY <1>2, <1>3, <2>1 DEF NodeInv, ListInv
<1>8. QED
  BY <1>1, <1>4, <1>5, <1>6, <1>7, NodeStep DEF NodeInv

LEMMA ApplyBlockInv ==
    ASSUME IInv, NEW n \in Core, ApplyBlock(n)
    PROVE  IInv'
<1>1. MoreSent /\ proposals' \subseteq Core \X List /\ proposals' \ proposals = {}
  BY NothingSent DEF ApplyBlock
<1>2. PICK s \in NodeState : s = node[n] /\ NodeInv(s)'
  BY <1>1, NodeBefore
<1> DEFINE t == [s EXCEPT !.height = @ + 1]
<1>3. /\ t.now = s.now
      /\ t.online_sync_cores = s.online_sync_cores /\ t.proposed_cores = s.proposed_cores
      /\ t.current_cores = s.current_cores /\ t.core_list_generation = s.core_list_generation
  BY DEF NodeState
<1>4. t \in NodeState
  <2>1. s.height + 1 \in Height
    BY <1>2, CoresAssumption DEF ApplyBlock, NodeState, Height
  <2>2. QED
    BY <2>1 DEF NodeState
<1>5. node' = [node EXCEPT ![n] = t]
  BY <1>2 DEF ApplyBlock
<1> HIDE DEF t
<1>6. NodeInv(t)'
  BY <1>2, <1>3 DEF NodeInv, SentInv, ListInv, Enough
<1>7. QED
  BY <1>1, <1>4, <1>5, <1>6, NodeStep

(* The state of a core that starts, whatever its clock and its chain. *)
LEMMA StartedNode ==
    ASSUME NEW s \in NodeState
    PROVE  LET t == [InitNode EXCEPT !.now = s.now, !.height = s.height]
           IN  t \in NodeState /\ NodeInv(t) /\ NodeInv(t)'
<1> DEFINE t == [InitNode EXCEPT !.now = s.now, !.height = s.height]
<1>1. /\ t.now = s.now /\ t.height = s.height
      /\ t.online_sync_cores = NoReports /\ t.proposed_cores = NoProposals
      /\ t.current_cores = ConfigList /\ t.core_list_generation = 0
  BY DEF InitNode
<1>2. t \in NodeState
  <2>1. NoReports \in [Core -> SUBSET Core] /\ NoProposals \in [List -> SUBSET Core]
    BY DEF NoReports, NoProposals
  <2>2. 0 \in Generation /\ ConfigList \in Seq(Core)
    BY CoresAssumption DEF Generation
  <2>3. QED
    BY <2>1, <2>2 DEF NodeState, InitNode
<1> HIDE DEF t
<1>3. s.now \in Nat
  BY DEF NodeState, Generation
<1>4. SentInv(t) /\ SentInv(t)'
  BY <1>1 DEF SentInv, NoReports, NoProposals
<1>5. ListInv(t) /\ ListInv(t)'
  BY <1>1, <1>3 DEF ListInv
<1>6. QED
  BY <1>2, <1>4, <1>5 DEF NodeInv, t

LEMMA RestartInv ==
    ASSUME IInv, NEW n \in Core, Restart(n)
    PROVE  IInv'
<1>1. MoreSent /\ proposals' \subseteq Core \X List /\ proposals' \ proposals = {}
  BY NothingSent DEF Restart
<1>2. PICK s \in NodeState : s = node[n]
  BY DEF IInv, TypeOK
<1> DEFINE t == [InitNode EXCEPT !.now = s.now, !.height = s.height]
<1>3. t \in NodeState /\ NodeInv(t)'
  BY StartedNode
<1>4. node' = [node EXCEPT ![n] = t]
  BY <1>2 DEF Restart
<1> HIDE DEF t
<1>5. QED
  BY <1>1, <1>3, <1>4, NodeStep

(* The report is filed and sent; if the reports yield a list, the core
   proposes it and then installs the list that enough cores propose. *)
LEMMA CheckOnlineNodesInv ==
    ASSUME IInv, NEW n \in Core, NEW online \in SUBSET Core, CheckOnlineNodes(n, online)
    PROVE  IInv'
<1>1. PICK r \in NodeState : r = node[n]
  BY DEF IInv, TypeOK
<1> DEFINE s == MakeOnlineCoreList(n, r, online)
           online_cores == GetOnlineCoreList(s.online_sync_cores)
           list == Shuffle[<<s.height, s.now, online_cores>>]
<1>2. /\ s.core_list_generation < s.now
      /\ reports' = reports \cup (IF online = {} THEN {} ELSE {<<n, online>>})
      /\ \/ /\ online_cores \in Candidates
            /\ proposals' = proposals \cup {<<n, list>>}
            /\ \E t \in ApplyApproveCores(Propose(n, s, list)) : node' = [node EXCEPT ![n] = t]
         \/ node' = [node EXCEPT ![n] = s] /\ UNCHANGED proposals
  BY <1>1 DEF CheckOnlineNodes
<1>3. MoreSent
  BY <1>2 DEF MoreSent, IInv, TypeOK
<1>4. NodeInv(r)'
  BY <1>1, <1>3, NodeBefore
<1>5. s \in NodeState /\ NodeInv(s)'
  BY <1>2, <1>4, ReportFiled
<1>6. CASE node' = [node EXCEPT ![n] = s] /\ UNCHANGED proposals
  <2> HIDE DEF s
  <2>1. proposals' \subseteq Core \X List /\ proposals' \ proposals = {}
    BY <1>6 DEF IInv, TypeOK
  <2>2. QED
    BY <1>3, <1>5, <1>6, <2>1, NodeStep
<1>7. CASE /\ online_cores \in Candidates
           /\ proposals' = proposals \cup {<<n, list>>}
           /\ \E t \in ApplyApproveCores(Propose(n, s, list)) : node' = [node EXCEPT ![n] = t]
  <2> HIDE DEF s
  <2>1. s.height \in Height /\ s.now \in Generation
    BY <1>5 DEF NodeState
  <2>2. list \in List /\ Members(list) \subseteq online_cores
    BY <1>7, <2>1, ShuffledList
  <2> HIDE DEF list
  <2>3. Witnessed(list)'
    <3>1. ASSUME NEW c \in online_cores PROVE WellWitnessed(c)'
      BY <1>5, OnlineWitnessed DEF NodeInv
    <3>2. QED
      BY <2>2, <3>1 DEF Witnessed
  <2>4. /\ proposals' \subseteq Core \X List
        /\ \A p \in proposals' \ proposals : Witnessed(p[2])'
        /\ <<n, list>> \in proposals'
    BY <1>7, <2>2, <2>3 DEF IInv, TypeOK
  <2>5. ProposalsInv'
    BY <1>3, <2>4, WitnessedGrows DEF IInv, ProposalsInv
  <2> DEFINE u == Propose(n, s, list)
  <2>6. u \in NodeState /\ NodeInv(u)'
    BY <1>5, <2>2, <2>4, ProposalFiled
  <2>7. u.now # 0
    <3>1. u.now = s.now
      BY <1>5 DEF Propose, NodeState
    <3>2. s.now \in Nat /\ s.core_list_generation \in Nat
      BY <1>5 DEF NodeState, Generation
    <3>3. QED
      BY <1>2, <3>1, <3>2
  <2>8. PICK t \in ApplyApproveCores(u) : node' = [node EXCEPT ![n] = t]
    BY <1>7
  <2> HIDE DEF u
  <2>9. t \in NodeState /\ NodeInv(t)'
    BY <2>5, <2>6, <2>7, ListApplied
  <2>10. QED
    BY <1>3, <2>4, <2>8, <2>9, NodeStep
<1>8. QED
  BY <1>2, <1>6, <1>7

-----------------------------------------------------------------------------
(* The theorems. *)

LEMMA InitInv == Init => IInv
<1> SUFFICES ASSUME Init PROVE IInv
  OBVIOUS
<1>1. InitNode \in NodeState
  <2>1. NoReports \in [Core -> SUBSET Core] /\ NoProposals \in [List -> SUBSET Core]
    BY DEF NoReports, NoProposals
  <2>2. 1 \in Generation /\ 0 \in Generation /\ 0 \in Height /\ ConfigList \in Seq(Core)
    BY CoresAssumption DEF Generation, Height
  <2>3. QED
    BY <2>1, <2>2 DEF NodeState, InitNode
<1>2. NodeInv(InitNode)
  BY DEF InitNode, NodeInv, SentInv, ListInv, NoReports, NoProposals
<1>3. TypeOK
  BY <1>1 DEF Init, TypeOK
<1>4. QED
  BY <1>2, <1>3 DEF Init, IInv, ProposalsInv

LEMMA StutterInv ==
    ASSUME IInv, UNCHANGED vars
    PROVE  IInv'
BY DEF vars, IInv, TypeOK, ProposalsInv, NodeInv, SentInv, ListInv, Witnessed,
       WellWitnessed, Witnesses

LEMMA NextInv ==
    ASSUME IInv, [Next]_vars
    PROVE  IInv'
<1>1. CASE UNCHANGED vars
  BY <1>1, StutterInv
<1>2. ASSUME NEW n \in Running,
             NEW online \in OnlineViews[n], CheckOnlineNodes(n, online)
      PROVE  IInv'
  BY <1>2, CheckOnlineNodesInv, CoresAssumption
<1>3. ASSUME NEW n \in Running, NEW r \in reports, ReceiveOnline(n, r[1], r[2])
      PROVE  IInv'
  BY <1>3, ReceiveOnlineInv, CoresAssumption
<1>4. ASSUME NEW n \in Running, NEW p \in proposals, ReceiveApprove(n, p[1], p[2])
      PROVE  IInv'
  BY <1>4, ReceiveApproveInv, CoresAssumption
<1>5. ASSUME NEW n \in Running, NextGeneration(n) PROVE IInv'
  BY <1>5, NextGenerationInv, CoresAssumption
<1>6. ASSUME NEW n \in Running, ApplyBlock(n) PROVE IInv'
  BY <1>6, ApplyBlockInv, CoresAssumption
<1>7. ASSUME NEW n \in Running, Restart(n) PROVE IInv'
  BY <1>7, RestartInv, CoresAssumption
<1>8. QED
  BY <1>1, <1>2, <1>3, <1>4, <1>5, <1>6, <1>7 DEF Next

(* IInv is an invariant of the core list exchange. *)
THEOREM CoreListInvariance == Spec => []IInv
<1>1. IInv /\ [Next]_vars => IInv'
  BY NextInv
<1>2. QED
  BY <1>1, InitInv, PTL DEF Spec

(* The variables always have their types. *)
THEOREM CoreListTypeCorrect == Spec => []TypeOK
<1>1. IInv => TypeOK
  BY DEF IInv
<1>2. QED
  BY <1>1, CoreListInvariance, PTL

(* check_online_nodes installs no list with a member whom too few cores
   found online, whatever part of the reports arrives where. *)
THEOREM MembersOnline == Spec => []MembersWereOnline
<1>1. IInv => MembersWereOnline
  BY DEF IInv, NodeInv, ListInv, Witnessed, MembersWereOnline, Installed
<1>2. QED
  BY <1>1, CoreListInvariance, PTL

(* Where a list has more than half as many places as there are registered
   cores, two lists of one generation need a core that proposed both. *)
THEOREM OneProposalOneList ==
    ASSUME 2 * METAHASH_PRIMARY_CORES_COUNT > Cardinality(Core)
    PROVE  Spec => []TwoListsTwoProposals
<1>1. ASSUME IInv PROVE TwoListsTwoProposals
  <2> SUFFICES ASSUME NEW s \in NodeState, NEW t \in NodeState,
                      Core # {},
                      s.current_cores \in List, t.current_cores \in List,
                      Enough(s, s.current_cores), Enough(t, t.current_cores)
               PROVE  s.proposed_cores[s.current_cores]
                        \cap t.proposed_cores[t.current_cores] # {}
    BY <1>1 DEF IInv, TypeOK, NodeInv, ListInv, TwoListsTwoProposals, Installed
  <2> DEFINE A == s.proposed_cores[s.current_cores]
             B == t.proposed_cores[t.current_cores]
  <2>1. A \in SUBSET Core /\ B \in SUBSET Core
    BY DEF NodeState
  <2>2. /\ \/ Cardinality(A) >= RegisteredCoreNodesMinCount
           \/ Cardinality(A) >= METAHASH_PRIMARY_CORES_COUNT
        /\ \/ Cardinality(B) >= RegisteredCoreNodesMinCount
           \/ Cardinality(B) >= METAHASH_PRIMARY_CORES_COUNT
    BY DEF Enough
  <2> HIDE DEF A, B
  <2>3. 2 * Cardinality(A) > Cardinality(Core) /\ 2 * Cardinality(B) > Cardinality(Core)
        /\ Cardinality(A) \in Nat /\ Cardinality(B) \in Nat
    BY <2>1, <2>2, CountGrows, CountTypes, MajorityIsHalf
  <2>4. A \cap B # {}
    BY <2>1, <2>3, CountTypes, Pigeonhole
  <2>5. QED
    BY <2>4 DEF A, B
<1>2. QED
  BY <1>1, CoreListInvariance, PTL

(* A sufficient set of approvers of a list that is not too short. *)
LEMMA QuorumSizes ==
    ASSUME MinApprove \in Nat, MinApprove <= METAHASH_PRIMARY_CORES_COUNT,
           MinApprove <= Len(ConfigList),
           NEW list \in List \cup {ConfigList}, NEW Q \in Quorums(list)
    PROVE  Q \in SUBSET Core /\ Cardinality(Q) \in Nat /\ Cardinality(Q) >= MinApprove
<1>1. list \in Seq(Core) /\ Len(list) \in Nat /\ Len(list) >= MinApprove
  BY ListsAreWellFormed, CoresAssumption, CountTypes DEF WellFormed
<1>2. Q \in SUBSET Core
  BY <1>1 DEF Quorums, Members
<1>3. Cardinality(Q) \in Nat
  BY <1>2, CountGrows
<1>4. QED
  BY <1>1, <1>2, <1>3 DEF Quorums

(* With enough approvals asked for, count_approve_for_block takes no two
   blocks as approved without a core that approved both, even where the
   cores hold different lists. *)
THEOREM QuorumsAlwaysMeet ==
    ASSUME MinApprove \in Nat, 2 * MinApprove > Cardinality(Core),
           MinApprove <= METAHASH_PRIMARY_CORES_COUNT, MinApprove <= Len(ConfigList)
    PROVE  Spec => []QuorumsMeet
<1>1. ASSUME IInv PROVE QuorumsMeet
  <2>1. \A n \in Core : node[n].current_cores \in List \cup {ConfigList}
    BY <1>1 DEF IInv, NodeInv, ListInv
  <2>2. \A n \in Core : \A Q \in Quorums(node[n].current_cores) :
            Q \in SUBSET Core /\ Cardinality(Q) \in Nat /\ Cardinality(Q) >= MinApprove
    BY <2>1, QuorumSizes
  <2>3. SUFFICES ASSUME NEW m \in Core, NEW n \in Core,
                        NEW Q1 \in Quorums(node[m].current_cores),
                        NEW Q2 \in Quorums(node[n].current_cores)
                 PROVE  Q1 \cap Q2 # {}
    BY DEF QuorumsMeet
  <2>4. /\ Q1 \in SUBSET Core /\ Cardinality(Q1) \in Nat /\ Cardinality(Q1) >= MinApprove
        /\ Q2 \in SUBSET Core /\ Cardinality(Q2) \in Nat /\ Cardinality(Q2) >= MinApprove
    BY <2>2
  <2>5. Cardinality(Q1) + Cardinality(Q2) > Cardinality(Core)
    BY <2>4, CountTypes
  <2>6. QED
    BY <2>4, <2>5, Pigeonhole
<1>2. QED
  BY <1>1, CoreListInvariance, PTL

(* What Controller assumes of the lists (QuorumAssumption), for the lists of
   this exchange: cores may forget their approvals in a restart as long as
   they are fewer than the cores that any two quorums share.  With four
   cores and min_approve 3, one of them may. *)
THEOREM ForgetfulAllowed ==
    ASSUME NEW Forgetful \in SUBSET Core, MinApprove \in Nat,
           Cardinality(Core) + Cardinality(Forgetful) < 2 * MinApprove,
           MinApprove <= METAHASH_PRIMARY_CORES_COUNT, MinApprove <= Len(ConfigList)
    PROVE  /\ \A l1, l2 \in List \cup {ConfigList} :
              \A Q1 \in Quorums(l1), Q2 \in Quorums(l2) :
                  \E n \in Q1 \cap Q2 : n \notin Forgetful
           /\ Spec => [](\A n \in Core : node[n].current_cores \in List \cup {ConfigList})
<1>1. ASSUME NEW l1 \in List \cup {ConfigList}, NEW l2 \in List \cup {ConfigList},
             NEW Q1 \in Quorums(l1), NEW Q2 \in Quorums(l2)
      PROVE  \E n \in Q1 \cap Q2 : n \notin Forgetful
  <2>1. /\ Q1 \in SUBSET Core /\ Cardinality(Q1) \in Nat /\ Cardinality(Q1) >= MinApprove
        /\ Q2 \in SUBSET Core /\ Cardinality(Q2) \in Nat /\ Cardinality(Q2) >= MinApprove
    BY QuorumSizes
  <2>2. /\ Cardinality(Q1 \cup Q2) \in Nat
        /\ Cardinality(Q1 \cup Q2) <= Cardinality(Core)
        /\ Cardinality(Q1 \cap Q2) \in Nat
        /\ Cardinality(Forgetful) \in Nat
    BY <2>1, CountGrows
  <2>3. IsFiniteSet(Q1) /\ IsFiniteSet(Q2)
    BY <2>1, CoresAssumption, FS_Subset
  <2>4. Cardinality(Q1 \cup Q2) = Cardinality(Q1) + Cardinality(Q2) - Cardinality(Q1 \cap Q2)
    BY <2>3, FS_Union
  <2>5. Cardinality(Q1 \cap Q2) > Cardinality(Forgetful)
    BY <2>1, <2>2, <2>4, CountTypes
  <2>6. CASE Q1 \cap Q2 \subseteq Forgetful
    <3>1. Cardinality(Q1 \cap Q2) <= Cardinality(Forgetful)
      BY <2>1, <2>6, CountGrows
    <3>2. QED
      BY <2>2, <2>5, <3>1
  <2>7. QED
    BY <2>6
<1>2. IInv => \A n \in Core : node[n].current_cores \in List \cup {ConfigList}
  BY DEF IInv, NodeInv, ListInv
<1>3. Spec => [](\A n \in Core : node[n].current_cores \in List \cup {ConfigList})
  BY <1>2, CoreListInvariance, PTL
<1>4. QED
  BY <1>1, <1>3
=============================================================================
