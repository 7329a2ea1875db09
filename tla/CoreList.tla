------------------------------ MODULE CoreList ------------------------------
(***************************************************************************)
(* How the cores choose who makes and who approves blocks: check_online_   *)
(* nodes of src/metalibs/meta_core.  For every generation (CORE_LIST_      *)
(* RENEW_PERIOD of the clock) each core reports which cores it finds       *)
(* online, makes a list from the reports it has, proposes that list, and   *)
(* installs the one that enough cores proposed.                            *)
(*                                                                         *)
(* Reports and proposals carry no generation: the receiver files them      *)
(* under the one its own clock shows.  They may be lost, delayed, repeated *)
(* and reordered: a sent message may be delivered at any time, or never.   *)
(***************************************************************************)
EXTENDS ApproveQuorums, FiniteSetsExt

CONSTANTS
    Core,            \* the addresses registered with META_ROLE_CORE
    METAHASH_PRIMARY_CORES_COUNT,
    ConfigList,      \* core list of the configuration file
    Running,         \* the cores that run
    OnlineViews,     \* OnlineViews[n]: sets of cores that core n may find online
    Shuffle,         \* Shuffle[<<height, generation, cores>>]: the list made of cores
    MAX_GENERATION,  \* bound: generations
    MAX_HEIGHT,      \* bound: blocks applied
    MayRestart       \* cores that may be restarted

(* 51 percent of the registered cores, rounded up. *)
RegisteredCoreNodesMinCount == (Cardinality(Core) * 51 + 99) \div 100

Generation == 0 .. MAX_GENERATION
Height == 0 .. MAX_HEIGHT

Candidates == {S \in SUBSET Core : Cardinality(S) >= METAHASH_PRIMARY_CORES_COUNT}
Seed == Height \X Generation \X Candidates

(* A list has as many different members as there are places. *)
WellFormed(list) ==
    /\ list \in Seq(Core)
    /\ Len(list) = METAHASH_PRIMARY_CORES_COUNT
    /\ \A i, j \in DOMAIN list : list[i] = list[j] => i = j

ASSUME CoresAssumption ==
    /\ IsFiniteSet(Core)
    /\ METAHASH_PRIMARY_CORES_COUNT \in Nat \ {0}
    /\ ConfigList \in Seq(Core)
    /\ \A i, j \in DOMAIN ConfigList : ConfigList[i] = ConfigList[j] => i = j
    /\ Running \subseteq Core
    /\ OnlineViews \in [Core -> SUBSET SUBSET Core]
    /\ MayRestart \subseteq Running
    /\ MAX_GENERATION \in Nat \ {0} /\ MAX_HEIGHT \in Nat

(* The shuffle is seeded with the last applied block and the generation;   *)
(* after Agreement, the height of the chain tells its last block.          *)
ASSUME ShuffleAssumption ==
    \A seed \in Seed : WellFormed(Shuffle[seed]) /\ Members(Shuffle[seed]) \subseteq seed[3]

List == {Shuffle[seed] : seed \in Seed}

VARIABLES
    node,       \* node[n]: the state of core n
    reports,    \* RPC_CORE_LIST_ONLINE sent: <<sender, cores>>
    proposals   \* RPC_CORE_LIST_APPROVE sent: <<sender, list>>

vars == <<node, reports, proposals>>

(* The tables of earlier generations are never read again. *)
NodeState == [
    now                  : Generation,              \* what the clock shows
    height               : Height,                  \* of last_applied_block
    online_sync_cores    : [Core -> SUBSET Core],   \* of this generation
    proposed_cores       : [List -> SUBSET Core],   \* of this generation
    current_cores        : Seq(Core),
    core_list_generation : Generation]

NoReports == [m \in Core |-> {}]
NoProposals == [list \in List |-> {}]

-----------------------------------------------------------------------------
(* get_online_core_list *)

Reporters(table) == {m \in Core : table[m] # {}}

Everywhere(table) == {c \in Core : \A m \in Reporters(table) : c \in table[m]}

ReportedBy(table, count) ==
    {c \in Core : Cardinality({m \in Core : c \in table[m]}) >= count}

(* Mutant: any core that is named at all. *)
WidenedAny(cores, table, count) ==
    IF Cardinality(cores) < count THEN cores \cup ReportedBy(table, 1) ELSE cores

(* The cores that all reporters name; if those are too few, also the ones
   that most cores name, and then the ones that enough name. *)
Widened(cores, table, count) ==
    IF Cardinality(cores) < count THEN cores \cup ReportedBy(table, count) ELSE cores

GetOnlineCoreList(table) ==
    IF Cardinality(Reporters(table)) < METAHASH_PRIMARY_CORES_COUNT THEN {}
    ELSE Widened(Widened(Everywhere(table), table, RegisteredCoreNodesMinCount),
                 table, METAHASH_PRIMARY_CORES_COUNT)

-----------------------------------------------------------------------------
(* check_online_nodes *)

(* make_online_core_list: what the core found before stays in its table. *)
MakeOnlineCoreList(n, s, online) ==
    [s EXCEPT !.online_sync_cores[n] = @ \cup online]

Propose(n, s, list) == [s EXCEPT !.proposed_cores[list] = @ \cup {n}]

(* The list with the most proposers; of several, any. *)
Chosen(s) ==
    {list \in List : \A other \in List :
        Cardinality(s.proposed_cores[other]) <= Cardinality(s.proposed_cores[list])}

(* Mutant: one proposer less is a majority. *)
EnoughShort(s, list) ==
    LET approve_cores == s.proposed_cores[list]
    IN  \/ Cardinality(approve_cores) >= RegisteredCoreNodesMinCount - 1
        \/ /\ Cardinality(approve_cores) >= METAHASH_PRIMARY_CORES_COUNT
           /\ list[1] \in approve_cores

(* Mutant: more than a majority, for a majority. *)
EnoughStrict(s, list) ==
    Cardinality(s.proposed_cores[list]) > RegisteredCoreNodesMinCount

(* By absolute maximum, or by the number of places with the master's vote. *)
Enough(s, list) ==
    LET approve_cores == s.proposed_cores[list]
    IN  \/ Cardinality(approve_cores) >= RegisteredCoreNodesMinCount
        \/ /\ Cardinality(approve_cores) >= METAHASH_PRIMARY_CORES_COUNT
           /\ list[1] \in approve_cores

Install(s, list) ==
    [s EXCEPT !.current_cores = list, !.core_list_generation = s.now]

ApplyApproveCores(s) ==
    {IF Enough(s, list) THEN Install(s, list) ELSE s : list \in Chosen(s)}

(* The core finds the cores in online; an empty report is not sent. *)
CheckOnlineNodes(n, online) ==
    LET s == MakeOnlineCoreList(n, node[n], online)
        online_cores == GetOnlineCoreList(s.online_sync_cores)
        list == Shuffle[<<s.height, s.now, online_cores>>]
    IN  /\ s.core_list_generation < s.now
        /\ reports' = reports \cup (IF online = {} THEN {} ELSE {<<n, online>>})
        /\ IF online_cores \in Candidates
           THEN /\ proposals' = proposals \cup {<<n, list>>}
                /\ \E t \in ApplyApproveCores(Propose(n, s, list)) : node' = [node EXCEPT ![n] = t]
           ELSE node' = [node EXCEPT ![n] = s] /\ UNCHANGED proposals

-----------------------------------------------------------------------------
(* parse_RPC_CORE_LIST_ONLINE and parse_RPC_CORE_LIST_APPROVE *)

ReceiveOnline(n, m, cores) ==
    /\ <<m, cores>> \in reports
    /\ node' = [node EXCEPT ![n].online_sync_cores[m] = @ \cup cores]
    /\ UNCHANGED <<reports, proposals>>

ReceiveApprove(n, m, list) ==
    /\ <<m, list>> \in proposals
    /\ node' = [node EXCEPT ![n].proposed_cores[list] = @ \cup {m}]
    /\ UNCHANGED <<reports, proposals>>

(* The clocks of the cores are not in step. *)
NextGeneration(n) ==
    /\ node[n].now < MAX_GENERATION
    /\ node' = [node EXCEPT ![n].now = @ + 1,
                            ![n].online_sync_cores = NoReports,
                            ![n].proposed_cores = NoProposals]
    /\ UNCHANGED <<reports, proposals>>

(* try_apply_block, as far as the lists are concerned. *)
ApplyBlock(n) ==
    /\ node[n].height < MAX_HEIGHT
    /\ node' = [node EXCEPT ![n].height = @ + 1]
    /\ UNCHANGED <<reports, proposals>>

InitNode == [
    now |-> 1, height |-> 0,
    online_sync_cores |-> NoReports, proposed_cores |-> NoProposals,
    current_cores |-> ConfigList, core_list_generation |-> 0]

(* Mutant: the generation survives, the list does not. *)
RestartKeepGeneration(n) ==
    /\ n \in MayRestart
    /\ node' = [node EXCEPT ![n] =
            [InitNode EXCEPT !.now = node[n].now, !.height = node[n].height,
                             !.core_list_generation = node[n].core_list_generation]]
    /\ UNCHANGED <<reports, proposals>>

Restart(n) ==
    /\ n \in MayRestart
    /\ node' = [node EXCEPT ![n] =
            [InitNode EXCEPT !.now = node[n].now, !.height = node[n].height]]
    /\ UNCHANGED <<reports, proposals>>

Init ==
    /\ node = [n \in Core |-> InitNode]
    /\ reports = {}
    /\ proposals = {}

Next ==
    \E n \in Running :
        \/ \E online \in OnlineViews[n] : CheckOnlineNodes(n, online)
        \/ \E r \in reports : ReceiveOnline(n, r[1], r[2])
        \/ \E p \in proposals : ReceiveApprove(n, p[1], p[2])
        \/ NextGeneration(n)
        \/ ApplyBlock(n)
        \/ Restart(n)

Spec == Init /\ [][Next]_vars
-----------------------------------------------------------------------------
(* Every variable has its type. *)
TypeOK ==
    /\ node \in [Core -> NodeState]
    /\ reports \subseteq Core \X SUBSET Core
    /\ proposals \subseteq Core \X List

(* Who ever reported core c to be online. *)
Witnesses(c) == {m \in Core : \E r \in reports : r[1] = m /\ c \in r[2]}

WellWitnessed(c) ==
    \/ Cardinality(Witnesses(c)) >= RegisteredCoreNodesMinCount
    \/ Cardinality(Witnesses(c)) >= METAHASH_PRIMARY_CORES_COUNT

Installed(n) == node[n].core_list_generation # 0

(* Nobody gets a place whom not enough cores found online: of each member
   of an installed list, as many cores as there are places, or half of the
   registered cores, reported it, whoever made the list and from whatever
   part of the reports. *)
MembersWereOnline ==
    \A n \in Core : Installed(n) =>
        \A c \in Members(node[n].current_cores) : WellWitnessed(c)

(* Two cores install different lists in one generation only if some core
   proposed both: one proposal per core would leave one list. *)
TwoListsTwoProposals ==
    \A m, n \in Core : LET s == node[m]  t == node[n] IN
        /\ Installed(m) /\ s.core_list_generation = s.now
        /\ Installed(n) /\ t.core_list_generation = t.now
        /\ s.now = t.now
        => s.proposed_cores[s.current_cores] \cap t.proposed_cores[t.current_cores] # {}

(* Lists that two cores hold at one time, of whatever generations, have no
   disjoint quorums: a block that one of them takes as approved was
   approved by a core that the other one asks. *)
QuorumsMeet ==
    \A m, n \in Core :
        \A Q1 \in Quorums(node[m].current_cores), Q2 \in Quorums(node[n].current_cores) :
            Q1 \cap Q2 # {}

-----------------------------------------------------------------------------
(* Liveness.  A core that has no list yet checks again every second and    *)
(* repeats its report and its proposal; one that has installed a list does *)
(* not, so only what the others send is sure to arrive.  Cores that are    *)
(* behind catch up with the chain.                                         *)
Checking(n) == node[n].core_list_generation < node[n].now

Fairness ==
    \A n, m \in Running :
        /\ WF_vars(CheckOnlineNodes(n, Core))
        /\ WF_vars(ApplyBlock(n))
        /\ \A cores \in OnlineViews[m] : WF_vars(Checking(m) /\ ReceiveOnline(n, m, cores))
        /\ \A list \in List : WF_vars(Checking(m) /\ ReceiveApprove(n, m, list))

FairSpec == Spec /\ Fairness

(* When all cores are online, the first generation gets a list, whatever
   partial reports and outdated proposals the cores begin with. *)
ListInstalled == <>(\E n \in Core : Installed(n))

-----------------------------------------------------------------------------
(* The inductive invariant behind the safety properties. *)

(* Reports and proposals on file were sent. *)
SentInv(s) ==
    \A m \in Core :
        /\ \A c \in s.online_sync_cores[m] : m \in Witnesses(c)
        /\ \A list \in List : m \in s.proposed_cores[list] => <<m, list>> \in proposals

Witnessed(list) == \A c \in Members(list) : WellWitnessed(c)

(* The list a core holds; the proposals that installed it in the current
   generation are still on file. *)
ListInv(s) ==
    /\ s.core_list_generation <= s.now
    /\ s.core_list_generation = 0 => s.current_cores = ConfigList
    /\ s.core_list_generation # 0 =>
        /\ s.current_cores \in List
        /\ Witnessed(s.current_cores)
        /\ s.core_list_generation = s.now => Enough(s, s.current_cores)

NodeInv(s) == SentInv(s) /\ ListInv(s)

ProposalsInv == \A p \in proposals : Witnessed(p[2])

IInv == TypeOK /\ ProposalsInv /\ \A n \in Core : NodeInv(node[n])
=============================================================================
