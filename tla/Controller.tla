----------------------------- MODULE Controller -----------------------------
(***************************************************************************)
(* The block agreement of the core nodes: ControllerImplementation of      *)
(* src/metalibs/meta_core.  The master of the current core list makes a    *)
(* block on its last applied block; every core stores at most one pending  *)
(* block per parent, signs an approval of it when the ledger accepts it,   *)
(* and applies it once enough members of its current core list approved.   *)
(*                                                                         *)
(* One pass of main_loop is one step: it runs on a strand, and the network *)
(* handlers only fill lock-free queues, which promise no order between     *)
(* producers.  The network may lose, delay, repeat and reorder: what a     *)
(* pass dequeues is any set of the blocks and approvals in circulation.    *)
(***************************************************************************)
EXTENDS ApproveQuorums

CONSTANTS
    Core,        \* addresses of the core nodes
    Block,       \* hashes of the blocks that can be made
    Genesis,     \* hash of the state block every node starts from
    Parent,      \* get_prev_hash: part of what the hash covers
    ConfigList,  \* core list of the configuration file (generation 0)
    Generation,  \* generations of core lists, positive numbers
    ListsOf,     \* core lists that a generation may install, the master first
    Disputed,    \* blocks on which the verdicts of the ledgers may differ
    MayCrash,    \* cores that may be killed at any moment
    Forgetful,   \* cores that are started again after they stopped
    LIST_SIZE    \* most items of a kind one pass dequeues

ASSUME BlockAssumption ==
    /\ Genesis \notin Block
    /\ Parent \in [Block -> Block \cup {Genesis}]
    /\ Disputed \subseteq Block

Lists == {ConfigList} \cup UNION {ListsOf[g] : g \in Generation}

ASSUME CoreAssumption ==
    /\ Generation \subseteq Nat \ {0}
    /\ DOMAIN ListsOf = Generation
    /\ Lists \subseteq Seq(Core)
    /\ MayCrash \subseteq Core
    /\ Forgetful \subseteq Core
    /\ MinApprove \in Nat
    /\ LIST_SIZE \in Nat

(* Two quorums, of the same list or of two lists that nodes may hold at    *)
(* the same time, share a core that keeps its memory.                      *)
ASSUME QuorumAssumption ==
    \A l1, l2 \in Lists :
        \A Q1 \in Quorums(l1), Q2 \in Quorums(l2) :
            \E n \in Q1 \cap Q2 : n \notin Forgetful

VARIABLE core    \* core[n]: the state of node n

vars == core

Hash == Block \cup {Genesis}

NodeState == [
    up                 : BOOLEAN,
    blocks             : SUBSET Block,            \* the Blocks store
    block_approve      : SUBSET (Core \X Block),  \* <<signer, block>>
    disapproved        : SUBSET Block,            \* own block_disapprove
    last_applied_block : Hash,
    last_created_block : Hash,
    applied            : SUBSET Block,            \* the block files on disk
    current_cores      : Seq(Core),
    core_list_generation : Generation \cup {0},
    made               : SUBSET Block,   \* distributed by this node, ever
    signed             : SUBSET Block]   \* approved under its key, ever

Distributed == UNION {core[n].made : n \in Core}
Approvals == {v \in Core \X Block : v[2] \in core[v[1]].signed}   \* <<signer, block>>

-----------------------------------------------------------------------------
(* Blocks::insert and process_queues *)

ContainsNext(stored, hash) == \E b \in stored : Parent[b] = hash

(* Mutant: insert looks up the hash only, and not the parent. *)
InsertAllSameParent(stored, B) == {stored \cup B}

(* The stores that inserting the blocks B one by one, in any order, can
   leave: of the blocks with one parent the first to come stays. *)
InsertAll(stored, B) ==
    {stored \cup W : W \in {X \in SUBSET B :
        /\ \A b \in X : b \notin stored /\ ~ContainsNext(stored, Parent[b])
        /\ \A b, c \in X : Parent[b] = Parent[c] => b = c
        /\ \A b \in B \ X : b \in stored \/ ContainsNext(stored \cup X, Parent[b])}}

ProcessQueues(s, B, V) ==
    {[s EXCEPT !.blocks = kept, !.block_approve = @ \cup V] :
        kept \in InsertAll(s.blocks, B)}

-----------------------------------------------------------------------------
(* check_awaited_blocks *)

(* The answers BC.can_apply_block or BC.apply_block may give. *)
Verdicts(b) == IF b \in Disputed THEN BOOLEAN ELSE {TRUE}

ApproveBlock(n, s, b) ==
    [s EXCEPT !.signed = @ \cup {b}, !.block_approve = @ \cup {<<n, b>>}]

DisapproveBlock(s, b) ==
    [s EXCEPT !.disapproved = @ \cup {b}, !.blocks = @ \ {b}]

Approvers(s, b) == {n \in Members(s.current_cores) : <<n, b>> \in s.block_approve}

(* Mutant: last_created_block keeps its value. *)
TryApplyBlockKeepCreated(s, b) ==
    {IF ok THEN [s EXCEPT !.last_applied_block = b, !.applied = @ \cup {b}]
           ELSE s : ok \in Verdicts(b)}

(* Mutant: last_applied_block keeps its value. *)
TryApplyBlockKeepApplied(s, b) ==
    {IF ok THEN [s EXCEPT !.last_created_block = s.last_applied_block,
                          !.applied = @ \cup {b}]
           ELSE s : ok \in Verdicts(b)}

TryApplyBlock(s, b) ==
    {IF ok THEN [s EXCEPT !.last_applied_block = b,
                          !.last_created_block = b,
                          !.applied = @ \cup {b}]
           ELSE s : ok \in Verdicts(b)}

(* Mutant: one approval less is enough. *)
CountApproveForBlockShort(s, b) ==
    IF \E n \in Core : Approvers(s, b) \cup {n} \in Quorums(s.current_cores)
    THEN TryApplyBlock(s, b) ELSE {s}

(* Mutant: > min_approve for >= min_approve. *)
CountApproveForBlockStrict(s, b) ==
    IF Cardinality(Approvers(s, b)) > MinApprove THEN TryApplyBlock(s, b) ELSE {s}

CountApproveForBlock(s, b) ==
    IF Approvers(s, b) \in Quorums(s.current_cores) THEN TryApplyBlock(s, b) ELSE {s}

CheckBlockForAppliance(n, s, b) ==
    IF <<n, b>> \notin s.block_approve /\ b \notin s.disapproved
    THEN UNION {IF ok THEN CountApproveForBlock(ApproveBlock(n, s, b), b)
                      ELSE {DisapproveBlock(s, b)} : ok \in Verdicts(b)}
    ELSE CountApproveForBlock(s, b)

(* Mutant: any stored block is looked at, not the next one only. *)
CheckAwaitedBlocksAny(n, s) ==
    LET awaited == s.blocks \ s.applied
    IN  IF awaited = {} THEN {s}
        ELSE UNION {CheckBlockForAppliance(n, s, b) : b \in awaited}

CheckAwaitedBlocks(n, s) ==
    LET awaited == {b \in s.blocks : Parent[b] = s.last_applied_block}
    IN  IF awaited = {} THEN {s}
        ELSE UNION {CheckBlockForAppliance(n, s, b) : b \in awaited}

-----------------------------------------------------------------------------
(* check_if_can_make_block and try_make_block *)

(* The exchange of proposals decides which list of a newer generation is
   installed, and when: possibly another one, or none, at another node. *)
CheckOnlineNodes(s) ==
    {s} \cup UNION {
        {[s EXCEPT !.current_cores = list, !.core_list_generation = g] :
            list \in ListsOf[g]} :
        g \in {h \in Generation : h > s.core_list_generation}}

Master(n, s) == s.current_cores # << >> /\ s.current_cores[1] = n

(* A stopped process keeps its files; what it sent stays in circulation. *)
Stop(s) ==
    [s EXCEPT !.up = FALSE, !.blocks = s.applied, !.block_approve = {},
              !.disapproved = {}, !.last_created_block = s.last_applied_block,
              !.current_cores = ConfigList, !.core_list_generation = 0]

(* The ledger may refuse the node's own block: exit(1).  When the slot of
   the parent is taken, insert deletes the block, and the virtual call
   distribute then makes on the freed block kills the process. *)
MakeBlock(n, s, b) ==
    UNION {IF ok /\ ~ContainsNext(s.blocks, Parent[b])
           THEN {ApproveBlock(n, [s EXCEPT !.last_created_block = b,
                                           !.blocks = @ \cup {b},
                                           !.made = @ \cup {b}], b)}
           ELSE {Stop(s)} : ok \in Verdicts(b)}

TryMakeBlock(n, s) ==
    {s} \cup
    IF s.core_list_generation # 0 /\ Master(n, s) /\ s.last_applied_block = s.last_created_block
    THEN UNION {MakeBlock(n, s, b) :
            b \in {c \in Block \ Distributed : Parent[c] = s.last_applied_block}}
    ELSE {}

-----------------------------------------------------------------------------
(* main_loop *)

MainLoop(n, B, V) ==
    /\ core[n].up
    /\ Cardinality(B) <= LIST_SIZE /\ Cardinality(V) <= LIST_SIZE
    /\ \E queued \in ProcessQueues(core[n], B, V) :
       \E checked \in CheckAwaitedBlocks(n, queued) :
       \E listed \in CheckOnlineNodes(checked) :
       \E done \in TryMakeBlock(n, listed) :
            core' = [core EXCEPT ![n] = done]

Crash(n) ==
    /\ n \in MayCrash
    /\ core[n].up
    /\ core' = [core EXCEPT ![n] = Stop(core[n])]

(* The blocks on disk are applied again, and each is approved anew. *)
ReadAndApplyLocalChain(n, s) ==
    [s EXCEPT !.up = TRUE, !.signed = @ \cup s.applied,
              !.block_approve = {n} \X s.applied]

Restart(n) ==
    /\ n \in Forgetful
    /\ ~core[n].up
    /\ core' = [core EXCEPT ![n] = ReadAndApplyLocalChain(n, core[n])]

InitNode == [
    up |-> TRUE, blocks |-> {}, block_approve |-> {}, disapproved |-> {},
    last_applied_block |-> Genesis, last_created_block |-> Genesis,
    applied |-> {}, current_cores |-> ConfigList, core_list_generation |-> 0,
    made |-> {}, signed |-> {}]

Init == core = [n \in Core |-> InitNode]

Next ==
    \E n \in Core :
        \/ \E B \in SUBSET (Distributed \ core[n].blocks) :
           \E V \in SUBSET (Approvals \ core[n].block_approve) : MainLoop(n, B, V)
        \/ Crash(n)
        \/ Restart(n)

Spec == Init /\ [][Next]_vars

-----------------------------------------------------------------------------
(* Every field of every node has its type. *)
TypeOK == core \in [Core -> NodeState]

(* The nodes agree on one chain: no two nodes ever apply different blocks
   with the same parent. *)
Agreement ==
    \A m, n \in Core : \A b \in core[m].applied, c \in core[n].applied :
        Parent[b] = Parent[c] => b = c

(* The nodes differ only in how far they are: of two nodes one has applied
   every block the other has, whatever the master, the crashes and the
   order in which blocks and approvals came. *)
OneChain ==
    \A m, n \in Core : \/ core[m].applied \subseteq core[n].applied
                       \/ core[n].applied \subseteq core[m].applied

(* A core that keeps its memory approves one block per parent, whatever
   competing blocks reach it and in whatever order, also when it becomes
   the master: the store keeps the first and approve_block follows it. *)
OneVotePerParent ==
    \A n \in Core \ Forgetful : \A b, c \in core[n].signed :
        Parent[b] = Parent[c] => b = c

(* No block is applied before a quorum of some list signed it: approvals
   are counted from records their signers made, in this life or before. *)
AppliedBySigners ==
    \A n \in Core : \A b \in core[n].applied :
        \E list \in Lists : \E Q \in Quorums(list) :
            \A m \in Q : b \in core[m].signed

(* A core approves a block only on top of a chain it applied itself. *)
NoVoteAhead ==
    \A n \in Core : \A b \in core[n].signed :
        Parent[b] \in core[n].applied \cup {Genesis}

(* The block a master waits for (last_created_block # last_applied_block)
   is stored, approved by itself and next to be applied: the master never
   waits for a block it cannot apply. *)
CreatedIsAwaited ==
    \A n \in Core : LET s == core[n] IN
        s.last_created_block # s.last_applied_block =>
            /\ s.last_created_block \in s.blocks \cap s.signed
            /\ Parent[s.last_created_block] = s.last_applied_block

(* What count_approve_for_block takes as enough, with whatever list. *)
AnyQuorum == UNION {Quorums(list) : list \in Lists}

(* An approval is never taken back.  Once each quorum holds, for each child
   of a block, a core with a good memory that approved another child, the
   vote is split for good: the cores never apply any child of that block. *)
SplitVote(p) ==
    \A b \in Block : Parent[b] = p =>
        \A Q \in AnyQuorum :
            \E m \in Q \ Forgetful : \E c \in core[m].signed :
                c # b /\ Parent[c] = p

SplitIsFinal ==
    [][\A p \in Hash : SplitVote(p) =>
        /\ SplitVote(p)'
        /\ \A n \in Core, b \in Block :
            Parent[b] = p /\ b \in core'[n].applied => b \in core[n].applied]_vars

(* A core that approved b as its next block while another core applied a
   different one there is left behind: b keeps the slot, the block of the
   others is dropped whenever it comes, and nothing is applied any more. *)
LeftBehind(n) ==
    \E b \in core[n].signed, m \in Core : \E c \in core[m].applied :
        /\ Parent[b] = core[n].last_applied_block
        /\ Parent[c] = core[n].last_applied_block
        /\ c # b

LeftBehindIsFinal ==
    [][\A n \in Core \ Forgetful : LeftBehind(n) =>
        LeftBehind(n)' /\ core'[n].applied = core[n].applied]_vars

(* The nodes implement one agreed chain: each moves its last applied block
   along it, one block at a time, through crashes and restarts. *)
Chain == INSTANCE AgreedChain WITH
    decided <- UNION {core[n].applied : n \in Core},
    tip <- [n \in Core |-> core[n].last_applied_block]

ImplementsAgreedChain == Chain!Spec

-----------------------------------------------------------------------------
(* Liveness.  A pass of main_loop ends with the next one scheduled.  The    *)
(* master's tip and blocks are asked for every second (check_if_chain_      *)
(* actual), and the approvals of an awaited block in every pass that finds  *)
(* too few (get_approve_for_block), so each is delivered in the end.        *)
Fairness ==
    \A n \in Core :
        /\ WF_vars(MainLoop(n, {}, {}))
        /\ \A b \in Block : WF_vars(b \in Distributed /\ MainLoop(n, {b}, {}))
        /\ \A v \in Core \X Block : WF_vars(v \in Approvals /\ MainLoop(n, {}, {v}))

FairSpec == Spec /\ Fairness

(* Under one master, every block it distributes is applied by every core
   that is not stopped. *)
BlockApplied ==
    \A b \in Block : (b \in Distributed) ~>
        (\A n \in Core : core[n].up => b \in core[n].applied)

-----------------------------------------------------------------------------
(* The inductive invariant behind the safety properties. *)

(* Blocks::previous: one pending block per parent, and the applied chain. *)
StoreInv(s) ==
    /\ s.applied \subseteq s.blocks
    /\ \A b, c \in s.blocks : Parent[b] = Parent[c] => b = c

(* The applied blocks are a chain that ends in last_applied_block. *)
ChainInv(s) ==
    /\ s.last_applied_block \in s.applied \cup {Genesis}
    /\ \A b \in s.applied : /\ Parent[b] \in s.applied \cup {Genesis}
                            /\ Parent[b] # s.last_applied_block
    /\ \A b \in s.signed : Parent[b] \in s.applied \cup {Genesis}

CreatedInv(n, s) ==
    s.last_created_block # s.last_applied_block =>
        /\ s.up
        /\ s.last_created_block \in s.blocks \cap s.signed
        /\ <<n, s.last_created_block>> \in s.block_approve
        /\ Parent[s.last_created_block] = s.last_applied_block

(* A core that kept its memory still stores and remembers what it signed. *)
MemoryInv(n, s) ==
    n \notin Forgetful =>
        /\ \A b \in s.signed, c \in s.signed \cup s.applied :
            Parent[b] = Parent[c] => b = c
        /\ s.up => \A b \in s.signed : b \in s.blocks /\ <<n, b>> \in s.block_approve

NodeInv(n, s) == StoreInv(s) /\ ChainInv(s) /\ CreatedInv(n, s) /\ MemoryInv(n, s)

RecordsInv ==
    \A n \in Core : /\ core[n].block_approve \subseteq Approvals
                    /\ core[n].current_cores \in Lists

IInv ==
    /\ TypeOK
    /\ \A n \in Core : NodeInv(n, core[n])
    /\ RecordsInv
    /\ AppliedBySigners
=============================================================================
