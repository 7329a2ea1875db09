-------------------------- MODULE ControllerProofs --------------------------
(***************************************************************************)
(* Proofs about Controller for every set of cores, blocks and core lists   *)
(* that satisfies its assumptions.                                         *)
(*                                                                         *)
(* A pass of main_loop runs four phases on the state of one node.  Each    *)
(* phase gets a lemma: it preserves PassInv, the part of the inductive     *)
(* invariant that speaks of the node in the middle of a pass.  PassInv of  *)
(* the state in which the pass ends gives the invariant of the next state. *)
(***************************************************************************)
EXTENDS Controller, TLAPS

(* b is signed by m, where n, the node in a pass, is in state s. *)
SignedBy(m, b, n, s) == IF m = n THEN b \in s.signed ELSE b \in core[m].signed

QuorumSigned(b, n, s) ==
    \E list \in Lists : \E Q \in Quorums(list) : \A m \in Q : SignedBy(m, b, n, s)

PassInv(n, s) ==
    /\ s \in NodeState
    /\ NodeInv(n, s)
    /\ s.current_cores \in Lists
    /\ core[n].signed \subseteq s.signed
    /\ \A m \in Core, b \in Block : <<m, b>> \in s.block_approve => SignedBy(m, b, n, s)
    /\ \A b \in s.applied : QuorumSigned(b, n, s)

SameChain(s, t) ==
    t.applied = s.applied /\ t.last_applied_block = s.last_applied_block

NextOnChain(s, t) ==
    /\ t.last_applied_block \in Block
    /\ Parent[t.last_applied_block] = s.last_applied_block
    /\ t.applied = s.applied \cup {t.last_applied_block}

-----------------------------------------------------------------------------
(* Before a pass, and after it. *)

(* A node that has not started its pass satisfies PassInv. *)
LEMMA PassStart ==
    ASSUME IInv, NEW n \in Core
    PROVE  PassInv(n, core[n])
<1>1. core[n] \in NodeState
  BY DEF IInv, TypeOK
<1>2. \A m \in Core, b \in Block :
        <<m, b>> \in core[n].block_approve => SignedBy(m, b, n, core[n])
  BY DEF IInv, RecordsInv, Approvals, SignedBy
<1>3. \A b \in core[n].applied : QuorumSigned(b, n, core[n])
  BY DEF IInv, AppliedBySigners, QuorumSigned, SignedBy
<1>4. QED
  BY <1>1, <1>2, <1>3 DEF PassInv, IInv, RecordsInv

(* The state in which node n ends a step re-establishes the invariant. *)
LEMMA PassEnd ==
    ASSUME IInv, NEW n \in Core, NEW s, PassInv(n, s),
           core' = [core EXCEPT ![n] = s]
    PROVE  IInv'
<1>1. TypeOK'
  BY DEF IInv, TypeOK, PassInv
<1>2. /\ core'[n] = s
      /\ \A m \in Core \ {n} : core'[m] = core[m]
  BY DEF IInv, TypeOK
<1>3. \A m \in Core : NodeInv(m, core'[m])
  BY <1>2 DEF IInv, PassInv
<1>4. \A m \in Core, b \in Block : SignedBy(m, b, n, s) <=> b \in core'[m].signed
  BY <1>2 DEF SignedBy
<1>5. \A m \in Core : core[m].signed \subseteq core'[m].signed
  BY <1>2 DEF PassInv
<1>6. RecordsInv'
  <2>1. ASSUME NEW m \in Core
        PROVE  core'[m].block_approve \subseteq Approvals'
    <3>1. CASE m = n
      <4>1. core'[m].block_approve \in SUBSET (Core \X Block)
        BY <1>1 DEF TypeOK, NodeState
      <4>2. \A k \in Core, b \in Block :
              <<k, b>> \in core'[m].block_approve => b \in core'[k].signed
        BY <1>2, <1>4, <3>1 DEF PassInv
      <4>3. QED
        BY <4>1, <4>2 DEF Approvals
    <3>2. CASE m # n
      BY <1>2, <1>5, <3>2 DEF IInv, RecordsInv, Approvals
    <3>3. QED
      BY <3>1, <3>2
  <2>2. \A m \in Core : core'[m].current_cores \in Lists
    BY <1>2 DEF IInv, RecordsInv, PassInv
  <2>3. QED
    BY <2>1, <2>2 DEF RecordsInv
<1>7. AppliedBySigners'
  <2>1. SUFFICES ASSUME NEW m \in Core, NEW b \in core'[m].applied
                 PROVE  \E list \in Lists : \E Q \in Quorums(list) :
                            \A k \in Q : b \in core'[k].signed
    BY DEF AppliedBySigners
  <2>2. b \in Block
    BY <1>1 DEF TypeOK, NodeState
  <2>3. \A list \in Lists : \A Q \in Quorums(list) : Q \subseteq Core
    BY CoreAssumption DEF Quorums, Members
  <2>4. CASE m = n
    <3>1. QuorumSigned(b, n, s)
      BY <1>2, <2>4 DEF PassInv
    <3>2. QED
      BY <1>4, <2>2, <2>3, <3>1 DEF QuorumSigned
  <2>5. CASE m # n
    BY <1>2, <1>5, <2>3, <2>5 DEF IInv, AppliedBySigners
  <2>6. QED
    BY <2>4, <2>5
<1>8. QED
  BY <1>1, <1>3, <1>6, <1>7 DEF IInv

-----------------------------------------------------------------------------
(* The phases of a pass. *)

(* Inserting blocks drops none of the stored ones and keeps the slots
   exclusive: still no two stored blocks have one parent. *)
LEMMA InsertAllSlots ==
    ASSUME NEW stored \in SUBSET Block, NEW B \in SUBSET Block,
           NEW kept \in InsertAll(stored, B),
           \A b, c \in stored : Parent[b] = Parent[c] => b = c
    PROVE  /\ kept \in SUBSET Block
           /\ stored \subseteq kept
           /\ \A b, c \in kept : Parent[b] = Parent[c] => b = c
BY DEF InsertAll, ContainsNext

(* process_queues keeps the invariant and leaves the chain alone. *)
LEMMA ProcessQueuesStep ==
    ASSUME NEW n \in Core, NEW s, PassInv(n, s),
           NEW B \in SUBSET Block, NEW V \in SUBSET Approvals,
           NEW t \in ProcessQueues(s, B, V)
    PROVE  PassInv(n, t) /\ t.up = s.up /\ SameChain(s, t)
<1>1. PICK kept \in InsertAll(s.blocks, B) :
        t = [s EXCEPT !.blocks = kept, !.block_approve = @ \cup V]
  BY DEF ProcessQueues
<1>2. s \in NodeState
  BY DEF PassInv
<1>3. /\ kept \in SUBSET Block
      /\ s.blocks \subseteq kept
      /\ \A b, c \in kept : Parent[b] = Parent[c] => b = c
  BY <1>2, InsertAllSlots DEF PassInv, NodeInv, StoreInv, NodeState
<1>4. V \in SUBSET (Core \X Block)
  BY DEF Approvals
<1>5. t \in NodeState
  BY <1>1, <1>2, <1>3, <1>4 DEF NodeState
<1>6. /\ t.blocks = kept
      /\ t.block_approve = s.block_approve \cup V
      /\ t.up = s.up
      /\ t.applied = s.applied
      /\ t.signed = s.signed
      /\ t.last_applied_block = s.last_applied_block
      /\ t.last_created_block = s.last_created_block
      /\ t.current_cores = s.current_cores
  BY <1>1, <1>2 DEF NodeState
<1>7. NodeInv(n, t)
  BY <1>3, <1>6 DEF PassInv, NodeInv, StoreInv, ChainInv, CreatedInv, MemoryInv
<1>8. \A m \in Core, b \in Block : <<m, b>> \in t.block_approve => SignedBy(m, b, n, t)
  BY <1>6 DEF PassInv, SignedBy, Approvals
<1>9. \A b \in t.applied : QuorumSigned(b, n, t)
  BY <1>6 DEF PassInv, QuorumSigned, SignedBy
<1>10. QED
  BY <1>5, <1>6, <1>7, <1>8, <1>9 DEF PassInv, SameChain

(* Applying an awaited block that a quorum signed keeps the invariant and
   moves the chain on by that block. *)
LEMMA TryApplyBlockStep ==
    ASSUME NEW n \in Core, NEW s, PassInv(n, s), s.up,
           NEW b \in s.blocks, Parent[b] = s.last_applied_block,
           QuorumSigned(b, n, s),
           NEW t \in TryApplyBlock(s, b)
    PROVE  PassInv(n, t) /\ t.up = s.up /\ (SameChain(s, t) \/ NextOnChain(s, t))
<1>1. CASE t = s
  BY <1>1 DEF SameChain
<1>2. CASE t = [s EXCEPT !.last_applied_block = b,
                         !.last_created_block = b,
                         !.applied = @ \cup {b}]
  <2>1. s \in NodeState /\ b \in Block
    BY DEF PassInv, NodeState
  <2>2. t \in NodeState
    BY <1>2, <2>1 DEF NodeState, Hash
  <2>3. /\ t.blocks = s.blocks
        /\ t.block_approve = s.block_approve
        /\ t.up = s.up
        /\ t.applied = s.applied \cup {b}
        /\ t.signed = s.signed
        /\ t.last_applied_block = b
        /\ t.last_created_block = b
        /\ t.current_cores = s.current_cores
    BY <1>2, <2>1 DEF NodeState
  <2>4. \A c \in t.applied : Parent[c] \in t.applied \cup {Genesis} /\ Parent[c] # b
    BY <2>1, <2>3, BlockAssumption DEF PassInv, NodeInv, ChainInv
  <2>5. NodeInv(n, t)
    <3>1. StoreInv(s) /\ ChainInv(s) /\ MemoryInv(n, s)
      BY DEF PassInv, NodeInv
    <3>2. StoreInv(t)
      BY <2>3, <3>1 DEF StoreInv
    <3>3. ChainInv(t)
      <4>1. t.last_applied_block \in t.applied \cup {Genesis}
        BY <2>3
      <4>2. \A c \in t.signed : Parent[c] \in t.applied \cup {Genesis}
        BY <2>3, <3>1 DEF ChainInv
      <4>3. QED
        BY <2>3, <2>4, <4>1, <4>2 DEF ChainInv
    <3>4. CreatedInv(n, t)
      BY <2>3 DEF CreatedInv
    <3>5. MemoryInv(n, t)
      BY <2>3, <3>1 DEF StoreInv, MemoryInv
    <3>6. QED
      BY <3>2, <3>3, <3>4, <3>5 DEF NodeInv
  <2>6. \A c \in t.applied : QuorumSigned(c, n, t)
    BY <2>3 DEF PassInv, QuorumSigned, SignedBy
  <2>7. \A m \in Core, c \in Block :
          <<m, c>> \in t.block_approve => SignedBy(m, c, n, t)
    BY <2>3 DEF PassInv, SignedBy
  <2>8. QED
    BY <2>1, <2>2, <2>3, <2>5, <2>6, <2>7 DEF PassInv, NextOnChain
<1>3. QED
  BY <1>1, <1>2 DEF TryApplyBlock

(* Counting: the approvers found in block_approve did sign the block. *)
LEMMA CountApproveStep ==
    ASSUME NEW n \in Core, NEW s, PassInv(n, s), s.up,
           NEW b \in s.blocks, Parent[b] = s.last_applied_block,
           NEW t \in CountApproveForBlock(s, b)
    PROVE  PassInv(n, t) /\ t.up = s.up /\ (SameChain(s, t) \/ NextOnChain(s, t))
<1>1. CASE Approvers(s, b) \in Quorums(s.current_cores)
  <2>1. s.current_cores \in Lists /\ b \in Block
    BY DEF PassInv, NodeState
  <2>2. \A m \in Approvers(s, b) : m \in Core /\ SignedBy(m, b, n, s)
    BY <2>1, CoreAssumption DEF PassInv, Approvers, Members
  <2>3. QuorumSigned(b, n, s)
    BY <1>1, <2>1, <2>2 DEF QuorumSigned
  <2>4. t \in TryApplyBlock(s, b)
    BY <1>1 DEF CountApproveForBlock
  <2>5. QED
    BY <2>3, <2>4, TryApplyBlockStep
<1>2. CASE Approvers(s, b) \notin Quorums(s.current_cores)
  BY <1>2 DEF CountApproveForBlock, SameChain
<1>3. QED
  BY <1>1, <1>2

(* A core that is up may sign a stored block next to its chain: the slot
   keeps it from having signed another child of the same parent. *)
LEMMA ApproveBlockStep ==
    ASSUME NEW n \in Core, NEW s, PassInv(n, s), s.up,
           NEW b \in s.blocks, Parent[b] = s.last_applied_block
    PROVE  LET t == ApproveBlock(n, s, b)
           IN  PassInv(n, t) /\ t.up /\ t.blocks = s.blocks /\ SameChain(s, t)
<1> DEFINE t == ApproveBlock(n, s, b)
<1>1. s \in NodeState /\ b \in Block
  BY DEF PassInv, NodeState
<1>2. t \in NodeState
  <2>1. s.block_approve \cup {<<n, b>>} \in SUBSET (Core \X Block)
    BY <1>1 DEF NodeState
  <2>2. QED
    BY <1>1, <2>1 DEF ApproveBlock, NodeState
<1>3. /\ t.blocks = s.blocks
      /\ t.block_approve = s.block_approve \cup {<<n, b>>}
      /\ t.up
      /\ t.applied = s.applied
      /\ t.signed = s.signed \cup {b}
      /\ t.last_applied_block = s.last_applied_block
      /\ t.last_created_block = s.last_created_block
      /\ t.current_cores = s.current_cores
  BY <1>1 DEF ApproveBlock, NodeState
<1> HIDE DEF t
<1>4. MemoryInv(n, t)
  <2>1. StoreInv(s) /\ MemoryInv(n, s)
    BY DEF PassInv, NodeInv
  <2>2. CASE n \notin Forgetful
    <3>1. \A c \in t.signed : c \in t.blocks /\ <<n, c>> \in t.block_approve
      BY <1>3, <2>1, <2>2 DEF MemoryInv
    <3>2. t.applied \subseteq t.blocks
      BY <1>3, <2>1 DEF StoreInv
    <3>3. \A c, d \in t.blocks : Parent[c] = Parent[d] => c = d
      BY <1>3, <2>1 DEF StoreInv
    <3>4. QED
      BY <3>1, <3>2, <3>3 DEF MemoryInv
  <2>3. QED
    BY <2>2 DEF MemoryInv
<1>5. NodeInv(n, t)
  <2>1. StoreInv(s) /\ ChainInv(s) /\ CreatedInv(n, s)
    BY DEF PassInv, NodeInv
  <2>2. StoreInv(t)
    BY <1>3, <2>1 DEF StoreInv
  <2>3. ChainInv(t)
    BY <1>3, <2>1 DEF ChainInv
  <2>4. CreatedInv(n, t)
    BY <1>3, <2>1 DEF CreatedInv
  <2>5. QED
    BY <1>4, <2>2, <2>3, <2>4 DEF NodeInv
<1>6. \A m \in Core, c \in Block : <<m, c>> \in t.block_approve => SignedBy(m, c, n, t)
  BY <1>3 DEF PassInv, SignedBy
<1>7. \A c \in t.applied : QuorumSigned(c, n, t)
  BY <1>3 DEF PassInv, QuorumSigned, SignedBy
<1>8. QED
  BY <1>2, <1>3, <1>5, <1>6, <1>7 DEF PassInv, SameChain, t

(* A block is refused and erased only if it is neither applied, nor signed
   in this life, nor the one the master waits for. *)
LEMMA DisapproveBlockStep ==
    ASSUME NEW n \in Core, NEW s, PassInv(n, s), s.up,
           NEW b \in s.blocks, Parent[b] = s.last_applied_block,
           <<n, b>> \notin s.block_approve
    PROVE  LET t == DisapproveBlock(s, b)
           IN  PassInv(n, t) /\ t.up /\ SameChain(s, t)
<1> DEFINE t == DisapproveBlock(s, b)
<1>1. s \in NodeState /\ b \in Block
  BY DEF PassInv, NodeState
<1>2. t \in NodeState
  BY <1>1 DEF DisapproveBlock, NodeState
<1>3. /\ t.blocks = s.blocks \ {b}
      /\ t.block_approve = s.block_approve
      /\ t.up = s.up
      /\ t.applied = s.applied
      /\ t.signed = s.signed
      /\ t.last_applied_block = s.last_applied_block
      /\ t.last_created_block = s.last_created_block
      /\ t.current_cores = s.current_cores
  BY <1>1 DEF DisapproveBlock, NodeState
<1>4. b \notin s.applied
  BY DEF PassInv, NodeInv, ChainInv
<1>5. NodeInv(n, t)
  BY <1>3, <1>4 DEF PassInv, NodeInv, StoreInv, ChainInv, CreatedInv, MemoryInv
<1>6. \A m \in Core, c \in Block : <<m, c>> \in t.block_approve => SignedBy(m, c, n, t)
  BY <1>3 DEF PassInv, SignedBy
<1>7. \A c \in t.applied : QuorumSigned(c, n, t)
  BY <1>3 DEF PassInv, QuorumSigned, SignedBy
<1>8. QED
  BY <1>2, <1>3, <1>5, <1>6, <1>7 DEF PassInv, SameChain

(* check_awaited_blocks: at most one block is added to the chain. *)
LEMMA CheckAwaitedStep ==
    ASSUME NEW n \in Core, NEW s, PassInv(n, s), s.up,
           NEW t \in CheckAwaitedBlocks(n, s)
    PROVE  PassInv(n, t) /\ t.up /\ (SameChain(s, t) \/ NextOnChain(s, t))
<1>1. CASE t = s
  BY <1>1 DEF SameChain
<1>2. ASSUME NEW b \in s.blocks, Parent[b] = s.last_applied_block,
             t \in CheckBlockForAppliance(n, s, b)
      PROVE  PassInv(n, t) /\ t.up /\ (SameChain(s, t) \/ NextOnChain(s, t))
  <2>1. CASE t \in CountApproveForBlock(s, b)
    BY <1>2, <2>1, CountApproveStep
  <2>2. CASE t \in CountApproveForBlock(ApproveBlock(n, s, b), b)
    <3> DEFINE r == ApproveBlock(n, s, b)
    <3>1. PassInv(n, r) /\ r.up /\ r.blocks = s.blocks /\ SameChain(s, r)
      BY <1>2, ApproveBlockStep
    <3>2. PassInv(n, t) /\ t.up = r.up /\ (SameChain(r, t) \/ NextOnChain(r, t))
      <4> HIDE DEF r
      <4>1. b \in r.blocks /\ Parent[b] = r.last_applied_block
        BY <1>2, <3>1 DEF SameChain
      <4>2. t \in CountApproveForBlock(r, b)
        BY <2>2 DEF r
      <4>3. QED
        BY <3>1, <4>1, <4>2, CountApproveStep
    <3>3. QED
      BY <3>1, <3>2 DEF SameChain, NextOnChain
  <2>3. CASE t = DisapproveBlock(s, b) /\ <<n, b>> \notin s.block_approve
    BY <1>2, <2>3, DisapproveBlockStep
  <2>4. QED
    BY <1>2, <2>1, <2>2, <2>3 DEF CheckBlockForAppliance
<1>3. QED
  BY <1>1, <1>2 DEF CheckAwaitedBlocks

(* check_online_nodes changes the list, and nothing the invariant says. *)
LEMMA CheckOnlineNodesStep ==
    ASSUME NEW n \in Core, NEW s, PassInv(n, s), NEW t \in CheckOnlineNodes(s)
    PROVE  PassInv(n, t) /\ t.up = s.up /\ SameChain(s, t)
<1>1. CASE t = s
  BY <1>1 DEF SameChain
<1>2. ASSUME NEW g \in Generation, NEW list \in ListsOf[g],
             t = [s EXCEPT !.current_cores = list, !.core_list_generation = g]
      PROVE  PassInv(n, t) /\ t.up = s.up /\ SameChain(s, t)
  <2>1. s \in NodeState /\ list \in Lists /\ list \in Seq(Core)
    BY CoreAssumption DEF PassInv, Lists
  <2>2. t \in NodeState
    BY <1>2, <2>1 DEF NodeState
  <2>3. /\ t.blocks = s.blocks
        /\ t.block_approve = s.block_approve
        /\ t.up = s.up
        /\ t.applied = s.applied
        /\ t.signed = s.signed
        /\ t.last_applied_block = s.last_applied_block
        /\ t.last_created_block = s.last_created_block
        /\ t.current_cores = list
    BY <1>2, <2>1 DEF NodeState
  <2>4. NodeInv(n, t)
    BY <2>3 DEF PassInv, NodeInv, StoreInv, ChainInv, CreatedInv, MemoryInv
  <2>5. \A m \in Core, c \in Block :
          <<m, c>> \in t.block_approve => SignedBy(m, c, n, t)
    BY <2>3 DEF PassInv, SignedBy
  <2>6. \A c \in t.applied : QuorumSigned(c, n, t)
    BY <2>3 DEF PassInv, QuorumSigned, SignedBy
  <2>7. QED
    BY <2>1, <2>2, <2>3, <2>4, <2>5, <2>6 DEF PassInv, SameChain
<1>3. QED
  BY <1>1, <1>2 DEF CheckOnlineNodes

-----------------------------------------------------------------------------
(* Making a block, stopping and restarting. *)

(* A stopped node keeps its chain and what it signed. *)
LEMMA StopStep ==
    ASSUME NEW n \in Core, NEW s, PassInv(n, s)
    PROVE  PassInv(n, Stop(s)) /\ SameChain(s, Stop(s))
<1> DEFINE t == Stop(s)
<1>1. s \in NodeState
  BY DEF PassInv
<1>2. ConfigList \in Lists /\ ConfigList \in Seq(Core)
  BY CoreAssumption DEF Lists
<1>3. t \in NodeState
  BY <1>1, <1>2 DEF Stop, NodeState
<1>4. /\ t.blocks = s.applied
      /\ t.block_approve = {}
      /\ t.up = FALSE
      /\ t.applied = s.applied
      /\ t.signed = s.signed
      /\ t.last_applied_block = s.last_applied_block
      /\ t.last_created_block = s.last_applied_block
      /\ t.current_cores = ConfigList
  BY <1>1 DEF Stop, NodeState
<1>5. NodeInv(n, t)
  BY <1>4 DEF PassInv, NodeInv, StoreInv, ChainInv, CreatedInv, MemoryInv
<1>6. \A c \in t.applied : QuorumSigned(c, n, t)
  BY <1>4 DEF PassInv, QuorumSigned, SignedBy
<1>7. QED
  BY <1>2, <1>3, <1>4, <1>5, <1>6 DEF PassInv, SameChain

(* A master that waits for no block makes one only into a free slot, so it
   never signs a second child of its last applied block. *)
LEMMA MakeBlockStep ==
    ASSUME NEW n \in Core, NEW s, PassInv(n, s), s.up,
           NEW b \in Block, Parent[b] = s.last_applied_block,
           NEW t \in MakeBlock(n, s, b)
    PROVE  PassInv(n, t) /\ SameChain(s, t)
<1>1. CASE t = Stop(s)
  BY <1>1, StopStep
<1>2. CASE /\ ~ContainsNext(s.blocks, Parent[b])
           /\ t = ApproveBlock(n, [s EXCEPT !.last_created_block = b,
                                            !.blocks = @ \cup {b},
                                            !.made = @ \cup {b}], b)
  <2>1. s \in NodeState
    BY DEF PassInv
  <2>2. t \in NodeState
    <3>1. s.block_approve \cup {<<n, b>>} \in SUBSET (Core \X Block)
      BY <2>1 DEF NodeState
    <3>2. QED
      BY <1>2, <2>1, <3>1 DEF ApproveBlock, NodeState, Hash
  <2>3. /\ t.blocks = s.blocks \cup {b}
        /\ t.block_approve = s.block_approve \cup {<<n, b>>}
        /\ t.up = s.up
        /\ t.applied = s.applied
        /\ t.signed = s.signed \cup {b}
        /\ t.last_applied_block = s.last_applied_block
        /\ t.last_created_block = b
        /\ t.current_cores = s.current_cores
    BY <1>2, <2>1 DEF ApproveBlock, NodeState
  <2>4. \A c \in s.blocks : Parent[c] # Parent[b]
    BY <1>2 DEF ContainsNext
  <2>5. StoreInv(t) /\ ChainInv(t) /\ CreatedInv(n, t)
    BY <2>3, <2>4 DEF PassInv, NodeInv, StoreInv, ChainInv, CreatedInv
  <2>6. MemoryInv(n, t)
    BY <2>3, <2>4 DEF PassInv, NodeInv, StoreInv, MemoryInv
  <2>7. \A m \in Core, c \in Block :
          <<m, c>> \in t.block_approve => SignedBy(m, c, n, t)
    BY <2>3 DEF PassInv, SignedBy
  <2>8. \A c \in t.applied : QuorumSigned(c, n, t)
    BY <2>3 DEF PassInv, QuorumSigned, SignedBy
  <2>9. QED
    BY <2>2, <2>3, <2>5, <2>6, <2>7, <2>8 DEF PassInv, NodeInv, SameChain
<1>3. QED
  BY <1>1, <1>2 DEF MakeBlock

(* try_make_block. *)
LEMMA TryMakeBlockStep ==
    ASSUME NEW n \in Core, NEW s, PassInv(n, s), s.up, NEW t \in TryMakeBlock(n, s)
    PROVE  PassInv(n, t) /\ SameChain(s, t)
<1>1. CASE t = s
  BY <1>1 DEF SameChain
<1>2. ASSUME NEW b \in Block, Parent[b] = s.last_applied_block, t \in MakeBlock(n, s, b)
      PROVE  PassInv(n, t) /\ SameChain(s, t)
  BY <1>2, MakeBlockStep
<1>3. QED
  BY <1>1, <1>2 DEF TryMakeBlock

(* A whole pass of main_loop. *)
LEMMA MainLoopStep ==
    ASSUME IInv, NEW n \in Core,
           NEW B \in SUBSET Block, NEW V \in SUBSET Approvals, MainLoop(n, B, V)
    PROVE  \E t : /\ core' = [core EXCEPT ![n] = t]
                  /\ PassInv(n, t)
                  /\ SameChain(core[n], t) \/ NextOnChain(core[n], t)
<1>1. PICK queued \in ProcessQueues(core[n], B, V) :
      \E checked \in CheckAwaitedBlocks(n, queued) :
      \E listed \in CheckOnlineNodes(checked) :
      \E done \in TryMakeBlock(n, listed) : core' = [core EXCEPT ![n] = done]
  BY DEF MainLoop
<1>2. PICK checked \in CheckAwaitedBlocks(n, queued) :
      \E listed \in CheckOnlineNodes(checked) :
      \E done \in TryMakeBlock(n, listed) : core' = [core EXCEPT ![n] = done]
  BY <1>1
<1>3. PICK listed \in CheckOnlineNodes(checked) :
      \E done \in TryMakeBlock(n, listed) : core' = [core EXCEPT ![n] = done]
  BY <1>2
<1>4. PICK done \in TryMakeBlock(n, listed) : core' = [core EXCEPT ![n] = done]
  BY <1>3
<1>5. PassInv(n, core[n]) /\ core[n].up
  BY PassStart DEF MainLoop
<1>6. PassInv(n, queued) /\ queued.up /\ SameChain(core[n], queued)
  BY <1>5, ProcessQueuesStep
<1>7. PassInv(n, checked) /\ checked.up
      /\ (SameChain(queued, checked) \/ NextOnChain(queued, checked))
  BY <1>6, CheckAwaitedStep
<1>8. PassInv(n, listed) /\ listed.up /\ SameChain(checked, listed)
  BY <1>7, CheckOnlineNodesStep
<1>9. PassInv(n, done) /\ SameChain(listed, done)
  BY <1>8, TryMakeBlockStep
<1>10. SameChain(core[n], done) \/ NextOnChain(core[n], done)
  BY <1>6, <1>7, <1>8, <1>9 DEF SameChain, NextOnChain
<1>11. QED
  BY <1>4, <1>9, <1>10

(* Reading the local chain again: every block on disk is approved anew. *)
LEMMA RestartStep ==
    ASSUME IInv, NEW n \in Core, Restart(n)
    PROVE  \E t : /\ core' = [core EXCEPT ![n] = t]
                  /\ PassInv(n, t)
                  /\ SameChain(core[n], t)
<1> DEFINE s == core[n]
           t == ReadAndApplyLocalChain(n, s)
<1>1. PassInv(n, s) /\ s \in NodeState /\ ~s.up /\ n \in Forgetful
  BY PassStart DEF PassInv, Restart
<1>2. {n} \X s.applied \in SUBSET (Core \X Block)
  BY <1>1 DEF NodeState
<1>3. t \in NodeState
  BY <1>1, <1>2 DEF NodeState, ReadAndApplyLocalChain
<1>4. /\ t.blocks = s.blocks
      /\ t.block_approve = {n} \X s.applied
      /\ t.applied = s.applied
      /\ t.signed = s.signed \cup s.applied
      /\ t.last_applied_block = s.last_applied_block
      /\ t.last_created_block = s.last_created_block
      /\ t.current_cores = s.current_cores
  BY <1>1 DEF NodeState, ReadAndApplyLocalChain
<1>5. NodeInv(n, t)
  <2> HIDE DEF s, t
  <2>1. s.last_created_block = s.last_applied_block
    BY <1>1 DEF PassInv, NodeInv, CreatedInv
  <2>2. QED
    BY <1>1, <1>4, <2>1 DEF PassInv, NodeInv, StoreInv, ChainInv, CreatedInv, MemoryInv
<1>6. \A m \in Core, c \in Block : <<m, c>> \in t.block_approve => SignedBy(m, c, n, t)
  BY <1>4 DEF SignedBy
<1>7. \A c \in t.applied : QuorumSigned(c, n, t)
  BY <1>1, <1>4 DEF PassInv, QuorumSigned, SignedBy
<1>8. PassInv(n, t) /\ SameChain(s, t)
  BY <1>1, <1>3, <1>4, <1>5, <1>6, <1>7 DEF PassInv, SameChain
<1>9. core' = [core EXCEPT ![n] = t]
  BY DEF Restart
<1>10. QED
  BY <1>8, <1>9

-----------------------------------------------------------------------------
(* The inductive invariant. *)

LEMMA InitInv == Init => IInv
<1> SUFFICES ASSUME Init PROVE IInv
  OBVIOUS
<1>1. ConfigList \in Lists /\ ConfigList \in Seq(Core)
  BY CoreAssumption DEF Lists
<1>2. \A n \in Core : core[n] = InitNode
  BY DEF Init
<1>3. TypeOK
  BY <1>1 DEF TypeOK, Init, InitNode, NodeState, Hash
<1>4. \A n \in Core : NodeInv(n, core[n])
  BY <1>2 DEF InitNode, NodeInv, StoreInv, ChainInv, CreatedInv, MemoryInv
<1>5. RecordsInv
  BY <1>1, <1>2 DEF InitNode, RecordsInv
<1>6. AppliedBySigners
  BY <1>2 DEF InitNode, AppliedBySigners
<1>7. QED
  BY <1>3, <1>4, <1>5, <1>6 DEF IInv

(* Every step is the step of one node, which keeps its part of the
   invariant and adds at most one block to its chain. *)
LEMMA NodeStep ==
    ASSUME IInv, Next
    PROVE  \E n \in Core : \E t :
            /\ core' = [core EXCEPT ![n] = t]
            /\ PassInv(n, t)
            /\ SameChain(core[n], t) \/ NextOnChain(core[n], t)
<1>1. Distributed \subseteq Block
  BY DEF IInv, TypeOK, NodeState, Distributed
<1>2. ASSUME NEW n \in Core,
             NEW B \in SUBSET (Distributed \ core[n].blocks),
             NEW V \in SUBSET (Approvals \ core[n].block_approve), MainLoop(n, B, V)
      PROVE  \E t : /\ core' = [core EXCEPT ![n] = t]
                    /\ PassInv(n, t)
                    /\ SameChain(core[n], t) \/ NextOnChain(core[n], t)
  BY <1>1, <1>2, MainLoopStep
<1>3. ASSUME NEW n \in Core, Crash(n)
      PROVE  \E t : /\ core' = [core EXCEPT ![n] = t]
                    /\ PassInv(n, t)
                    /\ SameChain(core[n], t)
  <2>1. PassInv(n, core[n])
    BY PassStart
  <2>2. PassInv(n, Stop(core[n])) /\ SameChain(core[n], Stop(core[n]))
    BY <2>1, StopStep
  <2>3. QED
    BY <1>3, <2>2 DEF Crash
<1>4. ASSUME NEW n \in Core, Restart(n)
      PROVE  \E t : /\ core' = [core EXCEPT ![n] = t]
                    /\ PassInv(n, t)
                    /\ SameChain(core[n], t)
  BY <1>4, RestartStep
<1>5. QED
  BY <1>2, <1>3, <1>4 DEF Next

LEMMA NextInv == IInv /\ [Next]_vars => IInv'
<1> SUFFICES ASSUME IInv, [Next]_vars PROVE IInv'
  OBVIOUS
<1>1. CASE Next
  BY <1>1, NodeStep, PassEnd
<1>2. CASE UNCHANGED vars
  BY <1>2 DEF vars, IInv, TypeOK, RecordsInv, Approvals, AppliedBySigners
<1>3. QED
  BY <1>1, <1>2

(* IInv holds in every reachable state. *)
THEOREM Invariance == Spec => []IInv
BY InitInv, NextInv, PTL DEF Spec

(* Every field of every node keeps its type. *)
THEOREM TypeCorrect == Spec => []TypeOK
<1>1. IInv => TypeOK
  BY DEF IInv
<1>2. QED
  BY <1>1, Invariance, PTL

(* A core that is never restarted signs one block per parent. *)
THEOREM VotesOnce == Spec => []OneVotePerParent
<1>1. IInv => OneVotePerParent
  BY DEF IInv, NodeInv, MemoryInv, OneVotePerParent
<1>2. QED
  BY <1>1, Invariance, PTL

(* Two blocks with one parent, each signed by a quorum, are the same. *)
LEMMA QuorumsAgree ==
    ASSUME IInv, NEW b \in Block, NEW c \in Block, Parent[b] = Parent[c],
           NEW l1 \in Lists, NEW Q1 \in Quorums(l1), \A m \in Q1 : b \in core[m].signed,
           NEW l2 \in Lists, NEW Q2 \in Quorums(l2), \A m \in Q2 : c \in core[m].signed
    PROVE  b = c
<1>1. PICK m \in Q1 \cap Q2 : m \notin Forgetful
  BY QuorumAssumption
<1>2. m \in Core
  BY <1>1, CoreAssumption DEF Quorums, Members
<1>3. QED
  BY <1>1, <1>2 DEF IInv, NodeInv, MemoryInv

LEMMA InvAgreement == IInv => Agreement
<1> SUFFICES ASSUME IInv, NEW m \in Core, NEW n \in Core,
                    NEW b \in core[m].applied, NEW c \in core[n].applied,
                    Parent[b] = Parent[c]
             PROVE  b = c
  BY DEF Agreement
<1>1. b \in Block /\ c \in Block
  BY DEF IInv, TypeOK, NodeState
<1>2. PICK l1 \in Lists : \E Q \in Quorums(l1) : \A k \in Q : b \in core[k].signed
  BY DEF IInv, AppliedBySigners
<1>3. PICK l2 \in Lists : \E Q \in Quorums(l2) : \A k \in Q : c \in core[k].signed
  BY DEF IInv, AppliedBySigners
<1>4. QED
  BY <1>1, <1>2, <1>3, QuorumsAgree

LEMMA InvAgreementNext == IInv' => Agreement'
BY InvAgreement, PTL

(* No two cores ever apply different blocks on the same parent. *)
THEOREM AgreementHolds == Spec => []Agreement
BY InvAgreement, Invariance, PTL

(* Cores vote only for blocks next to their own chain. *)
THEOREM VotesFollowChain == Spec => []NoVoteAhead
<1>1. IInv => NoVoteAhead
  BY DEF IInv, NodeInv, ChainInv, NoVoteAhead
<1>2. QED
  BY <1>1, Invariance, PTL

(* A master waits only for a block that it stored and signed, and that is
   next to be applied, also after crashes and restarts. *)
THEOREM CreatedBlocksAreAwaited == Spec => []CreatedIsAwaited
<1>1. IInv => CreatedIsAwaited
  BY DEF IInv, NodeInv, CreatedInv, CreatedIsAwaited
<1>2. QED
  BY <1>1, Invariance, PTL

(* Every applied block was signed by a quorum of some list of cores. *)
THEOREM BlocksAppliedBySigners == Spec => []AppliedBySigners
<1>1. IInv => AppliedBySigners
  BY DEF IInv
<1>2. QED
  BY <1>1, Invariance, PTL

-----------------------------------------------------------------------------
(* Action properties. *)

(* A step leaves the chain of each core or moves it on by one block, and
   takes back no approval. *)
LEMMA StepOfCores ==
    ASSUME IInv, [Next]_vars
    PROVE  \A m \in Core :
            /\ core[m].signed \subseteq core'[m].signed
            /\ core[m].applied \subseteq core'[m].applied
            /\ SameChain(core[m], core'[m]) \/ NextOnChain(core[m], core'[m])
<1>1. CASE Next
  <2> PICK n \in Core : \E t :
            /\ core' = [core EXCEPT ![n] = t]
            /\ PassInv(n, t)
            /\ SameChain(core[n], t) \/ NextOnChain(core[n], t)
    BY <1>1, NodeStep
  <2>1. PICK t :
            /\ core' = [core EXCEPT ![n] = t]
            /\ PassInv(n, t)
            /\ SameChain(core[n], t) \/ NextOnChain(core[n], t)
    OBVIOUS
  <2>2. core'[n] = t /\ \A m \in Core \ {n} : core'[m] = core[m]
    BY <2>1 DEF IInv, TypeOK
  <2>3. QED
    BY <2>1, <2>2 DEF PassInv, SameChain, NextOnChain
<1>2. CASE UNCHANGED vars
  BY <1>2 DEF vars, SameChain
<1>3. QED
  BY <1>1, <1>2

(* A vote that is split among cores with a good memory stays split, and
   none of the competing blocks is ever applied. *)
LEMMA SplitStep ==
    IInv /\ IInv' /\ [Next]_vars =>
        \A p \in Hash : SplitVote(p) =>
            /\ SplitVote(p)'
            /\ \A n \in Core, b \in Block :
                Parent[b] = p /\ b \in core'[n].applied => b \in core[n].applied
<1> SUFFICES ASSUME IInv, IInv', [Next]_vars, NEW p \in Hash, SplitVote(p)
             PROVE  /\ SplitVote(p)'
                    /\ \A n \in Core, b \in Block :
                        Parent[b] = p /\ b \in core'[n].applied => b \in core[n].applied
  OBVIOUS
<1>1. \A m \in Core : core[m].signed \subseteq core'[m].signed
  BY StepOfCores
<1>2. \A Q \in AnyQuorum : Q \subseteq Core
  BY CoreAssumption DEF AnyQuorum, Quorums, Members
<1>3. SplitVote(p)'
  BY <1>1, <1>2 DEF SplitVote
<1>4. ASSUME NEW n \in Core, NEW b \in Block, Parent[b] = p, b \in core'[n].applied
      PROVE  FALSE
  <2>1. PICK list \in Lists : \E Q \in Quorums(list) : \A m \in Q : b \in core'[m].signed
    BY <1>4 DEF IInv, AppliedBySigners
  <2>2. PICK Q \in Quorums(list) : \A m \in Q : b \in core'[m].signed
    BY <2>1
  <2> Q \in AnyQuorum
    BY <2>2 DEF AnyQuorum
  <2>3. PICK m \in Q \ Forgetful : \E c \in core'[m].signed : c # b /\ Parent[c] = p
    BY <1>3, <1>4 DEF SplitVote
  <2>4. m \in Core
    BY <1>2
  <2>5. QED
    BY <1>4, <2>2, <2>3, <2>4 DEF IInv, NodeInv, MemoryInv
<1>5. QED
  BY <1>3, <1>4

THEOREM SplitsAreFinal == Spec => SplitIsFinal
BY SplitStep, Invariance, PTL DEF Spec, SplitIsFinal

(* A core that signed a block beside an applied one stays where it is. *)
LEMMA LeftBehindStep ==
    IInv /\ IInv' /\ [Next]_vars =>
        \A n \in Core \ Forgetful : LeftBehind(n) =>
            LeftBehind(n)' /\ core'[n].applied = core[n].applied
<1> SUFFICES ASSUME IInv, IInv', [Next]_vars, NEW n \in Core \ Forgetful, LeftBehind(n)
             PROVE  LeftBehind(n)' /\ core'[n].applied = core[n].applied
  OBVIOUS
<1>1. \A m \in Core : /\ core[m].signed \subseteq core'[m].signed
                      /\ core[m].applied \subseteq core'[m].applied
                      /\ SameChain(core[m], core'[m]) \/ NextOnChain(core[m], core'[m])
  BY StepOfCores
<1>2. PICK b \in core[n].signed, m \in Core, c \in Block :
        /\ c \in core[m].applied
        /\ Parent[b] = core[n].last_applied_block
        /\ Parent[c] = core[n].last_applied_block
        /\ c # b
  BY DEF LeftBehind, IInv, TypeOK, NodeState
<1>3. ASSUME NextOnChain(core[n], core'[n])
      PROVE  FALSE
  <2> DEFINE d == core'[n].last_applied_block
  <2>1. d \in core'[n].applied /\ Parent[d] = Parent[c] /\ Parent[d] = Parent[b]
    BY <1>2, <1>3 DEF NextOnChain
  <2>2. d = b
    BY <1>1, <1>2, <2>1 DEF IInv, NodeInv, MemoryInv
  <2>3. d = c
    BY <1>1, <1>2, <2>1, InvAgreementNext DEF Agreement
  <2>4. QED
    BY <1>2, <2>2, <2>3
<1>4. SameChain(core[n], core'[n])
  BY <1>1, <1>3
<1>5. LeftBehind(n)'
  BY <1>1, <1>2, <1>4 DEF LeftBehind, SameChain
<1>6. QED
  BY <1>4, <1>5 DEF SameChain

(* A core left behind by the others applies nothing until it is restarted. *)
THEOREM LeftBehindStays == Spec => LeftBehindIsFinal
BY LeftBehindStep, Invariance, PTL DEF Spec, LeftBehindIsFinal

-----------------------------------------------------------------------------
(* One chain: the blocks of a node are a single row, which starts after the
   genesis block and ends in last_applied_block, without gap or loop. *)

(* What a set of applied blocks lets follow on the genesis block and on
   itself is all of them. *)
FromGenesis(s) ==
    \A T \in SUBSET s.applied :
        (\A b \in s.applied : Parent[b] \in T \cup {Genesis} => b \in T) => T = s.applied

(* A set with the last block and the parents of its blocks is all of them. *)
BackFromLast(s) ==
    \A T \in SUBSET s.applied :
        /\ s.last_applied_block \in T \cup {Genesis}
        /\ \A b \in T : Parent[b] \in T \cup {Genesis}
        => T = s.applied

RowInv == \A n \in Core : FromGenesis(core[n]) /\ BackFromLast(core[n])

LEMMA RowInit == Init => RowInv
BY DEF Init, InitNode, RowInv, FromGenesis, BackFromLast

(* A block applied next makes the row longer by one at its end. *)
LEMMA RowGrows ==
    ASSUME NEW s, ChainInv(s), FromGenesis(s), BackFromLast(s),
           NEW t, ChainInv(t), NextOnChain(s, t)
    PROVE  FromGenesis(t) /\ BackFromLast(t)
<1> DEFINE b == t.last_applied_block
<1>1. b \in Block /\ Parent[b] = s.last_applied_block /\ t.applied = s.applied \cup {b}
  BY DEF NextOnChain
<1>2. b \notin s.applied
  BY <1>1 DEF ChainInv
<1>3. \A c \in t.applied : Parent[c] # b
  BY DEF ChainInv
<1>4. Parent[b] \in s.applied \cup {Genesis}
  BY <1>1 DEF ChainInv
<1>5. b # Genesis
  BY <1>1, BlockAssumption
<1> HIDE DEF b
<1>6. ASSUME NEW T \in SUBSET t.applied,
             \A c \in t.applied : Parent[c] \in T \cup {Genesis} => c \in T
      PROVE  T = t.applied
  <2>1. T \ {b} = s.applied
    <3>1. \A c \in s.applied : Parent[c] \in (T \ {b}) \cup {Genesis} => c \in T \ {b}
      BY <1>1, <1>2, <1>6
    <3>2. T \ {b} \in SUBSET s.applied
      BY <1>1
    <3>3. QED
      BY <3>1, <3>2 DEF FromGenesis
  <2>2. b \in T
    BY <1>1, <1>4, <1>6, <2>1
  <2>3. QED
    BY <1>1, <2>1, <2>2
<1>7. ASSUME NEW T \in SUBSET t.applied, b \in T \cup {Genesis},
             \A c \in T : Parent[c] \in T \cup {Genesis}
      PROVE  T = t.applied
  <2>1. b \in T
    BY <1>5, <1>7
  <2>2. s.last_applied_block \in (T \ {b}) \cup {Genesis}
    BY <1>1, <1>3, <1>7, <2>1
  <2>3. \A c \in T \ {b} : Parent[c] \in (T \ {b}) \cup {Genesis}
    BY <1>3, <1>7
  <2>4. T \ {b} \in SUBSET s.applied
    BY <1>1
  <2>5. T \ {b} = s.applied
    BY <2>2, <2>3, <2>4 DEF BackFromLast
  <2>6. QED
    BY <1>1, <2>1, <2>5
<1>8. FromGenesis(t)
  BY <1>6 DEF FromGenesis
<1>9. BackFromLast(t)
  BY <1>7 DEF BackFromLast, b
<1>10. QED
  BY <1>8, <1>9

LEMMA RowStep == IInv /\ IInv' /\ RowInv /\ [Next]_vars => RowInv'
<1> SUFFICES ASSUME IInv, IInv', RowInv, [Next]_vars, NEW n \in Core
             PROVE  FromGenesis(core'[n]) /\ BackFromLast(core'[n])
  BY DEF RowInv, FromGenesis, BackFromLast
<1>1. ChainInv(core[n]) /\ ChainInv(core'[n])
  BY DEF IInv, NodeInv, ChainInv
<1>2. FromGenesis(core[n]) /\ BackFromLast(core[n])
  BY DEF RowInv
<1>3. CASE SameChain(core[n], core'[n])
  BY <1>2, <1>3 DEF SameChain, FromGenesis, BackFromLast
<1>4. CASE NextOnChain(core[n], core'[n])
  BY <1>1, <1>2, <1>4, RowGrows
<1>5. QED
  BY <1>3, <1>4, StepOfCores

THEOREM RowInvariance == Spec => []RowInv
BY RowInit, RowStep, Invariance, PTL DEF Spec

(* The first block that n has and m lacks follows on the last block of m;
   so n has the last block of m, and all before it. *)
LEMMA RowsCompare ==
    ASSUME IInv, RowInv, NEW m \in Core, NEW n \in Core,
           ~(core[n].applied \subseteq core[m].applied)
    PROVE  core[m].applied \subseteq core[n].applied
<1> DEFINE M == core[m].applied
           N == core[n].applied
           last == core[m].last_applied_block
           T == M \cap N
<1>1. \A b \in M : Parent[b] \in M \cup {Genesis}
  BY DEF IInv, NodeInv, ChainInv
<1>2. \A b \in N : Parent[b] \in N \cup {Genesis}
  BY DEF IInv, NodeInv, ChainInv
<1>3. \A b \in M, c \in N : Parent[b] = Parent[c] => b = c
  BY InvAgreement DEF Agreement
<1>4. PICK x \in N : Parent[x] \in T \cup {Genesis} /\ x \notin T
  <2>1. FromGenesis(core[n])
    BY DEF RowInv
  <2>2. T \in SUBSET N /\ T # N
    OBVIOUS
  <2>3. ~ \A b \in N : Parent[b] \in T \cup {Genesis} => b \in T
    BY <2>1, <2>2 DEF FromGenesis
  <2>4. QED
    BY <2>3
<1> DEFINE p == Parent[x]
<1>5. \A b \in M : Parent[b] # p
  BY <1>3, <1>4
<1>6. CASE p = last
  <2>1. last \in T \cup {Genesis}
    BY <1>4, <1>6
  <2>2. \A b \in T : Parent[b] \in T \cup {Genesis}
    BY <1>1, <1>2
  <2>3. T = M
    BY <2>1, <2>2 DEF RowInv, BackFromLast
  <2>4. QED
    BY <2>3
<1>7. CASE p # last /\ p = Genesis
  <2>1. \A b \in M : Parent[b] \in {} \cup {Genesis} => b \in {}
    BY <1>5, <1>7
  <2>2. M = {}
    BY <2>1 DEF RowInv, FromGenesis
  <2>3. QED
    BY <2>2
<1>8. CASE p # last /\ p # Genesis
  <2>1. p \in M
    BY <1>4, <1>8
  <2>2. last \in (M \ {p}) \cup {Genesis}
    BY <1>8 DEF IInv, NodeInv, ChainInv
  <2>3. \A b \in M \ {p} : Parent[b] \in (M \ {p}) \cup {Genesis}
    BY <1>1, <1>5
  <2>4. M \ {p} = M
    BY <2>2, <2>3 DEF RowInv, BackFromLast
  <2>5. QED
    BY <2>1, <2>4
<1>9. QED
  BY <1>6, <1>7, <1>8

(* Of two nodes one has applied all that the other has. *)
THEOREM OneChainHolds == Spec => []OneChain
<1>1. IInv /\ RowInv => OneChain
  BY RowsCompare DEF OneChain
<1>2. QED
  BY <1>1, Invariance, RowInvariance, PTL

(* What BlockFiles and ChainSync take for granted of the blocks decided by
   the cores: each has one successor at most, and its parent is decided. *)
THEOREM DecidedIsChain ==
    Spec => [](LET Decided == UNION {core[n].applied : n \in Core}
               IN  /\ Decided \subseteq Block
                   /\ \A b \in Decided : Parent[b] # Genesis => Parent[b] \in Decided
                   /\ \A b, c \in Decided : Parent[b] = Parent[c] => b = c)
<1> DEFINE Decided == UNION {core[n].applied : n \in Core}
<1>1. ASSUME IInv
      PROVE  /\ Decided \subseteq Block
             /\ \A b \in Decided : Parent[b] # Genesis => Parent[b] \in Decided
             /\ \A b, c \in Decided : Parent[b] = Parent[c] => b = c
  <2>1. Decided \subseteq Block
    BY <1>1 DEF IInv, TypeOK, NodeState
  <2>2. \A b \in Decided : Parent[b] # Genesis => Parent[b] \in Decided
    BY <1>1 DEF IInv, NodeInv, ChainInv
  <2>3. \A b, c \in Decided : Parent[b] = Parent[c] => b = c
    BY <1>1, InvAgreement DEF Agreement
  <2>4. QED
    BY <2>1, <2>2, <2>3
<1>2. QED
  BY <1>1, Invariance, PTL

(* The nodes implement AgreedChain: a step of a node is a step of the chain
   or leaves it as it is. *)
LEMMA ChainInit == Init => Chain!Init
<1> SUFFICES ASSUME Init PROVE Chain!Init
  OBVIOUS
<1>1. \A n \in Core : core[n].applied = {} /\ core[n].last_applied_block = Genesis
  BY DEF Init, InitNode
<1>2. UNION {core[n].applied : n \in Core} = {}
  BY <1>1
<1>3. [n \in Core |-> core[n].last_applied_block] = [n \in Core |-> Genesis]
  BY <1>1
<1>4. QED
  BY <1>2, <1>3 DEF Chain!Init

LEMMA ChainStep == IInv /\ IInv' /\ [Next]_vars => [Chain!Next]_Chain!vars
<1> SUFFICES ASSUME IInv, IInv', [Next]_vars PROVE [Chain!Next]_Chain!vars
  OBVIOUS
<1> DEFINE decided == UNION {core[n].applied : n \in Core}
           tip == [n \in Core |-> core[n].last_applied_block]
<1>1. CASE UNCHANGED vars
  BY <1>1 DEF vars, Chain!vars
<1>2. CASE Next
  <2> PICK n \in Core : \E t :
            /\ core' = [core EXCEPT ![n] = t]
            /\ SameChain(core[n], t) \/ NextOnChain(core[n], t)
    BY <1>2, NodeStep
  <2>1. PICK t :
            /\ core' = [core EXCEPT ![n] = t]
            /\ SameChain(core[n], t) \/ NextOnChain(core[n], t)
    OBVIOUS
  <2>2. core'[n] = t /\ \A m \in Core \ {n} : core'[m] = core[m]
    BY <2>1 DEF IInv, TypeOK
  <2>3. CASE SameChain(core[n], t)
    <3>1. \A m \in Core : SameChain(core[m], core'[m])
      BY <2>2, <2>3 DEF SameChain
    <3>2. decided' = decided /\ tip' = tip
      BY <3>1 DEF SameChain
    <3>3. QED
      BY <3>2 DEF Chain!vars
  <2>4. CASE NextOnChain(core[n], t)
    <3> DEFINE b == t.last_applied_block
    <3>1. b \in Block /\ Parent[b] = tip[n] /\ t.applied = core[n].applied \cup {b}
      BY <2>4 DEF NextOnChain
    <3>2. decided' = decided \cup {b}
      BY <2>2, <3>1
    <3>3. tip' = [tip EXCEPT ![n] = b]
      BY <2>2
    <3>4. \A c \in decided : Parent[c] = tip[n] => c = b
      <4>1. SUFFICES ASSUME NEW m \in Core, NEW c \in core[m].applied, Parent[c] = tip[n]
                     PROVE  c = b
        OBVIOUS
      <4>2. c \in core'[m].applied /\ b \in core'[n].applied
        BY <2>2, <3>1
      <4>3. Agreement'
        BY InvAgreement, PTL
      <4>4. QED
        BY <3>1, <4>1, <4>2, <4>3 DEF Agreement
    <3>5. Chain!Apply(n, b)
      BY <3>1, <3>2, <3>3, <3>4 DEF Chain!Apply
    <3>6. QED
      BY <3>1, <3>5 DEF Chain!Next
  <2>5. QED
    BY <2>1, <2>3, <2>4
<1>3. QED
  BY <1>1, <1>2

THEOREM Refinement == Spec => ImplementsAgreedChain
BY ChainInit, ChainStep, Invariance, PTL DEF Spec, ImplementsAgreedChain, Chain!Spec
=============================================================================
