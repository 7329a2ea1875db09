------------------------------ MODULE ChainSync ------------------------------
(***************************************************************************)
(* How a core that is behind catches up with the chain.  Every second it   *)
(* asks all cores for their last block (check_if_chain_actual); a core     *)
(* that names one which is not stored here is asked for the hashes since   *)
(* the last applied block; the hashes that are not stored are pulled       *)
(* (actualize_chain) from a core that listed them.  New blocks also come   *)
(* unasked, from the master.                                               *)
(*                                                                         *)
(* The cores agree on one chain (Controller), so a block is its height.    *)
(* A question for the last block, its answer and the handling of the       *)
(* answer are three steps: the answer may be stale when it is used.  The   *)
(* blocks and lists a core answers with are read when they are taken: what *)
(* it stores only grows, so an older answer is the same without the newest *)
(* blocks.  Answers come in any order.                                     *)
(***************************************************************************)
EXTENDS Integers, FiniteSets, FiniteSetsExt

CONSTANTS
    Peer,        \* the other cores
    Primary,     \* the one of them that is master
    NoPeer,      \* for a missing block that nobody is known to hold
    MAX_HEIGHT,  \* heights of the chain, from 1, the genesis block
    States,      \* heights of the state blocks
    Made,        \* height of the chain when this core starts
    Oldest,      \* the oldest block each peer stores
    Starts,      \* states this core may start in: [applied, proved]
    Connections, \* sets of cores it may have connections to
    MinApprove,  \* min_approve
    MAX_LOST     \* bound: requests and answers that get lost

Height == 1..MAX_HEIGHT

ASSUME ChainAssumption ==
    /\ MAX_HEIGHT \in Nat
    /\ States \subseteq Height
    /\ Made \in Height
    /\ Oldest \in [Peer -> 1..Made]

ASSUME PeerAssumption ==
    /\ Primary \in Peer
    /\ NoPeer \notin Peer
    /\ IsFiniteSet(Peer)

ASSUME StartAssumption ==
    /\ Starts \subseteq [applied : 0..Made, proved : 0..Made]
    /\ Connections \subseteq SUBSET Peer
    /\ MAX_LOST \in Nat

VARIABLES
    top,                      \* peers: highest block stored
    applied,                  \* peers: last_applied_block
    cores,                    \* the peers this core is connected to
    blocks,                   \* the Blocks store
    last_applied_block,       \* 0: the zero hash
    proved_block,             \* from last_state.json; 0: none
    missing_blocks,           \* <<core, height>>
    not_actualized,           \* the two counters of newer chains
    actualization_iteration,  \* modulo 2
    last_block_calls,         \* RPC_LAST_BLOCK, by core and counter
    list_calls,               \* RPC_GET_MISSING_BLOCK_LIST: <<core, since>>
    block_calls,              \* RPC_GET_BLOCK: <<core, height>>
    pretended,                \* RPC_PRETEND_BLOCK on the way to this core
    heard,                    \* history: blocks that came unasked
    lost,                     \* history: requests and answers lost
    behind                    \* history: polls begun since a core's last
                              \* block is lacking, up to 2

peers == <<top, applied, cores>>
self == <<blocks, last_applied_block, proved_block, missing_blocks,
          not_actualized, actualization_iteration>>
calls == <<last_block_calls, list_calls, block_calls, pretended>>
vars == <<peers, self, calls, heard, lost, behind>>

(* A question for the last block: none, not answered yet, or a height. *)
None == -2
Asked == -1

Stores(p, h) == Oldest[p] <= h /\ h <= top[p]

-----------------------------------------------------------------------------
(* What a peer answers. *)

(* parse_RPC_LAST_BLOCK: the master names the last block it made. *)
LastBlock(p) == IF p = Primary THEN top[p] ELSE applied[p]

(* Mutant: the chain is listed from the block after the next one. *)
MissingBlockListShort(p, since) ==
    {h \in Height : Stores(p, h) /\ since + 1 < h /\ h <= LastBlock(p)}

(* parse_RPC_GET_MISSING_BLOCK_LIST: back from the last applied block to
   the one named, as far as blocks are stored, and that one as well. *)
MissingBlockList(p, since) ==
    {h \in Height : /\ Stores(p, h)
                    /\ \/ h = since
                       \/ h <= LastBlock(p) /\ (since < h \/ applied[p] < since)}

-----------------------------------------------------------------------------
(* The last block of each peer that is not stored here, and for how many
   polls it has not been, one after the other. *)
Lacking(p) == LastBlock(p) >= last_applied_block /\ LastBlock(p) \notin blocks

AllAnswered == \A p \in Peer, i \in 0..1 : last_block_calls[p][i] = None

Watch(polled) ==
    behind' = [p \in Peer |->
        IF p \notin cores \/ ~Lacking(p)' \/ LastBlock(p)' # LastBlock(p) THEN 0
        ELSE IF ~polled THEN behind[p]
        ELSE IF ~AllAnswered THEN 0
        ELSE IF behind[p] = 0 THEN 1 ELSE 2]

(* The peers make, store and apply the blocks of the chain, as Controller
   describes; this core approves what it stores next to what it applied. *)
Approvers(h) == {p \in Peer : Stores(p, h) /\ h <= applied[p] + 1}

MakeBlock ==
    /\ applied[Primary] = top[Primary] /\ top[Primary] < MAX_HEIGHT
    /\ top' = [top EXCEPT ![Primary] = @ + 1]
    /\ pretended' \in {pretended, pretended \cup {top[Primary] + 1}}
    /\ UNCHANGED <<applied, cores, self, last_block_calls, list_calls,
                   block_calls, heard, lost>>
    /\ Watch(FALSE)

PeerStores(p) ==
    /\ top[p] < top[Primary]
    /\ top' = [top EXCEPT ![p] = @ + 1]
    /\ UNCHANGED <<applied, cores, self, calls, heard, lost>>
    /\ Watch(FALSE)

PeerApplies(p) ==
    /\ applied[p] < top[p]
    /\ LET next == applied[p] + 1 IN
        \/ Cardinality(Approvers(next)) >= MinApprove
        \/ /\ next \in blocks /\ next <= last_applied_block + 1
           /\ Cardinality(Approvers(next)) + 1 >= MinApprove
    /\ applied' = [applied EXCEPT ![p] = @ + 1]
    /\ UNCHANGED <<top, cores, self, calls, heard, lost>>
    /\ Watch(FALSE)

-----------------------------------------------------------------------------
(* check_awaited_blocks *)

(* The block the walk back from the proved block ends at. *)
Foot == Max({h \in 1..proved_block : h \in States \/ h = 1})

(* Enough approvals, with the own one, reach this core: it asks for them
   in every pass, and a peer that applied the block signs one when asked. *)
Approved(h) == Cardinality(Approvers(h)) + 1 >= MinApprove

(* The next block to apply, if it is stored. *)
Awaited ==
    IF last_applied_block # 0 THEN blocks \cap {last_applied_block + 1}
    ELSE IF proved_block = 0 THEN blocks \cap {1}
    ELSE IF Foot..proved_block \subseteq blocks THEN blocks \cap {Foot}
    ELSE {}

(* The block that the walk back from the proved block lacks. *)
Unfound ==
    {h \in Height \ blocks : /\ last_applied_block = 0
                            /\ h < proved_block /\ Foot <= h
                            /\ (h + 1)..proved_block \subseteq blocks}

CheckAwaitedBlocks ==
    \/ \E h \in Awaited : Approved(h) /\ last_applied_block' = h
    \/ /\ \A h \in Awaited : ~Approved(h)
       /\ UNCHANGED last_applied_block

-----------------------------------------------------------------------------
(* main_loop *)

Counter == actualization_iteration

Ask(i) ==
    /\ \A p \in cores : last_block_calls[p][i] = None
    /\ last_block_calls' =
        [p \in Peer |-> [last_block_calls[p] EXCEPT ![i] = IF p \in cores THEN Asked ELSE None]]

(* Mutant: one counter only. *)
CheckIfChainActualOne ==
    /\ Ask(0)
    /\ not_actualized' = [not_actualized EXCEPT ![0] = 0]
    /\ UNCHANGED actualization_iteration

(* Bound: the answers that use a counter have come before it is used again,
   two polls later. *)
CheckIfChainActual ==
    /\ Ask(Counter)
    /\ not_actualized' = [not_actualized EXCEPT ![Counter] = 0]
    /\ actualization_iteration' = 1 - Counter

(* One pass: the other cores are asked for their last block when a second
   has passed, and the next block is applied.  Blocks that came in between
   were stored by process_queues; here each is stored when it comes. *)
MainLoop(poll) ==
    /\ missing_blocks' = missing_blocks \cup {<<NoPeer, h>> : h \in Unfound}
    /\ IF poll THEN CheckIfChainActual
               ELSE UNCHANGED <<not_actualized, actualization_iteration, last_block_calls>>
    /\ CheckAwaitedBlocks
    /\ UNCHANGED <<peers, blocks, proved_block, list_calls, block_calls, pretended, heard, lost>>
    /\ Watch(poll)

-----------------------------------------------------------------------------
(* check_if_chain_actual: what becomes of the question for the last block. *)

AnswerLastBlock(p, i) ==
    /\ last_block_calls[p][i] = Asked
    /\ last_block_calls' = [last_block_calls EXCEPT ![p][i] = LastBlock(p)]
    /\ UNCHANGED <<peers, self, list_calls, block_calls, pretended, heard, lost>>
    /\ Watch(FALSE)

Since == IF last_applied_block # 0 THEN last_applied_block ELSE proved_block

(* Mutant: the list is asked for whatever is stored here. *)
UnknownAny(last) == last >= last_applied_block

Unknown(last) == last >= last_applied_block /\ last \notin blocks

HandleLastBlock(p, i) ==
    LET last == last_block_calls[p][i] IN
    /\ last \notin {None, Asked}
    /\ last_block_calls' = [last_block_calls EXCEPT ![p][i] = None]
    /\ IF Unknown(last)
       THEN /\ not_actualized' = [not_actualized EXCEPT ![i] = @ + 1]
            /\ list_calls' = list_calls \cup {<<p, Since>>}
       ELSE UNCHANGED <<not_actualized, list_calls>>
    /\ UNCHANGED <<peers, blocks, last_applied_block, proved_block, missing_blocks,
                   actualization_iteration, block_calls, pretended, heard, lost>>
    /\ Watch(FALSE)

AnswerList(p, since) ==
    /\ <<p, since>> \in list_calls
    /\ list_calls' = list_calls \ {<<p, since>>}
    /\ missing_blocks' = missing_blocks \cup ({p} \X (MissingBlockList(p, since) \ blocks))
    /\ UNCHANGED <<peers, blocks, last_applied_block, proved_block, not_actualized,
                   actualization_iteration, last_block_calls, block_calls, pretended,
                   heard, lost>>
    /\ Watch(FALSE)

-----------------------------------------------------------------------------
(* actualize_chain *)

Listed(h) == {p \in Peer : <<p, h>> \in missing_blocks}

(* Mutant: a block that nobody listed is forgotten. *)
ActualizeChainListed ==
    LET wanted == {miss[2] : miss \in {x \in missing_blocks : x[1] # NoPeer}} \ blocks IN
    /\ missing_blocks # {}
    /\ \E asked \in [wanted -> {{p} : p \in cores} \cup {cores}] :
        /\ \A h \in wanted : asked[h] = cores \/ asked[h] \subseteq Listed(h)
        /\ block_calls' = block_calls \cup UNION {asked[h] \X {h} : h \in wanted}
    /\ missing_blocks' = {}
    /\ UNCHANGED <<peers, blocks, last_applied_block, proved_block,
                   not_actualized, actualization_iteration, last_block_calls,
                   list_calls, pretended, heard, lost>>
    /\ Watch(FALSE)

(* The list is emptied.  A block is asked of one core that listed it and is
   not busy, or, when they all are or nobody listed it, of all cores. *)
ActualizeChain ==
    LET wanted == {miss[2] : miss \in missing_blocks} \ blocks IN
    /\ missing_blocks # {}
    /\ \E asked \in [wanted -> {{p} : p \in cores} \cup {cores}] :
        /\ \A h \in wanted : asked[h] = cores \/ asked[h] \subseteq Listed(h)
        /\ block_calls' = block_calls \cup UNION {asked[h] \X {h} : h \in wanted}
    /\ missing_blocks' = {}
    /\ UNCHANGED <<peers, blocks, last_applied_block, proved_block,
                   not_actualized, actualization_iteration, last_block_calls,
                   list_calls, pretended, heard, lost>>
    /\ Watch(FALSE)

(* process_queues *)
Store(h) ==
    /\ blocks' = blocks \cup {h}
    /\ missing_blocks' = {miss \in missing_blocks : miss[2] # h}

(* parse_RPC_GET_BLOCK: the block, or an empty answer. *)
AnswerBlock(p, h) ==
    /\ <<p, h>> \in block_calls
    /\ block_calls' = block_calls \ {<<p, h>>}
    /\ IF Stores(p, h) THEN Store(h) ELSE UNCHANGED <<blocks, missing_blocks>>
    /\ UNCHANGED <<peers, last_applied_block, proved_block, not_actualized,
                   actualization_iteration, last_block_calls, list_calls, pretended,
                   heard, lost>>
    /\ Watch(FALSE)

(* A block that comes unasked is taken from a core only, and before it has
   applied a block this core knows of no core. *)
PretendBlock(h) ==
    /\ h \in pretended
    /\ pretended' = pretended \ {h}
    /\ IF last_applied_block # 0
       THEN Store(h) /\ heard' = heard \cup {h}
       ELSE UNCHANGED <<blocks, missing_blocks, heard>>
    /\ UNCHANGED <<peers, last_applied_block, proved_block, not_actualized,
                   actualization_iteration, last_block_calls, list_calls, block_calls, lost>>
    /\ Watch(FALSE)

(* A write that fails drops the request without a word; a read that fails,
   the answer. *)
Lose ==
    /\ lost < MAX_LOST
    /\ lost' = lost + 1
    /\ \/ \E p \in Peer, i \in 0..1 :
            /\ last_block_calls[p][i] # None
            /\ last_block_calls' = [last_block_calls EXCEPT ![p][i] = None]
            /\ UNCHANGED <<list_calls, block_calls>>
       \/ \E c \in list_calls :
            /\ list_calls' = list_calls \ {c}
            /\ UNCHANGED <<last_block_calls, block_calls>>
       \/ \E c \in block_calls :
            /\ block_calls' = block_calls \ {c}
            /\ UNCHANGED <<last_block_calls, list_calls>>
    /\ UNCHANGED <<peers, self, pretended, heard>>
    /\ Watch(FALSE)

(* not_actualized is read before it is written: 1 is any other garbage. *)
Init ==
    /\ top = [p \in Peer |-> Made]
    /\ applied = [p \in Peer |-> Made]
    /\ \E s \in Starts :
        /\ last_applied_block = s.applied
        /\ proved_block = s.proved
        /\ blocks = 1..s.applied
    /\ cores \in Connections
    /\ missing_blocks = {}
    /\ not_actualized \in [0..1 -> 0..1]
    /\ actualization_iteration = 0
    /\ last_block_calls = [p \in Peer |-> [i \in 0..1 |-> None]]
    /\ list_calls = {} /\ block_calls = {} /\ pretended = {}
    /\ heard = {}
    /\ lost = 0
    /\ behind = [p \in Peer |-> 0]

Next ==
    \/ MakeBlock
    \/ \E p \in Peer : PeerStores(p) \/ PeerApplies(p)
    \/ \E poll \in BOOLEAN : MainLoop(poll)
    \/ \E p \in Peer, i \in 0..1 : AnswerLastBlock(p, i) \/ HandleLastBlock(p, i)
    \/ \E c \in list_calls : AnswerList(c[1], c[2])
    \/ ActualizeChain
    \/ \E c \in block_calls : AnswerBlock(c[1], c[2])
    \/ \E h \in pretended : PretendBlock(h)
    \/ Lose

Spec == Init /\ [][Next]_vars

-----------------------------------------------------------------------------
CaughtUp == last_applied_block = top[Primary]

(* This core is behind, and nothing that is under way or will be asked for
   brings it the block it needs: it stores the last blocks of all cores. *)
Gap ==
    /\ ~CaughtUp
    /\ Awaited = {} /\ Unfound = {}
    /\ \A p \in cores, h \in Height :
        last_applied_block <= h /\ applied[p] <= h /\ h <= top[Primary] => h \in blocks
    /\ missing_blocks = {} /\ list_calls = {}
    /\ {c[2] : c \in block_calls} \cup pretended \subseteq blocks
    /\ \A p \in Peer, i \in 0..1 :
        LET last == last_block_calls[p][i]
        IN  last \in {None, Asked} \/ last < last_applied_block \/ last \in blocks

(* A gap below the newest block is never noticed: the question for the last
   block finds nothing new, whatever else happens, until a block is made. *)
GapStays == [][Gap => Gap' \/ top'[Primary] # top[Primary]]_vars

(* What a core pulls leaves no gap: it takes a block that came unasked, or
   a peer that does not store the blocks this core needs. *)
GapNeedsPush ==
    Gap => \/ heard # {} \/ lost > 0
           \/ \E p \in cores : Oldest[p] > last_applied_block + 1

(* The two counters keep a core that is behind from making blocks: one
   holds what the poll before the last one found until the last one, whose
   answers are still on their way, has found it too. *)
BehindIsBlocked ==
    lost = 0 => \A p \in Peer : behind[p] = 2 => \E i \in 0..1 : not_actualized[i] > 0

(* Liveness.  Every second the poll comes round, and every five seconds the *)
(* list of missing blocks is worked off; requests are answered.             *)
Fairness ==
    /\ \A poll \in BOOLEAN : WF_vars(MainLoop(poll))
    /\ WF_vars(ActualizeChain)
    /\ \A p \in Peer :
        /\ WF_vars(PeerStores(p)) /\ WF_vars(PeerApplies(p))
        /\ \A i \in 0..1 : WF_vars(AnswerLastBlock(p, i)) /\ WF_vars(HandleLastBlock(p, i))
        /\ WF_vars(\E since \in 0..MAX_HEIGHT : AnswerList(p, since))
        /\ \A h \in Height : WF_vars(AnswerBlock(p, h))
    /\ \A h \in Height : WF_vars(PretendBlock(h))

FairSpec == Spec /\ Fairness

(* As long as requests are answered, a core that is behind catches up, from
   whatever it starts with, or ends with a gap. *)
CatchesUp == []<>(CaughtUp \/ Gap)

-----------------------------------------------------------------------------
(* The inductive invariant behind BehindIsBlocked and GapStays. *)
TypeOK ==
    /\ top \in [Peer -> Height] /\ applied \in [Peer -> Height]
    /\ cores \subseteq Peer
    /\ blocks \subseteq Height
    /\ last_applied_block \in 0..MAX_HEIGHT /\ proved_block \in 0..MAX_HEIGHT
    /\ missing_blocks \subseteq (Peer \cup {NoPeer}) \X Height
    /\ not_actualized \in [0..1 -> Nat]
    /\ actualization_iteration \in 0..1
    /\ last_block_calls \in [Peer -> [0..1 -> {None, Asked} \cup Height]]
    /\ list_calls \subseteq cores \X (0..MAX_HEIGHT)
    /\ block_calls \subseteq cores \X Height
    /\ pretended \subseteq Height /\ heard \subseteq Height
    /\ lost \in 0..MAX_LOST
    /\ behind \in [Peer -> 0..2]

(* The master is ahead, and only connected cores are asked. *)
PeersInv ==
    /\ \A p \in Peer : applied[p] <= top[p] /\ top[p] <= top[Primary]
    /\ \A p \in Peer, i \in 0..1 : last_block_calls[p][i] # None => p \in cores

(* What the polls since a core's last block is lacking have found, or are
   about to find. *)
BehindInv ==
    \A p \in Peer : behind[p] > 0 =>
        /\ p \in cores /\ Lacking(p)
        /\ lost = 0 =>
            /\ \/ last_block_calls[p][1 - Counter] \in {Asked, LastBlock(p)}
               \/ not_actualized[1 - Counter] > 0
            /\ behind[p] = 2 => not_actualized[Counter] > 0

IInv == TypeOK /\ PeersInv /\ BehindInv
=============================================================================
