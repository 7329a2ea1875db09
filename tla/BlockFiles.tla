----------------------------- MODULE BlockFiles -----------------------------
(***************************************************************************)
(* The block files of one core node: write_block and read_and_apply_       *)
(* local_chain of src/metalibs/meta_core.  Every block applied is appended *)
(* to the file of its day, then a record of its approvals; after a state   *)
(* block, last_state.json is overwritten with its hash and file.  A node   *)
(* that starts reads the files from that one on, and applies what it read  *)
(* without asking for approvals.                                           *)
(*                                                                         *)
(* The process may be killed between any two writes, and within one.  What *)
(* the other cores send is external: any block may arrive at any time.     *)
(***************************************************************************)
EXTENDS Integers, Sequences, FiniteSets

CONSTANTS
    Block,         \* hashes of blocks
    Zero,          \* zero_block
    Parent,        \* get_prev_hash
    State,         \* the blocks of BLOCK_TYPE_STATE
    File,          \* File[b]: the file of the day of b, files in the order of their names
    Decided,       \* the blocks the cores agree on
    ConfigProved,  \* proved_hash of the configuration, or Zero
    MAX_CRASHES    \* bound: times the process is killed

FileName == {File[b] : b \in Block}

ASSUME BlocksAssumption ==
    /\ Zero \notin Block
    /\ Parent \in [Block -> Block \cup {Zero}]
    /\ State \subseteq Block
    /\ File \in [Block -> Nat]
    /\ ConfigProved \in Block \cup {Zero}
    /\ MAX_CRASHES \in Nat

(* A block holds the hash of its parent: in any set of blocks there is one *)
(* whose parent is not in it.                                               *)
ASSUME OrderAssumption ==
    \A S \in SUBSET Block : S # {} => \E b \in S : Parent[b] \notin S

(* The cores agree on one chain (Agreement), and its blocks have rising    *)
(* timestamps, so that none is in an earlier file than its parent.         *)
ASSUME DecidedAssumption ==
    /\ Decided \subseteq Block
    /\ \A b \in Decided : Parent[b] # Zero =>
        Parent[b] \in Decided /\ File[Parent[b]] <= File[b]
    /\ \A b, c \in Decided : Parent[b] = Parent[c] => b = c

(* A block and all before it. *)
Line[b \in Block] == {b} \cup (IF Parent[b] = Zero THEN {} ELSE Line[Parent[b]])

(* Records of a file: blocks, approvals, and what a killed process leaves  *)
(* of one: a stub of the size in front of it, or the size and a part of    *)
(* the data.                                                               *)
Torn == {"stub", "part"}
Record == [kind : {"block", "approve"} \cup Torn, block : Block]

VARIABLES
    files,         \* files[f]: the records of file f
    last_state,    \* the state block last_state.json names; Zero if it cannot be read
    phase,         \* "down", "loading" (the constructor) or "up"
    writing,       \* what write_block has still to do for last_applied_block
    blocks,        \* the Blocks store
    local,         \* the blocks in it that were read from the files (is_local)
    last_applied_block,
    proved_block,
    durable,       \* blocks whose record was written completely, ever
    crashes

memory == <<blocks, local, last_applied_block, proved_block>>
disk == <<files, last_state, durable>>
vars == <<memory, disk, phase, writing, crashes>>

-----------------------------------------------------------------------------
(* Blocks::insert: the first child of a parent keeps the place. *)
Insertable(b) == b \notin blocks /\ ~ \E c \in blocks : Parent[c] = Parent[b]

(* Mutant: blocks of other cores count as read from the files. *)
ReceiveLocal(b) ==
    /\ phase = "up" /\ writing = <<>>
    /\ Insertable(b)
    /\ blocks' = blocks \cup {b}
    /\ local' = local \cup {b}
    /\ UNCHANGED <<last_applied_block, proved_block, disk, phase, writing, crashes>>

(* process_queues *)
Receive(b) ==
    /\ phase = "up" /\ writing = <<>>
    /\ Insertable(b)
    /\ blocks' = blocks \cup {b}
    /\ UNCHANGED <<local, last_applied_block, proved_block, disk, phase, writing, crashes>>

(* The walk of check_awaited_blocks from the proved block back to a state
   block or the first block. *)
FirstBlock(b) ==
    /\ proved_block \in blocks
    /\ b \in Line[proved_block]
    /\ b \in State \/ Parent[b] = Zero
    /\ \A c \in Line[proved_block] : b \in Line[c] /\ c # b => c \in blocks \ State

(* check_awaited_blocks: the block it considers. *)
Awaited(b) ==
    /\ b \in blocks
    /\ IF last_applied_block # Zero THEN Parent[b] = last_applied_block
       ELSE IF proved_block # Zero THEN FirstBlock(b)
       ELSE Parent[b] = Zero

(* Mutant: the state block is named before it is written. *)
WritesStateFirst(b) ==
    IF b \in State THEN <<"truncate", "name", "block", "approve">> ELSE <<"block", "approve">>

(* Mutant: the block is taken to be in the files, for its approvals are. *)
WritesApprovals(b) ==
    IF b \in State THEN <<"block", "approve", "truncate", "name">> ELSE <<"approve">>

(* write_block, one entry for each time the disk changes. *)
Writes(b) ==
    IF b \in State THEN <<"block", "approve", "truncate", "name">> ELSE <<"block", "approve">>

(* count_approve_for_block and try_apply_block: enough cores approve a block
   only if it is decided; one from the files needs no approval and is not
   written again. *)
Apply(b) ==
    /\ phase \in {"loading", "up"} /\ writing = <<>>
    /\ Awaited(b)
    /\ b \in local \/ (phase = "up" /\ b \in Decided)
    /\ last_applied_block' = b
    /\ writing' = IF b \in local THEN <<>> ELSE Writes(b)
    /\ UNCHANGED <<blocks, local, proved_block, disk, phase, crashes>>

AppendRecord(kind) ==
    files' = [files EXCEPT ![File[last_applied_block]] =
                Append(@, [kind |-> kind, block |-> last_applied_block])]

WriteBlock ==
    /\ writing # <<>> /\ Head(writing) = "block"
    /\ AppendRecord("block")
    /\ durable' = durable \cup {last_applied_block}
    /\ writing' = Tail(writing)
    /\ UNCHANGED <<memory, last_state, phase, crashes>>

WriteApprovals ==
    /\ writing # <<>> /\ Head(writing) = "approve"
    /\ AppendRecord("approve")
    /\ writing' = Tail(writing)
    /\ UNCHANGED <<memory, last_state, durable, phase, crashes>>

(* std::ofstream empties the file when it opens it. *)
TruncateLastState ==
    /\ writing # <<>> /\ Head(writing) = "truncate"
    /\ last_state' = Zero
    /\ writing' = Tail(writing)
    /\ UNCHANGED <<memory, files, durable, phase, crashes>>

WriteLastState ==
    /\ writing # <<>> /\ Head(writing) = "name"
    /\ last_state' = last_applied_block
    /\ writing' = Tail(writing)
    /\ UNCHANGED <<memory, files, durable, phase, crashes>>

-----------------------------------------------------------------------------
(* The end of the process: what it had in memory is gone. *)
Dies ==
    /\ phase \in {"loading", "up"}
    /\ crashes < MAX_CRASHES
    /\ crashes' = crashes + 1
    /\ phase' = "down"
    /\ writing' = <<>>
    /\ blocks' = {} /\ local' = {}
    /\ last_applied_block' = Zero /\ proved_block' = ConfigProved

Crash == Dies /\ UNCHANGED disk

(* The process dies within a write of a record. *)
CrashWriting(kind) ==
    /\ writing # <<>> /\ Head(writing) \in {"block", "approve"}
    /\ AppendRecord(kind)
    /\ Dies
    /\ UNCHANGED <<last_state, durable>>

-----------------------------------------------------------------------------
(* read_last_known_state and read_stored_blocks *)

(* Mutant: begins after the file that last_state.json names. *)
FilesReadAfter ==
    IF last_state = Zero THEN {} ELSE {f \in FileName : f > File[last_state]}

(* The files from the one that last_state.json names; none without it. *)
FilesRead ==
    IF last_state = Zero THEN {} ELSE {f \in FileName : f >= File[last_state]}

(* Behind a torn record, sizes are read where there are none. *)
Misread(f) == \E i \in DOMAIN files[f] : files[f][i].kind \in Torn /\ i < Len(files[f])

(* A file that ends within a block ends the process; one that ends within a
   size is taken to end before it. *)
EndsShort(f) == files[f] # <<>> /\ files[f][Len(files[f])].kind = "part"

(* The blocks of a file up to a torn record. *)
Readable(f) ==
    {files[f][i].block : i \in {j \in DOMAIN files[f] :
        files[f][j].kind = "block" /\ \A k \in 1 .. j : files[f][k].kind \notin Torn}}

(* A misread size ends the process, or the rest of the file is not
   understood; a start that ends the process changes nothing. *)
Start ==
    /\ phase = "down"
    /\ \A f \in FilesRead : EndsShort(f) => Misread(f)
    /\ phase' = "loading"
    /\ proved_block' = IF last_state = Zero THEN ConfigProved ELSE last_state
    /\ blocks' = UNION {Readable(f) : f \in FilesRead}
    /\ local' = blocks'
    /\ UNCHANGED <<last_applied_block, writing, disk, crashes>>

(* check_blocks comes to an end. *)
Loaded ==
    /\ phase = "loading"
    /\ ~ \E b \in Block : Awaited(b)
    /\ phase' = "up"
    /\ UNCHANGED <<memory, disk, writing, crashes>>

Init ==
    /\ files = [f \in FileName |-> <<>>]
    /\ last_state = Zero
    /\ phase = "down"
    /\ writing = <<>>
    /\ blocks = {} /\ local = {}
    /\ last_applied_block = Zero
    /\ proved_block = ConfigProved
    /\ durable = {}
    /\ crashes = 0

Next ==
    \/ \E b \in Block : Receive(b) \/ Apply(b)
    \/ WriteBlock \/ WriteApprovals \/ TruncateLastState \/ WriteLastState
    \/ Crash
    \/ \E kind \in Torn : CrashWriting(kind)
    \/ Start \/ Loaded

Spec == Init /\ [][Next]_vars
-----------------------------------------------------------------------------
(* Every variable has its type. *)
TypeOK ==
    /\ files \in [FileName -> Seq(Record)]
    /\ last_state \in State \cup {Zero}
    /\ phase \in {"down", "loading", "up"}
    /\ writing \in Seq({"block", "approve", "truncate", "name"})
    /\ blocks \subseteq Block /\ local \subseteq blocks /\ durable \subseteq Block
    /\ last_applied_block \in Block \cup {Zero}
    /\ proved_block \in Block \cup {Zero}
    /\ crashes \in Nat

(* The block has a complete record in the file of its day. *)
Written(b) ==
    \E i \in DOMAIN files[File[b]] : files[File[b]][i] = [kind |-> "block", block |-> b]

(* A node that applies what it reads without approvals still applies and
   keeps decided blocks only, whatever competing blocks it stored before
   it was killed. *)
OnlyDecided ==
    /\ last_applied_block \in Decided \cup {Zero}
    /\ durable \subseteq Decided

(* At any moment the process may be killed, last_state.json cannot be read
   or names a state block that is in the files. *)
StateOnDisk == last_state # Zero => Written(last_state)

BeingWritten(b) ==
    b = last_applied_block /\ writing # <<>> /\ Head(writing) = "block"

(* What a running node applied since the state block that last_state.json
   names, it has on disk, whichever of it was read from there, and however
   often the node lost its place and began again from an older block. *)
Recoverable ==
    last_state # Zero /\ last_applied_block # Zero =>
        \A b \in Line[last_applied_block] :
            last_state \in Line[b] => Written(b) \/ BeingWritten(b)

(* A start that reads last_state.json and meets no torn record but at the
   end of a file comes back to the last block of the unbroken row of blocks
   ever written from that state block on. *)
NothingLost ==
    [][phase = "loading" /\ phase' = "up" /\ last_state # Zero
       /\ (\A f \in FilesRead : ~ Misread(f)) =>
        \A b \in durable :
            last_state \in Line[b]
            /\ (\A c \in Line[b] : last_state \in Line[c] => c \in durable)
            => last_applied_block # Zero /\ b \in Line[last_applied_block]]_vars

(* What write_block may still have to do. *)
RestsOfState == {<<"block", "approve", "truncate", "name">>,
                 <<"approve", "truncate", "name">>, <<"truncate", "name">>, <<"name">>}
RestsOfOthers == {<<"block", "approve">>, <<"approve">>}

(* It works on the block just applied, and names it only when it is written. *)
WritingInv ==
    /\ writing \in RestsOfState \cup RestsOfOthers \cup {<<>>}
    /\ writing # <<>> => last_applied_block # Zero /\ phase = "up"
    /\ writing \in RestsOfState => last_applied_block \in State
    /\ writing \in RestsOfState /\ Head(writing) # "block" => Written(last_applied_block)

(* What is in the files, or was read from them, is decided. *)
DecidedInv ==
    /\ OnlyDecided
    /\ local \subseteq Decided
    /\ \A f \in FileName : \A i \in DOMAIN files[f] : files[f][i].block \in Decided

(* The inductive invariant of the proofs: the types, what is written and what
   is left to write, and that nothing undecided is taken for a block of the
   files. *)
IInv == TypeOK /\ WritingInv /\ DecidedInv /\ StateOnDisk
=============================================================================
