-------------------------- MODULE BlockFilesProofs --------------------------
(***************************************************************************)
(* Proofs about BlockFiles for every tree of blocks, every assignment of   *)
(* blocks to files and any number of crashes.                              *)
(***************************************************************************)
EXTENDS BlockFiles, SequenceTheorems, TLAPS

Rests == RestsOfState \cup RestsOfOthers \cup {<<>>}

-----------------------------------------------------------------------------
(* What is left to write is a sequence of entries. *)
LEMMA RestsAreTyped ==
    ASSUME NEW w \in Rests
    PROVE  w \in Seq({"block", "approve", "truncate", "name"})
<1> DEFINE S == {"block", "approve", "truncate", "name"}
<1>1. <<>> \in Seq(S) /\ <<"name">> \in Seq(S) /\ <<"approve">> \in Seq(S)
  OBVIOUS
<1>2. <<"truncate", "name">> \in Seq(S) /\ <<"block", "approve">> \in Seq(S)
  OBVIOUS
<1>3. <<"approve", "truncate", "name">> \in Seq(S)
  OBVIOUS
<1>4. <<"block", "approve", "truncate", "name">> \in Seq(S)
  OBVIOUS
<1>5. QED
  BY <1>1, <1>2, <1>3, <1>4 DEF Rests, RestsOfState, RestsOfOthers

(* What is left to write, entry by entry. *)
LEMMA RestsShrink ==
    ASSUME NEW w \in Rests, w # <<>>
    PROVE  /\ Head(w) \in {"block", "approve", "truncate", "name"}
           /\ Tail(w) \in Rests
           /\ Tail(w) \in RestsOfState => w \in RestsOfState
           /\ Head(w) = "name" => w \in RestsOfState
           /\ Tail(w) # <<>> => Head(Tail(w)) # "block"
<1>1. CASE w = <<"block", "approve", "truncate", "name">>
  <2>1. Tail(w) = <<"approve", "truncate", "name">>
    BY <1>1
  <2>2. QED
    BY <1>1, <2>1 DEF Rests, RestsOfState, RestsOfOthers
<1>2. CASE w = <<"approve", "truncate", "name">>
  <2>1. Tail(w) = <<"truncate", "name">>
    BY <1>2
  <2>2. QED
    BY <1>2, <2>1 DEF Rests, RestsOfState, RestsOfOthers
<1>3. CASE w = <<"truncate", "name">>
  <2>1. Tail(w) = <<"name">>
    BY <1>3
  <2>2. QED
    BY <1>3, <2>1 DEF Rests, RestsOfState, RestsOfOthers
<1>4. CASE w = <<"block", "approve">>
  <2>1. Tail(w) = <<"approve">>
    BY <1>4
  <2>2. QED
    BY <1>4, <2>1 DEF Rests, RestsOfState, RestsOfOthers
<1>5. CASE w = <<"name">>
  <2>1. Len(w) = 1 /\ w # <<>>
    BY <1>5
  <2>2. Tail(w) \in Seq({"block", "approve", "truncate", "name"}) /\ Len(Tail(w)) = 0
    BY <2>1, RestsAreTyped, HeadTailProperties
  <2>3. Tail(w) = <<>>
    BY <2>2, EmptySeq
  <2>4. Head(w) = "name" /\ Tail(w) \notin RestsOfState
    BY <1>5, <2>3 DEF RestsOfState
  <2>5. w \in RestsOfState \/ Head(w) # "name"
    BY <1>5 DEF RestsOfState
  <2>6. QED
    BY <2>3, <2>4, <2>5 DEF Rests
<1>6. CASE w = <<"approve">>
  <2>1. Len(w) = 1 /\ w # <<>>
    BY <1>6
  <2>2. Tail(w) \in Seq({"block", "approve", "truncate", "name"}) /\ Len(Tail(w)) = 0
    BY <2>1, RestsAreTyped, HeadTailProperties
  <2>3. Tail(w) = <<>>
    BY <2>2, EmptySeq
  <2>4. Head(w) = "approve" /\ Tail(w) \notin RestsOfState
    BY <1>6, <2>3 DEF RestsOfState
  <2>5. w \in RestsOfState \/ Head(w) # "name"
    BY <1>6 DEF RestsOfState
  <2>6. QED
    BY <2>3, <2>4, <2>5 DEF Rests
<1>7. QED
  BY <1>1, <1>2, <1>3, <1>4, <1>5, <1>6 DEF Rests, RestsOfState, RestsOfOthers

LEMMA WritesAreRests ==
    ASSUME NEW b \in Block
    PROVE  /\ Writes(b) \in RestsOfState \cup RestsOfOthers
           /\ Writes(b) \in RestsOfState => b \in State
           /\ Head(Writes(b)) = "block"
  BY DEF Writes, RestsOfState, RestsOfOthers

(* A record of the block just applied goes to the end of the file of its
   day and leaves what is in the files where it is. *)
LEMMA RecordAppended ==
    ASSUME IInv, NEW kind \in {"block", "approve"} \cup Torn,
           last_applied_block # Zero, AppendRecord(kind)
    PROVE  /\ files' \in [FileName -> Seq(Record)]
           /\ \A f \in FileName : \A i \in DOMAIN files'[f] : files'[f][i].block \in Decided
           /\ \A f \in FileName : \A i \in DOMAIN files[f] :
                i \in DOMAIN files'[f] /\ files'[f][i] = files[f][i]
           /\ LET f == File[last_applied_block]
              IN  \E i \in DOMAIN files'[f] :
                    files'[f][i] = [kind |-> kind, block |-> last_applied_block]
<1> DEFINE a == last_applied_block
           r == [kind |-> kind, block |-> a]
<1>1. a \in Decided /\ a \in Block /\ File[a] \in FileName
  BY DecidedAssumption DEF IInv, DecidedInv, OnlyDecided, FileName
<1>2. files \in [FileName -> Seq(Record)] /\ r \in Record
  BY <1>1 DEF IInv, TypeOK, Record
<1>3. files' = [files EXCEPT ![File[a]] = Append(@, r)]
  BY DEF AppendRecord
<1>4. files[File[a]] \in Seq(Record) /\ Len(files[File[a]]) \in Nat
  BY <1>1, <1>2
<1>5. files'[File[a]] = Append(files[File[a]], r)
  BY <1>1, <1>2, <1>3
<1>6. /\ DOMAIN files[File[a]] = 1 .. Len(files[File[a]])
      /\ DOMAIN files'[File[a]] = 1 .. Len(files[File[a]]) + 1
      /\ files'[File[a]][Len(files[File[a]]) + 1] = r
      /\ \A i \in 1 .. Len(files[File[a]]) : files'[File[a]][i] = files[File[a]][i]
  BY <1>2, <1>4, <1>5
<1>7. \A f \in FileName : f # File[a] => files'[f] = files[f]
  BY <1>2, <1>3
<1>8. \A f \in FileName : \A i \in DOMAIN files[f] : files[f][i].block \in Decided
  BY DEF IInv, DecidedInv
<1>9. files' \in [FileName -> Seq(Record)]
  BY <1>1, <1>2, <1>3, <1>4
<1>10. \A f \in FileName : \A i \in DOMAIN files'[f] : files'[f][i].block \in Decided
  <2> TAKE f \in FileName
  <2> TAKE i \in DOMAIN files'[f]
  <2>1. CASE f # File[a]
    BY <1>7, <1>8, <2>1
  <2>2. CASE f = File[a] /\ i = Len(files[File[a]]) + 1
    BY <1>1, <1>6, <2>2
  <2>3. CASE f = File[a] /\ i # Len(files[File[a]]) + 1
    <3>1. i \in 1 .. Len(files[File[a]])
      BY <1>4, <1>6, <2>3
    <3>2. QED
      BY <1>1, <1>6, <1>8, <2>3, <3>1
  <2>4. QED
    BY <2>1, <2>2, <2>3
<1>11. \A f \in FileName : \A i \in DOMAIN files[f] :
         i \in DOMAIN files'[f] /\ files'[f][i] = files[f][i]
  <2> TAKE f \in FileName
  <2> TAKE i \in DOMAIN files[f]
  <2>1. CASE f # File[a]
    BY <1>7, <2>1
  <2>2. CASE f = File[a]
    BY <1>4, <1>6, <2>2
  <2>3. QED
    BY <2>1, <2>2
<1>12. \E i \in DOMAIN files'[File[a]] : files'[File[a]][i] = r
  BY <1>4, <1>6
<1>13. QED
  BY <1>9, <1>10, <1>11, <1>12

(* So what is written stays written, and with it the block that
   last_state.json names. *)
LEMMA StaysWritten ==
    ASSUME NEW b \in Block,
           \A f \in FileName : \A i \in DOMAIN files[f] :
               i \in DOMAIN files'[f] /\ files'[f][i] = files[f][i],
           Written(b)
    PROVE  \E i \in DOMAIN files'[File[b]] : files'[File[b]][i] = [kind |-> "block", block |-> b]
  BY DEF Written, FileName

LEMMA StateStaysOnDisk ==
    ASSUME IInv, last_state' = last_state,
           \A f \in FileName : \A i \in DOMAIN files[f] :
               i \in DOMAIN files'[f] /\ files'[f][i] = files[f][i]
    PROVE  StateOnDisk'
<1>1. last_state # Zero => last_state \in Block /\ Written(last_state)
  BY BlocksAssumption DEF IInv, TypeOK, StateOnDisk
<1>2. last_state # Zero =>
        \E i \in DOMAIN files'[File[last_state]] :
            files'[File[last_state]][i] = [kind |-> "block", block |-> last_state]
  BY <1>1, StaysWritten
<1>3. QED
  BY <1>2 DEF StateOnDisk, Written

-----------------------------------------------------------------------------
(* The steps. *)

LEMMA InitInv == Init => IInv
<1> SUFFICES ASSUME Init PROVE IInv
  OBVIOUS
<1>1. TypeOK
  BY BlocksAssumption DEF Init, TypeOK, Record
<1>2. WritingInv
  BY DEF Init, WritingInv, RestsOfState, RestsOfOthers
<1>3. DecidedInv
  BY DEF Init, DecidedInv, OnlyDecided
<1>4. QED
  BY <1>1, <1>2, <1>3 DEF IInv, StateOnDisk, Init

LEMMA ReceiveStep ==
    ASSUME IInv, NEW b \in Block, Receive(b)
    PROVE  IInv'
<1>1. UNCHANGED <<local, last_applied_block, proved_block, files, last_state, durable,
                  phase, writing, crashes>> /\ blocks' = blocks \cup {b}
  BY DEF Receive, disk
<1>2. TypeOK'
  BY <1>1 DEF IInv, TypeOK
<1>3. WritingInv' /\ DecidedInv' /\ StateOnDisk'
  BY <1>1 DEF IInv, WritingInv, DecidedInv, OnlyDecided, StateOnDisk, Written
<1>4. QED
  BY <1>2, <1>3 DEF IInv

LEMMA ApplyStep ==
    ASSUME IInv, NEW b \in Block, Apply(b)
    PROVE  IInv'
<1>1. /\ UNCHANGED <<blocks, local, proved_block, files, last_state, durable, phase, crashes>>
      /\ last_applied_block' = b
      /\ b \in Decided /\ b # Zero
      /\ phase \in {"loading", "up"}
      /\ writing' = <<>> \/ (writing' = Writes(b) /\ phase = "up")
  <2>1. b \in Decided /\ (b \notin local => phase = "up")
    BY DEF Apply, IInv, DecidedInv
  <2>2. QED
    BY <2>1, BlocksAssumption DEF Apply, disk
<1>2. writing' = <<>> \/ (/\ writing' \in RestsOfState \cup RestsOfOthers
                          /\ writing' \in RestsOfState => b \in State
                          /\ Head(writing') = "block" /\ phase = "up")
  BY <1>1, WritesAreRests
<1>3. TypeOK'
  <2>1. writing' \in Seq({"block", "approve", "truncate", "name"})
    BY <1>2, RestsAreTyped DEF Rests
  <2>2. QED
    BY <1>1, <2>1 DEF IInv, TypeOK
<1>4. WritingInv'
  <2>1. <<>> \notin RestsOfState
    BY DEF RestsOfState
  <2>2. QED
    BY <1>1, <1>2, <2>1 DEF WritingInv
<1>5. DecidedInv' /\ StateOnDisk'
  BY <1>1 DEF IInv, DecidedInv, OnlyDecided, StateOnDisk, Written
<1>6. QED
  BY <1>3, <1>4, <1>5 DEF IInv

(* An entry of write_block is done: what is left is shorter. *)
LEMMA EntryDone ==
    ASSUME IInv, writing # <<>>, writing' = Tail(writing)
    PROVE  /\ Head(writing) = "name" => last_applied_block \in State
           /\ Head(writing) \in {"truncate", "name"} => writing \in RestsOfState
           /\ last_applied_block \in Decided
           /\ last_applied_block \in Block
           /\ last_applied_block # Zero
           /\ phase = "up"
           /\ writing' \in Seq({"block", "approve", "truncate", "name"})
           /\ UNCHANGED <<last_applied_block, phase>> /\ Written(last_applied_block)'
                => WritingInv'
<1>1. writing \in Rests /\ Rests = RestsOfState \cup RestsOfOthers \cup {<<>>}
  BY DEF IInv, WritingInv, Rests
<1>2. last_applied_block # Zero /\ phase = "up"
  BY DEF IInv, WritingInv
<1>3. last_applied_block \in Decided /\ last_applied_block \in Block
  BY <1>2, DecidedAssumption DEF IInv, DecidedInv, OnlyDecided
<1>4. writing \in RestsOfState => last_applied_block \in State
  BY DEF IInv, WritingInv
<1>5. Head(writing) \in {"truncate", "name"} => writing \in RestsOfState
  BY <1>1 DEF RestsOfOthers
<1>6. writing' \in Rests /\ (writing' \in RestsOfState => writing \in RestsOfState)
  BY <1>1, RestsShrink
<1>7. ASSUME UNCHANGED <<last_applied_block, phase>>, Written(last_applied_block)'
      PROVE  WritingInv'
  BY <1>1, <1>2, <1>4, <1>6, <1>7 DEF WritingInv
<1>8. QED
  BY <1>1, <1>2, <1>3, <1>4, <1>5, <1>6, <1>7, RestsAreTyped

LEMMA WriteBlockStep ==
    ASSUME IInv, WriteBlock
    PROVE  IInv'
<1>1. /\ writing # <<>> /\ writing' = Tail(writing)
      /\ AppendRecord("block") /\ durable' = durable \cup {last_applied_block}
      /\ UNCHANGED <<blocks, local, last_applied_block, proved_block, last_state, phase, crashes>>
  BY DEF WriteBlock, memory
<1>2. /\ last_applied_block \in Decided /\ last_applied_block \in Block
      /\ last_applied_block # Zero
  BY <1>1, EntryDone
<1>3. /\ files' \in [FileName -> Seq(Record)]
      /\ \A f \in FileName : \A i \in DOMAIN files'[f] : files'[f][i].block \in Decided
      /\ \A f \in FileName : \A i \in DOMAIN files[f] :
           i \in DOMAIN files'[f] /\ files'[f][i] = files[f][i]
      /\ \E i \in DOMAIN files'[File[last_applied_block]] :
           files'[File[last_applied_block]][i] = [kind |-> "block", block |-> last_applied_block]
  BY <1>1, <1>2, RecordAppended
<1>4. Written(last_applied_block)'
  BY <1>1, <1>3 DEF Written
<1>5. WritingInv'
  BY <1>1, <1>4, EntryDone
<1>6. TypeOK'
  BY <1>1, <1>2, <1>3, EntryDone DEF IInv, TypeOK
<1>7. DecidedInv'
  BY <1>1, <1>2, <1>3 DEF IInv, DecidedInv, OnlyDecided
<1>8. StateOnDisk'
  BY <1>1, <1>3, StateStaysOnDisk
<1>9. QED
  BY <1>5, <1>6, <1>7, <1>8 DEF IInv

LEMMA WriteApprovalsStep ==
    ASSUME IInv, WriteApprovals
    PROVE  IInv'
<1>1. /\ writing # <<>> /\ writing' = Tail(writing) /\ Head(writing) = "approve"
      /\ AppendRecord("approve")
      /\ UNCHANGED <<blocks, local, last_applied_block, proved_block, last_state, durable,
                     phase, crashes>>
  BY DEF WriteApprovals, memory
<1>2. last_applied_block # Zero
  BY <1>1, EntryDone
<1>3. /\ files' \in [FileName -> Seq(Record)]
      /\ \A f \in FileName : \A i \in DOMAIN files'[f] : files'[f][i].block \in Decided
      /\ \A f \in FileName : \A i \in DOMAIN files[f] :
           i \in DOMAIN files'[f] /\ files'[f][i] = files[f][i]
  BY <1>1, <1>2, RecordAppended
<1>4. WritingInv'
  <2>1. writing \in RestsOfState => Written(last_applied_block)
    BY <1>1 DEF IInv, WritingInv
  <2>2. writing \in RestsOfState => Written(last_applied_block)'
    BY <1>1, <1>3, <2>1, EntryDone, StaysWritten DEF Written
  <2>3. CASE writing \in RestsOfState
    BY <1>1, <2>2, <2>3, EntryDone
  <2>4. CASE writing \notin RestsOfState
    <3>1. Tail(writing) \in Rests /\ Tail(writing) \notin RestsOfState
      BY <1>1, <2>4, RestsShrink DEF IInv, WritingInv, Rests
    <3>2. QED
      BY <1>1, <3>1, EntryDone DEF WritingInv, Rests
  <2>5. QED
    BY <2>3, <2>4
<1>5. TypeOK'
  BY <1>1, <1>3, EntryDone DEF IInv, TypeOK
<1>6. DecidedInv'
  BY <1>1, <1>3 DEF IInv, DecidedInv, OnlyDecided
<1>7. StateOnDisk'
  BY <1>1, <1>3, StateStaysOnDisk
<1>8. QED
  BY <1>4, <1>5, <1>6, <1>7 DEF IInv

LEMMA LastStateStep ==
    ASSUME IInv, TruncateLastState \/ WriteLastState
    PROVE  IInv'
<1>1. /\ writing # <<>> /\ writing' = Tail(writing)
      /\ Head(writing) \in {"truncate", "name"}
      /\ last_state' = Zero \/ (last_state' = last_applied_block /\ Head(writing) = "name")
      /\ UNCHANGED <<blocks, local, last_applied_block, proved_block, files, durable,
                     phase, crashes>>
  BY DEF TruncateLastState, WriteLastState, memory
<1>2. Written(last_applied_block)
  <2>1. writing \in RestsOfState /\ Head(writing) # "block"
    BY <1>1, EntryDone
  <2>2. QED
    BY <2>1 DEF IInv, WritingInv
<1>3. Written(last_applied_block)'
  BY <1>1, <1>2 DEF Written
<1>4. WritingInv'
  BY <1>1, <1>3, EntryDone
<1>5. TypeOK'
  BY <1>1, EntryDone DEF IInv, TypeOK
<1>6. DecidedInv'
  BY <1>1 DEF IInv, DecidedInv, OnlyDecided
<1>7. StateOnDisk'
  BY <1>1, <1>3 DEF StateOnDisk, Written
<1>8. QED
  BY <1>4, <1>5, <1>6, <1>7 DEF IInv

(* A process that dies leaves what is on disk, and knows nothing. *)
LEMMA DiesStep ==
    ASSUME IInv, Dies, UNCHANGED <<last_state, durable>>,
           files' \in [FileName -> Seq(Record)],
           \A f \in FileName : \A i \in DOMAIN files'[f] : files'[f][i].block \in Decided,
           \A f \in FileName : \A i \in DOMAIN files[f] :
               i \in DOMAIN files'[f] /\ files'[f][i] = files[f][i]
    PROVE  IInv'
<1>1. TypeOK'
  <2>1. crashes' \in Nat
    BY DEF IInv, TypeOK, Dies
  <2>2. writing' \in Seq({"block", "approve", "truncate", "name"})
    BY DEF Dies
  <2>3. QED
    BY <2>1, <2>2, BlocksAssumption DEF IInv, TypeOK, Dies
<1>2. WritingInv'
  BY DEF WritingInv, Dies, RestsOfState
<1>3. DecidedInv'
  BY DEF IInv, DecidedInv, OnlyDecided, Dies
<1>4. StateOnDisk'
  BY StateStaysOnDisk
<1>5. QED
  BY <1>1, <1>2, <1>3, <1>4 DEF IInv

LEMMA CrashStep ==
    ASSUME IInv, Crash \/ (\E kind \in Torn : CrashWriting(kind))
    PROVE  IInv'
<1>1. CASE Crash
  <2>1. Dies /\ UNCHANGED <<files, last_state, durable>>
    BY <1>1 DEF Crash, disk
  <2>2. QED
    BY <2>1, DiesStep DEF IInv, TypeOK, DecidedInv
<1>2. ASSUME NEW kind \in Torn, CrashWriting(kind)
      PROVE  IInv'
  <2>1. AppendRecord(kind) /\ Dies /\ UNCHANGED <<last_state, durable>> /\ writing # <<>>
    BY <1>2 DEF CrashWriting
  <2>2. last_applied_block # Zero
    BY <2>1 DEF IInv, WritingInv
  <2>3. QED
    BY <2>1, <2>2, RecordAppended, DiesStep
<1>3. QED
  BY <1>1, <1>2

(* What is read from the files is in them, so it is decided. *)
LEMMA StartStep ==
    ASSUME IInv, Start
    PROVE  IInv'
<1>1. /\ UNCHANGED <<last_applied_block, writing, files, last_state, durable, crashes>>
      /\ phase = "down" /\ phase' = "loading"
      /\ proved_block' \in Block \cup {Zero}
      /\ blocks' = UNION {Readable(f) : f \in FilesRead} /\ local' = blocks'
  BY BlocksAssumption DEF Start, disk, IInv, TypeOK
<1>2. blocks' \subseteq Decided
  <2>1. FilesRead \subseteq FileName
    BY DEF FilesRead
  <2>2. \A f \in FileName : Readable(f) \subseteq Decided
    BY DEF Readable, IInv, DecidedInv
  <2>3. QED
    BY <1>1, <2>1, <2>2
<1>3. TypeOK'
  BY <1>1, <1>2, DecidedAssumption DEF IInv, TypeOK
<1>4. WritingInv'
  BY <1>1 DEF IInv, WritingInv, Written, RestsOfState
<1>5. DecidedInv' /\ StateOnDisk'
  BY <1>1, <1>2 DEF IInv, DecidedInv, OnlyDecided, StateOnDisk, Written
<1>6. QED
  BY <1>3, <1>4, <1>5 DEF IInv

LEMMA LoadedStep ==
    ASSUME IInv, Loaded
    PROVE  IInv'
<1>1. /\ UNCHANGED <<blocks, local, last_applied_block, proved_block, files, last_state,
                     durable, writing, crashes>>
      /\ phase = "loading" /\ phase' = "up"
  BY DEF Loaded, memory, disk
<1>2. QED
  BY <1>1 DEF IInv, TypeOK, WritingInv, DecidedInv, OnlyDecided, StateOnDisk, Written

LEMMA StutterStep ==
    ASSUME IInv, UNCHANGED vars
    PROVE  IInv'
  BY DEF IInv, TypeOK, WritingInv, DecidedInv, OnlyDecided, StateOnDisk, Written,
         vars, memory, disk

(* Every step keeps the inductive invariant. *)
LEMMA NextInv == IInv /\ [Next]_vars => IInv'
<1> SUFFICES ASSUME IInv, [Next]_vars PROVE IInv'
  OBVIOUS
<1>1. ASSUME NEW b \in Block, Receive(b) PROVE IInv'
  BY <1>1, ReceiveStep
<1>2. ASSUME NEW b \in Block, Apply(b) PROVE IInv'
  BY <1>2, ApplyStep
<1>3. CASE WriteBlock
  BY <1>3, WriteBlockStep
<1>4. CASE WriteApprovals
  BY <1>4, WriteApprovalsStep
<1>5. CASE TruncateLastState \/ WriteLastState
  BY <1>5, LastStateStep
<1>6. CASE Crash \/ (\E kind \in Torn : CrashWriting(kind))
  BY <1>6, CrashStep
<1>7. CASE Start
  BY <1>7, StartStep
<1>8. CASE Loaded
  BY <1>8, LoadedStep
<1>9. CASE UNCHANGED vars
  BY <1>9, StutterStep
<1>10. QED
  BY <1>1, <1>2, <1>3, <1>4, <1>5, <1>6, <1>7, <1>8, <1>9 DEF Next

-----------------------------------------------------------------------------
(* The theorems. *)

(* The inductive invariant: what is in the files is decided, and a state block
   is named only when it is there. *)
THEOREM FilesInvariance == Spec => []IInv
BY InitInv, NextInv, PTL DEF Spec

(* Every variable keeps its type (BlockFiles). *)
THEOREM FilesTypeCorrect == Spec => []TypeOK
<1>1. IInv => TypeOK
  BY DEF IInv
<1>2. QED
  BY <1>1, FilesInvariance, PTL

(* read_and_apply_local_chain applies what it reads without approvals, and yet
   a node applies and keeps decided blocks only, wherever it is killed. *)
THEOREM DecidedOnly == Spec => []OnlyDecided
<1>1. IInv => OnlyDecided
  BY DEF IInv, DecidedInv
<1>2. QED
  BY <1>1, FilesInvariance, PTL

(* last_state.json, if it can be read at all, names a state block whose record
   is complete, at every moment at which write_block may be killed. *)
THEOREM NamedStateIsOnDisk == Spec => []StateOnDisk
<1>1. IInv => StateOnDisk
  BY DEF IInv
<1>2. QED
  BY <1>1, FilesInvariance, PTL

-----------------------------------------------------------------------------
(* A block and all before it. *)

(* A set that has the parent of each of its blocks. *)
ParentsIn(T) == \A c \in T : Parent[c] # Zero => Parent[c] \in T

(* What every such set with b has. *)
Below(b) == {x \in Block : \A T \in SUBSET Block : b \in T /\ ParentsIn(T) => x \in T}

(* The blocks below b are b, and those below its parent. *)
LEMMA BelowStep ==
    ASSUME NEW b \in Block
    PROVE  Below(b) = {b} \cup (IF Parent[b] = Zero THEN {} ELSE Below(Parent[b]))
<1>1. b \in Below(b) /\ Below(b) \subseteq Block
  BY DEF Below
<1>2. Parent[b] = Zero \/ Parent[b] \in Block
  BY BlocksAssumption
<1>3. CASE Parent[b] = Zero
  <2>1. ParentsIn({b})
    BY <1>3 DEF ParentsIn
  <2>2. Below(b) \subseteq {b}
    BY <2>1 DEF Below
  <2>3. QED
    BY <1>1, <1>3, <2>2
<1>4. CASE Parent[b] # Zero
  <2> DEFINE p == Parent[b]
  <2>1. p \in Block
    BY <1>2, <1>4
  <2>2. ASSUME NEW x \in Below(p)
        PROVE  x \in Below(b)
    <3>1. ASSUME NEW T \in SUBSET Block, b \in T, ParentsIn(T)
          PROVE  x \in T
      <4>1. p \in T
        BY <1>4, <3>1 DEF ParentsIn
      <4>2. QED
        BY <2>2, <3>1, <4>1 DEF Below
    <3>2. x \in Block
      BY <2>2 DEF Below
    <3>3. QED
      BY <3>1, <3>2 DEF Below
  <2>3. p \in Below(p) /\ Below(p) \subseteq Block
    BY <2>1 DEF Below
  <2>4. ParentsIn({b} \cup Below(p))
    <3>1. ASSUME NEW c \in Below(p), Parent[c] # Zero
          PROVE  Parent[c] \in Below(p)
      <4>1. c \in Block /\ Parent[c] \in Block
        BY <2>3, <3>1, BlocksAssumption
      <4>2. ASSUME NEW T \in SUBSET Block, p \in T, ParentsIn(T)
            PROVE  Parent[c] \in T
        <5>1. c \in T
          BY <3>1, <4>2 DEF Below
        <5>2. QED
          BY <3>1, <4>2, <5>1 DEF ParentsIn
      <4>3. QED
        BY <4>1, <4>2 DEF Below
    <3>2. QED
      BY <2>3, <3>1 DEF ParentsIn
  <2>5. Below(b) \subseteq {b} \cup Below(p)
    <3>1. {b} \cup Below(p) \in SUBSET Block
      BY <2>3
    <3>2. QED
      BY <2>4, <3>1 DEF Below
  <2>6. Below(b) = {b} \cup Below(p)
    BY <1>1, <2>2, <2>5
  <2>7. QED
    BY <1>4, <2>6
<1>5. QED
  BY <1>3, <1>4

(* A function that says of every block what is before it, as Line does. *)
IsLine(f) ==
    f = [b \in Block |-> {b} \cup (IF Parent[b] = Zero THEN {} ELSE f[Parent[b]])]

(* So the recursion of Line has a solution, and Line is one. *)
LEMMA LineStep ==
    ASSUME NEW b \in Block
    PROVE  /\ Parent[b] = Zero => Line[b] = {b}
           /\ Parent[b] # Zero => Parent[b] \in Block /\ Line[b] = {b} \cup Line[Parent[b]]
<1> DEFINE f == [c \in Block |-> Below(c)]
<1>1. \A c \in Block : Parent[c] # Zero => Parent[c] \in Block
  BY BlocksAssumption
<1>2. \A c \in Block :
        f[c] = {c} \cup (IF Parent[c] = Zero THEN {} ELSE f[Parent[c]])
  BY <1>1, BelowStep
<1>3. f = [c \in Block |-> f[c]]
  OBVIOUS
<1> HIDE DEF f
<1>4. IsLine(f)
  BY <1>2, <1>3 DEF IsLine
<1>5. Line = CHOOSE g : IsLine(g)
  BY DEF Line, IsLine
<1>6. IsLine(Line)
  BY <1>4, <1>5
<1>7. QED
  BY <1>1, <1>6 DEF IsLine

LEMMA LineBlocks ==
    ASSUME NEW b \in Block
    PROVE  Line[b] \subseteq Block /\ b \in Line[b]
<1> DEFINE S == {c \in Block : ~(Line[c] \subseteq Block)}
<1>1. S = {}
  <2>1. SUFFICES ASSUME S # {} PROVE FALSE
    OBVIOUS
  <2>2. PICK c \in S : Parent[c] \notin S
    BY <2>1, OrderAssumption
  <2>3. QED
    BY <2>2, LineStep
<1>2. QED
  BY <1>1, LineStep

(* What is before a block that is before another is before that one. *)
LEMMA LineTransitive ==
    ASSUME NEW z \in Block, NEW y \in Line[z], NEW x \in Line[y]
    PROVE  x \in Line[z]
<1> DEFINE S == {c \in Block : y \in Line[c] /\ x \notin Line[c]}
<1>1. S = {}
  <2>1. SUFFICES ASSUME S # {} PROVE FALSE
    OBVIOUS
  <2>2. PICK c \in S : Parent[c] \notin S
    BY <2>1, OrderAssumption
  <2>3. QED
    BY <2>2, LineStep
<1>2. QED
  BY <1>1

(* No two blocks are before each other. *)
LEMMA LineAntisymmetric ==
    ASSUME NEW x \in Block, NEW y \in Line[x], x \in Line[y]
    PROVE  x = y
<1> DEFINE S == {a \in Block : \E c \in Line[a] : c # a /\ a \in Line[c]}
<1>1. S = {}
  <2>1. SUFFICES ASSUME S # {} PROVE FALSE
    OBVIOUS
  <2>2. PICK a \in S : Parent[a] \notin S
    BY <2>1, OrderAssumption
  <2>3. PICK c \in Line[a] : c # a /\ a \in Line[c]
    BY <2>2
  <2>4. Parent[a] # Zero /\ Parent[a] \in Block /\ Line[a] = {a} \cup Line[Parent[a]]
    BY <2>2, <2>3, LineStep
  <2>5. c \in Line[Parent[a]]
    BY <2>3, <2>4
  <2>6. a \in Line[Parent[a]]
    BY <2>3, <2>4, <2>5, LineTransitive
  <2>7. Parent[a] # a
    <3>1. {a} \in SUBSET Block /\ {a} # {}
      BY <2>2
    <3>2. PICK d \in {a} : Parent[d] \notin {a}
      BY <3>1, OrderAssumption
    <3>3. QED
      BY <3>2
  <2>8. Parent[a] \in Line[a]
    BY <2>4, LineBlocks
  <2>9. Parent[a] \in S
    BY <2>4, <2>6, <2>7, <2>8
  <2>10. QED
    BY <2>2, <2>9
<1>2. QED
  BY <1>1

(* Between a block and one before it there is a child of that one. *)
LEMMA LineChild ==
    ASSUME NEW a \in Block, NEW x \in Line[a], x # a
    PROVE  \E c \in Line[a] : Parent[c] = x
<1> DEFINE S == {b \in Block : x \in Line[b] /\ x # b /\ ~ \E c \in Line[b] : Parent[c] = x}
<1>1. S = {}
  <2>1. SUFFICES ASSUME S # {} PROVE FALSE
    OBVIOUS
  <2>2. PICK b \in S : Parent[b] \notin S
    BY <2>1, OrderAssumption
  <2>3. Parent[b] # Zero /\ Parent[b] \in Block /\ Line[b] = {b} \cup Line[Parent[b]]
    BY <2>2, LineStep
  <2>4. x \in Line[Parent[b]] /\ Parent[b] # x
    BY <2>2, <2>3
  <2>5. QED
    BY <2>2, <2>3, <2>4
<1>2. QED
  BY <1>1

(* What is before a decided block is decided, and in no later file. *)
LEMMA LineDecided ==
    ASSUME NEW b \in Decided, NEW c \in Line[b]
    PROVE  c \in Decided /\ File[c] <= File[b]
<1> DEFINE S == {d \in Decided : c \in Line[d] /\ ~(c \in Decided /\ File[c] <= File[d])}
<1>1. \A d \in Decided : d \in Block /\ File[d] \in Nat
  BY BlocksAssumption, DecidedAssumption
<1>2. S = {}
  <2>1. SUFFICES ASSUME S # {} PROVE FALSE
    OBVIOUS
  <2>2. PICK d \in S : Parent[d] \notin S
    <3>1. S \in SUBSET Block
      BY <1>1
    <3>2. QED
      BY <2>1, <3>1, OrderAssumption
  <2>3. d \in Decided /\ d \in Block /\ c \in Line[d]
    BY <1>1, <2>2
  <2>4. CASE c = d
    BY <1>1, <2>2, <2>4
  <2>5. CASE c # d
    <3>1. Parent[d] # Zero /\ c \in Line[Parent[d]]
      BY <2>3, <2>5, LineStep
    <3>2. Parent[d] \in Decided /\ File[Parent[d]] <= File[d]
      BY <2>3, <3>1, DecidedAssumption
    <3>3. c \in Decided /\ File[c] <= File[Parent[d]]
      BY <2>2, <3>1, <3>2
    <3>4. QED
      BY <1>1, <2>2, <3>2, <3>3
  <2>6. QED
    BY <2>4, <2>5
<1>3. QED
  BY <1>2

(* Of two decided blocks after a third, one is before the other. *)
LEMMA LineLinear ==
    ASSUME NEW a \in Decided, NEW b \in Decided, NEW s, s \in Line[a], s \in Line[b]
    PROVE  a \in Line[b] \/ b \in Line[a]
<1> DEFINE S == {d \in Decided : s \in Line[d] /\ d \notin Line[b] /\ b \notin Line[d]}
<1>1. \A d \in Decided : d \in Block
  BY DecidedAssumption
<1>2. S = {}
  <2>1. SUFFICES ASSUME S # {} PROVE FALSE
    OBVIOUS
  <2>2. PICK d \in S : Parent[d] \notin S
    <3>1. S \in SUBSET Block
      BY <1>1
    <3>2. QED
      BY <2>1, <3>1, OrderAssumption
  <2>3. d \in Decided /\ d \in Block /\ s \in Line[d] /\ d \notin Line[b] /\ b \notin Line[d]
    BY <1>1, <2>2
  <2>4. s # d
    BY <2>3
  <2>5. Parent[d] # Zero /\ s \in Line[Parent[d]] /\ Line[d] = {d} \cup Line[Parent[d]]
    BY <2>3, <2>4, LineStep
  <2>6. Parent[d] \in Decided
    BY <2>3, <2>5, DecidedAssumption
  <2>7. Parent[d] \in Line[b] /\ Parent[d] # b
    <3>1. b \notin Line[Parent[d]]
      BY <2>3, <2>5
    <3>2. Parent[d] \in Line[b]
      BY <2>2, <2>5, <2>6, <3>1
    <3>3. Parent[d] \in Line[Parent[d]]
      BY <1>1, <2>6, LineBlocks
    <3>4. QED
      BY <3>1, <3>2, <3>3
  <2>8. PICK c \in Line[b] : Parent[c] = Parent[d]
    BY <1>1, <2>7, LineChild
  <2>9. c \in Decided
    BY LineDecided
  <2>10. c = d
    BY <2>3, <2>8, <2>9, DecidedAssumption
  <2>11. QED
    BY <2>3, <2>10
<1>3. QED
  BY <1>2

-----------------------------------------------------------------------------
(* What a node that starts again finds. *)

(* Records are in the file of the day of their block, and what was written
   once, or read, is still there. *)
FiledInv ==
    /\ \A f \in FileName : \A i \in DOMAIN files[f] : File[files[f][i].block] = f
    /\ \A b \in local \cup durable : Written(b)

(* A node that has applied nothing begins at the block that last_state.json
   names. *)
PlaceInv ==
    /\ phase = "down" => last_applied_block = Zero
    /\ phase # "down" /\ last_applied_block = Zero /\ last_state # Zero =>
        proved_block = last_state

(* While the constructor applies the blocks of the files, no others come. *)
LoadInv ==
    phase = "loading" =>
        /\ writing = <<>>
        /\ blocks = UNION {Readable(f) : f \in FilesRead} /\ local = blocks
        /\ last_applied_block # Zero /\ last_state # Zero =>
            last_state \in Line[last_applied_block]

StartInv == FiledInv /\ PlaceInv /\ LoadInv /\ Recoverable

(* Types used throughout. *)
LEMMA Named ==
    ASSUME IInv
    PROVE  /\ last_state # Zero => last_state \in Block /\ last_state \in State
           /\ last_applied_block # Zero => last_applied_block \in Block
           /\ local \subseteq Decided /\ durable \subseteq Decided /\ Decided \subseteq Block
  BY BlocksAssumption, DecidedAssumption DEF IInv, TypeOK, DecidedInv, OnlyDecided

(* The files are as they were, but for new records of the block applied. *)
FilesGrow ==
    /\ \A f \in FileName : \A i \in DOMAIN files[f] :
        i \in DOMAIN files'[f] /\ files'[f][i] = files[f][i]
    /\ \A f \in FileName : \A i \in DOMAIN files'[f] : File[files'[f][i].block] = f

LEMMA FilesStay ==
    ASSUME FiledInv, files' = files
    PROVE  FilesGrow
  BY DEF FiledInv, FilesGrow

LEMMA FilesAppended ==
    ASSUME IInv, FiledInv, NEW kind \in {"block", "approve"} \cup Torn,
           last_applied_block # Zero, AppendRecord(kind)
    PROVE  FilesGrow
<1> DEFINE a == last_applied_block
           r == [kind |-> kind, block |-> a]
<1>1. a \in Block /\ File[a] \in FileName
  BY Named DEF FileName
<1>2. files \in [FileName -> Seq(Record)]
  BY DEF IInv, TypeOK
<1>3. files' = [files EXCEPT ![File[a]] = Append(@, r)]
  BY DEF AppendRecord
<1>4. files[File[a]] \in Seq(Record) /\ Len(files[File[a]]) \in Nat
  BY <1>1, <1>2
<1>5. files'[File[a]] = Append(files[File[a]], r)
  BY <1>1, <1>2, <1>3
<1>6. /\ DOMAIN files'[File[a]] = 1 .. Len(files[File[a]]) + 1
      /\ files'[File[a]][Len(files[File[a]]) + 1] = r
      /\ \A i \in 1 .. Len(files[File[a]]) : files'[File[a]][i] = files[File[a]][i]
  BY <1>2, <1>4, <1>5
<1>7. \A f \in FileName : f # File[a] => files'[f] = files[f]
  BY <1>2, <1>3
<1>8. \A f \in FileName : \A i \in DOMAIN files'[f] : File[files'[f][i].block] = f
  <2> TAKE f \in FileName
  <2> TAKE i \in DOMAIN files'[f]
  <2>1. CASE f # File[a]
    BY <1>7, <2>1 DEF FiledInv
  <2>2. CASE f = File[a] /\ i = Len(files[File[a]]) + 1
    BY <1>6, <2>2
  <2>3. CASE f = File[a] /\ i # Len(files[File[a]]) + 1
    <3>1. i \in DOMAIN files[File[a]] /\ files'[File[a]][i] = files[File[a]][i]
      BY <1>4, <1>6, <2>3
    <3>2. QED
      BY <1>1, <2>3, <3>1 DEF FiledInv
  <2>4. QED
    BY <2>1, <2>2, <2>3
<1>9. QED
  BY <1>8, RecordAppended DEF FilesGrow

(* What is written stays so. *)
LEMMA WrittenStays ==
    ASSUME FilesGrow, NEW b \in Block, Written(b)
    PROVE  Written(b)'
  BY DEF FilesGrow, Written, FileName

LEMMA FiledKept ==
    ASSUME IInv, FiledInv, FilesGrow,
           \A b \in (local' \cup durable') \ (local \cup durable) : Written(b)'
    PROVE  FiledInv'
<1>1. \A b \in local \cup durable : Written(b)'
  BY Named, WrittenStays DEF FiledInv
<1>2. \A b \in local' \cup durable' : Written(b)'
  BY <1>1
<1>3. QED
  BY <1>2 DEF FiledInv, FilesGrow

(* What is recoverable stays so when the files grow by the block applied. *)
LEMMA RecoverableKept ==
    ASSUME IInv, Recoverable, FilesGrow, UNCHANGED <<last_applied_block, last_state>>,
           \A b \in Block : BeingWritten(b) => Written(b)' \/ BeingWritten(b)'
    PROVE  Recoverable'
<1>1. SUFFICES ASSUME last_state # Zero, last_applied_block # Zero,
                      NEW b \in Line[last_applied_block], last_state \in Line[b]
               PROVE  Written(b)' \/ BeingWritten(b)'
  BY DEF Recoverable
<1>2. b \in Block
  BY <1>1, Named, LineBlocks
<1>3. Written(b) \/ BeingWritten(b)
  BY <1>1 DEF Recoverable
<1>4. QED
  BY <1>2, <1>3, WrittenStays

LEMMA StartInit ==
    ASSUME Init
    PROVE  StartInv
<1>1. FiledInv
  BY DEF Init, FiledInv
<1>2. PlaceInv /\ LoadInv /\ Recoverable
  BY DEF Init, PlaceInv, LoadInv, Recoverable
<1>3. QED
  BY <1>1, <1>2 DEF StartInv

LEMMA ReceivePlace ==
    ASSUME IInv, StartInv, NEW b \in Block, Receive(b)
    PROVE  StartInv'
<1>1. /\ UNCHANGED <<local, last_applied_block, proved_block, files, last_state, durable,
                     phase, writing>> /\ phase = "up"
  BY DEF Receive, disk
<1>2. FiledInv'
  BY <1>1, FilesStay, FiledKept DEF StartInv
<1>3. Recoverable'
  BY <1>1, FilesStay, RecoverableKept DEF StartInv, BeingWritten
<1>4. QED
  BY <1>1, <1>2, <1>3 DEF StartInv, PlaceInv, LoadInv

(* The walk back from a state block ends there. *)
LEMMA FirstIsNamed ==
    ASSUME IInv, last_state # Zero, proved_block = last_state, NEW b, FirstBlock(b)
    PROVE  b = last_state
<1>1. last_state \in Block /\ last_state \in State /\ last_state \in Line[last_state]
  BY Named, LineBlocks
<1>2. QED
  BY <1>1 DEF FirstBlock

(* The block applied next follows the last one, or is the one named. *)
LEMMA AppliedNext ==
    ASSUME IInv, StartInv, NEW b \in Block, Apply(b)
    PROVE  \/ last_applied_block # Zero /\ Line[b] = {b} \cup Line[last_applied_block]
           \/ last_applied_block = Zero /\ (last_state # Zero => b = last_state)
<1>1. CASE last_applied_block # Zero
  <2>1. Parent[b] = last_applied_block
    BY <1>1 DEF Apply, Awaited
  <2>2. QED
    BY <1>1, <2>1, LineStep
<1>2. CASE last_applied_block = Zero
  <2>1. ASSUME last_state # Zero PROVE b = last_state
    <3>1. proved_block = last_state
      BY <1>2, <2>1 DEF StartInv, PlaceInv, Apply
    <3>2. FirstBlock(b)
      BY <1>2, <2>1, <3>1 DEF Apply, Awaited
    <3>3. QED
      BY <2>1, <3>1, <3>2, FirstIsNamed
  <2>2. QED
    BY <1>2, <2>1
<1>3. QED
  BY <1>1, <1>2

LEMMA ApplyPlace ==
    ASSUME IInv, StartInv, NEW b \in Block, Apply(b)
    PROVE  StartInv'
<1>1. /\ UNCHANGED <<blocks, local, proved_block, files, last_state, durable, phase>>
      /\ last_applied_block' = b /\ b # Zero /\ writing = <<>>
      /\ phase \in {"loading", "up"}
      /\ b \in local \/ phase = "up"
      /\ writing' = IF b \in local THEN <<>> ELSE Writes(b)
  BY BlocksAssumption DEF Apply, disk
<1>2. \/ last_applied_block # Zero /\ Line[b] = {b} \cup Line[last_applied_block]
      \/ last_applied_block = Zero /\ (last_state # Zero => b = last_state)
  BY AppliedNext
<1>3. FiledInv'
  BY <1>1, FilesStay, FiledKept DEF StartInv
<1>4. PlaceInv'
  BY <1>1 DEF PlaceInv
<1>5. LoadInv'
  <2>1. SUFFICES ASSUME phase = "loading"
                 PROVE  /\ writing' = <<>>
                        /\ blocks' = (UNION {Readable(f) : f \in FilesRead})' /\ local' = blocks'
                        /\ last_state # Zero => last_state \in Line[b]
    BY <1>1 DEF LoadInv
  <2>2. writing' = <<>>
    BY <1>1, <2>1
  <2>3. blocks' = (UNION {Readable(f) : f \in FilesRead})' /\ local' = blocks'
    BY <1>1, <2>1 DEF StartInv, LoadInv, Readable, FilesRead
  <2>4. last_state # Zero => last_state \in Line[b]
    BY <1>2, <2>1, LineBlocks DEF StartInv, LoadInv
  <2>5. QED
    BY <2>2, <2>3, <2>4
<1>6. Recoverable'
  <2>1. SUFFICES ASSUME last_state # Zero, NEW c \in Line[b], last_state \in Line[c]
                 PROVE  Written(c)' \/ BeingWritten(c)'
    BY <1>1 DEF Recoverable
  <2>2. CASE c = b /\ b \in local
    BY <1>1, <2>2 DEF StartInv, FiledInv, Written
  <2>3. CASE c = b /\ b \notin local
    <3>1. writing' # <<>> /\ Head(writing') = "block"
      BY <1>1, <2>3 DEF Writes
    <3>2. QED
      BY <1>1, <2>3, <3>1 DEF BeingWritten
  <2>4. CASE last_applied_block # Zero /\ c \in Line[last_applied_block]
    <3>1. Written(c)
      BY <1>1, <2>1, <2>4 DEF StartInv, Recoverable, BeingWritten
    <3>2. QED
      BY <1>1, <3>1 DEF Written
  <2>5. CASE last_applied_block = Zero
    <3>1. b = last_state /\ c = last_state
      BY <1>2, <2>1, <2>5, LineAntisymmetric
    <3>2. Written(last_state)
      BY <2>1 DEF IInv, StateOnDisk
    <3>3. QED
      BY <1>1, <3>1, <3>2 DEF Written
  <2>6. QED
    BY <1>2, <2>1, <2>2, <2>3, <2>4, <2>5
<1>7. QED
  BY <1>3, <1>4, <1>5, <1>6 DEF StartInv

LEMMA WriteBlockPlace ==
    ASSUME IInv, StartInv, WriteBlock
    PROVE  StartInv'
<1>1. /\ writing # <<>> /\ AppendRecord("block") /\ durable' = durable \cup {last_applied_block}
      /\ UNCHANGED <<blocks, local, last_applied_block, proved_block, last_state, phase>>
  BY DEF WriteBlock, memory
<1>2. last_applied_block # Zero /\ phase = "up"
  BY <1>1 DEF IInv, WritingInv
<1>3. FilesGrow
  BY <1>1, <1>2, FilesAppended DEF StartInv
<1>4. Written(last_applied_block)'
  BY <1>1, <1>2, RecordAppended DEF Written
<1>5. FiledInv'
  BY <1>1, <1>3, <1>4, FiledKept DEF StartInv, Written
<1>6. Recoverable'
  <2>1. \A b \in Block : BeingWritten(b) => Written(b)'
    BY <1>1, <1>4 DEF BeingWritten, Written
  <2>2. QED
    BY <1>1, <1>3, <2>1, RecoverableKept DEF StartInv
<1>7. QED
  BY <1>1, <1>2, <1>5, <1>6 DEF StartInv, PlaceInv, LoadInv

LEMMA WriteApprovalsPlace ==
    ASSUME IInv, StartInv, WriteApprovals
    PROVE  StartInv'
<1>1. /\ writing # <<>> /\ Head(writing) = "approve" /\ AppendRecord("approve")
      /\ UNCHANGED <<blocks, local, last_applied_block, proved_block, last_state, durable, phase>>
  BY DEF WriteApprovals, memory
<1>2. last_applied_block # Zero /\ phase = "up"
  BY <1>1 DEF IInv, WritingInv
<1>3. FilesGrow
  BY <1>1, <1>2, FilesAppended DEF StartInv
<1>4. FiledInv'
  BY <1>1, <1>3, FiledKept DEF StartInv
<1>5. Recoverable'
  BY <1>1, <1>3, RecoverableKept DEF StartInv, BeingWritten
<1>6. QED
  BY <1>1, <1>2, <1>4, <1>5 DEF StartInv, PlaceInv, LoadInv

(* Once a state block is named, it alone has to be recoverable. *)
LEMMA LastStatePlace ==
    ASSUME IInv, StartInv, TruncateLastState \/ WriteLastState
    PROVE  StartInv'
<1>1. /\ writing # <<>> /\ writing' = Tail(writing)
      /\ Head(writing) \in {"truncate", "name"}
      /\ last_state' = Zero \/ last_state' = last_applied_block
      /\ UNCHANGED <<blocks, local, last_applied_block, proved_block, files, durable, phase>>
  BY DEF TruncateLastState, WriteLastState, memory
<1>2. last_applied_block # Zero /\ phase = "up" /\ last_applied_block \in Block
  BY <1>1, EntryDone
<1>3. Written(last_applied_block)
  BY <1>1, EntryDone DEF IInv, WritingInv
<1>4. FiledInv'
  BY <1>1, FilesStay, FiledKept DEF StartInv
<1>5. Recoverable'
  <2>1. SUFFICES ASSUME last_state' = last_applied_block, NEW b \in Line[last_applied_block],
                        last_applied_block \in Line[b]
                 PROVE  Written(b)'
    BY <1>1 DEF Recoverable
  <2>2. b = last_applied_block
    BY <1>2, <2>1, LineAntisymmetric
  <2>3. QED
    BY <1>1, <1>3, <2>2 DEF Written
<1>6. QED
  BY <1>1, <1>2, <1>4, <1>5 DEF StartInv, PlaceInv, LoadInv

LEMMA DiesPlace ==
    ASSUME IInv, StartInv, Dies, FilesGrow, durable' = durable
    PROVE  StartInv'
<1>1. local' = {} /\ last_applied_block' = Zero /\ phase' = "down"
  BY DEF Dies
<1>2. FiledInv'
  BY <1>1, FiledKept DEF StartInv
<1>3. QED
  BY <1>1, <1>2 DEF StartInv, PlaceInv, LoadInv, Recoverable

LEMMA CrashPlace ==
    ASSUME IInv, StartInv, Crash \/ (\E kind \in Torn : CrashWriting(kind))
    PROVE  StartInv'
<1>1. CASE Crash
  BY <1>1, FilesStay, DiesPlace DEF Crash, disk, StartInv
<1>2. ASSUME NEW kind \in Torn, CrashWriting(kind)
      PROVE  StartInv'
  <2>1. AppendRecord(kind) /\ Dies /\ durable' = durable /\ writing # <<>>
    BY <1>2 DEF CrashWriting
  <2>2. last_applied_block # Zero
    BY <2>1 DEF IInv, WritingInv
  <2>3. QED
    BY <2>1, <2>2, FilesAppended, DiesPlace DEF StartInv
<1>3. QED
  BY <1>1, <1>2

(* What is read was written. *)
LEMMA ReadIsWritten ==
    ASSUME IInv, FiledInv, NEW b \in UNION {Readable(f) : f \in FilesRead}
    PROVE  Written(b)
<1>1. PICK f \in FilesRead : b \in Readable(f)
  OBVIOUS
<1>2. f \in FileName
  BY <1>1 DEF FilesRead
<1>3. PICK i \in DOMAIN files[f] : files[f][i].block = b /\ files[f][i].kind = "block"
  BY <1>1 DEF Readable
<1>4. files[f][i] \in Record
  BY <1>2, <1>3 DEF IInv, TypeOK
<1>5. files[f][i] = [kind |-> "block", block |-> b]
  BY <1>3, <1>4 DEF Record
<1>6. File[b] = f
  BY <1>2, <1>3 DEF FiledInv
<1>7. QED
  BY <1>3, <1>5, <1>6 DEF Written

LEMMA StartPlace ==
    ASSUME IInv, StartInv, Start
    PROVE  StartInv'
<1>1. /\ UNCHANGED <<last_applied_block, writing, files, last_state, durable>>
      /\ phase = "down" /\ phase' = "loading"
      /\ proved_block' = IF last_state = Zero THEN ConfigProved ELSE last_state
      /\ blocks' = UNION {Readable(f) : f \in FilesRead} /\ local' = blocks'
  BY DEF Start, disk
<1>2. last_applied_block = Zero /\ writing = <<>>
  BY <1>1 DEF StartInv, PlaceInv, IInv, WritingInv
<1>3. \A b : Written(b)' <=> Written(b)
  BY <1>1 DEF Written
<1>4. FiledInv'
  <2>1. \A b \in local' : Written(b)'
    BY <1>1, <1>3, ReadIsWritten DEF StartInv
  <2>2. QED
    BY <1>1, <2>1, FilesStay, FiledKept DEF StartInv
<1>5. LoadInv'
  BY <1>1, <1>2 DEF LoadInv, Readable, FilesRead
<1>6. QED
  BY <1>1, <1>2, <1>4, <1>5 DEF StartInv, PlaceInv, Recoverable

LEMMA LoadedPlace ==
    ASSUME IInv, StartInv, Loaded
    PROVE  StartInv'
<1>1. /\ UNCHANGED <<blocks, local, last_applied_block, proved_block, files, last_state,
                     durable, writing>>
      /\ phase = "loading" /\ phase' = "up"
  BY DEF Loaded, memory, disk
<1>2. FiledInv'
  BY <1>1, FilesStay, FiledKept DEF StartInv
<1>3. Recoverable'
  BY <1>1, FilesStay, RecoverableKept DEF StartInv, BeingWritten
<1>4. QED
  BY <1>1, <1>2, <1>3 DEF StartInv, PlaceInv, LoadInv

LEMMA StartInvStep == IInv /\ StartInv /\ [Next]_vars => StartInv'
<1> SUFFICES ASSUME IInv, StartInv, [Next]_vars PROVE StartInv'
  OBVIOUS
<1>1. ASSUME NEW b \in Block, Receive(b) \/ Apply(b) PROVE StartInv'
  BY <1>1, ReceivePlace, ApplyPlace
<1>2. CASE WriteBlock
  BY <1>2, WriteBlockPlace
<1>3. CASE WriteApprovals
  BY <1>3, WriteApprovalsPlace
<1>4. CASE TruncateLastState \/ WriteLastState
  BY <1>4, LastStatePlace
<1>5. CASE Crash \/ (\E kind \in Torn : CrashWriting(kind))
  BY <1>5, CrashPlace
<1>6. CASE Start
  BY <1>6, StartPlace
<1>7. CASE Loaded
  BY <1>7, LoadedPlace
<1>8. CASE UNCHANGED vars
  <2>1. UNCHANGED <<blocks, local, last_applied_block, proved_block, files, last_state,
                    durable, writing, phase>>
    BY <1>8 DEF vars, memory, disk
  <2>2. FiledInv' /\ Recoverable'
    BY <2>1, FilesStay, FiledKept, RecoverableKept DEF StartInv, BeingWritten
  <2>3. LoadInv'
    BY <2>1 DEF StartInv, LoadInv, Readable, FilesRead
  <2>4. QED
    BY <2>1, <2>2, <2>3 DEF StartInv, PlaceInv
<1>9. QED
  BY <1>1, <1>2, <1>3, <1>4, <1>5, <1>6, <1>7, <1>8 DEF Next

(* What a start relies on: records are where they are looked for, and what
   was applied since the named state block is there. *)
THEOREM StartInvariance == Spec => [](IInv /\ StartInv)
<1>1. Init => IInv /\ StartInv
  BY InitInv, StartInit
<1>2. IInv /\ StartInv /\ [Next]_vars => (IInv /\ StartInv)'
  BY NextInv, StartInvStep
<1>3. QED
  BY <1>1, <1>2, PTL DEF Spec

(* write_block appends every block applied that did not come from the files,
   so a node that is killed finds, in the files, all it applied since the
   state block that last_state.json names. *)
THEOREM AppliedIsRecoverable == Spec => []Recoverable
<1>1. StartInv => Recoverable
  BY DEF StartInv
<1>2. QED
  BY <1>1, StartInvariance, PTL

-----------------------------------------------------------------------------
(* A start finds what was written. *)

(* Blocks written in a row from the named one are read. *)
LEMMA ReadBack ==
    ASSUME IInv, StartInv, last_state # Zero, \A f \in FilesRead : ~ Misread(f),
           NEW c \in durable, last_state \in Line[c]
    PROVE  c \in UNION {Readable(f) : f \in FilesRead}
<1> DEFINE f == File[c]
<1>1. c \in Decided /\ c \in Block /\ Written(c)
  BY Named DEF StartInv, FiledInv
<1>2. PICK i \in DOMAIN files[f] : files[f][i] = [kind |-> "block", block |-> c]
  BY <1>1 DEF Written
<1>3. f \in FilesRead
  <2>1. f \in FileName
    BY <1>1 DEF FileName
  <2>2. File[last_state] <= f /\ File[last_state] \in Nat /\ f \in Nat
    BY <1>1, Named, LineDecided, BlocksAssumption
  <2>3. QED
    BY <2>1, <2>2 DEF FilesRead
<1>4. files[f] \in Seq(Record)
  BY <1>3 DEF FilesRead, IInv, TypeOK
<1>5. ASSUME NEW k \in 1 .. i
      PROVE  files[f][k].kind \notin Torn
  <2>1. CASE k = i
    BY <1>2, <2>1 DEF Torn
  <2>2. CASE k # i
    <3>1. k \in DOMAIN files[f] /\ k < Len(files[f])
      BY <1>2, <1>4, <2>2
    <3>2. ~ Misread(f)
      BY <1>3
    <3>3. QED
      BY <3>1, <3>2 DEF Misread
  <2>3. QED
    BY <2>1, <2>2
<1>6. c \in Readable(f)
  BY <1>2, <1>5 DEF Readable
<1>7. QED
  BY <1>3, <1>6

(* The constructor stops at the end of the row. *)
LEMMA LoadedToEnd ==
    ASSUME IInv, StartInv, Loaded, last_state # Zero, \A f \in FilesRead : ~ Misread(f),
           NEW b \in durable, last_state \in Line[b],
           \A c \in Line[b] : last_state \in Line[c] => c \in durable
    PROVE  last_applied_block # Zero /\ b \in Line[last_applied_block]
<1>1. phase = "loading" /\ ~ \E c \in Block : Awaited(c)
  BY DEF Loaded
<1>2. blocks = UNION {Readable(f) : f \in FilesRead} /\ local = blocks
  BY <1>1 DEF StartInv, LoadInv
<1>3. \A c \in Line[b] : last_state \in Line[c] => c \in blocks
  BY <1>2, ReadBack
<1>4. last_state \in Block /\ last_state \in State /\ last_state \in Line[last_state]
  BY Named, LineBlocks
<1>5. ASSUME last_applied_block = Zero PROVE FALSE
  <2>1. proved_block = last_state /\ last_state \in blocks
    BY <1>1, <1>3, <1>4, <1>5 DEF StartInv, PlaceInv
  <2>2. \A c \in Line[last_state] : last_state \in Line[c] => c = last_state
    BY <1>4, LineAntisymmetric
  <2>3. FirstBlock(last_state)
    BY <1>4, <2>1, <2>2 DEF FirstBlock
  <2>4. Awaited(last_state)
    BY <1>5, <2>1, <2>3 DEF Awaited
  <2>5. QED
    BY <1>1, <1>4, <2>4
<1>6. last_state \in Line[last_applied_block] /\ last_applied_block \in Decided
        /\ last_applied_block \in Block /\ b \in Decided /\ b \in Block
  BY <1>1, <1>5, Named DEF StartInv, LoadInv, IInv, DecidedInv, OnlyDecided
<1>7. ASSUME last_applied_block \in Line[b], last_applied_block # b PROVE FALSE
  <2>1. PICK c \in Line[b] : Parent[c] = last_applied_block
    BY <1>6, <1>7, LineChild
  <2>2. c \in Block
    BY <1>6, LineBlocks
  <2>3. last_state \in Line[c]
    BY <1>5, <1>6, <2>1, <2>2, LineStep
  <2>4. Awaited(c)
    BY <1>3, <1>5, <2>1, <2>3 DEF Awaited
  <2>5. QED
    BY <1>1, <2>2, <2>4
<1>8. b \in Line[last_applied_block]
  BY <1>6, <1>7, LineLinear, LineBlocks
<1>9. QED
  BY <1>5, <1>8

(* read_and_apply_local_chain comes back to the last block of the unbroken
   row of blocks written since the one that last_state.json names, unless a
   torn record is in the middle of a file. *)
THEOREM NothingIsLost == Spec => NothingLost
<1>1. IInv /\ StartInv /\ [Next]_vars =>
        [phase = "loading" /\ phase' = "up" /\ last_state # Zero
         /\ (\A f \in FilesRead : ~ Misread(f)) =>
            \A b \in durable :
                last_state \in Line[b]
                /\ (\A c \in Line[b] : last_state \in Line[c] => c \in durable)
                => last_applied_block # Zero /\ b \in Line[last_applied_block]]_vars
  <2> SUFFICES ASSUME IInv, StartInv, [Next]_vars, phase = "loading", phase' = "up",
                      last_state # Zero, \A f \in FilesRead : ~ Misread(f),
                      NEW b \in durable, last_state \in Line[b],
                      \A c \in Line[b] : last_state \in Line[c] => c \in durable
               PROVE  last_applied_block # Zero /\ b \in Line[last_applied_block]
    OBVIOUS
  <2>1. Loaded
    BY DEF Next, Receive, Apply, WriteBlock, WriteApprovals, TruncateLastState, WriteLastState,
           Crash, CrashWriting, Dies, Start, vars
  <2>2. QED
    BY <2>1, LoadedToEnd
<1>2. QED
  BY <1>1, StartInvariance, PTL DEF Spec, NothingLost

=============================================================================
