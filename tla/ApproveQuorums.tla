--------------------------- MODULE ApproveQuorums ---------------------------
(***************************************************************************)
(* A core list is the sequence of the cores that approve blocks, the       *)
(* master first.  count_approve_for_block takes min_approve approvals of   *)
(* its members as sufficient, or the approvals of all of them.             *)
(***************************************************************************)
EXTENDS Integers, Sequences, FiniteSets

CONSTANT MinApprove   \* min_approve

Members(list) == {list[i] : i \in DOMAIN list}

(* Mutant: one approval less is sufficient. *)
QuorumsShort(list) ==
    {Q \in SUBSET Members(list) :
        Cardinality(Q) >= MinApprove - 1 \/ Cardinality(Q) = Len(list)}

Quorums(list) ==
    {Q \in SUBSET Members(list) :
        Cardinality(Q) >= MinApprove \/ Cardinality(Q) = Len(list)}
=============================================================================
