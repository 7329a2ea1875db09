---------------------------- MODULE MCBlockFiles ----------------------------
(* An instance of BlockFiles for TLC: two days, each with a state block and *)
(* a block after it; the configuration proves the second block of day one. *)
EXTENDS BlockFiles

CONSTANTS s1, b1, s2, b2, r2

MCParent == [b \in Block |->
    IF b = s1 THEN Zero ELSE IF b = b1 THEN s1 ELSE IF b = s2 THEN b1 ELSE s2]

MCFile == [b \in Block |-> IF b \in {s1, b1} THEN 1 ELSE 2]
=============================================================================
