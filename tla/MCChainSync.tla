----------------------------- MODULE MCChainSync -----------------------------
(* Instances of ChainSync for TLC. *)
EXTENDS ChainSync

CONSTANTS m, q

MCOldest == [p \in Peer |-> 1]

MCStarts == {[applied |-> 1, proved |-> 0], [applied |-> 0, proved |-> 2],
             [applied |-> 0, proved |-> 0]}
=============================================================================
