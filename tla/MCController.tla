---------------------------- MODULE MCController ----------------------------
(* Instances of Controller for TLC: three cores; a1 and a2 compete for the *)
(* place after the genesis block, b1 follows a1.                           *)
EXTENDS Controller, TLC

CONSTANTS c1, c2, c3, a1, a2, b1

MCParent == [b \in Block |-> IF b = b1 THEN a1 ELSE Genesis]

MCConfigList == <<c1, c2, c3>>

(* The master moves from c1 to c2 in the second generation. *)
MCListsOf == [g \in Generation |-> IF g = 1 THEN {<<c1, c2, c3>>} ELSE {<<c2, c1, c3>>}]
=============================================================================
