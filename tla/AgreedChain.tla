---------------------------- MODULE AgreedChain ----------------------------
(***************************************************************************)
(* What the core nodes promise together: one chain of blocks, decided a    *)
(* block at a time, which every node follows from its first block on, at   *)
(* its own pace and without ever going back.                               *)
(***************************************************************************)
CONSTANTS Core, Block, Genesis, Parent

VARIABLES
    decided,   \* the blocks of the chain
    tip        \* tip[n]: the last block node n followed it to

vars == <<decided, tip>>

Init == decided = {} /\ tip = [n \in Core |-> Genesis]

(* Node n takes the next block of the chain, or decides it. *)
Apply(n, b) ==
    /\ Parent[b] = tip[n]
    /\ \A c \in decided : Parent[c] = tip[n] => c = b
    /\ decided' = decided \cup {b}
    /\ tip' = [tip EXCEPT ![n] = b]

Next == \E n \in Core, b \in Block : Apply(n, b)

Spec == Init /\ [][Next]_vars
=============================================================================
