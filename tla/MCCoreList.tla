----------------------------- MODULE MCCoreList -----------------------------
(* Instances of CoreList for TLC: three registered cores, lists of two. *)
EXTENDS CoreList

CONSTANTS c1, c2, c3

MCConfigList == <<c1, c2, c3>>

(* Some order of the cores that depends on the seed: they stand in a circle
   and the seed tells where to begin; the first two get a place. *)
MCShuffle == [seed \in Height \X Generation \X Candidates |->
    LET circle == [i \in 1..3 |-> <<c1, c2, c3>>[1 + ((i + seed[1] + seed[2]) % 3)]]
    IN  SubSeq(SelectSeq(circle, LAMBDA c : c \in seed[3]), 1, 2)]

All == {c1, c2, c3}

(* What c1 sees changes, down to itself alone. *)
MCChangingViews == [n \in Core |-> IF n = c1 THEN {{c1}, All} ELSE {All}]
=============================================================================
