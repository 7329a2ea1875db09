------------------------------ MODULE Requests ------------------------------
(***************************************************************************)
(* What a client promises those who send requests through it: each request *)
(* has one outcome at most, which is final.  It is lost in silence, or its *)
(* caller is called back: with the reply to this very request, with what   *)
(* the server answers to a sender it does not accept, with nothing, or,    *)
(* once some reply was broken off half-way, with bytes of a wrong message. *)
(* Connections, their failures and the parser do not show.                 *)
(***************************************************************************)
EXTENDS Naturals

CONSTANT MAX_TASKS   \* bound: requests sent

VARIABLES
    sent,      \* number of requests sent; they are numbered from 0
    outcome,   \* outcome[t]: what has come of request t
    broken     \* whether a reply was broken off

vars == <<sent, outcome, broken>>

Init ==
    /\ sent = 0
    /\ outcome = [t \in 0..(MAX_TASKS - 1) |-> << >>]
    /\ broken = FALSE

Send ==
    /\ sent < MAX_TASKS
    /\ sent' = sent + 1
    /\ UNCHANGED <<outcome, broken>>

Break == broken' = TRUE /\ UNCHANGED <<sent, outcome>>

Settle(t, what) ==
    /\ t < sent /\ outcome[t] = << >>
    /\ what = "garbage" => broken
    /\ outcome' = [outcome EXCEPT ![t] = <<what>>]
    /\ broken' \in {broken, TRUE}
    /\ UNCHANGED sent

Next ==
    \/ Send
    \/ Break
    \/ \E t \in 0..(MAX_TASKS - 1) :
       \E what \in {"own", "error", "empty", "garbage", "lost"} : Settle(t, what)

Spec == Init /\ [][Next]_vars
=============================================================================
