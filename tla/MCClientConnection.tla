-------------------------- MODULE MCClientConnection --------------------------
(* An instance of ClientConnection for TLC. *)
EXTENDS ClientConnection

CONSTANTS s1, s2
=============================================================================
