-------------------------- MODULE MCClientSession --------------------------
(* ClientSession for TLC. *)
EXTENDS ClientSession

CONSTANTS u1, u2

TwoUsers == {u1, u2}
=============================================================================
