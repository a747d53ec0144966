---------------------------- MODULE MCStartForm ----------------------------
(***************************************************************************)
(* StartForm for TLC: every bound is a number.                             *)
(***************************************************************************)
EXTENDS StartForm
=============================================================================
