------------------------------- MODULE MCPortal -------------------------------
(***************************************************************************)
(* Portal with two messages, one of which may be linked.                   *)
(***************************************************************************)
EXTENDS Portal

CONSTANTS m1, m2

TwoMessages == {m1, m2}
=============================================================================
