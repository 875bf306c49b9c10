--------------------------- MODULE MCGuestRetention ---------------------------
(***************************************************************************)
(* GuestRetention with two notes, so that one may be written or expire     *)
(* while the other is removed.                                             *)
(***************************************************************************)
EXTENDS GuestRetention

CONSTANTS n1, n2

TwoNotes == {n1, n2}
=============================================================================
