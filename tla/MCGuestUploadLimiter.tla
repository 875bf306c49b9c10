------------------------ MODULE MCGuestUploadLimiter ------------------------
(***************************************************************************)
(* GuestUploadLimiter on a small instance: enough uploads of two sessions  *)
(* to fill the session limit, the global limit and the concurrency limit,  *)
(* and enough time for a window to pass and a second one to fill.          *)
(***************************************************************************)
EXTENDS GuestUploadLimiter, TLC

CONSTANTS u1, u2, u3, u4, u5, s1, s2

MCRequests == {u1, u2, u3, u4, u5}
MCSessions == {s1, s2}
Symmetry == Permutations(MCRequests) \cup Permutations(MCSessions)
=============================================================================
