---------------------------- MODULE MCRecording ----------------------------
(***************************************************************************)
(* Recording on small instances: guest uploads that share the limiter and  *)
(* the retention thread, ordinary uploads that share a quota.              *)
(***************************************************************************)
EXTENDS Recording, TLC

CONSTANTS g1, g2, o1, o2, s1, none

TwoGuests == {g1, g2}
OneSession == {s1}
SmallSizes == {1, 2}
SmallRawSizes == {0, 1, 2, 3}
GuestSymmetry == Permutations(TwoGuests)
=============================================================================
