----------------------------- MODULE MCRecordTab -----------------------------
(***************************************************************************)
(* RecordTab with three presses of the record button: one that is stopped  *)
(* or uploaded, one that waits for the microphone and one that records.    *)
(***************************************************************************)
EXTENDS RecordTab

CONSTANTS a1, a2, a3

ThreeAttempts == {a1, a2, a3}
=============================================================================
