---------------------------- MODULE MCProcessingRun ----------------------------
(* Instances of ProcessingRun for TLC. *)
EXTENDS ProcessingRun, TLC

CONSTANTS j1, j2, j3

WakeCalls == {"insert", "enqueue", "cancel"}
RetryCalls == {"insert", "retry"}
LiveCalls == {"insert", "retry", "sdkDelete", "delete"}

Symmetry == Permutations(Job)
=============================================================================
