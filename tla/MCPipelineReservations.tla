----------------------- MODULE MCPipelineReservations -----------------------
(* Instances of PipelineReservations for TLC. *)
EXTENDS PipelineReservations, TLC

CONSTANTS j1, j2, j3

AllCalls == Entry
UploadAndRetry == {"upload", "retry"}
LiveCalls == Entry \ {"upload"}

Symmetry == Permutations(Job)
=============================================================================
