------------------------ MODULE MCCheckpointRecovery ------------------------
(***************************************************************************)
(* The job of MCPaymentsCdcJob, with a checkpoint that is deleted.         *)
(***************************************************************************)
EXTENDS MCPaymentsCdcJob, CheckpointRecovery
=============================================================================
