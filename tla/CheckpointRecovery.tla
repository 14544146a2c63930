------------------------- MODULE CheckpointRecovery -------------------------
(***************************************************************************)
(* The driver when an operator deletes the Spark checkpoint while it is    *)
(* down, as README.md describes for a torn checkpoint.  The ledger is a    *)
(* Delta table of its own and keeps its rows; the fresh checkpoint counts  *)
(* batches from 0 again and starts where --starting-offsets says.          *)
(***************************************************************************)
EXTENDS PaymentsCdcJob

CONSTANT MaxDeletions  \* bound: deletions of the checkpoint

VARIABLES
    deletions,  \* how often the checkpoint was deleted
    inherited   \* history: the ledger at the last deletion

recoveryVars == <<vars, deletions, inherited>>

DeleteCheckpoint ==
    /\ Driver \notin up
    /\ offsets # <<>>
    /\ deletions < MaxDeletions
    /\ deletions' = deletions + 1
    /\ offsets' = <<>>
    /\ acked' = 0
    /\ inherited' = ledger
    /\ UNCHANGED <<kafka, process, pgMerchants, sinks, crashes>>

RecoveryNext == (Next /\ UNCHANGED <<deletions, inherited>>) \/ DeleteCheckpoint

RecoverySpec ==
    Init /\ deletions = 0 /\ inherited = {} /\ [][RecoveryNext]_recoveryVars

-----------------------------------------------------------------------------
(* With --starting-offsets earliest, a fresh checkpoint reads the topic    *)
(* from its beginning and applies it: whatever the new commit log covers   *)
(* is settled.  payments_cdc_job.py:242 logs "FRESH START;                 *)
(* startingOffsets=... APPLIES"; README.md:553 names only "latest" as      *)
(* losing the backlog.                                                     *)
FreshStartLosesNothing == NoSilentLoss

(* What is left of the guarantee: a batch of the new commit log is settled *)
(* unless the ledger already had its id when the checkpoint was deleted.   *)
(* The damage ends with the ids of the old ledger: an id the driver adds   *)
(* since, and any batch it replays since, is as good as ever.              *)
OnlyInheritedIdsSkipped ==
    \A b \in 0..(acked - 1) : b \in inherited \/ BatchSettled(b)
=============================================================================
