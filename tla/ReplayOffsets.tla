--------------------------- MODULE ReplayOffsets ----------------------------
(***************************************************************************)
(* scripts/chaos/replay_offsets.py next to a running driver: a second      *)
(* process calls the same process_batch against the same DLQ, Delta table  *)
(* and ledger.  --mode lsn-guard replays a Kafka range with commit=False   *)
(* under an id no Spark batch has; --mode ledger-skip calls process_batch  *)
(* with an empty DataFrame, a batch id from the command line and           *)
(* commit=True; --mode both does the first and then the second.            *)
(*                                                                         *)
(* The script's own assertions (row count and sum before and after) are    *)
(* left out: they only decide what it prints.                              *)
(*                                                                         *)
(* Both processes commit to one Delta log on s3a://, and build_spark sets  *)
(* no log store: the default one for S3 sees the commits of its own        *)
(* process, but asks the store whether a version is there and writes it in *)
(* two requests.  A commit of the other process that comes between the two *)
(* is overwritten, and neither process hears of it.                        *)
(***************************************************************************)
EXTENDS PaymentsCdcJob

CONSTANTS
    Harness,       \* the replay script's process
    ReplayId,      \* 999_999_999, greater than any batch id of the model
    KnownBatchId   \* --known-batch-id, 1 unless given

ASSUME HarnessAssumption == Harness \in Callers \ {Driver}
ASSUME ReplayIdsAssumption == ReplayId \in Nat /\ KnownBatchId \in Nat

VARIABLE previous  \* Delta: the version of the table before the current one

replayVars == <<vars, previous>>

(* read_kafka_range: what Kafka still holds between two positions of each  *)
(* partition; the defaults are the earliest and the latest.                *)
KafkaRange(lo, hi) ==
    { pos \in Retained : lo[pos[1]] < pos[2] /\ pos[2] <= hi[pos[1]] }

(* Mutant of LsnGuardCall: the replay commits the ledger, under an id that *)
(* a Spark batch will have.                                                *)
MutReplayCommits ==
    /\ Harness \notin up
    /\ \E lo, hi \in [Partitions -> 0..MaxRecords] :
         /\ ~Undecodable(KafkaRange(lo, hi))
         /\ EnterCall(Harness, KnownBatchId, TRUE, Deserialized(KafkaRange(lo, hi)))
    /\ up' = up \cup {Harness}
    /\ UNCHANGED <<kafka, checkpoint, registry, pgMerchants, sinks, crashes>>

(* run_lsn_guard_test, up to its call of process_batch.  An unknown schema *)
(* id raises before the call and the script ends without any effect.       *)
LsnGuardCall ==
    /\ Harness \notin up
    /\ \E lo, hi \in [Partitions -> 0..MaxRecords] :
         /\ ~Undecodable(KafkaRange(lo, hi))
         /\ EnterCall(Harness, ReplayId, FALSE, Deserialized(KafkaRange(lo, hi)))
    /\ up' = up \cup {Harness}
    /\ UNCHANGED <<kafka, checkpoint, registry, pgMerchants, sinks, crashes>>

(* run_ledger_skip_test: in a process of its own, or after the first test. *)
LedgerSkipCall(id) ==
    /\ call[Harness].pc \in {"idle", "returned"}
    /\ EnterCall(Harness, id, TRUE, {})
    /\ up' = up \cup {Harness}
    /\ UNCHANGED <<kafka, checkpoint, registry, pgMerchants, sinks, crashes>>

(* The script ends; it may be run again.                                   *)
HarnessExit ==
    /\ call[Harness].pc = "returned"
    /\ Stop(Harness)
    /\ UNCHANGED <<kafka, checkpoint, pgMerchants, sinks, crashes>>

-----------------------------------------------------------------------------
(* Two processes at one Delta log.                                         *)

(* The positions of records the table has seen and `new` has not.          *)
Unseen(new) ==
    { pos \in UNION { {p} \X (1..Len(topic[p])) : p \in Partitions } :
        /\ UpToDate(table, FlatRow(pos[1], pos[2]))
        /\ ~UpToDate(new, FlatRow(pos[1], pos[2])) }

(* c found no version after its snapshot, another process wrote it, and    *)
(* now c writes it: its MERGE of the snapshot replaces the MERGE of the    *)
(* other.  The PUT overlaps one commit of the other process, not several.  *)
MergeOverwrites(c) ==
    /\ call[c].pc = "commit"
    /\ call[c].base = previous
    /\ table # previous
    /\ \E staged \in DedupLatest(call[c].valid) :
         table' = MergeInto(previous, staged)
    /\ lost' = lost \cup Unseen(table')
    /\ call' = [call EXCEPT ![c].pc = "ledger", ![c].base = {}]
    /\ UNCHANGED <<topic, head, checkpoint, up, registry, pgMerchants, ledger, dlq,
                   crashes, previous>>

(* Any other commit that changes the table leaves the old one behind it.   *)
KeepPrevious == previous' = IF table' = table THEN previous ELSE table

-----------------------------------------------------------------------------
JobNext ==
    \/ Next
    \/ ProcessBatch(Harness)
    \/ Failure(Harness)

(* The script used as the help of --known-batch-id asks: "A batch_id that  *)
(* is already present in the ledger".                                      *)
HelpedNext ==
    \/ JobNext
    \/ LsnGuardCall
    \/ \E id \in ledger : LedgerSkipCall(id)
    \/ HarnessExit

ReplayInit == Init /\ previous = {}

ReplayNext ==
    \/ HelpedNext /\ KeepPrevious
    \/ \E c \in {Driver, Harness} : MergeOverwrites(c)

ReplaySpec == ReplayInit /\ [][ReplayNext]_replayVars

(* The script with whatever id it is given: nothing in it, or in           *)
(* process_batch, checks that the id is in the ledger.                     *)
UncheckedReplayNext ==
    \/ (JobNext \/ LsnGuardCall \/ LedgerSkipCall(KnownBatchId) \/ HarnessExit)
         /\ KeepPrevious
    \/ \E c \in {Driver, Harness} : MergeOverwrites(c)

UncheckedReplaySpec == ReplayInit /\ [][UncheckedReplayNext]_replayVars

-----------------------------------------------------------------------------
(* A row of the table that does not give way to a later change of its      *)
(* transaction was in a commit that the other process overwrote; and what  *)
(* such an overwrite leaves is one MERGE on from the version before, so    *)
(* that it takes back one commit and never two.                            *)
OnlyOverwritesTakeBack ==
    [][ \/ Advances(table, table')
        \/ Advances(previous, table') /\ previous' = previous ]_replayVars

(* Replaying records that the table already reflects is a pure no-op: when *)
(* every row the harness stages comes from an acknowledged batch, was not  *)
(* quarantined and not lost, its MERGE changes no row, even with the       *)
(* driver merging newer batches between the harness's read and its MERGE.  *)
(* That the MERGE's own snapshot is current is the condition for it.       *)
Reflected(r) ==
    /\ \E b \in 0..(acked - 1) : InBatch(b, r.partition, r.offset)
    /\ <<r.partition, r.offset>> \notin lost
    /\ r \notin dlq

ReplayCommits ==
    /\ call[Harness].pc = "commit" /\ call'[Harness].pc = "ledger"
    /\ \A r \in call[Harness].valid : Reflected(r)

ReplayIsNoop ==
    [][ReplayCommits /\ table = call[Harness].base => table' = table]_replayVars

(* README.md:306: "Replaying committed offsets is a no-op", whatever the   *)
(* driver commits while the replay runs.                                   *)
ReplayIsAlwaysNoop == [][ReplayCommits => table' = table]_replayVars

(* README.md:38: replay harnesses call process_batch with commit=False "so *)
(* a fake batch_id cannot poison the ledger".  A poisoned id shows when    *)
(* the driver skips and acknowledges its own batch of that id: whatever    *)
(* the ledger and the commit log both name is settled.                     *)
HarnessCannotPoison == \A b \in ledger : b < acked => BatchSettled(b)
=============================================================================
