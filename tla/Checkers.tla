------------------------------ MODULE Checkers ------------------------------
(***************************************************************************)
(* scripts/parity_checker.py and scripts/snapshot_transition_checker.py    *)
(* beside a running pipeline.  Each reads several stores one after the     *)
(* other and compares what it read; between two reads everything moves.    *)
(* The counts and samples they print are left out, the verdicts are kept.  *)
(***************************************************************************)
EXTENDS Pipeline

CONSTANTS
    TolerateInflight,   \* --tolerate-inflight, 0 unless given
    ExpectedQuarantine  \* 53 in the script: rows inject_bad_records leaves

ASSUME CheckAssumption == TolerateInflight \in Nat /\ ExpectedQuarantine \in Nat

VARIABLE check  \* the one run of a checker: its place, what it read, its verdict

checkVars == <<pipelineVars, check>>

(* Three fields are history.  quiet: nothing was under way when the run    *)
(* began, and Postgres' log has not grown since.  refused and overtaken:   *)
(* the ids whose last change had, by then, been rejected or expired, or    *)
(* been overtaken by a repeated snapshot.                                  *)
NotStarted == [script |-> "none", pc |-> "idle", pg |-> <<>>, read |-> {},
               live |-> {}, quiet |-> FALSE, refused |-> {}, overtaken |-> {},
               verdict |-> "none"]

Refused == { t \in Txns : NotApplied(t) }
Passed == { t \in Txns : Overtaken(t) }

ImageOf(r) == [merchant |-> r.merchant, status |-> r.status, wellFormed |-> r.wellFormed]

(* Mutant of LiveRows: tombstones are not filtered out.                    *)
MutAllRows == table

(* load_delta and load_delta_live: the rows that are not tombstones.       *)
LiveRows == { r \in table : ~r.isDelete }

-----------------------------------------------------------------------------
(* parity_checker.py.                                                      *)

ReadPostgres ==
    /\ check.pc = "idle"
    /\ check' = [NotStarted EXCEPT !.script = "parity", !.pc = "delta",
                                   !.pg = pg, !.quiet = Drained,
                                   !.refused = Refused, !.overtaken = Passed]
    /\ UNCHANGED pipelineVars

ReadDelta ==
    /\ check.script = "parity" /\ check.pc = "delta"
    /\ check' = [check EXCEPT !.pc = "dlq", !.live = LiveRows]
    /\ UNCHANGED pipelineVars

(* The comparison: the oracle first, then the decision.                    *)
ParityVerdict(rows, live, dlqKeys) ==
    LET inDelta == { r.txn : r \in live }
        missing == { t \in Txns : rows[t] # Absent } \ inDelta
        quarantined == missing \cap dlqKeys
        extra == { t \in inDelta : rows[t] = Absent }
        mismatched == { r \in live : rows[r.txn] # Absent /\ rows[r.txn] # ImageOf(r) }
    IN  IF Cardinality(quarantined) \notin {0, ExpectedQuarantine} THEN "oracle fail"
        ELSE IF /\ Cardinality(missing \ quarantined) <= TolerateInflight
                /\ extra = {}
                /\ mismatched = {}
                /\ OneRowPerKey(live)
             THEN "pass"
             ELSE "fail"

ReadDlq ==
    /\ check.script = "parity" /\ check.pc = "dlq"
    /\ check' = [check EXCEPT !.pc = "done",
                   !.verdict = ParityVerdict(check.pg, check.live, { r.txn : r \in dlq })]
    /\ UNCHANGED pipelineVars

-----------------------------------------------------------------------------
(* snapshot_transition_checker.py.                                         *)

(* read_full_topic: what Kafka retains, tombstones dropped on decoding.    *)
ReadTopic ==
    /\ check.pc = "idle"
    /\ check' = [NotStarted EXCEPT !.script = "snapshot", !.pc = "delta",
                   !.read = { e \in { topic[pos[1]][pos[2]] : pos \in Retained } :
                                e.schema # "none" },
                   !.quiet = Drained, !.refused = Refused, !.overtaken = Passed]
    /\ UNCHANGED pipelineVars

(* Invariant A, then invariant B; without an "r" event neither is looked   *)
(* at and the table is not read.                                           *)
SnapshotVerdict(events, live) ==
    LET rows == { e \in events : e.op = "r" }
    IN  IF \E e \in rows : e.txn \notin { r.txn : r \in live } THEN "dropped"
        ELSE IF \E e \in rows, f \in events \ rows : e.lsn >= f.lsn THEN "interleave"
        ELSE "pass"

ReadDeltaLive ==
    /\ check.script = "snapshot" /\ check.pc = "delta"
    /\ check' = [check EXCEPT !.pc = "done", !.live = LiveRows,
                   !.verdict = SnapshotVerdict(check.read, LiveRows)]
    /\ UNCHANGED pipelineVars

-----------------------------------------------------------------------------
CheckInit == PipelineInit /\ check = NotStarted

CheckStep == ReadPostgres \/ ReadDelta \/ ReadDlq \/ ReadTopic \/ ReadDeltaLive

(* The pipeline runs on until the verdict: nothing looks at what follows.  *)
CheckNext ==
    \/ /\ check.pc # "done"
       /\ PipelineNext
       /\ check' = [check EXCEPT !.quiet = @ /\ lsn' = lsn]
    \/ CheckStep

CheckSpec == CheckInit /\ [][CheckNext]_checkVars

-----------------------------------------------------------------------------
Done(script) == check.script = script /\ check.pc = "done" /\ check.quiet

(* The ids whose rows in the two databases differ, as the check read them. *)
ReadDifferent ==
    { t \in Txns : { ImageOf(r) : r \in RowsOf(check.live, t) } # {check.pg[t]} \ {Absent} }

(* A parity check that begins when nothing is under way, on a database     *)
(* nobody writes to until it ends, fails only over a difference, and finds *)
(* one only in an id whose last change had been rejected, expired or       *)
(* overtaken before it began: a connector that emits old events again, and *)
(* a driver that merges them between the three reads, add none.            *)
NoFalseParityAlarm ==
    Done("parity") =>
      /\ check.verdict # "pass" => ReadDifferent # {}
      /\ ReadDifferent \subseteq check.refused \cup check.overtaken

(* And what it counts as quarantined had indeed been rejected last,        *)
(* although it looks only for the key anywhere in the DLQ: on such a run   *)
(* without expired records the DLQ never hides a row that the MERGE lost.  *)
QuarantineHidesNothing ==
    Done("parity") /\ lost = {} =>
      { t \in Txns : check.pg[t] # Absent } \ { r.txn : r \in check.live } \subseteq check.refused

(* The snapshot checker's alarms have causes outside the MERGE: each key   *)
(* it misses was deleted since the snapshot or had its last change         *)
(* refused, and events interleave only when the connector took its         *)
(* snapshot again.                                                         *)
SnapshotAlarmExplained ==
    Done("snapshot") =>
      /\ check.verdict = "dropped" =>
           \A e \in check.read : e.op = "r" /\ e.txn \notin { r.txn : r \in check.live } =>
             pg[e.txn] = Absent \/ e.txn \in check.refused
      /\ check.verdict = "interleave" => restarts > 0
=============================================================================
