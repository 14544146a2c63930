------------------------------ MODULE Injection ------------------------------
(***************************************************************************)
(* scripts/inject_bad_records.py and scripts/inject_late_delete.py against *)
(* a running pipeline.  The first commits rows the validator must reject,  *)
(* publishes a rogue record that Postgres could not hold, waits for each   *)
(* in the DLQ and looks whether it leaked into the table; its --cleanup    *)
(* deletes the rows of the ids it dumped.  The second publishes a create,  *)
(* a delete and an older update of one id, first as one burst and then one *)
(* by one, and looks whether the update brings the row back.               *)
(*                                                                         *)
(* A sleep or a timeout may be over at any moment, however far the         *)
(* pipeline has come.  The generator does not run, so that the only        *)
(* transactions of Postgres are the scripts'.                              *)
(***************************************************************************)
EXTENDS Checkers

CONSTANTS
    Tests,     \* the tests of the bad-record suite, in order
    RowOf,     \* the row each id of the suite is given
    IntraId,   \* the id of test_intra_batch
    CrossId,   \* the id of test_cross_batch
    Merchant   \* MERCH_001, the merchant of the late-delete script

(* A test of the suite: the ids of good and of bad records, and whether    *)
(* they go through Postgres.                                               *)
TestShape == [inPostgres : BOOLEAN, good : SUBSET Txns, bad : SUBSET Txns]

ASSUME TestsAssumption ==
    Tests \in Seq(TestShape) /\ Tests # <<>> /\ RowOf \in [Txns -> Image]
(* Two calls of new_tid.                                                   *)
ASSUME LateIdsAssumption == IntraId # CrossId

VARIABLES
    version,  \* Delta: the version of the transactions table
    script    \* the script that runs: its place and what it has seen

injectionVars == <<checkVars, version, script>>

(* pending is history: at the verdict a record of the id was not yet in an *)
(* acknowledged batch.                                                     *)
NewScript(name) ==
    [name |-> name, pc |-> "start", test |-> 1, ok |-> TRUE, pgIds |-> {},
     version |-> 0, verdict |-> "none", pending |-> FALSE]

LiveIds == { r.txn : r \in LiveRows }
DlqKeys == { r.txn : r \in dlq }

Go(place) == script' = [script EXCEPT !.pc = place]
OnlyScript == UNCHANGED <<checkVars, version>>

(* An assertion, a FATAL exit or a kill outside of a transaction: nothing  *)
(* is cleaned up, and the suite has written no ids.                        *)
ScriptDies ==
    /\ script.pc \notin {"dead", "done", "cleaned"}
    /\ written = <<>>
    /\ Go("dead")
    /\ OnlyScript

-----------------------------------------------------------------------------
(* inject_bad_records.py.                                                  *)

(* check_streaming_job_alive: pgrep finds the driver, once.                *)
StartSuite ==
    /\ script.name = "bad" /\ script.pc = "start"
    /\ Driver \in up
    /\ Go("inject")
    /\ OnlyScript

Test == Tests[script.test]
Injecting ==
    script.name = "bad" /\ script.pc = "inject" /\ Test.inPostgres

(* insert_row, or the one transaction of the mixed batch: a statement for  *)
(* each row, in any order,                                                 *)
InjectRow ==
    /\ Injecting
    /\ \E t \in Test.good \cup Test.bad : InsertRow(t, RowOf[t])
    /\ UNCHANGED <<check, version, script>>

(* and a commit.                                                           *)
CommitRows ==
    /\ Injecting
    /\ { written[k].txn : k \in DOMAIN written } = Test.good \cup Test.bad
    /\ CommitTransaction
    /\ Go("presence")
    /\ UNCHANGED <<check, version>>

(* publish_rogue_avro: a record Debezium would never emit, with an LSN far *)
(* beyond the log's.                                                       *)
InjectRogue ==
    /\ script.name = "bad" /\ script.pc = "inject" /\ ~Test.inPostgres
    /\ \E t \in Test.bad :
         Publish(PartitionOf[t], RowEvent("c", t, RowOf[t], MaxChanges + 1))
    /\ Go("presence")
    /\ UNCHANGED <<source, check, version>>

(* Each wait ends when it has seen everything, or when its time is up.     *)

(* wait_for_delta_presence of the good ids.                                *)
AwaitPresence ==
    /\ script.name = "bad" /\ script.pc = "presence"
    /\ script' = [script EXCEPT !.pc = "dlq", !.ok = @ /\ Test.good \subseteq LiveIds]
    /\ OnlyScript

(* wait_for_dlq: the keys of the whole DLQ, read from its beginning.       *)
AwaitDlq ==
    /\ script.name = "bad" /\ script.pc = "dlq"
    /\ script' = [script EXCEPT !.pc = "absence", !.ok = @ /\ Test.bad \subseteq DlqKeys]
    /\ OnlyScript

(* settle_absence, and the next test; the bad ids of this one are kept for *)
(* the dump.                                                               *)
SettleAbsence ==
    /\ script.name = "bad" /\ script.pc = "absence"
    /\ script' = [script EXCEPT
         !.ok = @ /\ Test.bad \cap LiveIds = {},
         !.pgIds = IF Test.inPostgres THEN @ \cup Test.bad ELSE @,
         !.pc = IF script.test = Len(Tests) THEN "dump" ELSE "inject",
         !.test = IF script.test = Len(Tests) THEN @ ELSE @ + 1]
    /\ OnlyScript

(* _dump_ids; then run_suite returns.                                      *)
DumpIds ==
    /\ script.name = "bad" /\ script.pc = "dump"
    /\ Go("dumped")
    /\ OnlyScript

(* --cleanup: one DELETE of the dumped ids Postgres has.                   *)
DeleteDumped ==
    /\ script.name = "bad" /\ script.pc = "dumped"
    /\ \E t \in script.pgIds : DeleteRow(t)
    /\ UNCHANGED <<check, version, script>>

Cleanup ==
    /\ script.name = "bad" /\ script.pc = "dumped"
    /\ \A t \in script.pgIds : view[t] = Absent
    /\ CommitTransaction \/ (written = <<>> /\ UNCHANGED pipelineVars)
    /\ Go("cleaned")
    /\ UNCHANGED <<check, version>>

(* The script dies before it commits, and Postgres rolls back.             *)
DieInTransaction ==
    /\ script.name = "bad"
    /\ Rollback
    /\ Go("dead")
    /\ UNCHANGED <<check, version>>

BadRecordSuite == \/ StartSuite \/ InjectRow \/ CommitRows \/ InjectRogue
                  \/ AwaitPresence \/ AwaitDlq \/ SettleAbsence \/ DumpIds
                  \/ DeleteDumped \/ Cleanup \/ DieInTransaction

-----------------------------------------------------------------------------
(* inject_late_delete.py.                                                  *)

(* The program: each event is published and flushed; between two events    *)
(* the script sleeps, and the other entries look at the table.             *)
Late(op, t, position) ==
    [txn |-> t, lsn |-> position, op |-> op, merchant |-> Merchant,
     status |-> CHOOSE s \in Statuses : TRUE, wellFormed |-> TRUE, schema |-> "known"]

(* What the two scripts publish themselves fits the schema of the topic.   *)
ASSUME InjectedEventsAssumption ==
    /\ \A t \in Txns : RowEvent("c", t, RowOf[t], MaxChanges + 1) \in Events
    /\ \A op \in {"c", "u", "d"}, t \in {IntraId, CrossId}, n \in 1..3 :
         Late(op, t, n) \in Events

LateProgram ==
    << [op |-> "version", txn |-> IntraId, lsn |-> 0],
       [op |-> "c", txn |-> IntraId, lsn |-> 1], [op |-> "d", txn |-> IntraId, lsn |-> 3],
       [op |-> "u", txn |-> IntraId, lsn |-> 2], [op |-> "intra", txn |-> IntraId, lsn |-> 3],
       [op |-> "c", txn |-> CrossId, lsn |-> 1], [op |-> "seeded", txn |-> CrossId, lsn |-> 1],
       [op |-> "d", txn |-> CrossId, lsn |-> 3], [op |-> "tombstone", txn |-> CrossId, lsn |-> 3],
       [op |-> "u", txn |-> CrossId, lsn |-> 2], [op |-> "final", txn |-> CrossId, lsn |-> 3] >>

Line == LateProgram[script.test]

(* assert_pipeline_idle: the same version before and after a pause.        *)
StartLate ==
    /\ script.name = "late" /\ script.pc = "start"
    /\ Driver \in up
    /\ script' = [script EXCEPT !.pc = "quiet", !.version = version]
    /\ OnlyScript

CheckIdle ==
    /\ script.name = "late" /\ script.pc = "quiet"
    /\ Go(IF version = script.version THEN "run" ELSE "dead")
    /\ OnlyScript

(* v_before = delta_version.                                               *)
ReadVersion ==
    /\ script.name = "late" /\ script.pc = "run" /\ Line.op = "version"
    /\ script' = [script EXCEPT !.test = @ + 1, !.version = version]
    /\ OnlyScript

(* publish, with a flush after each event.                                 *)
PublishLate ==
    /\ script.name = "late" /\ script.pc = "run" /\ Line.op \in {"c", "d", "u"}
    /\ Publish(PartitionOf[Line.txn], Late(Line.op, Line.txn, Line.lsn))
    /\ script' = [script EXCEPT !.test = @ + 1]
    /\ UNCHANGED <<source, check, version>>

Pending(t) == \E pos \in ChangesOf(t) :
                \A b \in 0..(acked - 1) : ~InBatch(b, pos[1], pos[2])

(* query_delta asserts that there is at most one row.                      *)
RowsSeen == RowsOf(table, Line.txn)
Tombstone(r) == r.isDelete /\ r.lsn = 3

IntraVerdict ==
    IF version - script.version # 1 THEN "straddled"
    ELSE IF \E r \in RowsSeen : Tombstone(r) THEN "pass"
    ELSE "not landed"

CrossVerdict ==
    CASE Line.op = "seeded" -> IF \E r \in RowsSeen : r.lsn = 1 THEN "none" ELSE "not landed"
      [] Line.op = "tombstone" -> IF \E r \in RowsSeen : Tombstone(r) THEN "none"
                                                                    ELSE "not landed"
      [] Line.op = "final" -> IF \E r \in RowsSeen : Tombstone(r) THEN "pass"
                                                                ELSE "resurrected"

(* A look at the table.  After the first test the second runs in any case; *)
(* in the second, the first FAIL ends the test.                            *)
LookLate ==
    /\ script.name = "late" /\ script.pc = "run" /\ Line.op \notin {"version", "c", "d", "u"}
    /\ LET verdict == IF Cardinality(RowsSeen) > 1 THEN "duplicate"
                      ELSE IF Line.op = "intra" THEN IntraVerdict ELSE CrossVerdict
           ends == \/ verdict = "duplicate"
                   \/ Line.op # "intra" /\ verdict # "none"
       IN  script' = [script EXCEPT !.test = IF ends THEN @ ELSE @ + 1,
                                   !.pc = IF ends THEN "done" ELSE "run",
                                   !.verdict = verdict, !.pending = Pending(Line.txn)]
    /\ OnlyScript

LateDelete == StartLate \/ CheckIdle \/ ReadVersion \/ PublishLate \/ LookLate

-----------------------------------------------------------------------------
InjectionInit ==
    /\ CheckInit
    /\ version = 0
    /\ script \in {NewScript("bad"), NewScript("late")}

(* Every MERGE that changes the table commits a version; one that changes  *)
(* no row may or may not.                                                  *)
DeltaVersion ==
    IF call[Driver].pc = "commit" /\ call'[Driver].pc = "ledger"
    THEN version' \in {version + 1} \cup (IF table' = table THEN {version} ELSE {})
    ELSE UNCHANGED version

PipelineRuns ==
    /\ JobStep \/ CreateConnector \/ Emit \/ RestartConnector
    /\ DeltaVersion
    /\ UNCHANGED <<check, script>>

InjectionNext == PipelineRuns \/ BadRecordSuite \/ LateDelete \/ ScriptDies

InjectionSpec == InjectionInit /\ [][InjectionNext]_injectionVars

-----------------------------------------------------------------------------
(* The suite as the script has it.                                         *)

(* The ids the suite gives bad rows in Postgres, those of its rogue        *)
(* records, which Postgres never has, and those of its good rows.          *)
PgTests == { k \in 1..Len(Tests) : Tests[k].inPostgres }
PgBad == UNION { Tests[k].bad : k \in PgTests }
Rogue == UNION { Tests[k].bad : k \in (1..Len(Tests)) \ PgTests }
PgGood == UNION { Tests[k].good : k \in PgTests }

(* A row, or the event of one, that every content of the merchants table   *)
(* accepts, and one that none accepts.                                     *)
Accepted(x) == x.wellFormed /\ \A m \in MerchantSets \ {{}} : x.merchant \in m
NeverAccepted(x) == ~x.wellFormed \/ \A m \in MerchantSets \ {{}} : x.merchant \notin m

Suits(t, x) == IF t \in PgBad \cup Rogue THEN NeverAccepted(x) ELSE Accepted(x)

(* The ids of one kind are of no other; the bad rows are bad whatever the  *)
(* merchants table holds, and the good ones good; what init.sql left is    *)
(* good and has no bad id; and the checker's constant is the number of bad *)
(* rows in Postgres.                                                       *)
FreshSuite ==
    /\ PgGood \cap (PgBad \cup Rogue) = {} /\ PgBad \cap Rogue = {}
    /\ \A t \in PgGood \cup PgBad \cup Rogue : Suits(t, RowOf[t])
    /\ \A rows \in LoadedTables : \A t \in Txns : rows[t] # Absent =>
         t \notin PgBad \cup Rogue /\ Accepted(rows[t])
    /\ ExpectedQuarantine = Cardinality(PgBad)

-----------------------------------------------------------------------------
(* The oracle of parity_checker.py and the suite agree: once its ids are   *)
(* dumped, and again once they were cleaned up, a parity check of the      *)
(* drained pipeline passes.  Whatever crashed meanwhile, the rows the      *)
(* suite left in Postgres are exactly the quarantined ones, and the rogue  *)
(* record counts nowhere.                                                  *)
OracleAgrees ==
    script.name = "bad" /\ script.pc \in {"dumped", "cleaned"} /\ Drained =>
      ParityVerdict(pg, LiveRows, DlqKeys) = "pass"

(* README.md:308: "A late lower-LSN update cannot resurrect a tombstone":  *)
(* once the tombstone of test_cross_batch is confirmed, no crash, replay   *)
(* or regrouping of the batches lets its last look find anything else, and *)
(* no look finds two rows.                                                 *)
NeverResurrected == script.verdict \notin {"resurrected", "duplicate"}

(* A FAIL for a row that did not land only tells that the pipeline was     *)
(* slower than the sleep: a record of the id was not yet in an             *)
(* acknowledged batch.                                                     *)
AlarmMeansPending == script.verdict = "not landed" => script.pending
=============================================================================
