-------------------------- MODULE Injection_proofs --------------------------
(***************************************************************************)
(* The two injectors, proved about for every suite of tests, every         *)
(* database and every bound.  They are an environment the job allows; what *)
(* inject_late_delete.py concludes from its looks at the table is right,   *)
(* however the pipeline groups, replays and delays its events; and the     *)
(* parity oracle agrees with the suite of bad records.                     *)
(***************************************************************************)
EXTENDS Injection, Pipeline_proofs

(* The script's place, and that Postgres changes only through a slot.      *)
ScriptType ==
    /\ script \in [name : {"bad", "late"},
                   pc : {"start", "inject", "presence", "dlq", "absence", "dump",
                         "dumped", "cleaned", "quiet", "run", "done", "dead"},
                   test : Nat, ok : BOOLEAN, pgIds : SUBSET Txns, version : Nat,
                   verdict : {"none", "straddled", "pass", "not landed",
                              "resurrected", "duplicate"},
                   pending : BOOLEAN]
    /\ version \in Nat
    /\ script.test >= 1
    /\ script.name = "bad" => script.test <= Len(Tests)
    /\ script.name = "late" => script.test <= Len(LateProgram)

FeedBehindSlot == ~slot => feed = <<>>

InjectionType == TypeOK /\ DriverPlace /\ SourceType /\ FeedBehindSlot /\ ScriptType

-----------------------------------------------------------------------------
(* The injectors as an environment of the job.                             *)

(* The place of a script is one of its program.                            *)
LEMMA TestOfSuite ==
    ASSUME ScriptType, script.name = "bad"
    PROVE  Test \in TestShape
<1>1. Tests \in Seq(TestShape) /\ Len(Tests) \in Nat
    BY TestsAssumption
<1>2. script.test \in Nat
    BY DEF ScriptType
<1>3. script.test >= 1 /\ script.test <= Len(Tests)
    BY DEF ScriptType
<1>4. script.test \in 1..Len(Tests)
    BY <1>1, <1>2, <1>3
<1> QED BY <1>1, <1>4 DEF Test

(* The rows a script inserts and deletes are those of ids of its suite.    *)
LEMMA SuiteWrites ==
    ASSUME InjectionType, InjectRow \/ CommitRows \/ DeleteDumped \/ DieInTransaction
    PROVE  TransactionStep
<1>1. CASE InjectRow
    <2>1. Test \in TestShape
        BY <1>1, TestOfSuite DEF InjectRow, Injecting, InjectionType
    <2>2. PICK t \in Test.good \cup Test.bad : InsertRow(t, RowOf[t])
        BY <1>1 DEF InjectRow
    <2>3. t \in Txns /\ RowOf[t] \in Image
        BY <2>1, TestsAssumption DEF TestShape
    <2> QED BY <2>2, <2>3, InsertWrites DEF InjectionType, TransactionStep
<1>2. CASE DeleteDumped
    <2>1. PICK t \in script.pgIds : DeleteRow(t)
        BY <1>2 DEF DeleteDumped
    <2>2. t \in Txns
        BY DEF InjectionType, ScriptType
    <2> QED BY <2>1, <2>2, DeleteWrites DEF InjectionType, TransactionStep
<1>3. CASE CommitRows \/ DieInTransaction
    BY <1>3 DEF CommitRows, DieInTransaction, TransactionStep
<1> QED BY <1>1, <1>2, <1>3

(* A transaction hands nothing on before the slot exists.                  *)
LEMMA TransactionBehindSlot ==
    ASSUME InjectionType, TransactionStep
    PROVE  UNCHANGED vars /\ SourceType' /\ FeedBehindSlot'
<1>1. UNCHANGED vars /\ slot' = slot
    BY TransactionLeavesJob
<1>2. SourceType'
    BY TransactionKeepsType DEF InjectionType
<1>3. ~slot => feed' = feed
    BY DEF TransactionStep, Writes, WriteRow, CommitTransaction, Rollback
<1> QED BY <1>1, <1>2, <1>3 DEF FeedBehindSlot, InjectionType

(* What a script publishes, it publishes as an event of the topic.         *)
LEMMA InjectRoguePublishes ==
    ASSUME InjectionType, InjectRogue
    PROVE  \E p \in Partitions, e \in Events : Publish(p, e)
<1>1. Test \in TestShape
    BY TestOfSuite DEF InjectRogue, InjectionType
<1>2. PICK t \in Test.bad :
          Publish(PartitionOf[t], RowEvent("c", t, RowOf[t], MaxChanges + 1))
    BY DEF InjectRogue
<1>3. t \in Txns
    BY <1>1 DEF TestShape
<1> QED BY <1>2, <1>3, PartitionOfAssumption, InjectedEventsAssumption

(* The lines of the late-delete script that publish, and what they         *)
(* publish.                                                                *)
EventLines == { k \in 1..11 : LateProgram[k].op \in {"c", "d", "u"} }
LineEvent(k) == Late(LateProgram[k].op, LateProgram[k].txn, LateProgram[k].lsn)

LEMMA LateLines ==
    /\ Len(LateProgram) = 11
    /\ EventLines = {2, 3, 4, 6, 8, 10}
    /\ \A k \in EventLines : LineEvent(k) \in Events /\ LineEvent(k) \in Event
<1>1. Len(LateProgram) = 11
    BY DEF LateProgram
<1>2. EventLines = {2, 3, 4, 6, 8, 10}
    BY DEF LateProgram, EventLines
<1>3. ASSUME NEW k \in {2, 3, 4, 6, 8, 10}
      PROVE  LineEvent(k) \in Events
    <2>1. /\ LateProgram[k].op \in {"c", "u", "d"}
          /\ LateProgram[k].txn \in {IntraId, CrossId}
          /\ LateProgram[k].lsn \in 1..3
        BY DEF LateProgram
    <2> QED BY <2>1, InjectedEventsAssumption DEF LineEvent
<1> QED BY <1>1, <1>2, <1>3, EventsAssumption

LEMMA PublishLatePublishes ==
    ASSUME InjectionType, PublishLate
    PROVE  /\ script.test \in EventLines
           /\ LineEvent(script.test) \in Event
           /\ PartitionOf[LateProgram[script.test].txn] \in Partitions
           /\ LineEvent(script.test) \in Events
           /\ Publish(PartitionOf[LateProgram[script.test].txn],
                      LineEvent(script.test))
<1>1. script.test \in 1..11
    <2>1. ScriptType /\ script.name = "late"
        BY DEF PublishLate, InjectionType
    <2>2. script.test \in Nat /\ 1 <= script.test /\ script.test <= Len(LateProgram)
        BY <2>1 DEF ScriptType
    <2> QED BY <2>2, LateLines
<1>2. script.test \in EventLines
    BY <1>1 DEF PublishLate, Line, EventLines
<1>3. LineEvent(script.test) \in Events /\ LineEvent(script.test) \in Event
    BY <1>2, LateLines
<1>4. LineEvent(script.test).txn = LateProgram[script.test].txn
    BY DEF LineEvent, Late
<1>5. PartitionOf[LateProgram[script.test].txn] \in Partitions
    BY <1>3, <1>4, PartitionOfAssumption DEF Event
<1> QED BY <1>2, <1>3, <1>5 DEF PublishLate, LineEvent, Line

-----------------------------------------------------------------------------
(* The place of a script is one of its program after every step.           *)
LEMMA LateScriptStep ==
    ASSUME ScriptType, LateDelete
    PROVE  ScriptType'
<1> DEFINE Verdicts == {"none", "straddled", "pass", "not landed",
                        "resurrected", "duplicate"}
<1>1. /\ script.name = "late" /\ script.test \in Nat /\ script.test >= 1
      /\ script.test <= 11 /\ version \in Nat /\ version' = version
    <2>1. script.name = "late" /\ version' = version
        BY DEF LateDelete, StartLate, CheckIdle, ReadVersion, PublishLate, LookLate,
               OnlyScript
    <2> QED BY <2>1, LateLines DEF ScriptType
<1>2. script.test \in 1..11
    BY <1>1
<1>3. CASE StartLate \/ CheckIdle
    BY <1>1, <1>3 DEF StartLate, CheckIdle, Go, ScriptType
<1>4. CASE ReadVersion \/ PublishLate
    <2>1. script.test # 11
        BY <1>4, <1>2 DEF ReadVersion, PublishLate, Line, LateProgram
    <2>2. script.test + 1 \in Nat /\ script.test + 1 >= 1
          /\ script.test + 1 <= Len(LateProgram)
        BY <1>1, <2>1, LateLines
    <2> QED BY <1>1, <1>4, <2>2 DEF ReadVersion, PublishLate, ScriptType
<1>5. CASE LookLate
    <2>1. Line.op \in {"intra", "seeded", "tombstone", "final"}
        BY <1>2, <1>5 DEF LookLate, Line, LateProgram
    <2>2. script.test # 11 \/ Line.op = "final"
        BY <1>2 DEF Line, LateProgram
    <2>3. /\ IntraVerdict \in Verdicts
          /\ Line.op # "intra" => CrossVerdict \in Verdicts
          /\ Line.op = "final" => CrossVerdict # "none"
        BY <2>1 DEF IntraVerdict, CrossVerdict
    <2>4. PICK verdict \in Verdicts, place \in {"run", "done"},
               n \in 1..11, pending \in BOOLEAN :
             script' = [script EXCEPT !.test = n, !.pc = place, !.verdict = verdict,
                                      !.pending = pending]
        <3> DEFINE verdict == IF Cardinality(RowsSeen) > 1 THEN "duplicate"
                              ELSE IF Line.op = "intra" THEN IntraVerdict
                                                        ELSE CrossVerdict
                   ends == \/ verdict = "duplicate"
                           \/ Line.op # "intra" /\ verdict # "none"
                   place == IF ends THEN "done" ELSE "run"
                   n == IF ends THEN script.test ELSE script.test + 1
                   pending == Pending(Line.txn)
        <3>1. verdict \in Verdicts
            BY <2>1, <2>3
        <3>2. Line.op = "final" => ends
            BY <2>3
        <3>3. ends \/ script.test # 11
            BY <2>2, <3>2
        <3>4. script' = [script EXCEPT !.test = n, !.pc = place, !.verdict = verdict,
                                       !.pending = pending]
            BY <1>5 DEF LookLate
        <3> HIDE DEF ends, verdict
        <3>5. n \in 1..11 /\ place \in {"run", "done"}
            BY <1>2, <3>3
        <3>6. pending \in BOOLEAN
            BY DEF Pending
        <3> HIDE DEF n, place, pending
        <3> QED BY <3>1, <3>4, <3>5, <3>6
    <2>5. n \in Nat /\ n >= 1 /\ n <= 11
        <3> HIDE DEF Verdicts
        <3> QED BY SMT
    <2>6. n <= Len(LateProgram)
        BY <2>5, LateLines
    <2> QED BY <1>1, <2>4, <2>5, <2>6 DEF ScriptType
<1> QED BY <1>3, <1>4, <1>5 DEF LateDelete

LEMMA BadScriptStep ==
    ASSUME ScriptType, BadRecordSuite
    PROVE  ScriptType'
<1>1. script.name = "bad" /\ version' = version
    BY DEF BadRecordSuite, StartSuite, Injecting, InjectRow, CommitRows, InjectRogue,
           AwaitPresence, AwaitDlq, SettleAbsence, DumpIds, DeleteDumped, Cleanup,
           DieInTransaction, OnlyScript
<1>2. Test \in TestShape
    BY <1>1, TestOfSuite
<1>3. CASE \/ StartSuite \/ CommitRows \/ InjectRogue \/ DumpIds \/ Cleanup
           \/ DieInTransaction
    BY <1>1, <1>3 DEF StartSuite, CommitRows, InjectRogue, DumpIds, Cleanup,
                      DieInTransaction, Go, ScriptType
<1>6. CASE InjectRow \/ DeleteDumped
    BY <1>1, <1>6 DEF InjectRow, DeleteDumped, ScriptType
<1>4. CASE AwaitPresence \/ AwaitDlq
    BY <1>1, <1>4 DEF AwaitPresence, AwaitDlq, ScriptType
<1>5. CASE SettleAbsence
    <2>1. Len(Tests) \in Nat
        BY TestsAssumption
    <2>2. script.test \in Nat
        BY DEF ScriptType
    <2>3. script.test >= 1 /\ script.test <= Len(Tests)
        BY <1>1 DEF ScriptType
    <2>4. PICK ok \in BOOLEAN, ids \in SUBSET Txns, place \in {"dump", "inject"},
               n \in 1..Len(Tests) :
             script' = [script EXCEPT !.ok = ok, !.pgIds = ids, !.pc = place,
                                      !.test = n]
        <3> DEFINE ok == script.ok /\ Test.bad \cap LiveIds = {}
                   ids == IF Test.inPostgres THEN script.pgIds \cup Test.bad
                                             ELSE script.pgIds
                   place == IF script.test = Len(Tests) THEN "dump" ELSE "inject"
                   n == IF script.test = Len(Tests) THEN script.test
                                                    ELSE script.test + 1
        <3>1. ok \in BOOLEAN /\ place \in {"dump", "inject"}
            OBVIOUS
        <3>2. ids \in SUBSET Txns
            BY <1>2 DEF ScriptType, TestShape
        <3>3. script' = [script EXCEPT !.ok = ok, !.pgIds = ids, !.pc = place,
                                       !.test = n]
            BY <1>5 DEF SettleAbsence
        <3>4. n \in 1..Len(Tests)
            BY <2>1, <2>2, <2>3
        <3> HIDE DEF ok, ids, place, n
        <3> QED BY <3>1, <3>2, <3>3, <3>4
    <2>5. n \in Nat /\ n >= 1 /\ n <= Len(Tests)
        BY <2>1
    <2> QED BY <1>1, <2>4, <2>5 DEF ScriptType
<1> QED BY <1>3, <1>4, <1>5, <1>6 DEF BadRecordSuite

LEMMA ScriptStep ==
    ASSUME ScriptType, [InjectionNext]_injectionVars
    PROVE  ScriptType'
<1>1. CASE PipelineRuns
    <2>1. version' = version + 1 \/ version' = version
        BY <1>1 DEF PipelineRuns, DeltaVersion
    <2>2. version \in Nat
        BY DEF ScriptType
    <2>3. version' \in Nat
        BY <2>1, <2>2
    <2>4. script' = script
        BY <1>1 DEF PipelineRuns
    <2> QED BY <2>3, <2>4 DEF ScriptType
<1>2. CASE ScriptDies
    BY <1>2 DEF ScriptDies, Go, OnlyScript, ScriptType
<1>3. CASE UNCHANGED injectionVars
    BY <1>3 DEF injectionVars, ScriptType
<1> QED BY <1>1, <1>2, <1>3, LateScriptStep, BadScriptStep DEF InjectionNext

-----------------------------------------------------------------------------
(* A step of the pipeline with its scripts is one of the job, of the       *)
(* connector, of a transaction, a record of a script, or none of these.    *)
LEMMA InjectionStepKinds ==
    ASSUME InjectionType, [InjectionNext]_injectionVars
    PROVE  \/ JobStep
           \/ CreateConnector \/ RestartConnector \/ Emit
           \/ TransactionStep
           \/ /\ \E p \in Partitions, e \in Events : Publish(p, e)
              /\ UNCHANGED source
           \/ UNCHANGED <<vars, source>>
<1>1. CASE PipelineRuns
    BY <1>1 DEF PipelineRuns
<1>2. CASE InjectRow \/ CommitRows \/ DeleteDumped \/ DieInTransaction
    BY <1>2, SuiteWrites
<1>7. CASE Cleanup
    BY <1>7 DEF Cleanup, TransactionStep, pipelineVars
<1>3. CASE InjectRogue
    BY <1>3, InjectRoguePublishes DEF InjectRogue
<1>4. CASE PublishLate
    BY <1>4, PublishLatePublishes DEF PublishLate
<1>5. CASE \/ StartSuite \/ AwaitPresence \/ AwaitDlq \/ SettleAbsence \/ DumpIds
           \/ StartLate \/ CheckIdle \/ ReadVersion \/ LookLate \/ ScriptDies
    BY <1>5 DEF StartSuite, AwaitPresence, AwaitDlq, SettleAbsence, DumpIds, StartLate,
                CheckIdle, ReadVersion, LookLate, ScriptDies, OnlyScript, checkVars,
                pipelineVars
<1>6. CASE UNCHANGED injectionVars
    BY <1>6 DEF injectionVars, checkVars, pipelineVars
<1> QED BY <1>1, <1>2, <1>3, <1>4, <1>5, <1>6, <1>7
        DEF InjectionNext, BadRecordSuite, LateDelete

LEMMA InjectionStep ==
    ASSUME InjectionType, [InjectionNext]_injectionVars
    PROVE  [Next]_vars /\ InjectionType'
<1>1. TypeOK /\ DriverPlace /\ SourceType /\ FeedBehindSlot
    BY DEF InjectionType
<1>2. [Next]_vars /\ SourceType' /\ FeedBehindSlot'
    <2>1. CASE JobStep
        <3>1. Next /\ UNCHANGED source
            BY <1>1, <2>1, JobStepSource
        <3> QED BY <1>1, <3>1 DEF source, SourceType, FeedBehindSlot
    <2>2. CASE CreateConnector \/ RestartConnector \/ Emit
        <3>1. SourceType'
            BY <1>1, <2>2, ConnectorKeepsType DEF FeedBehindSlot
        <3>2. FeedBehindSlot'
            BY <1>1, <2>2 DEF CreateConnector, RestartConnector, Emit, FeedBehindSlot
        <3>3. CASE CreateConnector \/ RestartConnector
            BY <3>1, <3>2, <3>3 DEF CreateConnector, RestartConnector
        <3>4. CASE Emit
            BY <1>1, <3>1, <3>2, <3>4, EmitPublishes DEF Next, Environment
        <3> QED BY <2>2, <3>3, <3>4
    <2>3. CASE TransactionStep
        BY <2>3, TransactionBehindSlot
    <2>4. CASE /\ \E p \in Partitions, e \in Events : Publish(p, e)
               /\ UNCHANGED source
        <3>1. Next
            BY <2>4 DEF Next, Environment
        <3> QED BY <1>1, <2>4, <3>1 DEF source, SourceType, FeedBehindSlot
    <2>5. CASE UNCHANGED <<vars, source>>
        BY <1>1, <2>5 DEF source, SourceType, FeedBehindSlot
    <2> QED BY <2>1, <2>2, <2>3, <2>4, <2>5, InjectionStepKinds
<1>3. TypeOK' /\ DriverPlace'
    BY <1>1, <1>2, TypeStep
<1>4. ScriptType'
    BY ScriptStep DEF InjectionType
<1> QED BY <1>2, <1>3, <1>4 DEF InjectionType

LEMMA InjectionInitType ==
    ASSUME InjectionInit
    PROVE  Init /\ InjectionType
<1>1. PipelineInit /\ version = 0 /\ script \in {NewScript("bad"), NewScript("late")}
    BY DEF InjectionInit, CheckInit
<1>2. Init /\ TypeOK /\ DriverPlace
    BY <1>1, TypeInit DEF PipelineInit
<1>3. SourceType /\ FeedBehindSlot
    BY <1>1, SourceInit DEF PipelineInit, FeedBehindSlot
<1>4. Len(Tests) \in Nat /\ Len(Tests) >= 1
    BY TestsAssumption
<1>5. ScriptType
    <2>1. PICK name \in {"bad", "late"} : script = NewScript(name)
        BY <1>1
    <2>2. script.name = name /\ script.test = 1
        BY <2>1 DEF NewScript
    <2>3. script.test <= Len(Tests) /\ script.test <= Len(LateProgram)
        BY <1>4, <2>2, LateLines
    <2> QED BY <1>1, <2>1, <2>2, <2>3 DEF NewScript, ScriptType
<1> QED BY <1>2, <1>3, <1>5 DEF InjectionType

LEMMA InjectionTypeInvariant == InjectionSpec => []InjectionType
<1>1. InjectionInit => InjectionType
    BY InjectionInitType
<1>2. InjectionType /\ [InjectionNext]_injectionVars => InjectionType'
    BY InjectionStep
<1> QED BY <1>1, <1>2, PTL DEF InjectionSpec

(* The two scripts, the connector and Postgres beside the running job are  *)
(* an environment PaymentsCdcJob allows: every guarantee of the job holds  *)
(* while rows that must be rejected, rogue records with an LSN beyond the  *)
(* log's and events that come too late are thrown at it.                   *)
THEOREM InjectorsAreAllowed == InjectionSpec => Spec
<1>1. InjectionInit => Init
    BY InjectionInitType
<1>2. InjectionType /\ [InjectionNext]_injectionVars => [Next]_vars
    BY InjectionStep
<1> QED BY <1>1, <1>2, InjectionTypeInvariant, PTL DEF InjectionSpec, Spec

-----------------------------------------------------------------------------
(* What is in the topic while the late-delete script runs: rows of the     *)
(* snapshot, which Postgres has at position 0 as nobody writes to it, and  *)
(* the lines the script has published.                                     *)
PublishedLines == { k \in EventLines : k < script.test }

LateTopic ==
    script.name = "late" =>
      /\ lsn = 0
      /\ \A e \in Event : Emitted(e) =>
           e.lsn = 0 \/ \E k \in PublishedLines : e = LineEvent(k)
      /\ \A k \in PublishedLines : InTopic(LineEvent(k))

(* The connector adds nothing to what it emits but rows of a snapshot.     *)
LEMMA ConnectorEmits ==
    ASSUME InjectionType, CreateConnector \/ RestartConnector \/ Emit
    PROVE  /\ lsn' = lsn
           /\ \A e \in Event : Emitted(e)' => Emitted(e) \/ SnapshotRow(e)
           /\ \A e : InTopic(e) => InTopic(e)'
<1>1. TypeOK /\ SourceType /\ FeedBehindSlot
    BY DEF InjectionType
<1>2. lsn' = lsn
    BY DEF CreateConnector, RestartConnector, Emit
<1>3. ASSUME NEW rows, TakesSnapshot(rows)
      PROVE  \A e \in Event : Emitted(e)' => Emitted(e) \/ SnapshotRow(e)
    <2>1. rows \in Snapshots
        BY <1>3 DEF TakesSnapshot
    <2>2. \A k \in 1..Len(rows) : SnapshotRow(rows[k])
        BY <1>1, <2>1, SnapshotRows
    <2>3. \A e : Emitted(e)' => Emitted(e) \/ \E k \in 1..Len(rows) : rows[k] = e
        BY <1>1, <1>3, SnapshotFeed
    <2> QED BY <2>2, <2>3
<1>4. CASE CreateConnector
    <2>1. PICK rows \in Snapshots : feed' = rows /\ snapshotLen' = Len(rows)
        BY <1>4 DEF CreateConnector
    <2>2. /\ UNCHANGED <<topic, pg, view, written, lsn>>
          /\ feed = <<>> /\ snapshotLen = 0
        BY <1>1, <1>4 DEF CreateConnector, vars, kafka, FeedBehindSlot, SourceType
    <2>3. rows \o SubSeq(feed, snapshotLen + 1, Len(feed)) = rows
        <3>1. SubSeq(feed, snapshotLen + 1, Len(feed)) = <<>>
            BY <2>2
        <3>2. rows \in Seq(Events)
            BY <1>1, SnapshotRows
        <3>3. rows \o <<>> = rows
            BY <3>2
        <3> QED BY <3>1, <3>3
    <2>4. TakesSnapshot(rows)
        BY <2>1, <2>2, <2>3 DEF TakesSnapshot
    <2> QED BY <1>2, <1>3, <2>2, <2>4 DEF InTopic
<1>5. CASE RestartConnector
    <2>1. UNCHANGED <<topic, pg, view, written, lsn>>
        BY <1>5 DEF RestartConnector, vars, kafka
    <2>2. CASE UNCHANGED feed
        BY <1>2, <2>1, <2>2, SameEmissions DEF InTopic
    <2>3. CASE \E rows \in Snapshots :
                 /\ feed' = rows \o SubSeq(feed, snapshotLen + 1, Len(feed))
                 /\ snapshotLen' = Len(rows)
        BY <1>2, <1>3, <2>1, <2>3 DEF TakesSnapshot, InTopic
    <2> QED BY <1>5, <2>2, <2>3 DEF RestartConnector
<1>6. CASE Emit
    <2> DEFINE e == feed[sent + 1]
    <2>1. /\ sent + 1 \in 1..Len(feed) /\ e \in Event
          /\ PartitionOf[e.txn] \in Partitions /\ Publish(PartitionOf[e.txn], e)
        BY <1>1, <1>6, EmitPublishes
    <2>2. \A x : InTopic(x)' <=> InTopic(x) \/ x = e
        BY <1>1, <2>1, PublishedTopic
    <2>3. feed' = feed
        BY <1>6 DEF Emit
    <2> QED BY <1>2, <2>1, <2>2, <2>3 DEF Emitted, InFeed
<1> QED BY <1>4, <1>5, <1>6

(* A look, a pause or a death publishes nothing and skips no line.         *)
LEMMA QuietScriptStep ==
    ASSUME InjectionType, script.name = "late",
           StartLate \/ CheckIdle \/ ReadVersion \/ LookLate \/ ScriptDies
    PROVE  /\ UNCHANGED <<vars, source>>
           /\ PublishedLines' = PublishedLines
<1>1. script.test \in Nat
    BY DEF InjectionType, ScriptType
<1>2. UNCHANGED <<vars, source>>
    BY DEF StartLate, CheckIdle, ReadVersion, LookLate, ScriptDies, OnlyScript,
           checkVars, pipelineVars
<1>3. \/ script'.test = script.test
      \/ script'.test = script.test + 1 /\ script.test \notin EventLines
    <2>1. CASE StartLate \/ CheckIdle \/ ScriptDies
        BY <2>1 DEF StartLate, CheckIdle, ScriptDies, Go, InjectionType, ScriptType
    <2>2. CASE ReadVersion
        BY <2>2 DEF ReadVersion, Line, EventLines, InjectionType, ScriptType
    <2>3. CASE LookLate
        BY <2>3 DEF LookLate, Line, EventLines, InjectionType, ScriptType
    <2> QED BY <2>1, <2>2, <2>3
<1>4. EventLines \subseteq Nat
    BY DEF EventLines
<1>5. \A k \in EventLines : k < script'.test <=> k < script.test
    BY <1>1, <1>3, <1>4
<1> QED BY <1>2, <1>5 DEF PublishedLines

(* Only the two programs take steps of their own.                          *)
LEMMA ScriptNameStays ==
    ASSUME InjectionType, [InjectionNext]_injectionVars
    PROVE  script'.name = script.name
<1>1. CASE PipelineRuns \/ UNCHANGED injectionVars
    BY <1>1 DEF PipelineRuns, injectionVars
<1>2. CASE BadRecordSuite
    BY <1>2 DEF BadRecordSuite, StartSuite, Injecting, InjectRow, CommitRows, InjectRogue,
                AwaitPresence, AwaitDlq, SettleAbsence, DumpIds, DeleteDumped, Cleanup,
                DieInTransaction, Go, InjectionType, ScriptType
<1>3. CASE LateDelete \/ ScriptDies
    BY <1>3 DEF LateDelete, StartLate, CheckIdle, ReadVersion, PublishLate, LookLate,
                ScriptDies, Go, InjectionType, ScriptType
<1> QED BY <1>1, <1>2, <1>3 DEF InjectionNext

LEMMA LateTopicStep ==
    ASSUME InjectionType, LateTopic, [InjectionNext]_injectionVars
    PROVE  LateTopic'
<1> SUFFICES ASSUME script'.name = "late"
             PROVE  LateTopic'
    BY DEF LateTopic
<1>1. /\ script.name = "late" /\ lsn = 0
      /\ \A e \in Event : Emitted(e) =>
           e.lsn = 0 \/ \E k \in PublishedLines : e = LineEvent(k)
      /\ \A k \in PublishedLines : InTopic(LineEvent(k))
    BY ScriptNameStays DEF LateTopic
<1>2. TypeOK /\ SourceType
    BY DEF InjectionType
<1>3. ASSUME lsn' = lsn, PublishedLines' = PublishedLines,
             \A e \in Event : Emitted(e)' => Emitted(e) \/ SnapshotRow(e),
             \A e : InTopic(e) => InTopic(e)'
      PROVE  LateTopic'
    BY <1>1, <1>3 DEF LateTopic, SnapshotRow, LineEvent
<1>4. CASE PipelineRuns
    <2>1. PublishedLines' = PublishedLines
        BY <1>4 DEF PipelineRuns, PublishedLines
    <2>2. CASE JobStep
        <3>1. topic' = topic /\ feed' = feed /\ lsn' = lsn
            BY <1>2, <2>2, JobStepSource DEF source
        <3> QED BY <1>3, <2>1, <3>1, SameEmissions DEF InTopic
    <2>3. CASE CreateConnector \/ RestartConnector \/ Emit
        BY <1>3, <2>1, <2>3, ConnectorEmits
    <2> QED BY <1>4, <2>2, <2>3 DEF PipelineRuns
<1>5. CASE StartLate \/ CheckIdle \/ ReadVersion \/ LookLate \/ ScriptDies
    <2>1. UNCHANGED <<vars, source>> /\ PublishedLines' = PublishedLines
        BY <1>1, <1>5, QuietScriptStep
    <2>2. topic' = topic /\ feed' = feed /\ lsn' = lsn
        BY <2>1 DEF vars, kafka, source
    <2> QED BY <1>3, <2>1, <2>2, SameEmissions DEF InTopic
<1>6. CASE PublishLate
    <2> DEFINE k == script.test
    <2>1. /\ k \in EventLines /\ LineEvent(k) \in Event
          /\ PartitionOf[LateProgram[k].txn] \in Partitions
          /\ Publish(PartitionOf[LateProgram[k].txn], LineEvent(k))
        BY <1>6, PublishLatePublishes
    <2>2. \A x : InTopic(x)' <=> InTopic(x) \/ x = LineEvent(k)
        BY <1>2, <2>1, PublishedTopic
    <2>3. lsn' = lsn /\ feed' = feed /\ script'.test = script.test + 1
        BY <1>6 DEF PublishLate, source, InjectionType, ScriptType
    <2>4. PublishedLines' = PublishedLines \cup {k}
        <3>1. k \in Nat /\ \A j \in EventLines : j \in Nat
            BY <2>1 DEF EventLines
        <3> HIDE DEF k
        <3>2. \A j \in EventLines : (j < k + 1) <=> (j < k \/ j = k)
            BY <3>1
        <3> QED BY <2>1, <2>3, <3>2 DEF PublishedLines, k
    <2>5. \A x : Emitted(x)' => Emitted(x) \/ x = LineEvent(k)
        BY <2>2, <2>3 DEF Emitted, InFeed
    <2> QED BY <1>1, <2>2, <2>3, <2>4, <2>5 DEF LateTopic, LineEvent
<1>7. CASE UNCHANGED injectionVars
    <2>1. topic' = topic /\ feed' = feed /\ lsn' = lsn /\ PublishedLines' = PublishedLines
        BY <1>7 DEF injectionVars, checkVars, pipelineVars, vars, kafka, source,
                    PublishedLines
    <2> QED BY <1>3, <2>1, SameEmissions DEF InTopic
<1>8. ~BadRecordSuite
    BY <1>1 DEF BadRecordSuite, StartSuite, Injecting, InjectRow, CommitRows, InjectRogue,
                AwaitPresence, AwaitDlq, SettleAbsence, DumpIds, DeleteDumped, Cleanup,
                DieInTransaction
<1> QED BY <1>4, <1>5, <1>6, <1>7, <1>8 DEF InjectionNext, LateDelete

-----------------------------------------------------------------------------
(* What a look at the table can find.                                      *)

(* An acknowledged batch has every record of the id.                       *)
LEMMA NotPendingIsSettled ==
    ASSUME JobFacts, NEW e \in Event, InTopic(e), e.schema # "none", ~Pending(e.txn)
    PROVE  \E p \in Partitions : \E i \in 1..Len(topic[p]) :
             topic[p][i] = e /\ Settled(p, i)
<1>1. PICK p \in Partitions : \E i \in 1..Len(topic[p]) : topic[p][i] = e
    BY DEF InTopic
<1>2. PICK i \in 1..Len(topic[p]) : topic[p][i] = e
    BY <1>1
<1>3. Len(topic[p]) \in Nat /\ Len(topic[p]) <= MaxRecords /\ MaxRecords \in Nat
    BY BoundsAssumption DEF JobFacts, Shape, TypeOK, TopicBounded
<1>4. i \in 1..MaxRecords /\ i <= Len(topic[p])
    BY <1>3
<1>5. <<p, i>> \in ChangesOf(e.txn)
    BY <1>2, <1>4 DEF ChangesOf
<1>6. PICK b \in 0..(acked - 1) : InBatch(b, p, i)
    BY <1>5 DEF Pending
<1>7. BatchSettled(b)
    BY DEF JobFacts, Progress, NoSilentLoss
<1>8. Settled(p, i)
    BY <1>4, <1>6, <1>7 DEF BatchSettled
<1> QED BY <1>2, <1>8

(* A line of the script that no merchant set rejects has a row at least as *)
(* new as itself.                                                          *)
LEMMA LineLanded ==
    ASSUME JobFacts, OnlyRejected, NothingLost, NEW k \in EventLines,
           InTopic(LineEvent(k)), ~Pending(LineEvent(k).txn),
           \/ LineEvent(k).op = "d"
           \/ \A m \in MerchantSets : m # {} => Merchant \in m
    PROVE  \E r \in table : r.txn = LineEvent(k).txn /\ r.lsn >= LineEvent(k).lsn
<1> DEFINE e == LineEvent(k)
<1>1. e \in Event /\ e.schema # "none" /\ e.wellFormed /\ e.merchant = Merchant
    BY LateLines DEF LineEvent, Late
<1>2. PICK p \in Partitions : \E i \in 1..Len(topic[p]) :
             topic[p][i] = e /\ Settled(p, i)
    BY <1>1, NotPendingIsSettled
<1>3. PICK i \in 1..Len(topic[p]) : topic[p][i] = e /\ Settled(p, i)
    BY <1>2
<1> HIDE DEF e
<1> DEFINE row == FlatRow(p, i)
<1>4. /\ row.txn = e.txn /\ row.lsn = e.lsn /\ row.wellFormed = e.wellFormed
      /\ row.merchant = e.merchant /\ row.isDelete = (e.op = "d")
    BY <1>3 DEF FlatRow
<1>5. row \notin dlq
    <2>1. \A m \in MerchantSets \ {{}} : Admissible(row, m)
        BY <1>1, <1>4 DEF Admissible, e
    <2> QED BY <2>1 DEF OnlyRejected, Rejectable
<1>6. UpToDate(table, row)
    BY <1>1, <1>3, <1>5 DEF Settled, Handled, NothingLost
<1> QED BY <1>4, <1>6 DEF UpToDate, e

(* What the table has of an id of the script: nothing but the snapshot's   *)
(* row and the lines published so far.                                     *)
LateTable ==
    script.name = "late" =>
      \A r \in table :
        \/ r.lsn = 0
        \/ \E k \in PublishedLines :
             /\ r.txn = LateProgram[k].txn /\ r.lsn = LateProgram[k].lsn
             /\ r.isDelete = (LateProgram[k].op = "d")

LEMMA RowsOfLines ==
    ASSUME JobFacts, LateTopic
    PROVE  LateTable
<1> SUFFICES ASSUME script.name = "late", NEW r \in table
             PROVE  \/ r.lsn = 0
                    \/ \E k \in PublishedLines :
                         /\ r.txn = LateProgram[k].txn /\ r.lsn = LateProgram[k].lsn
                         /\ r.isDelete = (LateProgram[k].op = "d")
    BY DEF LateTable
<1>1. PICK e \in Event : /\ Emitted(e) /\ e.txn = r.txn /\ e.lsn = r.lsn
                         /\ r.isDelete = (e.op = "d")
    BY DEF JobFacts, RowsEmitted
<1>2. e.lsn = 0 \/ \E k \in PublishedLines : e = LineEvent(k)
    BY <1>1 DEF LateTopic
<1> QED BY <1>1, <1>2 DEF LineEvent, Late

(* Once test_cross_batch confirmed its tombstone, the table keeps it.      *)
Confirmed ==
    script.name = "late" /\ script.test >= 10 =>
      \E r \in table : r.txn = CrossId /\ Tombstone(r)

LEMMA ConfirmedStep ==
    ASSUME InjectionType, LateTable', Confirmed, [InjectionNext]_injectionVars
    PROVE  Confirmed'
<1> SUFFICES ASSUME script'.name = "late", script'.test >= 10
             PROVE  \E r \in table' : r.txn = CrossId /\ Tombstone(r)
    BY DEF Confirmed, Tombstone
<1>1. script.name = "late" /\ script.test \in 1..11
    <2>1. script.name = "late"
        BY ScriptNameStays
    <2>2. script.test \in Nat /\ script.test >= 1 /\ script.test <= 11
        BY <2>1, LateLines DEF InjectionType, ScriptType
    <2> QED BY <2>1, <2>2
<1>2. Advances(table, table')
    <2>1. [Next]_vars /\ TypeOK
        BY InjectionStep DEF InjectionType
    <2> QED BY <2>1, StepAdvances
<1>3. ASSUME NEW r \in table, r.txn = CrossId, Tombstone(r)
      PROVE  \E u \in table' : u.txn = CrossId /\ Tombstone(u)
    <2>1. PICK u \in table' : u.txn = CrossId /\ (u = r \/ u.lsn > 3)
        BY <1>2, <1>3 DEF Advances, Tombstone
    <2>2. u.lsn = 0 \/ \E k \in EventLines : u.lsn = LateProgram[k].lsn
        BY DEF LateTable, PublishedLines
    <2>3. \A k \in EventLines : LateProgram[k].lsn \in 1..3
        BY LateLines DEF LateProgram
    <2>4. ~(u.lsn > 3)
        BY <2>2, <2>3
    <2> QED BY <1>3, <2>1, <2>4
<1>4. CASE script.test >= 10
    BY <1>1, <1>3, <1>4 DEF Confirmed
<1>5. CASE script'.test # script.test /\ ~(script.test >= 10)
    <2>1. ReadVersion \/ PublishLate \/ LookLate
        <3>1. ~BadRecordSuite
            BY <1>1 DEF BadRecordSuite, StartSuite, Injecting, InjectRow, CommitRows, InjectRogue,
                        AwaitPresence, AwaitDlq, SettleAbsence, DumpIds, DeleteDumped, Cleanup,
                        DieInTransaction
        <3>2. ~(StartLate \/ CheckIdle \/ ScriptDies)
            BY <1>5 DEF StartLate, CheckIdle, ScriptDies, Go, InjectionType, ScriptType
        <3>3. ~PipelineRuns /\ ~UNCHANGED injectionVars
            BY <1>5 DEF PipelineRuns, injectionVars
        <3> QED BY <3>1, <3>2, <3>3 DEF InjectionNext, LateDelete
    <2>2. script'.test = script.test + 1
        BY <1>5, <2>1 DEF ReadVersion, PublishLate, LookLate, InjectionType, ScriptType
    <2>3. script.test = 9
        BY <1>1, <1>5, <2>2
    <2>4. Line.op = "tombstone" /\ Line.txn = CrossId
        BY <2>3 DEF Line, LateProgram
    <2>5. LookLate
        BY <2>1, <2>4 DEF ReadVersion, PublishLate
    <2>6. CrossVerdict = "none"
        <3> DEFINE verdict == IF Cardinality(RowsSeen) > 1 THEN "duplicate"
                              ELSE IF Line.op = "intra" THEN IntraVerdict
                                                        ELSE CrossVerdict
                   ends == \/ verdict = "duplicate"
                           \/ Line.op # "intra" /\ verdict # "none"
        <3>1. script'.test = IF ends THEN script.test ELSE script.test + 1
            BY <2>5 DEF LookLate, InjectionType, ScriptType
        <3>2. ~ends
            BY <2>2, <2>3, <3>1
        <3>3. Line.op # "intra" /\ "none" # "duplicate"
            BY <2>4
        <3> QED BY <3>2, <3>3
    <2>7. \E r \in RowsSeen : Tombstone(r)
        BY <2>4, <2>6 DEF CrossVerdict
    <2>8. table' = table
        BY <2>5 DEF LookLate, OnlyScript, checkVars, pipelineVars, vars, sinks
    <2> QED BY <2>4, <2>7, <2>8 DEF RowsSeen, RowsOf
<1> QED BY <1>4, <1>5

-----------------------------------------------------------------------------
(* The facts of the job and of the script, together.                       *)
InjectionFacts ==
    InjectionType /\ JobFacts /\ LateTopic /\ LateTable /\ Confirmed

LEMMA InjectionFactsInvariant == InjectionSpec => []InjectionFacts
<1>1. InjectionInit => LateTopic
    <2> SUFFICES ASSUME InjectionInit, script.name = "late" PROVE LateTopic
        BY DEF LateTopic
    <2>1. PipelineInit /\ script = NewScript("late") /\ TypeOK
        BY InjectionInitType DEF InjectionInit, CheckInit, NewScript, InjectionType
    <2>2. lsn = 0 /\ script.test = 1 /\ \A e \in Event : ~Emitted(e)
        <3>1. lsn = 0 /\ script.test = 1 /\ ~slot /\ feed = <<>>
            BY <2>1 DEF PipelineInit, NewScript
        <3>2. \A e \in Event : ~InTopic(e)
            BY <2>1 DEF PipelineInit, Init, InTopic
        <3>3. \A e : ~InFeed(e)
            BY <3>1 DEF InFeed
        <3> QED BY <3>1, <3>2, <3>3 DEF Emitted
    <2>3. PublishedLines = {}
        BY <2>2 DEF PublishedLines, EventLines
    <2> QED BY <2>2, <2>3 DEF LateTopic
<1>2. InjectionType /\ LateTopic /\ [InjectionNext]_injectionVars => LateTopic'
    BY LateTopicStep
<1>3. InjectionSpec => []LateTopic
    BY <1>1, <1>2, InjectionTypeInvariant, PTL DEF InjectionSpec
<1>4. InjectionSpec => []JobFacts
    BY InjectorsAreAllowed, JobFactsInvariant, PTL
<1>5. JobFacts /\ LateTopic => LateTable
    BY RowsOfLines
<1>6. InjectionSpec => []LateTable
    BY <1>3, <1>4, <1>5, PTL
<1>7. InjectionInit => Confirmed
    BY DEF InjectionInit, NewScript, Confirmed
<1>8. InjectionType /\ LateTable' /\ Confirmed /\ [InjectionNext]_injectionVars
        => Confirmed'
    BY ConfirmedStep
<1>9. InjectionSpec => []Confirmed
    BY <1>6, <1>7, <1>8, InjectionTypeInvariant, PTL DEF InjectionSpec
<1> QED BY <1>3, <1>4, <1>6, <1>9, InjectionTypeInvariant, PTL DEF InjectionFacts

(* What a verdict of the late-delete script rests on.                      *)
LEMMA VerdictChanges ==
    ASSUME InjectionType, [InjectionNext]_injectionVars
    PROVE  \/ script'.verdict = script.verdict /\ script'.pending = script.pending
           \/ LookLate
<1>1. CASE PipelineRuns \/ UNCHANGED injectionVars
    BY <1>1 DEF PipelineRuns, injectionVars
<1>2. CASE BadRecordSuite
    BY <1>2 DEF BadRecordSuite, StartSuite, Injecting, InjectRow, CommitRows, InjectRogue,
                AwaitPresence, AwaitDlq, SettleAbsence, DumpIds, DeleteDumped, Cleanup,
                DieInTransaction, Go, InjectionType, ScriptType
<1>3. CASE StartLate \/ CheckIdle \/ ReadVersion \/ PublishLate \/ ScriptDies
    BY <1>3 DEF StartLate, CheckIdle, ReadVersion, PublishLate, ScriptDies, Go,
                InjectionType, ScriptType
<1> QED BY <1>1, <1>2, <1>3 DEF InjectionNext, LateDelete

(* The look itself, with at most one row to see.                           *)
LEMMA LookFinds ==
    ASSUME InjectionFacts, LookLate
    PROVE  /\ script.name = "late" /\ script.test \in {5, 7, 9, 11}
           /\ script'.pending = Pending(Line.txn)
           /\ script'.verdict = IF Line.op = "intra" THEN IntraVerdict ELSE CrossVerdict
<1>1. script.name = "late" /\ script.test \in 1..11
    <2>1. script.name = "late"
        BY DEF LookLate
    <2>2. script.test \in Nat /\ script.test >= 1 /\ script.test <= 11
        BY <2>1, LateLines DEF InjectionFacts, InjectionType, ScriptType
    <2> QED BY <2>1, <2>2
<1>2. script.test \in {5, 7, 9, 11}
    BY <1>1 DEF LookLate, Line, LateProgram
<1>3. ~(Cardinality(RowsSeen) > 1)
    <2>1. \A r, s \in RowsSeen : r = s
        BY DEF InjectionFacts, JobFacts, OneRowPerTransaction, OneRowPerKey, RowsSeen,
               RowsOf
    <2>2. CASE RowsSeen = {}
        BY <2>2, FS_EmptySet
    <2>3. CASE RowsSeen # {}
        <3>1. PICK r : RowsSeen = {r}
            BY <2>1, <2>3
        <3>2. Cardinality({r}) = 1
            BY FS_Singleton
        <3> QED BY <3>1, <3>2
    <2> QED BY <2>2, <2>3
<1> QED BY <1>1, <1>2, <1>3 DEF LookLate, InjectionFacts, InjectionType, ScriptType

(* README.md:308: "A late lower-LSN update cannot resurrect a tombstone".  *)
(* Whatever crashes, replays, delays and regroups the events, a look never *)
(* finds two rows of an id, and the last look finds the confirmed          *)
(* tombstone.  The LSN guard and the single row of a key carry it.         *)
THEOREM NoResurrection == InjectionSpec => []NeverResurrected
<1>1. InjectionInit => NeverResurrected
    BY DEF InjectionInit, NewScript, NeverResurrected
<1>2. InjectionFacts /\ NeverResurrected /\ [InjectionNext]_injectionVars
        => NeverResurrected'
    <2> SUFFICES ASSUME InjectionFacts, NeverResurrected, LookLate
                 PROVE  script'.verdict \notin {"resurrected", "duplicate"}
        BY VerdictChanges DEF NeverResurrected, InjectionFacts
    <2>1. /\ script.name = "late" /\ script.test \in {5, 7, 9, 11}
          /\ script'.verdict = IF Line.op = "intra" THEN IntraVerdict ELSE CrossVerdict
        BY LookFinds
    <2>2. CASE script.test \in {5, 7, 9}
        <3>1. Line.op \in {"intra", "seeded", "tombstone"}
            BY <2>2 DEF Line, LateProgram
        <3>2. IntraVerdict \notin {"resurrected", "duplicate"}
            BY DEF IntraVerdict
        <3>3. Line.op # "intra" => CrossVerdict \notin {"resurrected", "duplicate"}
            BY <3>1 DEF CrossVerdict
        <3> QED BY <2>1, <3>2, <3>3
    <2>3. CASE script.test = 11
        <3>1. Line.op = "final" /\ Line.txn = CrossId
            BY <2>3 DEF Line, LateProgram
        <3>2. \E r \in RowsSeen : Tombstone(r)
            BY <2>1, <2>3, <3>1 DEF InjectionFacts, Confirmed, RowsSeen, RowsOf
        <3> QED BY <2>1, <3>1, <3>2 DEF CrossVerdict
    <2> QED BY <2>1, <2>2, <2>3
<1> QED BY <1>1, <1>2, InjectionFactsInvariant, PTL DEF InjectionSpec

(* The four looks.                                                         *)
LEMMA LookLines ==
    /\ LateProgram[5].op = "intra" /\ LateProgram[5].txn = IntraId
    /\ LateProgram[5].lsn = 3
    /\ LateProgram[7].op = "seeded" /\ LateProgram[7].txn = CrossId
    /\ LateProgram[7].lsn = 1
    /\ LateProgram[9].op = "tombstone" /\ LateProgram[9].txn = CrossId
    /\ LateProgram[9].lsn = 3
    /\ LateProgram[11].op = "final" /\ LateProgram[11].txn = CrossId
    BY DEF LateProgram

(* The line whose row a look waits for.                                    *)
LEMMA AwaitedLine ==
    ASSUME InjectionFacts, script.name = "late", script.test \in {5, 7, 9},
           NEW k, k = script.test - (IF script.test = 5 THEN 2 ELSE 1)
    PROVE  /\ k \in EventLines /\ InTopic(LineEvent(k))
           /\ LineEvent(k).txn = Line.txn /\ LineEvent(k).lsn = Line.lsn
           /\ k \in {3, 8} => LineEvent(k).op = "d" /\ Line.lsn = 3
           /\ k = 6 => Line.op = "seeded" /\ Line.lsn = 1
<1>1. k \in {3, 6, 8} /\ k < script.test
    OBVIOUS
<1>2. k \in EventLines
    BY <1>1, LateLines
<1>3. InTopic(LineEvent(k))
    BY <1>1, <1>2 DEF PublishedLines, InjectionFacts, LateTopic
<1>4. /\ LateProgram[k].txn = Line.txn /\ LateProgram[k].lsn = Line.lsn
      /\ k \in {3, 8} => LateProgram[k].op = "d" /\ Line.lsn = 3
      /\ k = 6 => Line.op = "seeded" /\ Line.lsn = 1
    BY DEF Line, LateProgram
<1> QED BY <1>2, <1>3, <1>4 DEF LineEvent, Late

(* A row of the id at least as new as the awaited line is the one the look *)
(* asks for.                                                               *)
LEMMA AwaitedRow ==
    ASSUME InjectionFacts, script.name = "late", script.test \in {5, 7, 9},
           NEW r \in table, r.txn = Line.txn, r.lsn >= Line.lsn
    PROVE  IF Line.op = "seeded" THEN r.lsn = 1 ELSE Tombstone(r)
<1>1. Line.lsn \in {1, 3}
    BY DEF Line, LateProgram
<1>2. PICK j \in PublishedLines :
         /\ r.txn = LateProgram[j].txn /\ r.lsn = LateProgram[j].lsn
         /\ r.isDelete = (LateProgram[j].op = "d")
    BY <1>1 DEF InjectionFacts, LateTable
<1>3. j \in {2, 3, 4, 6, 8, 10} /\ j < script.test
    BY LateLines DEF PublishedLines
<1>4. CASE script.test = 7
    <2>1. Line.op = "seeded" /\ Line.txn = CrossId
        BY <1>4 DEF Line, LateProgram
    <2>2. j \in {2, 3, 4, 6} /\ LateProgram[j].txn = CrossId
        <3>1. j \in {2, 3, 4, 6}
            BY <1>3, <1>4
        <3> QED BY <1>2, <2>1, <3>1
    <2>3. LateProgram[j].lsn = 1
        BY <2>2, LateIdsAssumption DEF LateProgram
    <2> QED BY <1>2, <2>1, <2>3
<1>5. CASE script.test \in {5, 9}
    <2>1. Line.op # "seeded" /\ Line.lsn = 3
        BY <1>5 DEF Line, LateProgram
    <2>2. LateProgram[j].lsn >= 3
        BY <1>2, <2>1
    <2>3. LateProgram[j].lsn = 3 /\ LateProgram[j].op = "d"
        BY <1>3, <2>2 DEF LateProgram
    <2> QED BY <1>2, <2>1, <2>3 DEF Tombstone
<1> QED BY <1>4, <1>5

(* A FAIL for a row that did not land means that the pipeline was slower   *)
(* than the sleep and nothing else: without retention during the test and  *)
(* with MERCH_001 in the merchants table, a record of the id was not yet   *)
(* in an acknowledged batch.                                               *)
THEOREM AlarmsMeanPending ==
    ASSUME MaxExpired = 0,
           \A m \in MerchantSets : m # {} => Merchant \in m
    PROVE  InjectionSpec => []AlarmMeansPending
<1>1. InjectionInit => AlarmMeansPending
    <2> SUFFICES ASSUME InjectionInit PROVE script.verdict = "none"
        BY DEF AlarmMeansPending
    <2> QED BY DEF InjectionInit, NewScript
<1>2. InjectionFacts /\ OnlyRejected /\ NothingLost /\ AlarmMeansPending
        /\ [InjectionNext]_injectionVars => AlarmMeansPending'
    <2> SUFFICES ASSUME InjectionFacts, OnlyRejected, NothingLost, AlarmMeansPending,
                        LookLate, script'.verdict = "not landed", ~script'.pending
                 PROVE  FALSE
        BY VerdictChanges DEF AlarmMeansPending, InjectionFacts
    <2>1. /\ script.name = "late" /\ script.test \in {5, 7, 9, 11}
          /\ script'.pending = Pending(Line.txn)
          /\ script'.verdict = IF Line.op = "intra" THEN IntraVerdict ELSE CrossVerdict
        BY LookFinds
    <2>2. script.test \in {5, 7, 9}
        <3>1. CASE script.test = 11
            <4>1. Line.op = "final"
                BY <3>1, LookLines DEF Line
            <4> QED BY <2>1, <4>1 DEF CrossVerdict
        <3> QED BY <2>1, <3>1
    <2> DEFINE k == script.test - (IF script.test = 5 THEN 2 ELSE 1)
    <2>4. /\ k \in EventLines /\ InTopic(LineEvent(k))
          /\ LineEvent(k).txn = Line.txn /\ LineEvent(k).lsn = Line.lsn
        BY <2>1, <2>2, AwaitedLine
    <2>5. JobFacts /\ ~Pending(LineEvent(k).txn)
        BY <2>1, <2>4 DEF InjectionFacts
    <2> HIDE DEF k
    <2>6. PICK r \in table : r.txn = Line.txn /\ r.lsn >= Line.lsn
        BY <2>4, <2>5, LineLanded
    <2>7. r \in RowsSeen
        BY <2>6 DEF RowsSeen, RowsOf
    <2>8. IF Line.op = "seeded" THEN r.lsn = 1 ELSE Tombstone(r)
        BY <2>1, <2>2, <2>6, AwaitedRow
    <2>9. Line.op \in {"intra", "seeded", "tombstone"}
        BY <2>2, LookLines DEF Line
    <2> QED BY <2>1, <2>7, <2>8, <2>9 DEF IntraVerdict, CrossVerdict
<1>3. InjectionSpec => []OnlyRejected
    BY InjectorsAreAllowed, OnlyRejectedInvariant, PTL
<1>4. InjectionSpec => []NothingLost
    BY InjectorsAreAllowed, NothingExpires, PTL
<1> QED BY <1>1, <1>2, <1>3, <1>4, InjectionFactsInvariant, PTL DEF InjectionSpec

-----------------------------------------------------------------------------
(* The parity oracle and the suite of bad records.                         *)

(* The rows of test k are in Postgres; the ids of test k are kept.         *)
Inserted(k) == \/ k < script.test
               \/ k = script.test /\ script.pc \notin {"start", "inject"}
Kept(k) == k < script.test \/ script.pc \in {"dump", "dumped", "cleaned"}

(* Until the clean-up, Postgres has the bad row of each test that ran, and *)
(* then none; it never has a rogue one; and the dump has all their ids.    *)
SuiteRows ==
    /\ script.pc \in {"dump", "dumped", "cleaned"} => script.test = Len(Tests)
    /\ script.pgIds \subseteq PgBad
    /\ script.pc # "dead" => \A k \in PgTests : Kept(k) => Tests[k].bad \subseteq script.pgIds
    /\ \A t \in Present : t \notin Rogue /\ Suits(t, pg[t])
    /\ script.pc \notin {"dead", "cleaned"} =>
         \A k \in PgTests : Inserted(k) => Tests[k].bad \subseteq Present
    /\ script.pc = "cleaned" => Present \cap PgBad = {}

(* The rows of an open transaction are those the suite inserts or deletes. *)
Writing(t) == script.pc = "inject" /\ Test.inPostgres /\ t \in Test.good \cup Test.bad
Deleting(t) == script.pc = "dumped" /\ t \in script.pgIds

SuiteView ==
    /\ \A t \in Txns :
         \/ view[t] = pg[t]
         \/ Writing(t) /\ pg[t] = Absent /\ view[t] = RowOf[t]
         \/ Deleting(t) /\ view[t] = Absent
    /\ \A j \in 1..Len(written) : LET t == written[j].txn IN
         \/ Writing(t) /\ Says(written[j], RowOf[t]) /\ view[t] = RowOf[t]
         \/ Deleting(t) /\ Says(written[j], Absent) /\ view[t] = Absent

(* What the topic says of an id is bad if the id is, and no id is deleted  *)
(* before the clean-up; an id that is not cleaned up never changes.        *)
Fits(e, row, place) ==
    /\ IF e.op = "d" THEN place = "cleaned" /\ e.txn \in PgBad
                     ELSE Suits(e.txn, e)
    /\ Says(e, row) \/ e.txn \in Rogue \/ (place = "cleaned" /\ e.txn \in PgBad)

SuiteEvents ==
    \A e \in Event : Emitted(e) => Fits(e, pg[e.txn], script.pc)

SuiteState ==
    script.name = "bad" => SuiteRows /\ SuiteView /\ SuiteEvents /\ SyncBut(Rogue)

(* A test that goes through Postgres has no rogue id and the good and bad  *)
(* ids of such tests; a test that does not, rogue ids.                     *)
LEMMA IdsOfTest ==
    ASSUME ScriptType, script.name = "bad"
    PROVE  /\ script.test \in 1..Len(Tests) /\ Test = Tests[script.test]
           /\ Test.inPostgres => /\ script.test \in PgTests
                                 /\ Test.good \subseteq PgGood /\ Test.bad \subseteq PgBad
           /\ ~Test.inPostgres => Test.bad \subseteq Rogue
<1>1. script.test \in 1..Len(Tests) /\ Test = Tests[script.test]
    <2>1. Len(Tests) \in Nat
        BY TestsAssumption
    <2>2. script.test \in Nat
        BY DEF ScriptType
    <2>3. script.test >= 1 /\ script.test <= Len(Tests)
        BY DEF ScriptType
    <2> QED BY <2>1, <2>2, <2>3 DEF Test
<1> QED BY <1>1 DEF PgTests, PgGood, PgBad, Rogue

(* An event that says what the row is suits the id as the row does.        *)
LEMMA SaysSuits ==
    ASSUME NEW e \in Event, NEW row, row # Absent, Says(e, row), Suits(e.txn, row)
    PROVE  e.op # "d" /\ Suits(e.txn, e)
<1>1. e.op # "d" /\ row.merchant = e.merchant /\ row.wellFormed = e.wellFormed
    BY DEF Says
<1> QED BY <1>1 DEF Suits, Accepted, NeverAccepted

LEMMA SuiteInit ==
    ASSUME FreshSuite, InjectionInit
    PROVE  SuiteState
<1> SUFFICES ASSUME script.name = "bad"
             PROVE  SuiteRows /\ SuiteView /\ SuiteEvents /\ SyncBut(Rogue)
    BY DEF SuiteState
<1>1. /\ PipelineInit /\ SyncBut(Rogue)
      /\ script.pc = "start" /\ script.test = 1 /\ script.pgIds = {}
    BY SourceInit DEF InjectionInit, CheckInit, NewScript
<1>2. \A e : ~Emitted(e)
    BY <1>1 DEF PipelineInit, Init, Emitted, InTopic, InFeed
<1>3. SuiteView
    BY <1>1 DEF PipelineInit, SuiteView
<1>4. \A t \in Present : t \notin Rogue /\ Suits(t, pg[t])
    BY <1>1 DEF PipelineInit, FreshSuite, Present, Suits
<1>5. \A k \in PgTests : ~Inserted(k) /\ ~Kept(k)
    BY <1>1 DEF PgTests, Inserted, Kept
<1> QED BY <1>1, <1>2, <1>3, <1>4, <1>5 DEF SuiteRows, SuiteEvents

(* Where the suite has no transaction, Postgres has none.                  *)
LEMMA NoTransaction ==
    ASSUME SourceType, \/ SyncBut(Rogue) /\ written = <<>>
                       \/ SuiteView /\ \A t : ~Writing(t) /\ ~Deleting(t)
    PROVE  /\ \A t \in Txns : view[t] = pg[t]
           /\ \A j : j \notin 1..Len(written)
<1>1. CASE SyncBut(Rogue) /\ written = <<>>
    BY <1>1 DEF SyncBut, TransactionOpen, LeftAs
<1>2. CASE SuiteView /\ \A t : ~Writing(t) /\ ~Deleting(t)
    BY <1>2 DEF SuiteView
<1> QED BY <1>1, <1>2

LEMMA NothingWritten ==
    ASSUME \A t \in Txns : view'[t] = pg'[t], \A j : j \notin 1..Len(written')
    PROVE  SuiteView'
BY DEF SuiteView

(* The rows of Postgres stay, and so does what the topic says of them.     *)
LEMMA EventsStay ==
    ASSUME SuiteEvents, pg' = pg, script.pc = "cleaned" => script'.pc = "cleaned",
           \A e \in Event : Emitted(e)' => Emitted(e) \/ Fits(e, pg[e.txn], script'.pc)
    PROVE  SuiteEvents'
BY DEF SuiteEvents, Fits, Suits, Accepted, NeverAccepted, Says

(* The script's steps that touch neither Postgres nor Kafka.               *)
LEMMA SuiteMoves ==
    ASSUME InjectionType, script.name = "bad",
           StartSuite \/ AwaitPresence \/ AwaitDlq \/ DumpIds \/ ScriptDies
    PROVE  /\ UNCHANGED <<vars, source>>
           /\ script'.test = script.test /\ script'.pgIds = script.pgIds
           /\ \/ script'.pc = "dead"
              \/ script.pc = "start" /\ script'.pc = "inject"
              \/ script.pc = "presence" /\ script'.pc = "dlq"
              \/ script.pc = "dlq" /\ script'.pc = "absence"
              \/ script.pc = "dump" /\ script'.pc = "dumped"
<1>1. UNCHANGED <<vars, source>>
    BY DEF StartSuite, AwaitPresence, AwaitDlq, DumpIds, ScriptDies, OnlyScript,
           checkVars, pipelineVars
<1>2. CASE StartSuite \/ DumpIds \/ ScriptDies
    BY <1>1, <1>2 DEF StartSuite, DumpIds, ScriptDies, Go, InjectionType, ScriptType
<1>3. CASE AwaitPresence \/ AwaitDlq
    BY <1>1, <1>3 DEF AwaitPresence, AwaitDlq, InjectionType, ScriptType
<1> QED BY <1>2, <1>3

LEMMA MovesKeepRows ==
    ASSUME InjectionType, SuiteRows, script.name = "bad",
           StartSuite \/ AwaitPresence \/ AwaitDlq \/ DumpIds \/ ScriptDies
    PROVE  SuiteRows'
<1>1. /\ Present' = Present /\ pg' = pg
      /\ script'.test = script.test /\ script'.pgIds = script.pgIds
    BY SuiteMoves DEF source, Present
<1>2. CASE script'.pc = "dead"
    BY <1>1, <1>2 DEF SuiteRows, Suits, Accepted, NeverAccepted
<1>3. CASE script'.pc # "dead"
    <2>1. \/ script.pc = "start" /\ script'.pc = "inject"
          \/ script.pc = "presence" /\ script'.pc = "dlq"
          \/ script.pc = "dlq" /\ script'.pc = "absence"
          \/ script.pc = "dump" /\ script'.pc = "dumped"
        BY <1>3, SuiteMoves
    <2>2. \A k : (Inserted(k)' => Inserted(k)) /\ (Kept(k)' => Kept(k))
        BY <1>1, <2>1 DEF Inserted, Kept
    <2> QED BY <1>1, <2>1, <2>2 DEF SuiteRows, Suits, Accepted, NeverAccepted
<1> QED BY <1>2, <1>3

(* The end of a test.                                                      *)
LEMMA SettlesKeepRows ==
    ASSUME InjectionType, SuiteRows, script.name = "bad", SettleAbsence
    PROVE  SuiteRows' /\ UNCHANGED <<vars, source>>
<1>1. UNCHANGED <<vars, source>>
    BY DEF SettleAbsence, OnlyScript, checkVars, pipelineVars
<1>2. Present' = Present /\ pg' = pg
    BY <1>1 DEF source, Present
<1>3. /\ script.pc = "absence"
      /\ script'.pgIds = IF Test.inPostgres THEN script.pgIds \cup Test.bad
                                            ELSE script.pgIds
      /\ script'.pc = IF script.test = Len(Tests) THEN "dump" ELSE "inject"
      /\ script'.test = IF script.test = Len(Tests) THEN script.test ELSE script.test + 1
    BY DEF SettleAbsence, InjectionType, ScriptType
<1>4. /\ script.test \in 1..Len(Tests) /\ Test = Tests[script.test]
      /\ Test.inPostgres => Test.bad \subseteq PgBad
    BY IdsOfTest DEF InjectionType
<1>5. Len(Tests) \in Nat
    BY TestsAssumption
<1>6. ASSUME NEW k \in PgTests
      PROVE  /\ Kept(k)' => Kept(k) \/ k = script.test
             /\ Inserted(k)' => Inserted(k)
    <2>1. k \in 1..Len(Tests)
        BY DEF PgTests
    <2> QED BY <1>3, <1>4, <1>5, <2>1 DEF Kept, Inserted
<1>7. script'.pgIds \subseteq PgBad
    BY <1>3, <1>4 DEF SuiteRows
<1>8. \A k \in PgTests : Kept(k)' => Tests[k].bad \subseteq script'.pgIds
    <2> SUFFICES ASSUME NEW k \in PgTests, Kept(k)'
                 PROVE  Tests[k].bad \subseteq script'.pgIds
        OBVIOUS
    <2>1. CASE Kept(k)
        BY <1>3, <2>1 DEF SuiteRows
    <2>2. CASE k = script.test
        BY <1>3, <1>4, <2>2 DEF PgTests
    <2> QED BY <1>6, <2>1, <2>2
<1>9. \A k \in PgTests : Inserted(k)' => Tests[k].bad \subseteq Present
    BY <1>3, <1>6 DEF SuiteRows
<1>10. script'.pc \in {"dump", "inject"}
       /\ (script'.pc = "dump" => script'.test = Len(Tests))
    BY <1>3
<1>11. \A t \in Present : t \notin Rogue /\ Suits(t, pg[t])
    BY DEF SuiteRows
<1>12. SuiteRows'
    BY <1>2, <1>7, <1>8, <1>9, <1>10, <1>11
       DEF SuiteRows, Suits, Accepted, NeverAccepted
<1> QED BY <1>1, <1>12

(* A move, the end of a test or a death finds no transaction open.         *)
LEMMA MovesKeepSuite ==
    ASSUME InjectionType, SuiteRows, SuiteView, SuiteEvents, SyncBut(Rogue),
           script.name = "bad",
           \/ StartSuite \/ AwaitPresence \/ AwaitDlq \/ DumpIds \/ ScriptDies
           \/ SettleAbsence
    PROVE  SuiteRows' /\ SuiteView' /\ SuiteEvents' /\ SyncBut(Rogue)'
<1>1. UNCHANGED <<vars, source>>
    BY SuiteMoves, SettlesKeepRows
<1>2. /\ UNCHANGED <<topic, feed, pg, view, written>>
    BY <1>1 DEF vars, kafka, source
<1>3. \/ written = <<>>
      \/ script.pc \in {"start", "presence", "dlq", "absence", "dump"}
    BY DEF StartSuite, AwaitPresence, AwaitDlq, DumpIds, ScriptDies, SettleAbsence
<1>4. \A t \in Txns : view[t] = pg[t]
    BY <1>3, NoTransaction DEF InjectionType, Writing, Deleting
<1>5. \A j : j \notin 1..Len(written)
    BY <1>3, NoTransaction DEF InjectionType, Writing, Deleting
<1>6. SuiteView'
    BY <1>2, <1>4, <1>5, NothingWritten
<1>7. script.pc # "cleaned"
    BY DEF StartSuite, AwaitPresence, AwaitDlq, DumpIds, ScriptDies, SettleAbsence
<1>8. SuiteEvents'
    BY <1>2, <1>7, SameEmissions, EventsStay
<1> QED BY <1>1, <1>2, <1>6, <1>8, MovesKeepRows, SettlesKeepRows, QuietKeepsSync
        DEF InjectionType

-----------------------------------------------------------------------------
(* The transactions of the suite.                                          *)

(* A row that a test inserts.                                              *)
LEMMA InjectedRow ==
    ASSUME FreshSuite, InjectionType, script.name = "bad", NEW t, Writing(t)
    PROVE  /\ t \in Txns /\ RowOf[t] \in Image /\ RowOf[t] # Absent
           /\ t \notin Rogue /\ Suits(t, RowOf[t]) /\ (t \in Test.bad => t \in PgBad)
<1>1. /\ Test \in TestShape /\ Test.good \subseteq PgGood /\ Test.bad \subseteq PgBad
      /\ t \in Test.good \cup Test.bad
    BY IdsOfTest, TestOfSuite DEF InjectionType, Writing
<1>2. t \in Txns /\ RowOf[t] \in Image
    BY <1>1, TestsAssumption DEF TestShape
<1> QED BY <1>1, <1>2, AbsentAssumption DEF FreshSuite

(* A statement of the suite.                                               *)
LEMMA WriteKeepsView ==
    ASSUME InjectionType, SuiteView, NEW t, NEW row, NEW events, Writes(t, row, events),
           script' = script,
           \/ Writing(t) /\ view[t] = Absent /\ row = RowOf[t] /\ RowOf[t] # Absent
           \/ Deleting(t) /\ row = Absent
    PROVE  SuiteView'
<1>1. /\ t \in Txns /\ UNCHANGED pg /\ view' = [view EXCEPT ![t] = row]
      /\ \A j \in 1..Len(events) : events[j].txn = t /\ Says(events[j], row)
    BY DEF Writes, WriteRow
<1>2. /\ view'[t] = row /\ \A u \in Txns : u # t => view'[u] = view[u]
    BY <1>1 DEF InjectionType, SourceType
<1>3. \A u : (Writing(u)' <=> Writing(u)) /\ (Deleting(u)' <=> Deleting(u))
    BY DEF Writing, Deleting, Test
<1>4. ~(Writing(t) /\ Deleting(t))
    BY DEF Writing, Deleting
<1>5. Writing(t) => pg[t] = Absent \/ row = Absent
    BY <1>1, <1>4 DEF SuiteView
<1>6. ASSUME NEW u \in Txns
      PROVE  \/ view'[u] = pg'[u]
             \/ Writing(u) /\ pg'[u] = Absent /\ view'[u] = RowOf[u]
             \/ Deleting(u) /\ view'[u] = Absent
    BY <1>1, <1>2, <1>3, <1>4, <1>5 DEF SuiteView
<1>7. ASSUME NEW j \in 1..Len(written')
      PROVE  LET u == written'[j].txn IN
             \/ Writing(u) /\ Says(written'[j], RowOf[u]) /\ view'[u] = RowOf[u]
             \/ Deleting(u) /\ Says(written'[j], Absent) /\ view'[u] = Absent
    <2>1. CASE \E i \in 1..Len(events) : written'[j] = events[i]
        BY <1>1, <1>2, <1>3, <2>1
    <2>2. CASE j \in 1..Len(written) /\ written'[j] = written[j]
        <3> DEFINE u == written[j].txn
        <3>1. u \in Txns
            <4>1. written[j] \in Event
                BY <2>2, EventsAssumption DEF InjectionType, SourceType
            <4> QED BY <4>1 DEF Event
        <3>2. \/ Writing(u) /\ Says(written[j], RowOf[u]) /\ view[u] = RowOf[u]
              \/ Deleting(u) /\ Says(written[j], Absent) /\ view[u] = Absent
            BY <2>2 DEF SuiteView
        <3>3. CASE u # t
            BY <1>2, <1>3, <2>2, <3>1, <3>2, <3>3
        <3>4. CASE u = t
            BY <1>2, <1>3, <1>4, <2>2, <3>2, <3>4
        <3> QED BY <3>3, <3>4
    <2> QED BY <2>1, <2>2, WrittenGrows DEF InjectionType
<1> QED BY <1>6, <1>7 DEF SuiteView, Says, Writing, Deleting, Test

LEMMA StatementKeepsSuite ==
    ASSUME FreshSuite, InjectionType, SuiteRows, SuiteView, SuiteEvents,
           SyncBut(Rogue), script.name = "bad", InjectRow \/ DeleteDumped
    PROVE  SuiteRows' /\ SuiteView' /\ SuiteEvents' /\ SyncBut(Rogue)'
<1>1. script' = script
    BY DEF InjectRow, DeleteDumped
<1>2. PICK t, row, events :
          /\ Writes(t, row, events)
          /\ \/ Writing(t) /\ view[t] = Absent /\ row = RowOf[t] /\ RowOf[t] # Absent
             \/ Deleting(t) /\ row = Absent
    <2>1. CASE InjectRow
        <3>1. PICK t \in Test.good \cup Test.bad : InsertRow(t, RowOf[t])
            BY <2>1 DEF InjectRow
        <3>2. Writing(t) /\ view[t] = Absent
            BY <2>1, <3>1 DEF InjectRow, Injecting, Writing, InsertRow
        <3> QED BY <3>1, <3>2, InjectedRow, InsertWrites DEF InjectionType
    <2>2. CASE DeleteDumped
        <3>1. PICK t \in script.pgIds : DeleteRow(t)
            BY <2>2 DEF DeleteDumped
        <3>2. t \in Txns /\ Deleting(t)
            BY <2>2 DEF DeleteDumped, Deleting, InjectionType, ScriptType
        <3> QED BY <3>1, <3>2, DeleteWrites DEF InjectionType
    <2> QED BY <2>1, <2>2
<1>3. UNCHANGED <<topic, feed, pg>>
    BY <1>2 DEF Writes, WriteRow, vars, kafka
<1>4. SuiteView'
    BY <1>1, <1>2, WriteKeepsView
<1>5. SyncBut(Rogue)'
    BY <1>2, WriteKeepsSync DEF InjectionType
<1>6. SuiteEvents'
    BY <1>1, <1>3, SameEmissions, EventsStay
<1>7. SuiteRows'
    BY <1>1, <1>3 DEF SuiteRows, Inserted, Kept, Present, Suits, Accepted, NeverAccepted
<1> QED BY <1>4, <1>5, <1>6, <1>7

(* What a commit of the suite leaves, and what it adds to what is emitted. *)
LEMMA CommitLeaves ==
    ASSUME InjectionType, SuiteView, CommitTransaction
    PROVE  /\ pg' = view /\ view' = view /\ \A j : j \notin 1..Len(written')
           /\ \A e \in Event : Emitted(e)' =>
                Emitted(e) \/ \E j \in 1..Len(written) : written[j] = e
<1>1. /\ pg' = view /\ view' = view /\ written' = <<>> /\ UNCHANGED topic
      /\ ~slot => feed' = feed
    BY DEF CommitTransaction, vars, kafka
<1>2. \A e \in Event : Emitted(e)' =>
        Emitted(e) \/ \E j \in 1..Len(written) : written[j] = e
    BY <1>1, CommitFeed, SameEmissions DEF InjectionType
<1> QED BY <1>1, <1>2

(* A test inserts its rows.                                                *)
LEMMA InjectKeepsSuite ==
    ASSUME FreshSuite, InjectionType, SuiteRows, SuiteView, SuiteEvents,
           SyncBut(Rogue), script.name = "bad", CommitRows
    PROVE  SuiteRows' /\ SuiteView' /\ SuiteEvents' /\ SyncBut(Rogue)'
<1> DEFINE touched == Test.good \cup Test.bad
<1>1. /\ script.pc = "inject" /\ script'.pc = "presence" /\ Test.inPostgres
      /\ script'.test = script.test /\ script'.pgIds = script.pgIds
      /\ CommitTransaction /\ \A t : ~Deleting(t) /\ (Writing(t) <=> t \in touched)
    BY DEF CommitRows, Injecting, Go, InjectionType, ScriptType, Writing, Deleting
<1>2. /\ script.test \in PgTests /\ Test = Tests[script.test] /\ Test.bad \subseteq PgBad
      /\ touched \in SUBSET Txns
    BY <1>1, IdsOfTest, TestOfSuite DEF InjectionType, TestShape
<1>3. /\ pg' = view /\ view' = view /\ \A j : j \notin 1..Len(written')
      /\ \A e \in Event : Emitted(e)' =>
           Emitted(e) \/ \E j \in 1..Len(written) : written[j] = e
    BY <1>1, CommitLeaves
<1>4. \A t \in touched : pg'[t] = RowOf[t]
    <2> SUFFICES ASSUME NEW t \in touched PROVE view[t] = RowOf[t]
        BY <1>3
    <2>1. PICK k \in DOMAIN written : written[k].txn = t
        BY DEF CommitRows
    <2>2. k \in 1..Len(written)
        BY <2>1 DEF InjectionType, SourceType
    <2> QED BY <1>1, <2>1, <2>2 DEF SuiteView
<1>5. \A t \in Txns \ touched : pg'[t] = pg[t]
    BY <1>1, <1>3 DEF SuiteView
<1>6. \A t \in touched : pg[t] = Absent \/ pg[t] = RowOf[t]
    BY <1>1, <1>2, <1>3, <1>4 DEF SuiteView
<1>7. \A t \in touched : /\ RowOf[t] # Absent
                         /\ t \notin Rogue /\ Suits(t, RowOf[t])
    BY <1>1, InjectedRow
<1>8. Present' = Present \cup touched
    BY <1>2, <1>4, <1>5, <1>7 DEF Present
<1>9. \A t \in Present' : t \notin Rogue /\ Suits(t, pg'[t])
    <2> SUFFICES ASSUME NEW t \in Present' PROVE t \notin Rogue /\ Suits(t, pg'[t])
        OBVIOUS
    <2>1. t \in Txns
        BY DEF Present
    <2>2. CASE t \in touched
        BY <1>4, <1>7, <2>2
    <2>3. CASE t \notin touched
        BY <1>5, <1>8, <2>1, <2>3 DEF SuiteRows
    <2> QED BY <2>2, <2>3
<1>10. \A k \in PgTests : Inserted(k)' => Tests[k].bad \subseteq Present'
    <2> SUFFICES ASSUME NEW k \in PgTests, Inserted(k)' PROVE Tests[k].bad \subseteq Present'
        OBVIOUS
    <2>1. Inserted(k) \/ k = script.test
        BY <1>1 DEF Inserted
    <2>2. CASE Inserted(k)
        BY <1>1, <1>8, <2>2 DEF SuiteRows
    <2>3. CASE k = script.test
        BY <1>2, <1>8, <2>3
    <2> QED BY <2>1, <2>2, <2>3
<1>11. \A k \in PgTests : Kept(k)' => Kept(k)
    BY <1>1 DEF Kept
<1>12. SuiteView'
    BY <1>3, NothingWritten
<1>13. SyncBut(Rogue)'
    BY <1>1, CommitKeepsSync DEF InjectionType
<1>14. ASSUME NEW e \in Event, Emitted(e)'
       PROVE  Fits(e, pg'[e.txn], script'.pc)
    <2>1. e.txn \in Txns
        BY DEF Event
    <2>2. CASE \E j \in 1..Len(written) : written[j] = e
        <3>1. e.txn \in touched /\ Says(e, RowOf[e.txn])
            BY <1>1, <2>2 DEF SuiteView
        <3>2. e.op # "d" /\ Suits(e.txn, e)
            BY <1>7, <3>1, SaysSuits
        <3> QED BY <1>4, <3>1, <3>2 DEF Fits
    <2>3. CASE Emitted(e)
        <3>1. Fits(e, pg[e.txn], script.pc)
            BY <2>3 DEF SuiteEvents
        <3>2. e.op # "d" /\ Suits(e.txn, e) /\ (Says(e, pg[e.txn]) \/ e.txn \in Rogue)
            BY <1>1, <3>1 DEF Fits
        <3>3. CASE e.txn \in touched
            <4>1. Says(e, pg[e.txn])
                BY <1>7, <3>2, <3>3
            <4>2. pg[e.txn] # Absent
                BY <3>2, <4>1 DEF Says
            <4>3. pg'[e.txn] = pg[e.txn]
                BY <1>4, <1>6, <3>3, <4>2
            <4> QED BY <3>2, <4>1, <4>3 DEF Fits
        <3>4. CASE e.txn \notin touched
            <4>1. pg'[e.txn] = pg[e.txn]
                BY <1>5, <2>1, <3>4
            <4> QED BY <3>2, <4>1 DEF Fits
        <3> QED BY <3>3, <3>4
    <2> QED BY <1>3, <1>14, <2>2, <2>3
<1>15. SuiteEvents'
    BY <1>14 DEF SuiteEvents, Fits, Suits, Accepted, NeverAccepted, Says
<1> HIDE DEF touched
<1>16. SuiteRows'
    BY <1>1, <1>9, <1>10, <1>11 DEF SuiteRows, Suits, Accepted, NeverAccepted
<1> QED BY <1>12, <1>13, <1>15, <1>16

(* A test publishes a rogue record, and Postgres knows nothing of it.      *)
LEMMA RogueKeepsRows ==
    ASSUME InjectionType, SuiteRows, script.name = "bad", InjectRogue
    PROVE  SuiteRows'
<1>1. /\ script.pc = "inject" /\ script'.pc = "presence" /\ ~Test.inPostgres
      /\ script'.test = script.test /\ script'.pgIds = script.pgIds
      /\ pg' = pg /\ Present' = Present
    BY DEF InjectRogue, Go, source, Present, InjectionType, ScriptType
<1>2. script.test \notin PgTests
    BY <1>1, IdsOfTest DEF InjectionType, PgTests
<1>3. \A k \in PgTests : (Inserted(k)' => Inserted(k)) /\ (Kept(k)' => Kept(k))
    BY <1>1, <1>2 DEF Inserted, Kept
<1> QED BY <1>1, <1>3 DEF SuiteRows, Suits, Accepted, NeverAccepted

LEMMA RogueKeepsSuite ==
    ASSUME FreshSuite, InjectionType, SuiteRows, SuiteView, SuiteEvents,
           SyncBut(Rogue), script.name = "bad", InjectRogue
    PROVE  SuiteRows' /\ SuiteView' /\ SuiteEvents' /\ SyncBut(Rogue)'
<1>1. /\ script.pc = "inject" /\ ~Test.inPostgres /\ UNCHANGED source
      /\ Test \in TestShape
    BY TestOfSuite DEF InjectRogue, InjectionType
<1>2. PICK t \in Test.bad :
          Publish(PartitionOf[t], RowEvent("c", t, RowOf[t], MaxChanges + 1))
    BY DEF InjectRogue
<1> DEFINE x == RowEvent("c", t, RowOf[t], MaxChanges + 1)
<1>3. t \in Rogue /\ t \in Txns
    BY <1>1, <1>2, IdsOfTest DEF InjectionType, TestShape
<1>4. /\ x \in Event /\ PartitionOf[t] \in Partitions
      /\ x.txn = t /\ x.op = "c" /\ x.merchant = RowOf[t].merchant
      /\ x.wellFormed = RowOf[t].wellFormed
    BY <1>3, InjectedEventsAssumption, EventsAssumption, PartitionOfAssumption DEF RowEvent
<1>5. Fits(x, pg[x.txn], script'.pc)
    <2>1. Suits(t, RowOf[t])
        BY <1>3 DEF FreshSuite
    <2> QED BY <1>3, <1>4, <2>1 DEF Fits, Suits, Accepted, NeverAccepted
<1>6. Publish(PartitionOf[t], x)
    BY <1>2
<1> HIDE DEF x
<1>7. UNCHANGED <<pg, view, written, feed>>
    BY <1>1 DEF source
<1>8. \A e \in Event : Emitted(e)' => Emitted(e) \/ e = x
    BY <1>4, <1>6, <1>7, PublishedTopic DEF Emitted, InFeed, InjectionType
<1>9. SuiteEvents'
    BY <1>1, <1>5, <1>7, <1>8, EventsStay
<1>10. SyncBut(Rogue)'
    BY <1>1, <1>3, <1>4, <1>6, StrangerKeepsSync DEF InjectionType
<1>11. \A u \in Txns : view[u] = pg[u]
    BY <1>1, NoTransaction DEF InjectionType, Writing, Deleting
<1>12. \A j : j \notin 1..Len(written)
    BY <1>1, NoTransaction DEF InjectionType, Writing, Deleting
<1>13. SuiteView'
    BY <1>7, <1>11, <1>12, NothingWritten
<1> QED BY <1>9, <1>10, <1>13, RogueKeepsRows

(* The clean-up deletes the rows of all dumped ids.                        *)
LEMMA CleanupKeepsSuite ==
    ASSUME InjectionType, SuiteRows, SuiteView, SuiteEvents, SyncBut(Rogue),
           script.name = "bad", Cleanup
    PROVE  SuiteRows' /\ SuiteView' /\ SuiteEvents' /\ SyncBut(Rogue)'
<1>1. /\ script.pc = "dumped" /\ script'.pc = "cleaned"
      /\ script'.test = script.test /\ script'.pgIds = script.pgIds
      /\ \A t \in script.pgIds : view[t] = Absent
      /\ \A t : ~Writing(t) /\ (Deleting(t) <=> t \in script.pgIds)
    BY DEF Cleanup, Go, InjectionType, ScriptType, Writing, Deleting
<1>2. script.pgIds = PgBad
    <2>1. \A k \in PgTests : Tests[k].bad \subseteq script.pgIds
        BY <1>1 DEF SuiteRows, Kept
    <2> QED BY <2>1 DEF SuiteRows, PgBad
<1>3. \A t \in Txns : view[t] = IF t \in PgBad THEN Absent ELSE pg[t]
    BY <1>1, <1>2 DEF SuiteView
<1>4. /\ \A t \in Txns : pg'[t] = view[t] /\ view'[t] = view[t]
      /\ \A j : j \notin 1..Len(written')
      /\ \A e \in Event : Emitted(e)' =>
           Emitted(e) \/ \E j \in 1..Len(written) : written[j] = e
      /\ SyncBut(Rogue)'
    <2>1. CASE CommitTransaction
        BY <2>1, CommitLeaves, CommitKeepsSync DEF InjectionType
    <2>2. CASE written = <<>> /\ UNCHANGED pipelineVars
        <3>1. \A t \in Txns : view[t] = pg[t]
            BY <2>2, NoTransaction DEF InjectionType
        <3>2. UNCHANGED <<topic, source>>
            BY <2>2 DEF pipelineVars, vars, kafka
        <3>3. UNCHANGED <<feed, pg, view, written>>
            BY <3>2 DEF source
        <3> QED BY <2>2, <3>1, <3>2, <3>3, SameEmissions, QuietKeepsSync
                DEF InjectionType
    <2> QED BY <2>1, <2>2 DEF Cleanup
<1>5. Present' = Present \ PgBad
    BY <1>3, <1>4 DEF Present
<1>6. \A t \in Present' : t \notin Rogue /\ Suits(t, pg'[t])
    <2> SUFFICES ASSUME NEW t \in Present' PROVE t \notin Rogue /\ Suits(t, pg'[t])
        OBVIOUS
    <2>1. t \in Txns /\ t \in Present /\ t \notin PgBad
        BY <1>5 DEF Present
    <2> QED BY <1>3, <1>4, <2>1 DEF SuiteRows
<1>7. \A k \in PgTests : Kept(k)' => Kept(k)
    BY <1>1 DEF Kept
<1>8. SuiteRows'
    BY <1>1, <1>5, <1>6, <1>7 DEF SuiteRows, Suits, Accepted, NeverAccepted
<1>9. ASSUME NEW e \in Event, Emitted(e)'
      PROVE  Fits(e, pg'[e.txn], "cleaned")
    <2>1. e.txn \in Txns
        BY DEF Event
    <2>2. CASE \E j \in 1..Len(written) : written[j] = e
        <3>1. e.txn \in PgBad /\ Says(e, Absent)
            BY <1>1, <1>2, <2>2 DEF SuiteView
        <3> QED BY <3>1 DEF Fits, Says
    <2>3. CASE Emitted(e)
        <3>1. Fits(e, pg[e.txn], script.pc)
            BY <2>3 DEF SuiteEvents
        <3>2. e.txn \notin PgBad => pg'[e.txn] = pg[e.txn]
            BY <1>3, <1>4, <2>1
        <3> QED BY <1>1, <3>1, <3>2 DEF Fits
    <2> QED BY <1>4, <1>9, <2>2, <2>3
<1>10. SuiteEvents'
    BY <1>1, <1>9 DEF SuiteEvents, Fits, Suits, Accepted, NeverAccepted, Says
<1>11. SuiteView'
    BY <1>4, NothingWritten
<1> QED BY <1>4, <1>8, <1>10, <1>11

(* The script dies in a transaction, which leaves nothing behind.          *)
LEMMA DeathKeepsSuite ==
    ASSUME InjectionType, SuiteRows, SuiteView, SuiteEvents, SyncBut(Rogue),
           script.name = "bad", DieInTransaction
    PROVE  SuiteRows' /\ SuiteView' /\ SuiteEvents' /\ SyncBut(Rogue)'
<1>1. /\ Rollback /\ script'.pc = "dead" /\ script'.pgIds = script.pgIds
    BY DEF DieInTransaction, Go, InjectionType, ScriptType
<1>2. /\ UNCHANGED <<topic, feed, pg>> /\ view' = pg /\ written' = <<>>
      /\ written # <<>>
    BY <1>1 DEF Rollback, vars, kafka
<1>3. SuiteView'
    BY <1>2, NothingWritten
<1>4. script.pc # "cleaned"
    <2>1. CASE script.pc = "cleaned"
        <3>1. \A j : j \notin 1..Len(written)
            BY <2>1, NoTransaction DEF InjectionType, Writing, Deleting
        <3>2. Len(written) \in Nat /\ written \in Seq(Events)
            BY DEF InjectionType, SourceType
        <3>3. Len(written) \notin 1..Len(written)
            BY <3>1
        <3>4. Len(written) = 0
            BY <3>2, <3>3
        <3>5. written = <<>>
            BY <3>2, <3>4
        <3> QED BY <1>2, <3>5
    <2> QED BY <2>1
<1>5. SuiteEvents'
    BY <1>2, <1>4, SameEmissions, EventsStay
<1>6. SyncBut(Rogue)'
    BY <1>1, RollbackKeepsSync DEF InjectionType
<1>7. SuiteRows'
    BY <1>1, <1>2 DEF SuiteRows, Present, Suits, Accepted, NeverAccepted
<1> QED BY <1>3, <1>5, <1>6, <1>7

-----------------------------------------------------------------------------
(* A snapshot repeats the rows of Postgres.                                *)
LEMMA SnapshotFits ==
    ASSUME SuiteRows, NEW e \in Event, SnapshotRow(e), NEW place
    PROVE  Fits(e, pg[e.txn], place)
<1>1. e.txn \in Present /\ pg[e.txn] # Absent /\ Says(e, pg[e.txn])
    BY DEF SnapshotRow, Present
<1>2. Suits(e.txn, pg[e.txn])
    BY <1>1 DEF SuiteRows
<1> QED BY <1>1, <1>2, SaysSuits DEF Fits

(* A step that emits nothing new but rows of a snapshot, and leaves        *)
(* Postgres and the script alone.                                          *)
LEMMA PipelineKeepsSuite ==
    ASSUME InjectionType, SuiteRows, SuiteView, SuiteEvents, SyncBut(Rogue),
           PipelineRuns
    PROVE  SuiteRows' /\ SuiteView' /\ SuiteEvents' /\ SyncBut(Rogue)'
<1>1. script' = script /\ TypeOK /\ SourceType
    BY DEF PipelineRuns, InjectionType
<1>2. ASSUME UNCHANGED <<pg, view, written>>
      PROVE  SuiteRows' /\ SuiteView'
    BY <1>1, <1>2 DEF SuiteRows, SuiteView, Writing, Deleting, Test, Inserted, Kept,
                      Present, Suits, Accepted, NeverAccepted, Says
<1>3. CASE JobStep
    <2>1. topic' = topic /\ UNCHANGED source
        BY <1>1, <1>3, JobStepSource
    <2>2. UNCHANGED <<pg, view, written>> /\ \A e : Emitted(e)' => Emitted(e)
        BY <2>1, SameEmissions DEF source
    <2>3. SuiteEvents'
        BY <1>1, <2>2, EventsStay
    <2> QED BY <1>1, <1>2, <2>1, <2>2, <2>3, QuietKeepsSync
<1>4. CASE CreateConnector \/ RestartConnector \/ Emit
    <2>1. UNCHANGED <<pg, view, written>>
        BY <1>4 DEF CreateConnector, RestartConnector, Emit
    <2>2. SuiteEvents'
        BY <1>1, <1>4, <2>1, ConnectorEmits, SnapshotFits, EventsStay
    <2>3. SyncBut(Rogue)'
        BY <1>1, <1>4, CreateKeepsSync, RestartKeepsSync, EmitKeepsSync
    <2> QED BY <1>2, <2>1, <2>2, <2>3
<1> QED BY <1>3, <1>4 DEF PipelineRuns

LEMMA SuiteStep ==
    ASSUME FreshSuite, InjectionType, SuiteState, [InjectionNext]_injectionVars
    PROVE  SuiteState'
<1> SUFFICES ASSUME script'.name = "bad"
             PROVE  SuiteRows' /\ SuiteView' /\ SuiteEvents' /\ SyncBut(Rogue)'
    BY DEF SuiteState
<1>1. script.name = "bad" /\ SuiteRows /\ SuiteView /\ SuiteEvents /\ SyncBut(Rogue)
    BY ScriptNameStays DEF SuiteState
<1>2. CASE PipelineRuns
    BY <1>1, <1>2, PipelineKeepsSuite
<1>3. CASE InjectRow \/ DeleteDumped
    BY <1>1, <1>3, StatementKeepsSuite
<1>4. CASE CommitRows
    BY <1>1, <1>4, InjectKeepsSuite
<1>5. CASE InjectRogue
    BY <1>1, <1>5, RogueKeepsSuite
<1>6. CASE Cleanup
    BY <1>1, <1>6, CleanupKeepsSuite
<1>7. CASE DieInTransaction
    BY <1>1, <1>7, DeathKeepsSuite
<1>8. CASE \/ StartSuite \/ AwaitPresence \/ AwaitDlq \/ DumpIds \/ ScriptDies
           \/ SettleAbsence
    BY <1>1, <1>8, MovesKeepSuite
<1>9. CASE UNCHANGED injectionVars
    <2>1. UNCHANGED <<topic, source>> /\ script' = script
        BY <1>9 DEF injectionVars, checkVars, pipelineVars, vars, kafka
    <2>2. UNCHANGED <<feed, pg, view, written>>
        BY <2>1 DEF source
    <2>3. SuiteRows' /\ SuiteView'
        BY <1>1, <2>1, <2>2 DEF SuiteRows, SuiteView, Writing, Deleting, Test, Inserted,
                                Kept, Present, Suits, Accepted, NeverAccepted, Says
    <2>4. SuiteEvents'
        BY <1>1, <2>1, <2>2, SameEmissions, EventsStay
    <2> QED BY <1>1, <2>1, <2>3, <2>4, QuietKeepsSync DEF InjectionType
<1>10. ~LateDelete
    BY <1>1 DEF LateDelete, StartLate, CheckIdle, ReadVersion, PublishLate, LookLate
<1> QED BY <1>2, <1>3, <1>4, <1>5, <1>6, <1>7, <1>8, <1>9, <1>10
        DEF InjectionNext, BadRecordSuite

(* What is known of the sinks when the oracle is asked.                    *)
SuiteFacts ==
    /\ InjectionType /\ JobFacts /\ OnlyRejected /\ OnlyAccepted /\ NothingLost
    /\ SuiteState

LEMMA SuiteFactsInvariant ==
    ASSUME FreshSuite, MaxExpired = 0
    PROVE  InjectionSpec => []SuiteFacts
<1>1. InjectionInit => SuiteState
    BY SuiteInit
<1>2. InjectionType /\ SuiteState /\ [InjectionNext]_injectionVars => SuiteState'
    BY SuiteStep
<1>3. InjectionSpec => []SuiteState
    BY <1>1, <1>2, InjectionTypeInvariant, PTL DEF InjectionSpec
<1>4. InjectionSpec => [](JobFacts /\ OnlyRejected /\ OnlyAccepted)
    BY InjectorsAreAllowed, JobFactsInvariant, OnlyRejectedInvariant,
       OnlyAcceptedInvariant, PTL
<1>5. InjectionSpec => []NothingLost
    BY InjectorsAreAllowed, NothingExpires, PTL
<1> QED BY <1>3, <1>4, <1>5, InjectionTypeInvariant, PTL DEF SuiteFacts

(* No bad row gets into the table: what the table has of a bad id is the   *)
(* tombstone of the clean-up.                                              *)
LEMMA BadIdsAreNotLive ==
    ASSUME SuiteFacts, script.name = "bad", NEW r \in table, r.txn \in PgBad \cup Rogue
    PROVE  r.isDelete /\ script.pc = "cleaned"
<1>1. PICK e \in Event : /\ Emitted(e) /\ e.txn = r.txn
                         /\ r.isDelete = (e.op = "d")
                         /\ r.merchant = e.merchant /\ r.wellFormed = e.wellFormed
    BY DEF SuiteFacts, JobFacts, RowsEmitted
<1>2. CASE e.op = "d"
    BY <1>1, <1>2 DEF SuiteFacts, SuiteState, SuiteEvents, Fits
<1>3. CASE e.op # "d"
    <2>1. NeverAccepted(e)
        BY <1>1, <1>3 DEF SuiteFacts, SuiteState, SuiteEvents, Fits, Suits
    <2>2. PICK m \in MerchantSets \ {{}} : Admissible(r, m)
        BY DEF SuiteFacts, OnlyAccepted, Acceptable
    <2>3. e.wellFormed /\ e.merchant \in m
        BY <1>1, <1>3, <2>2 DEF Admissible
    <2> QED BY <2>1, <2>3 DEF NeverAccepted
<1> QED BY <1>2, <1>3

(* Nothing of a good id is in the DLQ.                                     *)
LEMMA GoodIdsAreApplied ==
    ASSUME SuiteFacts, script.name = "bad", NEW t \in Txns \ (PgBad \cup Rogue)
    PROVE  ~NotApplied(t)
<1> SUFFICES ASSUME NEW pos \in ChangesOf(t), FlatRow(pos[1], pos[2]) \in dlq
             PROVE  FALSE
    BY DEF NotApplied, IsNewest, SuiteFacts, NothingLost
<1> DEFINE e == topic[pos[1]][pos[2]]
           r == FlatRow(pos[1], pos[2])
<1>1. pos[1] \in Partitions /\ pos[2] \in 1..Len(topic[pos[1]]) /\ e.txn = t
    <2>1. /\ pos[1] \in Partitions /\ pos[2] \in 1..MaxRecords
          /\ pos[2] <= Len(topic[pos[1]]) /\ e.txn = t
        BY DEF ChangesOf
    <2>2. Len(topic[pos[1]]) \in Nat
        BY <2>1 DEF SuiteFacts, InjectionType, TypeOK
    <2> QED BY <2>1, <2>2, BoundsAssumption
<1>2. e \in Event /\ Emitted(e)
    BY <1>1 DEF SuiteFacts, InjectionType, TypeOK, Emitted, InTopic
<1>3. /\ r.wellFormed = e.wellFormed /\ r.merchant = e.merchant
      /\ r.isDelete = (e.op = "d")
    BY DEF FlatRow
<1>4. PICK m \in MerchantSets \ {{}} : ~Admissible(r, m)
    BY DEF SuiteFacts, OnlyRejected, Rejectable
<1> HIDE DEF e, r
<1>5. CASE e.op = "d"
    BY <1>1, <1>2, <1>5 DEF SuiteFacts, SuiteState, SuiteEvents, Fits
<1>6. CASE e.op # "d"
    <2>1. Accepted(e)
        BY <1>1, <1>2, <1>6 DEF SuiteFacts, SuiteState, SuiteEvents, Fits, Suits
    <2> QED BY <1>3, <1>4, <2>1 DEF Accepted, Admissible
<1> QED BY <1>5, <1>6

(* No snapshot overtakes a change of the suite: what is emitted of an id   *)
(* says what Postgres has of it, until the id is cleaned up.               *)
LEMMA NothingOvertaken ==
    ASSUME SuiteFacts, script.name = "bad", NEW t \in Txns \ Rogue,
           script.pc # "cleaned" \/ t \notin PgBad
    PROVE  ~Overtaken(t)
<1> SUFFICES ASSUME NEW pos \in ChangesOf(t), ~Says(topic[pos[1]][pos[2]], pg[t])
             PROVE  FALSE
    BY DEF Overtaken, IsNewest
<1> DEFINE e == topic[pos[1]][pos[2]]
<1>1. e \in Event /\ Emitted(e) /\ e.txn = t
    BY ChangesInTopic DEF SuiteFacts, JobFacts, Emitted
<1>2. Fits(e, pg[t], script.pc)
    BY <1>1 DEF SuiteFacts, SuiteState, SuiteEvents
<1> HIDE DEF e
<1>3. Says(e, pg[t])
    BY <1>1, <1>2 DEF Fits
<1> QED BY <1>3 DEF e

(* So a drained pipeline has each good id as Postgres has it, and each bad *)
(* row Postgres still has is quarantined.                                  *)
LEMMA DrainedSuite ==
    ASSUME SuiteFacts, StartingOffsets = "earliest", Drained, script.name = "bad"
    PROVE  /\ \A t \in Txns \ (PgBad \cup Rogue) : InParity(t)
           /\ \A t \in PgBad : t \in Present /\ RowsOf(table, t) = {} => t \in DlqKeys
<1>1. JobFacts /\ SourceType /\ SyncBut(Rogue) /\ SuiteRows
    BY DEF SuiteFacts, InjectionType, SuiteState
<1>2. \A t \in Txns \ Rogue : Current(t) \/ NotApplied(t) \/ Overtaken(t)
    BY <1>1, DrainedIsCurrent
<1>3. \A t \in Txns \ (PgBad \cup Rogue) : InParity(t)
    BY <1>1, <1>2, GoodIdsAreApplied, NothingOvertaken, CurrentIsInParity DEF JobFacts
<1>4. ASSUME NEW t \in PgBad, t \in Present, RowsOf(table, t) = {}
      PROVE  t \in DlqKeys
    <2>1. t \in Txns \ Rogue /\ pg[t] # Absent /\ script.pc # "cleaned"
        BY <1>1, <1>4 DEF SuiteRows, Present
    <2>2. NotApplied(t)
        BY <1>2, <1>4, <2>1, NothingOvertaken DEF Current
    <2>3. PICK pos \in ChangesOf(t) : FlatRow(pos[1], pos[2]) \in dlq
        BY <2>2 DEF NotApplied, IsNewest, SuiteFacts, NothingLost
    <2>4. FlatRow(pos[1], pos[2]).txn = t
        BY <2>3 DEF ChangesOf, FlatRow
    <2> QED BY <2>3, <2>4 DEF DlqKeys
<1> QED BY <1>3, <1>4

(* A live row is that of an id Postgres has, and the same.                 *)
LEMMA LiveRowsAreRight ==
    ASSUME SuiteFacts, StartingOffsets = "earliest", Drained, script.name = "bad"
    PROVE  /\ \A r \in LiveRows : r.txn \in Txns /\ pg[r.txn] = ImageOf(r)
                                  /\ pg[r.txn] # Absent
           /\ \A t \in Present \ (PgBad \cup Rogue) : \E r \in LiveRows : r.txn = t
<1>1. ASSUME NEW r \in LiveRows
      PROVE  r.txn \in Txns /\ pg[r.txn] = ImageOf(r) /\ pg[r.txn] # Absent
    <2>1. r \in table /\ ~r.isDelete
        BY DEF LiveRows
    <2>2. r.txn \in Txns \ (PgBad \cup Rogue)
        <3>1. r.txn \in Txns
            BY <2>1 DEF SuiteFacts, InjectionType, TypeOK, Row
        <3> QED BY <2>1, <3>1, BadIdsAreNotLive
    <2>3. ImageOf(r) \in Live(r.txn)
        BY <2>1 DEF Live, RowsOf, ImageOf
    <2>4. Live(r.txn) = {pg[r.txn]} \ {Absent}
        BY <2>2, DrainedSuite DEF InParity
    <2> QED BY <2>2, <2>3, <2>4
<1>2. ASSUME NEW t \in Present \ (PgBad \cup Rogue)
      PROVE  \E r \in LiveRows : r.txn = t
    <2>1. t \in Txns /\ pg[t] # Absent
        BY DEF Present
    <2>2. Live(t) = {pg[t]}
        BY <2>1, DrainedSuite DEF InParity
    <2> QED BY <2>2 DEF Live, RowsOf, LiveRows
<1> QED BY <1>1, <1>2

(* Where the ids of the bad rows are when the suite asks: until the clean- *)
(* up Postgres has all of them, after it none, and the table never has.    *)
LEMMA BadIdsAreDumped ==
    ASSUME SuiteFacts, script.name = "bad"
    PROVE  /\ script.pc = "dumped" =>
                PgBad \subseteq Present /\ \A t \in PgBad : RowsOf(table, t) = {}
           /\ script.pc = "cleaned" => Present \cap PgBad = {}
<1>1. SuiteRows
    BY DEF SuiteFacts, SuiteState
<1>2. ASSUME script.pc = "dumped"
      PROVE  PgBad \subseteq Present
    <2>1. script.test = Len(Tests)
        BY <1>1, <1>2 DEF SuiteRows
    <2>2. ASSUME NEW k \in PgTests
          PROVE  Inserted(k)
        <3>1. Len(Tests) \in Nat /\ k \in 1..Len(Tests)
            BY TestsAssumption DEF PgTests
        <3>2. k < script.test \/ k = script.test
            BY <2>1, <3>1
        <3> QED BY <1>2, <3>2 DEF Inserted
    <2>3. \A k \in PgTests : Tests[k].bad \subseteq Present
        BY <1>1, <1>2, <2>2 DEF SuiteRows
    <2> QED BY <2>3 DEF PgBad
<1>3. ASSUME script.pc = "dumped", NEW t \in PgBad
      PROVE  RowsOf(table, t) = {}
    BY <1>3, BadIdsAreNotLive DEF RowsOf
<1> QED BY <1>1, <1>2, <1>3 DEF SuiteRows

(* The verdict of the drained pipeline: at the dump the missing rows are   *)
(* the quarantined ones, as many as the checker expects; after the clean-  *)
(* up no row is missing.                                                   *)
LEMMA SuiteVerdict ==
    ASSUME FreshSuite, SuiteFacts, StartingOffsets = "earliest", Drained,
           script.name = "bad", script.pc \in {"dumped", "cleaned"}
    PROVE  ParityVerdict(pg, LiveRows, DlqKeys) = "pass"
<1> DEFINE inDelta == { r.txn : r \in LiveRows }
           missing == { t \in Txns : pg[t] # Absent } \ inDelta
           quarantined == missing \cap DlqKeys
           extra == { t \in inDelta : pg[t] = Absent }
           mismatched == { r \in LiveRows : pg[r.txn] # Absent /\ pg[r.txn] # ImageOf(r) }
<1>1. extra = {} /\ mismatched = {}
    BY LiveRowsAreRight
<1>2. OneRowPerKey(LiveRows)
    BY DEF SuiteFacts, JobFacts, OneRowPerTransaction, OneRowPerKey, LiveRows
<1>3. missing \subseteq Present \cap PgBad
    <2> SUFFICES ASSUME NEW t \in missing
                 PROVE  t \in Present /\ t \in PgBad
        OBVIOUS
    <2>1. t \in Present /\ t \notin Rogue
        BY DEF Present, SuiteFacts, SuiteState, SuiteRows
    <2> QED BY <2>1, LiveRowsAreRight
<1>4. /\ missing \ quarantined = {}
      /\ quarantined = {} \/ quarantined = PgBad
    <2>1. CASE script.pc = "cleaned"
        BY <1>3, <2>1, BadIdsAreDumped
    <2>2. CASE script.pc = "dumped"
        <3>1. PgBad \subseteq Present /\ \A t \in PgBad : RowsOf(table, t) = {}
            BY <2>2, BadIdsAreDumped
        <3>2. PgBad \subseteq missing
            <4>1. PgBad \cap inDelta = {}
                BY <2>2, BadIdsAreNotLive DEF LiveRows
            <4> QED BY <3>1, <4>1 DEF Present
        <3>3. PgBad \subseteq DlqKeys
            BY <3>1, DrainedSuite
        <3> QED BY <1>3, <3>2, <3>3
    <2> QED BY <2>1, <2>2
<1>5. Cardinality(quarantined) \in {0, ExpectedQuarantine}
    BY <1>4, FS_EmptySet DEF FreshSuite
<1>6. Cardinality(missing \ quarantined) <= TolerateInflight
    <2>1. Cardinality(missing \ quarantined) = 0
        BY <1>4, FS_EmptySet
    <2> QED BY <2>1, CheckAssumption
<1>7. Cardinality(quarantined) \notin {0, ExpectedQuarantine} <=> FALSE
    BY <1>5
<1> QED BY <1>1, <1>2, <1>6, <1>7 DEF ParityVerdict

(* The oracle agrees with the suite: whatever crashed, was redelivered or  *)
(* is still to be read back, the parity check of a drained pipeline passes *)
(* with the bad rows dumped, when they are all and only what it finds in   *)
(* the DLQ, and with them cleaned up.                                      *)
THEOREM OracleIsRight ==
    ASSUME FreshSuite, StartingOffsets = "earliest", MaxExpired = 0
    PROVE  InjectionSpec => []OracleAgrees
<1>1. SuiteFacts => OracleAgrees
    BY SuiteVerdict DEF OracleAgrees
<1> QED BY <1>1, SuiteFactsInvariant, PTL
=============================================================================
