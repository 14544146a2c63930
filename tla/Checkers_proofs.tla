-------------------------- MODULE Checkers_proofs ---------------------------
(***************************************************************************)
(* What the checkers conclude from reads they make one after the other     *)
(* while the pipeline runs on.  An id that is current stays so until       *)
(* Postgres changes, whatever the connector emits again and the driver     *)
(* merges meanwhile, and a row that is kept stays kept: so a difference a  *)
(* check sees was there when it began.                                     *)
(***************************************************************************)
EXTENDS Checkers, Pipeline_proofs

(* The rows of the snapshot come before every change, and before the open  *)
(* transaction, until the connector takes another.                         *)
SnapshotFirst ==
    /\ restarts \in Nat
    /\ restarts = 0 => \A e \in Event : Emitted(e) /\ e.op = "r" =>
         /\ e.lsn <= Begun
         /\ \A f \in Event : Emitted(f) /\ f.op # "r" => e.lsn < f.lsn

(* Postgres has the id, and so has the table, with a row, old or new, that *)
(* no delete can supersede.                                                *)
KeptRow(t) ==
    pg[t] # Absent =>
      \E r \in RowsOf(table, t) :
        /\ ~r.isDelete
        /\ \A e \in Event : Emitted(e) /\ e.txn = t /\ e.op = "d" => e.lsn < r.lsn

-----------------------------------------------------------------------------
(* Steps of the pipeline.                                                  *)

(* What a step emits anew: the changes of a commit, each later than the    *)
(* place where the transaction began, or rows of a snapshot.               *)
LEMMA NewEmissions ==
    ASSUME TypeOK, SourceType, SourceInSync, [PipelineNext]_pipelineVars,
           NEW e \in Event, Emitted(e)'
    PROVE  \/ Emitted(e)
           \/ /\ lsn' > lsn /\ restarts' = restarts
              /\ e.op # "r" /\ Begun < e.lsn /\ e.lsn < Begun'
           \/ /\ pg' = pg /\ lsn' = lsn /\ SnapshotRow(e)
              /\ (CreateConnector \/ RestartConnector)
<1>1. CASE Generator
    <2>1. topic' = topic /\ restarts' = restarts
        BY <1>1, GeneratorWrites, TransactionLeavesJob DEF vars, kafka
    <2>2. CASE feed' = feed
        BY <2>1, <2>2, SameEmissions
    <2>3. CASE CommitTransaction /\ slot
        <3>1. Emitted(e) \/ \E j \in 1..Len(written) : written[j] = e
            BY <2>3, CommitFeed
        <3>2. lsn' > lsn /\ Begun' = lsn + 1 /\ lsn \in Nat
            BY <2>3, NextPosition DEF CommitTransaction, Begun
        <3>3. ASSUME NEW j \in 1..Len(written), written[j] = e
              PROVE  e.op # "r" /\ Begun < e.lsn /\ e.lsn < Begun'
            <4>1. e.op # "r" /\ Begun < e.lsn /\ e.lsn <= lsn /\ e.lsn \in Nat
                BY <3>3 DEF SourceInSync, SyncBut, TransactionOpen, Event
            <4> QED BY <3>2, <4>1
        <3> QED BY <2>1, <3>1, <3>2, <3>3
    <2>4. feed' = feed \/ (CommitTransaction /\ slot)
        <3>1. CASE \E t, row, events : Writes(t, row, events)
            BY <3>1 DEF Writes, WriteRow
        <3>2. CASE CommitTransaction
            BY <3>2 DEF CommitTransaction
        <3>3. CASE Rollback
            BY <3>3 DEF Rollback
        <3> QED BY <1>1, <3>1, <3>2, <3>3, GeneratorWrites DEF TransactionStep
    <2> QED BY <2>2, <2>3, <2>4
<1>2. CASE CreateConnector
    <2>1. PICK rows \in Snapshots : feed' = rows
        BY <1>2 DEF CreateConnector
    <2>2. UNCHANGED <<topic, pg, lsn>>
        BY <1>2 DEF CreateConnector, vars, kafka
    <2>3. CASE InTopic(e)'
        BY <2>2, <2>3 DEF InTopic, Emitted
    <2>4. CASE InFeed(e)'
        BY <1>2, <2>1, <2>2, <2>4, SnapshotRows DEF InFeed
    <2> QED BY <2>3, <2>4 DEF Emitted
<1>3. CASE RestartConnector
    <2>1. UNCHANGED <<topic, pg, lsn>>
        BY <1>3 DEF RestartConnector, vars, kafka
    <2>2. CASE feed' = feed
        BY <2>1, <2>2, SameEmissions
    <2>3. CASE \E rows : TakesSnapshot(rows)
        <3>1. PICK rows : TakesSnapshot(rows)
            BY <2>3
        <3>2. Emitted(e) \/ \E k \in 1..Len(rows) : rows[k] = e
            BY <3>1, SnapshotFeed
        <3>3. \A k \in 1..Len(rows) : SnapshotRow(rows[k])
            BY <3>1, SnapshotRows DEF TakesSnapshot
        <3> QED BY <1>3, <2>1, <3>2, <3>3
    <2> QED BY <1>3, <2>1, <2>2, <2>3 DEF RestartConnector, TakesSnapshot
<1>4. CASE Emit
    <2>1. feed' = feed
        BY <1>4 DEF Emit
    <2>2. \A x : InTopic(x)' <=> InTopic(x) \/ x = feed[sent + 1]
        BY <1>4, EmitPublishes, PublishedTopic
    <2>3. InFeed(feed[sent + 1])
        BY <1>4, EmitPublishes DEF InFeed
    <2> QED BY <2>1, <2>2, <2>3 DEF Emitted, InFeed
<1>5. CASE JobStep \/ UNCHANGED pipelineVars
    <2>1. topic' = topic /\ feed' = feed
        BY <1>5, JobStepSource DEF pipelineVars, vars, kafka, source
    <2> QED BY <2>1, SameEmissions
<1> QED BY <1>1, <1>2, <1>3, <1>4, <1>5 DEF PipelineNext, SourceStep

(* What Postgres has committed changes only when its log grows.            *)
LEMMA PostgresRests ==
    ASSUME TypeOK, SourceType, [PipelineNext]_pipelineVars, lsn' = lsn
    PROVE  pg' = pg
<1>1. CASE Generator
    <2>1. CASE \E t, row, events : Writes(t, row, events)
        BY <2>1 DEF Writes, WriteRow
    <2>2. ~CommitTransaction
        BY SourceBoundsAssumption DEF CommitTransaction, SourceType
    <2>3. CASE Rollback
        BY <2>3 DEF Rollback
    <2> QED BY <1>1, <2>1, <2>2, <2>3, GeneratorWrites DEF TransactionStep
<1>2. CASE CreateConnector \/ RestartConnector \/ Emit
    BY <1>2 DEF CreateConnector, RestartConnector, Emit
<1>3. CASE JobStep \/ UNCHANGED pipelineVars
    BY <1>3, JobStepSource DEF pipelineVars, source
<1> QED BY <1>1, <1>2, <1>3 DEF PipelineNext, SourceStep

(* The open transaction began where it did, and the next one begins later. *)
LEMMA BegunGrows ==
    ASSUME TypeOK, SourceType, SourceInSync, [PipelineNext]_pipelineVars
    PROVE  Begun \in Nat /\ Begun <= Begun' /\ (CreateConnector => Begun = lsn)
<1>1. Begun \in 0..lsn /\ lsn \in Nat
    BY SourceBoundsAssumption DEF SourceType, SourceInSync, SyncBut, TransactionOpen
<1>2. CASE \E t, row, events : Writes(t, row, events)
    BY <1>1, <1>2, WrittenGrows DEF Writes, WriteRow, CreateConnector, Begun
<1>3. CASE CommitTransaction
    BY <1>1, <1>3 DEF CommitTransaction, CreateConnector, Begun
<1>4. CASE Rollback
    BY <1>1, <1>4 DEF Rollback, CreateConnector, Begun
<1>5. CASE CreateConnector \/ RestartConnector \/ Emit
    <2>1. written' = written /\ lsn' = lsn
        BY <1>5 DEF CreateConnector, RestartConnector, Emit
    <2> QED BY <1>1, <2>1 DEF Begun, CreateConnector
<1>6. CASE JobStep \/ UNCHANGED pipelineVars
    <2>1. written' = written /\ lsn' = lsn
        BY <1>6, JobStepSource DEF pipelineVars, source
    <2> QED BY <1>1, <2>1 DEF Begun, CreateConnector
<1> QED BY <1>2, <1>3, <1>4, <1>5, <1>6, GeneratorWrites
        DEF PipelineNext, SourceStep, TransactionStep

(* An id the table has right stays right until Postgres changes: events    *)
(* that are emitted again say what Postgres has or are too old to win, and *)
(* a row only gives way to a later one.                                    *)
LEMMA CurrentIsStable ==
    ASSUME JobFacts, JobFacts', SourceType, SourceInSync,
           [PipelineNext]_pipelineVars, lsn' = lsn, NEW t \in Txns, Current(t)
    PROVE  Current(t)'
<1> USE DEF JobFacts, Shape
<1>1. pg' = pg /\ [Next]_vars
    BY PostgresRests, PipelineStepIsJobStep
<1>2. Advances(table, table')
    BY <1>1, StepAdvances
<1>3. ASSUME NEW e \in Event, Emitted(e)', ~Emitted(e), e.txn = t
      PROVE  pg[t] # Absent /\ Says(e, pg[t])
    <2>1. ~(lsn' > lsn)
        BY SourceBoundsAssumption DEF SourceType
    <2>2. SnapshotRow(e)
        BY <1>3, <2>1, NewEmissions
    <2> QED BY <1>3, <2>2 DEF SnapshotRow, Present
<1>4. CASE RowsOf(table, t) = {}
    <2>1. pg[t] = Absent /\ NeverEmitted(t)
        BY <1>4 DEF Current
    <2>2. NeverEmitted(t)'
        BY <1>3, <2>1 DEF NeverEmitted
    <2>3. RowsOf(table', t) = {}
        <3> SUFFICES ASSUME NEW r \in table', r.txn = t PROVE FALSE
            BY DEF RowsOf
        <3>1. PICK e \in Event : Emitted(e)' /\ e.txn = r.txn
            BY DEF RowsEmitted
        <3> QED BY <2>2, <3>1 DEF NeverEmitted
    <2> QED BY <1>1, <2>1, <2>2, <2>3 DEF Current
<1>5. CASE RowsOf(table, t) # {}
    <2>1. PICK r0 \in table : r0.txn = t
        BY <1>5 DEF RowsOf
    <2>2. PICK u \in table' : u.txn = t /\ (u = r0 \/ u.lsn > r0.lsn)
        BY <1>2, <2>1 DEF Advances
    <2>3. RowsOf(table', t) = {u}
        BY <2>2 DEF RowsOf, OneRowPerTransaction, OneRowPerKey
    <2>4. r0.lsn \in Nat /\ u.lsn \in Nat
        BY DEF TypeOK, Row
    <2>5. ASSUME NEW e \in Event, Emitted(e)', e.txn = t, e.lsn >= u.lsn
          PROVE  Says(e, pg[t])
        <3>1. e.lsn \in Nat
            BY DEF Event
        <3>2. e.lsn >= r0.lsn
            BY <2>2, <2>4, <2>5, <3>1
        <3> QED BY <1>3, <2>1, <2>5, <3>2 DEF Current, RowsOf
    <2> QED BY <1>1, <2>3, <2>5 DEF Current, RowsOf, Says
<1> QED BY <1>4, <1>5

(* What is current is kept.                                                *)
LEMMA CurrentIsKept ==
    ASSUME JobFacts, SourceType, NEW t \in Txns, Current(t)
    PROVE  KeptRow(t)
<1> SUFFICES ASSUME pg[t] # Absent
             PROVE  \E r \in RowsOf(table, t) :
                      /\ ~r.isDelete
                      /\ \A e \in Event : Emitted(e) /\ e.txn = t /\ e.op = "d" => e.lsn < r.lsn
    BY DEF KeptRow
<1>1. PICK r \in RowsOf(table, t) : TRUE
    BY DEF Current
<1>2. r \in table /\ r.txn = t /\ r.lsn \in Nat
    BY <1>1 DEF RowsOf, JobFacts, Shape, TypeOK, Row
<1>3. ASSUME NEW e \in Event, Emitted(e), e.txn = t, e.op = "d"
      PROVE  e.lsn < r.lsn
    <2>1. ~Says(e, pg[t])
        BY <1>3 DEF Says
    <2>2. ~(e.lsn >= r.lsn)
        BY <1>1, <1>3, <2>1 DEF Current
    <2> QED BY <1>2, <2>2 DEF Event
<1>4. ~r.isDelete
    <2>1. PICK e \in Event : Emitted(e) /\ e.txn = t /\ e.lsn = r.lsn /\ r.isDelete = (e.op = "d")
        BY <1>2 DEF JobFacts, RowsEmitted
    <2>2. e.op # "d"
        BY <1>2, <1>3, <2>1
    <2> QED BY <2>1, <2>2
<1> QED BY <1>1, <1>3, <1>4

(* A row that is kept only gives way to a later one, which is no delete:   *)
(* all that is emitted anew while Postgres rests are rows of a snapshot.   *)
LEMMA KeptIsStable ==
    ASSUME JobFacts, JobFacts', SourceType, SourceInSync,
           [PipelineNext]_pipelineVars, lsn' = lsn, NEW t \in Txns, KeptRow(t)
    PROVE  KeptRow(t)'
<1> USE DEF JobFacts, Shape
<1>1. pg' = pg /\ [Next]_vars
    BY PostgresRests, PipelineStepIsJobStep
<1>2. Advances(table, table')
    BY <1>1, StepAdvances
<1>3. ASSUME NEW e \in Event, Emitted(e)', e.txn = t, e.op = "d"
      PROVE  Emitted(e)
    <2>1. ~(lsn' > lsn)
        BY SourceBoundsAssumption DEF SourceType
    <2> QED BY <1>3, <2>1, NewEmissions DEF SnapshotRow
<1> SUFFICES ASSUME pg[t] # Absent
             PROVE  \E u \in RowsOf(table', t) :
                      /\ ~u.isDelete
                      /\ \A e \in Event : Emitted(e)' /\ e.txn = t /\ e.op = "d" => e.lsn < u.lsn
    BY <1>1 DEF KeptRow, RowsOf
<1>4. PICK r \in RowsOf(table, t) :
        /\ ~r.isDelete
        /\ \A e \in Event : Emitted(e) /\ e.txn = t /\ e.op = "d" => e.lsn < r.lsn
    BY DEF KeptRow
<1>5. PICK u \in table' : u.txn = t /\ (u = r \/ u.lsn > r.lsn)
    BY <1>2, <1>4 DEF Advances, RowsOf
<1>6. r.lsn \in Nat /\ u.lsn \in Nat
    BY <1>4, <1>5 DEF TypeOK, Row, RowsOf
<1>7. ASSUME NEW e \in Event, Emitted(e)', e.txn = t, e.op = "d"
      PROVE  e.lsn < u.lsn
    BY <1>3, <1>4, <1>5, <1>6, <1>7 DEF Event
<1>8. ~u.isDelete
    <2>1. PICK e \in Event : Emitted(e)' /\ e.txn = t /\ e.lsn = u.lsn /\ u.isDelete = (e.op = "d")
        BY <1>5 DEF RowsEmitted
    <2>2. e.op # "d"
        BY <1>6, <1>7, <2>1
    <2> QED BY <2>1, <2>2
<1> QED BY <1>5, <1>7, <1>8 DEF RowsOf

(* When nothing is under way, the row of an id whose last change was not   *)
(* refused is kept: even if a snapshot overtook that change.               *)
LEMMA DrainedIsKept ==
    ASSUME JobFacts, SourceType, SourceInSync, StartingOffsets = "earliest",
           Drained, NEW t \in Txns, ~NotApplied(t)
    PROVE  KeptRow(t)
<1> USE DEF JobFacts, SourceInSync
<1>1. CASE Current(t)
    BY <1>1, CurrentIsKept
<1>2. CASE Overtaken(t) /\ pg[t] # Absent
    <2>1. PICK pos \in Partitions \X (1..MaxRecords) : IsNewest(pos, t)
        BY <1>2 DEF Overtaken
    <2> DEFINE last == topic[pos[1]][pos[2]]
    <2>2. /\ pos[1] \in Partitions /\ pos[2] \in 1..MaxRecords /\ pos \in ChangesOf(t)
          /\ pos = <<pos[1], pos[2]>>
        BY <2>1 DEF IsNewest
    <2>3. pos[2] \in 1..Len(topic[pos[1]])
        BY <2>2, BoundsAssumption DEF ChangesOf, Shape, TypeOK
    <2>4. /\ last \in Event /\ InTopic(last) /\ last.txn = t /\ last.schema # "none"
          /\ last.lsn \in Nat
        BY <2>2, ChangesInTopic DEF Event
    <2>5. PICK k \in 1..Len(feed) : Newest(t, k)
        BY <1>2 DEF SyncBut, FeedCovers, Drained
    <2>6. /\ feed[k] \in Event /\ InTopic(feed[k]) /\ feed[k].txn = t
          /\ feed[k].schema # "none" /\ Says(feed[k], pg[t]) /\ feed[k].lsn \in Nat
        BY <2>5, EventsAssumption
           DEF SourceType, SyncBut, SentDelivered, Newest, Drained, Event
    <2>7. feed[k].lsn <= last.lsn
        BY <2>1, <2>6, ChangesInTopic DEF IsNewest
    <2>8. ASSUME NEW e \in Event, Emitted(e), e.txn = t, e.op = "d"
          PROVE  e.lsn < last.lsn
        <3>1. ~Says(e, pg[t]) /\ e.op # "r" /\ e.lsn \in Nat
            BY <1>2, <2>8 DEF Says, Event
        <3>2. e.lsn < feed[k].lsn
            BY <2>5, <2>8, <3>1 DEF Newest
        <3> QED BY <2>4, <2>6, <2>7, <3>1, <3>2
    <2>9. WorkedOff
        BY <1>2 DEF Drained, WorkedOff
    <2>10. Settled(pos[1], pos[2])
        BY <2>2, <2>3, <2>9, WorkedOffIsSettled
    <2>11. UpToDate(table, FlatRow(pos[1], pos[2]))
        BY <2>1, <2>2, <2>4, <2>10 DEF NotApplied, Settled, Handled
    <2>12. PICK r \in table : r.txn = t /\ r.lsn >= last.lsn
        BY <2>4, <2>11 DEF UpToDate, FlatRow
    <2>13. r.lsn \in Nat
        BY DEF Shape, TypeOK, Row
    <2>14. ASSUME NEW e \in Event, Emitted(e), e.txn = t, e.op = "d"
           PROVE  e.lsn < r.lsn
        <3>1. e.lsn < last.lsn /\ e.lsn \in Nat
            BY <2>8, <2>14 DEF Event
        <3> QED BY <2>4, <2>12, <2>13, <3>1
    <2>15. ~r.isDelete
        <3>1. PICK e \in Event : Emitted(e) /\ e.txn = t /\ e.lsn = r.lsn /\ r.isDelete = (e.op = "d")
            BY <2>12 DEF RowsEmitted
        <3>2. e.op # "d"
            BY <2>13, <2>14, <3>1
        <3> QED BY <3>1, <3>2
    <2> QED BY <2>12, <2>14, <2>15 DEF KeptRow, RowsOf
<1>3. Current(t) \/ Overtaken(t)
    BY DrainedIsCurrent
<1> QED BY <1>1, <1>2, <1>3 DEF KeptRow

LEMMA SnapshotFirstInit ==
    ASSUME PipelineInit
    PROVE  SnapshotFirst
<1>1. \A e : ~Emitted(e)
    BY DEF PipelineInit, Init, Emitted, InTopic, InFeed
<1> QED BY <1>1 DEF PipelineInit, SnapshotFirst

LEMMA RestartsCount ==
    ASSUME TypeOK, SourceType, [PipelineNext]_pipelineVars, ~RestartConnector
    PROVE  restarts' = restarts
<1>1. CASE Generator
    BY <1>1, GeneratorWrites, TransactionLeavesJob
<1>2. CASE CreateConnector \/ Emit
    BY <1>2 DEF CreateConnector, Emit
<1>3. CASE JobStep \/ UNCHANGED pipelineVars
    BY <1>3, JobStepSource DEF pipelineVars, source
<1> QED BY <1>1, <1>2, <1>3 DEF PipelineNext, SourceStep

(* The connector was created while no transaction was open, so whatever    *)
(* the stream has was written after the snapshot.                          *)
LEMMA SnapshotFirstStep ==
    ASSUME TypeOK, SourceType, SourceInSync, SnapshotFirst,
           [PipelineNext]_pipelineVars
    PROVE  SnapshotFirst'
<1>1. CASE RestartConnector
    BY <1>1 DEF RestartConnector, SnapshotFirst
<1>2. CASE ~RestartConnector
    <2>1. restarts' = restarts
        BY <1>2, RestartsCount
    <2>2. Begun \in Nat /\ Begun <= Begun' /\ (CreateConnector => Begun = lsn)
        BY BegunGrows
    <2>3. ASSUME NEW e \in Event, Emitted(e)', e.op = "r", ~Emitted(e)
          PROVE  CreateConnector /\ lsn' = lsn /\ e.lsn = Begun
        BY <1>2, <2>2, <2>3, NewEmissions DEF SnapshotRow
    <2>4. Begun' \in Nat
        BY SourceStepKeeps, SourceBoundsAssumption
           DEF SourceType, SourceInSync, SyncBut, TransactionOpen
    <2>5. ASSUME restarts = 0, NEW e \in Event, Emitted(e)', e.op = "r"
          PROVE  e.lsn <= Begun' /\ e.lsn <= Begun /\ e.lsn \in Nat
        <3>1. e.lsn <= Begun /\ e.lsn \in Nat
            BY <2>2, <2>3, <2>5 DEF SnapshotFirst, Event
        <3> QED BY <2>2, <2>4, <3>1
    <2>6. ASSUME restarts = 0,
                 NEW e \in Event, NEW f \in Event, Emitted(e)', Emitted(f)',
                 e.op = "r", f.op # "r"
          PROVE  e.lsn < f.lsn
        <3>1. f.lsn \in Nat /\ e.lsn \in Nat
            BY DEF Event
        <3>2. CASE Emitted(e) /\ Emitted(f)
            BY <2>6, <3>2 DEF SnapshotFirst
        <3>3. CASE ~Emitted(f)
            <4>1. Begun < f.lsn
                BY <2>6, <3>3, NewEmissions DEF SnapshotRow
            <4> QED BY <2>2, <2>5, <2>6, <3>1, <4>1
        <3>4. CASE ~Emitted(e) /\ Emitted(f)
            <4>1. ~slot
                BY <2>3, <2>6, <3>4 DEF CreateConnector
            <4>2. feed = <<>> /\ ~InTopic(f)
                BY <4>1 DEF SourceInSync, SyncBut, NothingBefore
            <4> QED BY <3>4, <4>2 DEF Emitted, InFeed
        <3> QED BY <3>2, <3>3, <3>4
    <2> QED BY <2>1, <2>5, <2>6 DEF SnapshotFirst
<1> QED BY <1>1, <1>2

(* Everything that is known of a state of the pipeline.                    *)
PipelineFacts == JobFacts /\ SourceType /\ SourceInSync /\ SnapshotFirst

LEMMA PipelineFactsInvariant == PipelineSpec => []PipelineFacts
<1>1. PipelineInit => SnapshotFirst
    BY SnapshotFirstInit
<1>2. /\ TypeOK /\ DriverPlace /\ SourceType /\ SourceInSync
      /\ SnapshotFirst /\ [PipelineNext]_pipelineVars
      => SnapshotFirst'
    BY SnapshotFirstStep
<1>3. PipelineSpec => []JobFacts
    BY PipelineImplementsJob, JobFactsInvariant, PTL
<1>4. PipelineSpec => []SnapshotFirst
    BY <1>1, <1>2, SourceInvariant, PTL DEF PipelineSpec
<1> QED BY <1>3, <1>4, SourceInvariant, PTL DEF PipelineFacts

-----------------------------------------------------------------------------
(* The checks.                                                             *)

CheckType ==
    check \in [script : {"none", "parity", "snapshot"},
               pc : {"idle", "delta", "dlq", "done"},
               pg : {<<>>} \cup [Txns -> Image \cup {Absent}],
               read : SUBSET Event, live : SUBSET Row, quiet : BOOLEAN,
               refused : SUBSET Txns, overtaken : SUBSET Txns,
               verdict : {"none", "pass", "fail", "oracle fail", "dropped", "interleave"}]

(* The ids the check has no excuse for, and those whose row it must find.  *)
Accountable == Txns \ (check.refused \cup check.overtaken)
Findable == Txns \ check.refused

(* What a check may rely on before it reads the table.                     *)
TableAhead ==
    /\ \A t \in Accountable : Current(t)
    /\ \A t \in Findable : KeptRow(t)

(* What parity_checker.py has read so far of a database at rest.           *)
ParityRead ==
    check.script = "parity" /\ check.quiet =>
      /\ check.pg = pg
      /\ check.pc = "delta" => TableAhead
      /\ check.pc \in {"dlq", "done"} =>
           /\ OneRowPerKey(check.live)
           /\ ReadDifferent \cap Accountable = {}
           /\ \A t \in Findable : pg[t] # Absent => t \in { r.txn : r \in check.live }
      /\ check.pc = "done" => check.verdict = "pass" \/ ReadDifferent # {}

(* The same of snapshot_transition_checker.py; it reads the topic first.   *)
SnapshotRead ==
    check.script = "snapshot" /\ check.quiet =>
      /\ \A e \in check.read : InTopic(e)
      /\ check.pc = "delta" => TableAhead
      /\ check.pc = "done" =>
           \A e \in check.read : e.op = "r" /\ e.txn \notin { r.txn : r \in check.live } =>
             pg[e.txn] = Absent \/ e.txn \in check.refused
      /\ check.pc = "done" /\ check.verdict = "interleave" => restarts > 0

(* A table in parity leaves the comparison nothing to report.              *)
LEMMA VerdictOfParity ==
    ASSUME SourceType, NEW live, live \subseteq Row, OneRowPerKey(live),
           \A t \in Txns : { ImageOf(r) : r \in RowsOf(live, t) } = {pg[t]} \ {Absent},
           NEW keys
    PROVE  ParityVerdict(pg, live, keys) = "pass"
<1> DEFINE inDelta == { r.txn : r \in live }
           missing == { t \in Txns : pg[t] # Absent } \ inDelta
           quarantined == missing \cap keys
           extra == { t \in inDelta : pg[t] = Absent }
           mismatched == { r \in live : pg[r.txn] # Absent /\ pg[r.txn] # ImageOf(r) }
<1>1. missing = {}
    <2> SUFFICES ASSUME NEW t \in Txns, pg[t] # Absent PROVE t \in inDelta
        OBVIOUS
    <2>1. pg[t] \in { ImageOf(r) : r \in RowsOf(live, t) }
        OBVIOUS
    <2> QED BY <2>1 DEF RowsOf
<1>2. \A r \in live : r.txn \in Txns /\ ImageOf(r) \in {pg[r.txn]} \ {Absent}
    <2> SUFFICES ASSUME NEW r \in live
                 PROVE  r.txn \in Txns /\ ImageOf(r) \in {pg[r.txn]} \ {Absent}
        OBVIOUS
    <2>1. r.txn \in Txns /\ r \in RowsOf(live, r.txn)
        BY DEF Row, RowsOf
    <2>2. ImageOf(r) \in { ImageOf(q) : q \in RowsOf(live, r.txn) }
        BY <2>1
    <2> QED BY <2>1, <2>2
<1>3. extra = {} /\ mismatched = {}
    BY <1>2
<1>4. Cardinality(quarantined) = 0 /\ Cardinality(missing \ quarantined) = 0
    BY <1>1, FS_EmptySet
<1> HIDE DEF missing, quarantined, extra, mismatched
<1>5. /\ ~(Cardinality(quarantined) \notin {0, ExpectedQuarantine})
      /\ Cardinality(missing \ quarantined) <= TolerateInflight
    BY <1>4, CheckAssumption
<1> QED BY <1>3, <1>5
        DEF ParityVerdict, missing, quarantined, extra, mismatched

(* A read of the table while an id is current sees the row of Postgres.    *)
LEMMA LiveRowsOfCurrent ==
    ASSUME JobFacts, NEW t \in Txns, Current(t)
    PROVE  { ImageOf(r) : r \in RowsOf(LiveRows, t) } = {pg[t]} \ {Absent}
<1>1. InParity(t)
    BY CurrentIsInParity DEF JobFacts
<1>2. RowsOf(LiveRows, t) = { q \in RowsOf(table, t) : ~q.isDelete }
    BY DEF RowsOf, LiveRows
<1> QED BY <1>1, <1>2 DEF InParity, Live, ImageOf

(* A row that is kept is found.                                            *)
LEMMA KeptIsFound ==
    ASSUME NEW t \in Txns, KeptRow(t), pg[t] # Absent
    PROVE  t \in { r.txn : r \in LiveRows }
<1>1. PICK r \in RowsOf(table, t) : ~r.isDelete
    BY DEF KeptRow
<1>2. r \in LiveRows /\ r.txn = t
    BY <1>1 DEF LiveRows, RowsOf
<1> QED BY <1>2

CheckFacts == CheckType /\ ParityRead /\ SnapshotRead

(* The topic only grows.                                                   *)
LEMMA InTopicIsStable ==
    ASSUME TypeOK, [Next]_vars, NEW e, InTopic(e)
    PROVE  InTopic(e)'
<1>1. PICK p \in Partitions : \E i \in 1..Len(topic[p]) : topic[p][i] = e
    BY DEF InTopic
<1>2. PICK i \in 1..Len(topic[p]) : topic[p][i] = e
    BY <1>1
<1>3. Published(p, i)' /\ topic'[p][i] = e
    BY <1>2, StepGrows DEF Grows, Published
<1> QED BY <1>3 DEF InTopic, Published

(* While a check waits, the pipeline makes a step.                         *)
LEMMA PipelineKeepsCheck ==
    ASSUME PipelineFacts, JobFacts', CheckFacts, check.pc # "done", PipelineNext,
           check' = [check EXCEPT !.quiet = @ /\ lsn' = lsn]
    PROVE  CheckFacts'
<1> USE DEF PipelineFacts, CheckFacts
<1>1. /\ check'.script = check.script /\ check'.pc = check.pc /\ check'.pg = check.pg
      /\ check'.read = check.read /\ check'.live = check.live
      /\ check'.refused = check.refused /\ check'.overtaken = check.overtaken
      /\ check'.verdict = check.verdict
      /\ check'.quiet = (check.quiet /\ lsn' = lsn)
    BY DEF CheckType
<1>2. CheckType'
    BY DEF CheckType
<1>3. TypeOK /\ [Next]_vars
    BY PipelineStepIsJobStep DEF JobFacts, Shape
<1>4. CASE check'.quiet
    <2>1. check.quiet /\ lsn' = lsn
        BY <1>1, <1>4
    <2>2. pg' = pg
        BY <1>3, <2>1, PostgresRests
    <2>3. TableAhead => TableAhead'
        <3>1. \A t \in Txns : /\ Current(t) => Current(t)'
                              /\ KeptRow(t) => KeptRow(t)'
            BY <2>1, CurrentIsStable, KeptIsStable
        <3> QED BY <1>1, <3>1 DEF TableAhead, Accountable, Findable
    <2>4. ParityRead'
        BY <1>1, <2>1, <2>2, <2>3 DEF ParityRead, Accountable, Findable, ReadDifferent
    <2>5. SnapshotRead'
        <3>1. \A e \in check.read : InTopic(e) => InTopic(e)'
            BY <1>3, InTopicIsStable
        <3> QED BY <1>1, <2>1, <2>3, <3>1 DEF SnapshotRead
    <2> QED BY <1>2, <2>4, <2>5
<1>5. CASE ~check'.quiet
    BY <1>2, <1>5 DEF ParityRead, SnapshotRead
<1> QED BY <1>4, <1>5

LEMMA SameCurrent ==
    ASSUME UNCHANGED pipelineVars
    PROVE  /\ pg' = pg /\ restarts' = restarts
           /\ \A t : Current(t)' <=> Current(t)
           /\ \A t : KeptRow(t)' <=> KeptRow(t)
           /\ \A e : InTopic(e)' <=> InTopic(e)
<1>1. UNCHANGED <<topic, table, feed, pg, restarts>>
    BY DEF pipelineVars, source, vars, kafka, sinks
<1> QED BY <1>1 DEF Current, KeptRow, NeverEmitted, Emitted, InTopic, InFeed, Says

(* What a check that begins when nothing is under way has no excuse for is *)
(* current, and what was not refused is kept.                              *)
LEMMA BeginsAhead ==
    ASSUME PipelineFacts, StartingOffsets = "earliest", Drained
    PROVE  /\ \A t \in Txns \ (Refused \cup Passed) : Current(t)
           /\ \A t \in Txns \ Refused : KeptRow(t)
<1>1. ASSUME NEW t \in Txns PROVE Current(t) \/ NotApplied(t) \/ Overtaken(t)
    BY DrainedIsCurrent DEF PipelineFacts, SourceInSync
<1>2. ASSUME NEW t \in Txns, ~NotApplied(t) PROVE KeptRow(t)
    BY <1>2, DrainedIsKept DEF PipelineFacts
<1> QED BY <1>1, <1>2 DEF Refused, Passed

LEMMA ReadPostgresStep ==
    ASSUME PipelineFacts, StartingOffsets = "earliest", CheckFacts, ReadPostgres
    PROVE  CheckFacts'
<1>1. /\ check'.script = "parity" /\ check'.pc = "delta" /\ check'.pg = pg
      /\ check'.refused = Refused /\ check'.overtaken = Passed /\ check'.quiet = Drained
      /\ UNCHANGED pipelineVars
    BY DEF ReadPostgres, NotStarted
<1>2. CheckType'
    <2>1. Drained \in BOOLEAN /\ Refused \in SUBSET Txns /\ Passed \in SUBSET Txns
        BY DEF Drained, Refused, Passed
    <2>2. pg \in [Txns -> Image \cup {Absent}]
        BY DEF PipelineFacts, SourceType
    <2> QED BY <2>1, <2>2 DEF ReadPostgres, NotStarted, CheckType
<1>3. ParityRead'
    <2>1. Drained => TableAhead'
        BY <1>1, BeginsAhead, SameCurrent DEF TableAhead, Accountable, Findable
    <2> QED BY <1>1, <2>1, SameCurrent DEF ParityRead
<1>4. SnapshotRead'
    BY <1>1 DEF SnapshotRead
<1> QED BY <1>2, <1>3, <1>4 DEF CheckFacts

LEMMA ReadDeltaStep ==
    ASSUME PipelineFacts, CheckFacts, ReadDelta
    PROVE  CheckFacts'
<1> USE DEF CheckFacts
<1>1. /\ check.script = "parity" /\ check.pc = "delta"
      /\ check'.script = "parity" /\ check'.pc = "dlq" /\ check'.pg = check.pg
      /\ check'.live = LiveRows
      /\ check'.refused = check.refused /\ check'.overtaken = check.overtaken
      /\ check'.quiet = check.quiet
      /\ UNCHANGED pipelineVars
    BY DEF ReadDelta, CheckType
<1>2. LiveRows \in SUBSET Row /\ OneRowPerKey(LiveRows)
    BY DEF LiveRows, PipelineFacts, JobFacts, Shape, TypeOK, OneRowPerTransaction,
           OneRowPerKey
<1>3. CheckType'
    BY <1>2 DEF ReadDelta, CheckType
<1>4. ParityRead'
    <2> SUFFICES ASSUME check.quiet
                 PROVE  /\ check.pg = pg /\ (ReadDifferent \cap Accountable)' = {}
                        /\ \A t \in Findable : pg[t] # Absent => t \in { r.txn : r \in LiveRows }
        BY <1>1, <1>2, SameCurrent DEF ParityRead, Findable
    <2>1. check.pg = pg /\ TableAhead
        BY <1>1 DEF ParityRead
    <2>2. ASSUME NEW t \in Accountable
          PROVE  { ImageOf(r) : r \in RowsOf(LiveRows, t) } = {pg[t]} \ {Absent}
        BY <2>1, LiveRowsOfCurrent DEF TableAhead, Accountable, PipelineFacts
    <2>3. (ReadDifferent \cap Accountable)' = {}
        BY <1>1, <2>1, <2>2 DEF ReadDifferent, Accountable
    <2>4. \A t \in Findable : pg[t] # Absent => t \in { r.txn : r \in LiveRows }
        BY <2>1, KeptIsFound DEF TableAhead, Findable
    <2> QED BY <2>1, <2>3, <2>4
<1>5. SnapshotRead'
    BY <1>1 DEF SnapshotRead
<1> QED BY <1>3, <1>4, <1>5

LEMMA ReadDlqStep ==
    ASSUME PipelineFacts, CheckFacts, ReadDlq
    PROVE  CheckFacts'
<1> USE DEF CheckFacts
<1>1. /\ check.script = "parity" /\ check.pc = "dlq"
      /\ check'.script = "parity" /\ check'.pc = "done" /\ check'.pg = check.pg
      /\ check'.live = check.live
      /\ check'.refused = check.refused /\ check'.overtaken = check.overtaken
      /\ check'.quiet = check.quiet
      /\ check'.verdict = ParityVerdict(check.pg, check.live, { r.txn : r \in dlq })
      /\ UNCHANGED pipelineVars
    BY DEF ReadDlq, CheckType
<1>2. CheckType'
    <2>1. ParityVerdict(check.pg, check.live, { r.txn : r \in dlq })
              \in {"pass", "fail", "oracle fail"}
        BY DEF ParityVerdict
    <2> QED BY <2>1 DEF ReadDlq, CheckType
<1>3. ParityRead'
    <2>1. ASSUME check.quiet, ReadDifferent = {}
          PROVE  check'.verdict = "pass"
        <3>1. check.pg = pg /\ OneRowPerKey(check.live) /\ check.live \subseteq Row
            BY <1>1, <2>1 DEF ParityRead, CheckType
        <3>2. \A t \in Txns : { ImageOf(r) : r \in RowsOf(check.live, t) } = {pg[t]} \ {Absent}
            BY <2>1, <3>1 DEF ReadDifferent
        <3>3. SourceType
            BY DEF PipelineFacts
        <3> QED BY <1>1, <3>1, <3>2, <3>3, VerdictOfParity
    <2>2. ReadDifferent' = ReadDifferent /\ Accountable' = Accountable /\ Findable' = Findable
        BY <1>1 DEF ReadDifferent, Accountable, Findable
    <2> QED BY <1>1, <2>1, <2>2, SameCurrent DEF ParityRead
<1>4. SnapshotRead'
    BY <1>1 DEF SnapshotRead
<1> QED BY <1>2, <1>3, <1>4

LEMMA ReadTopicStep ==
    ASSUME PipelineFacts, StartingOffsets = "earliest", CheckFacts, ReadTopic
    PROVE  CheckFacts'
<1> DEFINE read == { e \in { topic[pos[1]][pos[2]] : pos \in Retained } :
                       e.schema # "none" }
<1>1. /\ check'.script = "snapshot" /\ check'.pc = "delta" /\ check'.read = read
      /\ check'.refused = Refused /\ check'.overtaken = Passed /\ check'.quiet = Drained
      /\ UNCHANGED pipelineVars
    BY DEF ReadTopic, NotStarted
<1>2. \A e \in read : e \in Event /\ InTopic(e)
    <2> SUFFICES ASSUME NEW pos \in Retained
                 PROVE  /\ topic[pos[1]][pos[2]] \in Event
                        /\ InTopic(topic[pos[1]][pos[2]])
        OBVIOUS
    <2>1. pos[1] \in Partitions /\ pos[2] \in 1..Len(topic[pos[1]])
        BY BoundsAssumption DEF Retained, PipelineFacts, JobFacts, Shape, TypeOK
    <2> QED BY <2>1 DEF InTopic, PipelineFacts, JobFacts, Shape, TypeOK
<1>3. CheckType'
    <2>1. Drained \in BOOLEAN /\ Refused \in SUBSET Txns /\ Passed \in SUBSET Txns
        BY DEF Drained, Refused, Passed
    <2>2. read \in SUBSET Event
        BY <1>2
    <2> QED BY <2>1, <2>2 DEF ReadTopic, NotStarted, CheckType
<1>4. ParityRead'
    BY <1>1 DEF ParityRead
<1>5. SnapshotRead'
    <2>1. Drained => TableAhead'
        BY <1>1, BeginsAhead, SameCurrent DEF TableAhead, Accountable, Findable
    <2> QED BY <1>1, <1>2, <2>1, SameCurrent DEF SnapshotRead
<1> QED BY <1>3, <1>4, <1>5 DEF CheckFacts

LEMMA ReadDeltaLiveStep ==
    ASSUME PipelineFacts, CheckFacts, ReadDeltaLive
    PROVE  CheckFacts'
<1> USE DEF CheckFacts
<1>1. /\ check.script = "snapshot" /\ check.pc = "delta"
      /\ check'.script = "snapshot" /\ check'.pc = "done" /\ check'.read = check.read
      /\ check'.live = LiveRows
      /\ check'.refused = check.refused /\ check'.overtaken = check.overtaken
      /\ check'.quiet = check.quiet
      /\ check'.verdict = SnapshotVerdict(check.read, LiveRows)
      /\ UNCHANGED pipelineVars
    BY DEF ReadDeltaLive, CheckType
<1>2. CheckType'
    <2>1. LiveRows \in SUBSET Row
        BY DEF LiveRows, PipelineFacts, JobFacts, Shape, TypeOK
    <2>2. SnapshotVerdict(check.read, LiveRows) \in {"dropped", "interleave", "pass"}
        BY DEF SnapshotVerdict
    <2> QED BY <2>1, <2>2 DEF ReadDeltaLive, CheckType
<1>3. ParityRead'
    BY <1>1 DEF ParityRead
<1>4. SnapshotRead'
    <2> DEFINE rows == { e \in check.read : e.op = "r" }
    <2> SUFFICES ASSUME check.quiet
                 PROVE  /\ \A e \in rows : e.txn \notin { r.txn : r \in LiveRows } =>
                             pg[e.txn] = Absent \/ e.txn \in check.refused
                        /\ check'.verdict = "interleave" => restarts > 0
        BY <1>1, SameCurrent DEF SnapshotRead
    <2>1. \A e \in check.read : e \in Event /\ Emitted(e)
        BY <1>1 DEF CheckType, SnapshotRead, Emitted
    <2>2. ASSUME NEW e \in rows, e.txn \notin { r.txn : r \in LiveRows }
          PROVE  pg[e.txn] = Absent \/ e.txn \in check.refused
        <3>1. e.txn \in Txns
            BY <2>1 DEF Event
        <3>2. TableAhead
            BY <1>1 DEF SnapshotRead
        <3> QED BY <2>2, <3>1, <3>2, KeptIsFound DEF TableAhead, Findable
    <2>3. ASSUME check'.verdict = "interleave"
          PROVE  restarts > 0
        <3>1. PICK e \in rows, f \in check.read \ rows : e.lsn >= f.lsn
            BY <1>1, <2>3 DEF SnapshotVerdict
        <3>2. /\ e \in Event /\ f \in Event /\ Emitted(e) /\ Emitted(f)
              /\ e.op = "r" /\ f.op # "r"
            BY <2>1
        <3>3. e.lsn \in Nat /\ f.lsn \in Nat /\ ~(e.lsn < f.lsn)
            BY <3>1, <3>2 DEF Event
        <3>4. restarts \in Nat /\ restarts # 0
            BY <3>2, <3>3 DEF PipelineFacts, SnapshotFirst
        <3> QED BY <3>4
    <2> QED BY <2>2, <2>3
<1> QED BY <1>2, <1>3, <1>4

LEMMA CheckFactsInit ==
    ASSUME CheckInit
    PROVE  CheckFacts
BY DEF CheckInit, NotStarted, CheckFacts, CheckType, ParityRead, SnapshotRead

LEMMA CheckFactsStep ==
    ASSUME PipelineFacts, PipelineFacts', StartingOffsets = "earliest", CheckFacts,
           [CheckNext]_checkVars
    PROVE  CheckFacts'
<1>1. CASE /\ check.pc # "done"
           /\ PipelineNext
           /\ check' = [check EXCEPT !.quiet = @ /\ lsn' = lsn]
    BY <1>1, PipelineKeepsCheck DEF PipelineFacts
<1>2. CASE ReadPostgres
    BY <1>2, ReadPostgresStep
<1>3. CASE ReadDelta
    BY <1>3, ReadDeltaStep
<1>4. CASE ReadDlq
    BY <1>4, ReadDlqStep
<1>5. CASE ReadTopic
    BY <1>5, ReadTopicStep
<1>6. CASE ReadDeltaLive
    BY <1>6, ReadDeltaLiveStep
<1>7. CASE UNCHANGED checkVars
    <2>1. UNCHANGED pipelineVars /\ check' = check
        BY <1>7 DEF checkVars
    <2>2. CheckType'
        BY <2>1 DEF CheckFacts, CheckType
    <2>3. TableAhead' <=> TableAhead
        BY <2>1, SameCurrent DEF TableAhead, Accountable, Findable
    <2>4. ParityRead'
        BY <2>1, <2>3, SameCurrent DEF CheckFacts, ParityRead, Accountable, Findable, ReadDifferent
    <2>5. SnapshotRead'
        BY <2>1, <2>3, SameCurrent DEF CheckFacts, SnapshotRead
    <2> QED BY <2>2, <2>4, <2>5 DEF CheckFacts
<1> QED BY <1>1, <1>2, <1>3, <1>4, <1>5, <1>6, <1>7 DEF CheckNext, CheckStep

(* The checkers only look: the pipeline beside them is the pipeline.       *)
THEOREM CheckersOnlyLook == CheckSpec => PipelineSpec
<1>1. CheckInit => PipelineInit
    BY DEF CheckInit
<1>2. [CheckNext]_checkVars => [PipelineNext]_pipelineVars
    BY DEF CheckNext, CheckStep, ReadPostgres, ReadDelta, ReadDlq, ReadTopic,
           ReadDeltaLive, checkVars
<1> QED BY <1>1, <1>2, PTL DEF CheckSpec, PipelineSpec

LEMMA CheckFactsInvariant ==
    ASSUME StartingOffsets = "earliest"
    PROVE  CheckSpec => [](PipelineFacts /\ CheckFacts)
<1>1. CheckInit => CheckFacts
    BY CheckFactsInit
<1>2. PipelineFacts /\ PipelineFacts' /\ CheckFacts /\ [CheckNext]_checkVars => CheckFacts'
    BY CheckFactsStep
<1>3. CheckSpec => []PipelineFacts
    BY CheckersOnlyLook, PipelineFactsInvariant, PTL
<1> QED BY <1>1, <1>2, <1>3, PTL DEF CheckSpec

(* A parity check that begins when nothing is under way and that Postgres  *)
(* rests under fails only over a difference it read, and each id it read   *)
(* differently had its last change rejected, expired or overtaken before:  *)
(* no step between its three reads made one differ.                        *)
THEOREM ParityAlarmIsNeverFalse ==
    ASSUME StartingOffsets = "earliest"
    PROVE  CheckSpec => []NoFalseParityAlarm
<1>1. PipelineFacts /\ CheckFacts => NoFalseParityAlarm
    <2> SUFFICES ASSUME PipelineFacts, CheckFacts, Done("parity")
                 PROVE  /\ check.verdict # "pass" => ReadDifferent # {}
                        /\ ReadDifferent \subseteq check.refused \cup check.overtaken
        BY DEF NoFalseParityAlarm
    <2>1. ReadDifferent \cap Accountable = {} /\ ReadDifferent \subseteq Txns
        BY DEF CheckFacts, ParityRead, Done, ReadDifferent
    <2>2. check.verdict # "pass" => ReadDifferent # {}
        BY DEF CheckFacts, ParityRead, Done
    <2> QED BY <2>1, <2>2 DEF Accountable
<1> QED BY <1>1, CheckFactsInvariant, PTL

(* What such a check finds missing, and may excuse by a key in the DLQ, is *)
(* an id whose last change was refused.                                    *)
THEOREM QuarantineExcusesOnlyRefused ==
    ASSUME StartingOffsets = "earliest"
    PROVE  CheckSpec => []QuarantineHidesNothing
<1>1. PipelineFacts /\ CheckFacts => QuarantineHidesNothing
    BY DEF CheckFacts, ParityRead, Findable, QuarantineHidesNothing, Done
<1> QED BY <1>1, CheckFactsInvariant, PTL

(* Each key the snapshot checker finds missing was deleted since or had    *)
(* its last change refused, and it sees an interleaving only after the     *)
(* connector took its snapshot anew.                                       *)
THEOREM SnapshotAlarmIsExplained ==
    ASSUME StartingOffsets = "earliest"
    PROVE  CheckSpec => []SnapshotAlarmExplained
<1>1. PipelineFacts /\ CheckFacts => SnapshotAlarmExplained
    BY DEF CheckFacts, SnapshotRead, SnapshotAlarmExplained, Done
<1> QED BY <1>1, CheckFactsInvariant, PTL
=============================================================================
