------------------------------ MODULE Pipeline ------------------------------
(***************************************************************************)
(* Postgres and the Debezium connector in front of the job: what the       *)
(* Publish of PaymentsCdcJob abstracts.  scripts/data_generator.py writes  *)
(* the rows of a transaction one after the other and commits them later;   *)
(* from the moment the connector is created its replication slot keeps     *)
(* every change that is committed; the connector first emits the rows of a *)
(* consistent snapshot, then the changes, and after a kill                 *)
(* (scripts/chaos/kill_connect.sh) emits again what it had not flushed.    *)
(*                                                                         *)
(* The slot and the connector are external code, modelled from             *)
(* connectors/debezium-postgres-connector.json and from what the job and   *)
(* the checkers rely on.  errors.tolerance=all lets Connect drop a record  *)
(* it cannot convert: Postgres and the registry never refuse one here.     *)
(***************************************************************************)
EXTENDS PaymentsCdcJob

CONSTANTS
    Absent,       \* Postgres has no row with the id
    LoadedTables, \* the contents init.sql may leave in the transactions table
    PartitionOf,  \* the partition Kafka's key hash gives each id
    BatchSize,    \* bound: rows one transaction of the generator touches
    MaxChanges,   \* bound: positions of Postgres' log, one for each row
                  \*   written and one for each commit
    MaxRestarts   \* bound: kills of the connector

VARIABLES
    pg,           \* Postgres: the committed row of each id
    view,         \* Postgres: the rows as the generator's transaction sees them
    written,      \* Postgres: the changes of that transaction while it is open
    lsn,          \* Postgres: the last position of its log
    slot,         \* the connector was created and its slot exists
    feed,         \* the events the connector has emitted or has to emit
    snapshotLen,  \* how many of them are rows of the snapshot
    sent,         \* how many of them it has emitted
    restarts      \* how often the connector was killed

source == <<pg, view, written, lsn, slot, feed, snapshotLen, sent, restarts>>
pipelineVars == <<vars, source>>

Image == [merchant : Merchants, status : Statuses, wellFormed : BOOLEAN]

ASSUME AbsentAssumption == Absent \notin Image
ASSUME TxnsAssumption == IsFiniteSet(Txns)
ASSUME LoadedTablesAssumption == LoadedTables \subseteq [Txns -> Image \cup {Absent}]
ASSUME PartitionOfAssumption == PartitionOf \in [Txns -> Partitions]
ASSUME SourceBoundsAssumption ==
    BatchSize \in Nat /\ MaxChanges \in Nat /\ MaxRestarts \in Nat

Present == { t \in Txns : pg[t] # Absent }

-----------------------------------------------------------------------------
(* Debezium's records.  A delete carries only the key, which is all the    *)
(* default replica identity logs, and is followed by a tombstone.          *)
RowEvent(op, t, image, position) ==
    [txn |-> t, lsn |-> position, op |-> op, merchant |-> image.merchant,
     status |-> image.status, wellFormed |-> image.wellFormed, schema |-> "known"]

DeleteEvent(t, position) ==
    [txn |-> t, lsn |-> position, op |-> "d", merchant |-> Null,
     status |-> Null, wellFormed |-> TRUE, schema |-> "known"]

TombstoneOf(e) == [e EXCEPT !.schema = "none"]

(* The source can only emit events the job's model knows.                  *)
ASSUME SourceEventsAssumption ==
    /\ \A op \in {"c", "u", "r"}, t \in Txns, n \in 0..MaxChanges, image \in Image :
         RowEvent(op, t, image, n) \in Events
    /\ \A t \in Txns, n \in 0..MaxChanges :
         DeleteEvent(t, n) \in Events /\ TombstoneOf(DeleteEvent(t, n)) \in Events

(* The end of the log when the open transaction wrote its first row.       *)
Begun == IF written = <<>> THEN lsn ELSE written[1].lsn - 1

(* A statement changes one row.  The change takes its position in the log  *)
(* now, and only the transaction sees it; all rows of one transaction      *)
(* change in the same way.                                                 *)
WriteRow(t, row, events) ==
    /\ lsn < MaxChanges
    /\ lsn - Begun < BatchSize
    /\ \A k \in DOMAIN written : written[k].op = events[1].op
    /\ lsn' = lsn + 1
    /\ view' = [view EXCEPT ![t] = row]
    /\ written' = written \o events
    /\ UNCHANGED <<vars, pg, slot, feed, snapshotLen, sent, restarts>>

InsertRow(t, image) ==
    /\ view[t] = Absent
    /\ WriteRow(t, image, <<RowEvent("c", t, image, lsn + 1)>>)

DeleteRow(t) ==
    /\ view[t] # Absent
    /\ LET e == DeleteEvent(t, lsn + 1)
       IN  WriteRow(t, Absent, <<e, TombstoneOf(e)>>)

(* do_inserts: fresh ids, any merchant, among them the whale, which the    *)
(* merchants table may not have.  An id that was deleted may come back,    *)
(* which a new uuid4 never does.                                           *)
DoInserts ==
    \E t \in Txns, image \in Image : image.wellFormed /\ InsertRow(t, image)

(* do_updates: a new status, perhaps the same one, for an id of the sample *)
(* load_existing_transaction_ids took; an id that is gone by now changes   *)
(* no row, and one that is drawn twice changes twice.                      *)
DoUpdates ==
    \E t \in Txns, s \in Statuses :
      /\ view[t] # Absent
      /\ LET image == [view[t] EXCEPT !.status = s]
         IN  WriteRow(t, image, <<RowEvent("u", t, image, lsn + 1)>>)

(* do_deletes: an id is taken off the list once it was deleted.            *)
DoDeletes == \E t \in Txns : DeleteRow(t)

(* conn.commit(): all rows of the transaction become visible at once, and  *)
(* a slot that exists hands its changes on, at the positions they have.    *)
CommitTransaction ==
    /\ written # <<>>
    /\ lsn < MaxChanges
    /\ lsn' = lsn + 1
    /\ pg' = view
    /\ feed' = IF slot THEN feed \o written ELSE feed
    /\ written' = <<>>
    /\ UNCHANGED <<vars, view, slot, snapshotLen, sent, restarts>>

(* The generator is killed, or a statement raises and the connection is    *)
(* closed: nothing of the transaction stays but the positions it took.     *)
Rollback ==
    /\ written # <<>>
    /\ view' = pg
    /\ written' = <<>>
    /\ UNCHANGED <<vars, pg, lsn, slot, feed, snapshotLen, sent, restarts>>

Generator == DoInserts \/ DoUpdates \/ DoDeletes \/ CommitTransaction \/ Rollback

-----------------------------------------------------------------------------
(* The committed rows, in any order, all with the position Postgres had    *)
(* when the snapshot was taken.                                            *)
Snapshots ==
    LET n == Cardinality(Present)
    IN  { [k \in 1..n |-> RowEvent("r", ids[k], pg[ids[k]], lsn)] :
            ids \in { f \in [1..n -> Present] :
                        \A j, k \in 1..n : f[j] = f[k] => j = k } }

(* The connector is created: its slot exists before it reads the tables,   *)
(* and Postgres creates it when no transaction is open that began before.  *)
CreateConnector ==
    /\ ~slot
    /\ written = <<>>
    /\ slot' = TRUE
    /\ \E rows \in Snapshots : feed' = rows /\ snapshotLen' = Len(rows)
    /\ UNCHANGED <<vars, pg, view, written, lsn, sent, restarts>>

(* It appends the next event to the partition of its key.                  *)
Emit ==
    /\ slot
    /\ sent < Len(feed)
    /\ Publish(PartitionOf[feed[sent + 1].txn], feed[sent + 1])
    /\ sent' = sent + 1
    /\ UNCHANGED <<pg, view, written, lsn, slot, feed, snapshotLen, restarts>>

(* Mutant of RestartConnector: the offset is flushed before the events are *)
(* delivered.                                                              *)
MutFlushAhead ==
    /\ slot
    /\ restarts < MaxRestarts
    /\ restarts' = restarts + 1
    /\ sent' = Len(feed)
    /\ UNCHANGED <<vars, pg, view, written, lsn, slot, feed, snapshotLen>>

(* Connect is killed and started again.  It goes back to the offset it     *)
(* flushed last, any place up to here; one inside the snapshot means the   *)
(* snapshot is taken again, without waiting for an open transaction, and   *)
(* the slot still has every change committed since the first.              *)
RestartConnector ==
    /\ slot
    /\ restarts < MaxRestarts
    /\ restarts' = restarts + 1
    /\ \/ /\ \E flushed \in snapshotLen..sent : sent' = flushed
          /\ UNCHANGED <<feed, snapshotLen>>
       \/ /\ sent' = 0
          /\ \E rows \in Snapshots :
               /\ feed' = rows \o SubSeq(feed, snapshotLen + 1, Len(feed))
               /\ snapshotLen' = Len(rows)
    /\ UNCHANGED <<vars, pg, view, written, lsn, slot>>

-----------------------------------------------------------------------------
(* init.sql filled the tables; the connector does not exist yet.           *)
PipelineInit ==
    /\ Init
    /\ pg \in LoadedTables
    /\ view = pg
    /\ written = <<>>
    /\ lsn = 0
    /\ slot = FALSE
    /\ feed = <<>>
    /\ snapshotLen = 0
    /\ sent = 0
    /\ restarts = 0

(* The job and its environment, except that only the connector publishes.  *)
JobStep ==
    /\ \/ \E p \in Partitions : Expire(p)
       \/ ChangeMerchants
       \/ DriverStep
       \/ Failure(Driver)
    /\ UNCHANGED source

SourceStep == Generator \/ CreateConnector \/ Emit \/ RestartConnector

PipelineNext == JobStep \/ SourceStep

PipelineSpec == PipelineInit /\ [][PipelineNext]_pipelineVars

(* Connect restarts the connector task and the operator the driver; the    *)
(* generator owes nothing.                                                 *)
FairPipelineSpec ==
    /\ PipelineSpec
    /\ WF_pipelineVars(DriverStep /\ UNCHANGED source)
    /\ WF_pipelineVars(Emit)

-----------------------------------------------------------------------------
(* Nothing is under way between Postgres and the Delta table.              *)
Drained ==
    /\ slot
    /\ sent = Len(feed)
    /\ call[Driver].pc = "idle"
    /\ offsets # <<>>
    /\ Planned = acked
    /\ Ends = offsets[Len(offsets)]

(* The live row of an id, as load_postgres and load_delta select it.       *)
Live(t) == { [merchant |-> r.merchant, status |-> r.status, wellFormed |-> r.wellFormed] :
               r \in { q \in RowsOf(table, t) : ~q.isDelete } }

InParity(t) == Live(t) = {pg[t]} \ {Absent}

(* The last change of an id the topic has was quarantined, or retention    *)
(* removed it before it could be applied.                                  *)
ChangesOf(t) ==
    { pos \in Partitions \X (1..MaxRecords) :
        /\ pos[2] <= Len(topic[pos[1]])
        /\ topic[pos[1]][pos[2]].txn = t
        /\ topic[pos[1]][pos[2]].schema # "none" }

IsNewest(pos, t) ==
    /\ pos \in ChangesOf(t)
    /\ \A other \in ChangesOf(t) :
         topic[other[1]][other[2]].lsn <= topic[pos[1]][pos[2]].lsn

NotApplied(t) ==
    \E pos \in Partitions \X (1..MaxRecords) :
      /\ IsNewest(pos, t)
      /\ FlatRow(pos[1], pos[2]) \in dlq \/ pos \in lost

(* The event says that its id has this row, or has none.                   *)
Says(e, row) ==
    IF row = Absent THEN e.op = "d"
    ELSE /\ e.op # "d"
         /\ row = [merchant |-> e.merchant, status |-> e.status,
                   wellFormed |-> e.wellFormed]

(* A snapshot overtook the last change of an id: the change was written    *)
(* before a repeated snapshot was taken and committed after it, so that    *)
(* the row of the snapshot has the older content and the newer position.   *)
Overtaken(t) ==
    \E pos \in Partitions \X (1..MaxRecords), k \in (snapshotLen + 1)..Len(feed) :
      /\ IsNewest(pos, t)
      /\ feed[k].txn = t /\ Says(feed[k], pg[t])
      /\ LET newest == topic[pos[1]][pos[2]]
         IN  newest.op = "r" /\ ~Says(newest, pg[t]) /\ feed[k].lsn <= newest.lsn

(* What the parity checker is run for: when nothing is under way, each id  *)
(* has the same row in Postgres and, live, in the Delta table, through     *)
(* repeated snapshots, re-emitted events, rollbacks and crashes.  The      *)
(* exceptions: an id whose last change was rejected or expired, and one    *)
(* whose last change the LSN guard refused because a snapshot overtook it. *)
ParityWhenDrained ==
    Drained => \A t \in Txns : InParity(t) \/ NotApplied(t) \/ Overtaken(t)

(* Every change of Postgres reaches the lake: again and again, until the   *)
(* next change of the id, parity holds or one of the exceptions does.      *)
ParityRestored ==
    \A t \in Txns : []<>(slot => InParity(t) \/ NotApplied(t) \/ Overtaken(t))

(* README.md:305: "Postgres and Delta agree, tombstones excluded": so does *)
(* a drained pipeline that rejected nothing, and in whose topic nothing    *)
(* expired.                                                                *)
PostgresAndDeltaAgree ==
    Drained /\ dlq = {} /\ lost = {} => \A t \in Txns : InParity(t)
=============================================================================
