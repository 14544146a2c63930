--------------------------- MODULE PaymentsCdcJob ---------------------------
(***************************************************************************)
(* The streaming driver of spark/jobs/payments_cdc_job.py: Spark reads a   *)
(* Kafka topic in micro-batches, hands each one to foreach_batch_wrapper,  *)
(* and process_batch checks the batch ledger, validates, quarantines,      *)
(* deduplicates, MERGEs into the Delta table and commits the ledger.       *)
(*                                                                         *)
(* Every write goes to a store of its own (Kafka DLQ topic, Delta table,   *)
(* Delta ledger, Spark checkpoint), so the process can die between any two *)
(* of them.  Each write is one action, and what lies between two writes is *)
(* kept in the frame of the call, which dies with the process.             *)
(*                                                                         *)
(* process_batch is also called by scripts/chaos/replay_offsets.py from a  *)
(* process of its own: the handler's actions take the caller c.  Here only *)
(* Driver calls it; ReplayOffsets adds the harness.                        *)
(*                                                                         *)
(* Left out: the text of messages, log lines, Spark session settings, and  *)
(* the Pushgateway (push_metrics swallows every error, so EmitMetrics can  *)
(* not change what the job does next).                                     *)
(***************************************************************************)
EXTENDS Integers, Sequences, FiniteSets, LsnTable

CONSTANTS
    Driver,           \* the streaming driver process
    Callers,          \* every process that may call process_batch
    Partitions,       \* partitions of payments.public.transactions
    Txns,             \* transaction ids
    Merchants,        \* merchant ids
    Statuses,         \* values of the status column
    Null,             \* NULL in a column
    Events,           \* the change events that reach the topic
    MerchantSets,     \* the contents the Postgres merchants table takes
    StartingOffsets,  \* --starting-offsets: "earliest" or "latest"
    MaxRecords,       \* bound: records published to one partition
    MaxExpired,       \* bound: records of one partition retention removes
    MaxCrashes        \* bound: deaths of a process

(* A Kafka record.  schema is the registry id in its Avro header: "known", *)
(* "unknown" to the registry, or "none" for a tombstone, whose value is    *)
(* null.  wellFormed tells whether the amount, currency and UUID rules of  *)
(* the validator pass; the merchant rule depends on the registry.          *)
Event == [txn : Txns, lsn : Nat, op : {"c", "u", "d", "r"},
          merchant : Merchants \cup {Null}, status : Statuses \cup {Null},
          wellFormed : BOOLEAN,
          schema : {"known", "unknown", "none"}]

ASSUME CallersAssumption == Driver \in Callers
ASSUME EventsAssumption == Events \subseteq Event
ASSUME MerchantSetsAssumption == MerchantSets \subseteq SUBSET Merchants
ASSUME StartingAssumption == StartingOffsets \in {"earliest", "latest"}
ASSUME BoundsAssumption ==
    MaxRecords \in Nat /\ MaxExpired \in Nat /\ MaxCrashes \in Nat

VARIABLES
    topic,        \* Kafka: the records ever appended to each partition
    head,         \* Kafka: how many of them retention has removed
    lost,         \* history: positions whose record was given up (see Expire)
    offsets,      \* checkpoint: start position, then the end of each batch
    acked,        \* checkpoint: number of batches in the commit log
    up,           \* processes that are running
    call,         \* the frame of each process's process_batch call
    registry,     \* MerchantRegistry._merchant_ids of each process
    pgMerchants,  \* Postgres: the merchants table
    ledger,       \* Delta: batch ids in _batch_ledger
    table,        \* Delta: rows of the transactions table
    dlq,          \* Kafka: rows in payments.transactions.dlq
    crashes       \* how many processes died so far

kafka == <<topic, head, lost>>
checkpoint == <<offsets, acked>>
process == <<up, call, registry>>
sinks == <<ledger, table, dlq>>
vars == <<kafka, checkpoint, process, pgMerchants, sinks, crashes>>

Row == [txn : Txns, lsn : Nat, isDelete : BOOLEAN,
        merchant : Merchants \cup {Null}, status : Statuses \cup {Null},
        wellFormed : BOOLEAN, partition : Partitions, offset : Nat]

(* Where a call stands: before already_committed, validate, write_to_dlq,  *)
(* the MERGE, the commit of the MERGE, commit_ledger, _emit_metrics, or    *)
(* back in the caller.                                                     *)
Steps == {"idle", "check", "validate", "dlq", "merge", "commit", "ledger",
          "emit", "returned"}

Frame == [pc : Steps, id : Nat, commit : BOOLEAN, rows : SUBSET Row,
          valid : SUBSET Row, base : SUBSET Row]

Idle == [pc |-> "idle", id |-> 0, commit |-> FALSE,
         rows |-> {}, valid |-> {}, base |-> {}]
Returned == [Idle EXCEPT !.pc = "returned"]

-----------------------------------------------------------------------------
(* Micro-batches.  Batch b, counted from 0 as Spark does, covers the       *)
(* positions after offsets[b + 1] up to offsets[b + 2].                    *)

Ends == [p \in Partitions |-> Len(topic[p])]
Planned == Len(offsets) - 1
InBatch(b, p, i) == offsets[b + 1][p] < i /\ i <= offsets[b + 2][p]

(* flatten_envelope: one row per decoded record, with the Kafka position.  *)
FlatRow(p, i) ==
    LET e == topic[p][i]
    IN  [txn |-> e.txn, lsn |-> e.lsn, isDelete |-> (e.op = "d"),
         merchant |-> e.merchant, status |-> e.status,
         wellFormed |-> e.wellFormed, partition |-> p, offset |-> i]

(* The positions of the records Kafka still holds.                         *)
Retained == { pos \in Partitions \X (1..MaxRecords) :
                head[pos[1]] < pos[2] /\ pos[2] <= Len(topic[pos[1]]) }

(* Mutant of Fetched: the batch reads to the end of the topic, not to the  *)
(* end that was planned for it.                                            *)
MutFetchedToLatest(b) == { pos \in Retained : offsets[b + 1][pos[1]] < pos[2] }

(* What Kafka returns for batch b: with failOnDataLoss=false the records   *)
(* retention removed are skipped without an error.                         *)
Fetched(b) == { pos \in Retained : InBatch(b, pos[1], pos[2]) }

(* deserialize_by_schema_id drops the records whose value is null.         *)
Deserialized(positions) ==
    { FlatRow(pos[1], pos[2]) :
        pos \in { q \in positions : topic[q[1]][q[2]].schema # "none" } }

(* validate: a row that no rule rejects against a merchant set.            *)
Admissible(r, merchants) == /\ r.wellFormed
                            /\ r.isDelete \/ r.merchant \in merchants

-----------------------------------------------------------------------------
(* What it means for a record to have been dealt with.                     *)

Handled(r) == r \in dlq \/ UpToDate(table, r)

(* A tombstone carries no change; any other record is either in the sinks  *)
(* or was removed by retention before it could get there.                  *)
Settled(p, i) == \/ topic[p][i].schema = "none"
                 \/ Handled(FlatRow(p, i))
                 \/ <<p, i>> \in lost

BatchSettled(b) ==
    \A p \in Partitions, i \in 1..MaxRecords : InBatch(b, p, i) => Settled(p, i)

-----------------------------------------------------------------------------
Init ==
    /\ topic = [p \in Partitions |-> <<>>]
    /\ head = [p \in Partitions |-> 0]
    /\ lost = {}
    /\ offsets = <<>>
    /\ acked = 0
    /\ up = {}
    /\ call = [c \in Callers |-> Idle]
    /\ registry = [c \in Callers |-> {}]
    /\ pgMerchants \in MerchantSets
    /\ ledger = {}
    /\ table = {}
    /\ dlq = {}
    /\ crashes = 0

-----------------------------------------------------------------------------
(* The environment.                                                        *)

(* Kafka Connect, or a chaos script, appends a record.  Events arrive in   *)
(* any order and any number of times: Debezium re-emits after a restart,   *)
(* and the injectors publish old LSNs on purpose.                          *)
Publish(p, e) ==
    /\ Len(topic[p]) < MaxRecords
    /\ topic' = [topic EXCEPT ![p] = Append(@, e)]
    /\ UNCHANGED <<head, lost, checkpoint, process, pgMerchants, sinks, crashes>>

(* Kafka retention removes the oldest record of a partition.               *)
Expire(p) ==
    /\ head[p] < Len(topic[p])
    /\ head[p] < MaxExpired
    /\ head' = [head EXCEPT ![p] = @ + 1]
    /\ lost' = IF Settled(p, head[p] + 1) THEN lost
                                          ELSE lost \cup {<<p, head[p] + 1>>}
    /\ UNCHANGED <<topic, checkpoint, process, pgMerchants, sinks, crashes>>

(* Someone edits the merchants table.                                      *)
ChangeMerchants ==
    /\ \E m \in MerchantSets \ {pgMerchants} : pgMerchants' = m
    /\ UNCHANGED <<kafka, checkpoint, process, sinks, crashes>>

-----------------------------------------------------------------------------
(* The life of a process.                                                  *)

(* run_stream up to the start of the query: the registry must load, and    *)
(* startingOffsets counts only when there is no checkpoint.                *)
Start ==
    /\ Driver \notin up
    /\ pgMerchants # {}
    /\ up' = up \cup {Driver}
    /\ registry' = [registry EXCEPT ![Driver] = pgMerchants]
    /\ offsets' = IF offsets # <<>> THEN offsets
                  ELSE IF StartingOffsets = "earliest" THEN <<head>> ELSE <<Ends>>
    /\ UNCHANGED <<kafka, acked, call, pgMerchants, sinks, crashes>>

(* The process ends and takes its frame and its registry with it.          *)
Stop(c) ==
    /\ up' = up \ {c}
    /\ call' = [call EXCEPT ![c] = Idle]
    /\ registry' = [registry EXCEPT ![c] = {}]

(* kill -9, an exception of a store, or SIGTERM: query.stop() interrupts   *)
(* the thread that runs the batch, at any point.                           *)
Crash(c) ==
    /\ c \in up
    /\ crashes < MaxCrashes
    /\ crashes' = crashes + 1
    /\ Stop(c)
    /\ UNCHANGED <<kafka, checkpoint, pgMerchants, sinks>>

-----------------------------------------------------------------------------
(* Spark's micro-batch loop.                                               *)

(* Mutant of PlanBatch: it does not wait for the commit of the last batch. *)
MutPlanAhead ==
    /\ Driver \in up
    /\ call[Driver].pc = "idle"
    /\ Ends # offsets[Len(offsets)]
    /\ offsets' = Append(offsets, Ends)
    /\ UNCHANGED <<kafka, acked, process, pgMerchants, sinks, crashes>>

(* The end of the next batch is fixed and written to the offset log before *)
(* the batch runs; a restart runs a planned batch again, with its range.   *)
PlanBatch ==
    /\ Driver \in up
    /\ call[Driver].pc = "idle"
    /\ Planned = acked
    /\ Ends # offsets[Len(offsets)]
    /\ offsets' = Append(offsets, Ends)
    /\ UNCHANGED <<kafka, acked, process, pgMerchants, sinks, crashes>>

(* Spark calls foreach_batch_wrapper with the oldest unfinished batch.     *)
BatchReady ==
    /\ Driver \in up
    /\ call[Driver].pc = "idle"
    /\ Planned = acked + 1

(* No Kafka record: return before process_batch, without a ledger row.     *)
WrapperEmpty ==
    /\ BatchReady
    /\ Fetched(acked) = {}
    /\ call' = [call EXCEPT ![Driver] = Returned]
    /\ UNCHANGED <<kafka, checkpoint, up, registry, pgMerchants, sinks, crashes>>

Undecodable(positions) ==
    \E pos \in positions : topic[pos[1]][pos[2]].schema = "unknown"

(* schema_by_id raises, the query fails and the driver exits.              *)
WrapperRaises ==
    /\ BatchReady
    /\ Undecodable(Fetched(acked))
    /\ Stop(Driver)
    /\ UNCHANGED <<kafka, checkpoint, pgMerchants, sinks, crashes>>

(* Entering process_batch with the decoded rows.                           *)
EnterCall(c, id, commit, rows) ==
    call' = [call EXCEPT ![c] = [Idle EXCEPT !.pc = "check", !.id = id,
                                             !.commit = commit, !.rows = rows]]

WrapperCall ==
    /\ BatchReady
    /\ Fetched(acked) # {}
    /\ ~Undecodable(Fetched(acked))
    /\ EnterCall(Driver, acked, TRUE, Deserialized(Fetched(acked)))
    /\ UNCHANGED <<kafka, checkpoint, up, registry, pgMerchants, sinks, crashes>>

(* foreachBatch returned: Spark appends the batch to its commit log.       *)
AckBatch ==
    /\ call[Driver].pc = "returned"
    /\ acked' = acked + 1
    /\ call' = [call EXCEPT ![Driver] = Idle]
    /\ UNCHANGED <<kafka, offsets, up, registry, pgMerchants, sinks, crashes>>

-----------------------------------------------------------------------------
(* process_batch.                                                          *)

Goto(c, step) == call' = [call EXCEPT ![c].pc = step]

Invalid(c) == call[c].rows \ call[c].valid

(* Mutant of CheckLedger: no ledger lookup.                                *)
MutNoLookup(c) ==
    /\ call[c].pc = "check"
    /\ Goto(c, IF call[c].rows = {} THEN "ledger" ELSE "validate")
    /\ UNCHANGED <<kafka, checkpoint, up, registry, pgMerchants, sinks, crashes>>

(* Mutant of CheckLedger: the batch is claimed in the ledger before it is  *)
(* applied.                                                                *)
MutClaimFirst(c) ==
    /\ call[c].pc = "check"
    /\ \/ /\ call[c].id \in ledger
          /\ call' = [call EXCEPT ![c] = Returned]
          /\ UNCHANGED ledger
       \/ /\ call[c].id \notin ledger
          /\ Goto(c, IF call[c].rows = {} THEN "ledger" ELSE "validate")
          /\ ledger' = ledger \cup {call[c].id}
    /\ UNCHANGED <<kafka, checkpoint, up, registry, pgMerchants, table, dlq, crashes>>

(* Mutant of CheckLedger: a batch in the ledger is not skipped but waited  *)
(* for.                                                                    *)
MutNoSkip(c) ==
    /\ call[c].pc = "check"
    /\ call[c].id \notin ledger
    /\ Goto(c, IF call[c].rows = {} THEN "ledger" ELSE "validate")
    /\ UNCHANGED <<kafka, checkpoint, up, registry, pgMerchants, sinks, crashes>>

(* already_committed: an exact match on the batch id ends the call.  An    *)
(* empty batch goes straight to the ledger.                                *)
CheckLedger(c) ==
    /\ call[c].pc = "check"
    /\ \/ /\ call[c].id \in ledger
          /\ call' = [call EXCEPT ![c] = Returned]
       \/ /\ call[c].id \notin ledger
          /\ Goto(c, IF call[c].rows = {} THEN "ledger" ELSE "validate")
    /\ UNCHANGED <<kafka, checkpoint, up, registry, pgMerchants, sinks, crashes>>

(* validate(batch_df, merchants()): a registry older than two minutes is   *)
(* read again; a read that fails or returns nothing keeps the old set.     *)
Validate(c) ==
    /\ call[c].pc = "validate"
    /\ \E m \in {registry[c], pgMerchants} \ {{}} :
         /\ registry' = [registry EXCEPT ![c] = m]
         /\ call' = [call EXCEPT ![c].pc = "dlq",
                                 ![c].valid = { r \in call[c].rows :
                                                  Admissible(r, m) }]
    /\ UNCHANGED <<kafka, checkpoint, up, pgMerchants, sinks, crashes>>

(* With no set to fall back on, a failed read raises.                      *)
ValidateRaises(c) ==
    /\ call[c].pc = "validate"
    /\ registry[c] = {}
    /\ Stop(c)
    /\ UNCHANGED <<kafka, checkpoint, pgMerchants, sinks, crashes>>

(* Mutant of WriteDlq: a failed send is swallowed, as push_metrics does.   *)
MutDlqFailsOpen(c) ==
    /\ call[c].pc = "dlq"
    /\ \E sent \in {{}, Invalid(c)} : dlq' = dlq \cup sent
    /\ Goto(c, "merge")
    /\ UNCHANGED <<kafka, checkpoint, up, registry, pgMerchants, ledger, table,
                   crashes>>

(* write_to_dlq: the rejected rows are sent to Kafka and acknowledged.     *)
WriteDlq(c) ==
    /\ call[c].pc = "dlq"
    /\ dlq' = dlq \cup Invalid(c)
    /\ Goto(c, "merge")
    /\ UNCHANGED <<kafka, checkpoint, up, registry, pgMerchants, ledger, table,
                   crashes>>

(* The DLQ write is not transactional: a process that dies in it may have  *)
(* delivered some of the rows.                                             *)
WriteDlqTorn(c) ==
    /\ call[c].pc = "dlq"
    /\ crashes < MaxCrashes
    /\ crashes' = crashes + 1
    /\ \E sent \in SUBSET Invalid(c) : dlq' = dlq \cup sent
    /\ Stop(c)
    /\ UNCHANGED <<kafka, checkpoint, pgMerchants, ledger, table>>

(* merge_batch: nothing staged means no MERGE, otherwise Delta takes a     *)
(* snapshot of the table ...                                               *)
MergeBegin(c) ==
    /\ call[c].pc = "merge"
    /\ IF call[c].valid = {}
       THEN Goto(c, "ledger")
       ELSE call' = [call EXCEPT ![c].pc = "commit", ![c].base = table]
    /\ UNCHANGED <<kafka, checkpoint, up, registry, pgMerchants, sinks, crashes>>

(* Mutant of MergeCommit: the snapshot is written back without looking     *)
(* whether it is still current.                                            *)
MutBlindCommit(c) ==
    /\ call[c].pc = "commit"
    /\ \E staged \in DedupLatest(call[c].valid) :
         table' = MergeInto(call[c].base, staged)
    /\ call' = [call EXCEPT ![c].pc = "ledger", ![c].base = {}]
    /\ UNCHANGED <<kafka, checkpoint, up, registry, pgMerchants, ledger, dlq,
                   crashes>>

(* ... and commits the deduplicated rows if the snapshot is still current: *)
(* within one process, and for any two whose commits do not overlap, Delta *)
(* sees each other commit.  ReplayOffsets has the commits that do overlap. *)
MergeCommit(c) ==
    /\ call[c].pc = "commit"
    /\ table = call[c].base
    /\ \E staged \in DedupLatest(call[c].valid) :
         table' = MergeInto(table, staged)
    /\ call' = [call EXCEPT ![c].pc = "ledger", ![c].base = {}]
    /\ UNCHANGED <<kafka, checkpoint, up, registry, pgMerchants, ledger, dlq,
                   crashes>>

(* Another writer got in between: Delta throws and the process dies.       *)
MergeConflict(c) ==
    /\ call[c].pc = "commit"
    /\ table # call[c].base
    /\ Stop(c)
    /\ UNCHANGED <<kafka, checkpoint, pgMerchants, sinks, crashes>>

(* commit_ledger: with commit=False nothing is written.                    *)
CommitLedger(c) ==
    /\ call[c].pc = "ledger"
    /\ ledger' = IF call[c].commit THEN ledger \cup {call[c].id} ELSE ledger
    /\ Goto(c, "emit")
    /\ UNCHANGED <<kafka, checkpoint, up, registry, pgMerchants, table, dlq,
                   crashes>>

(* _emit_metrics never raises; then process_batch returns.                 *)
EmitMetrics(c) ==
    /\ call[c].pc = "emit"
    /\ call' = [call EXCEPT ![c] = Returned]
    /\ UNCHANGED <<kafka, checkpoint, up, registry, pgMerchants, sinks, crashes>>

(* validate returns or raises; so does the MERGE, by what was committed    *)
(* since its snapshot.                                                     *)
TryValidate(c) ==
    /\ call[c].pc = "validate"
    /\ Validate(c) \/ ValidateRaises(c)

TryCommit(c) ==
    /\ call[c].pc = "commit"
    /\ MergeCommit(c) \/ MergeConflict(c)

ProcessBatch(c) ==
    \/ CheckLedger(c)
    \/ TryValidate(c)
    \/ WriteDlq(c)
    \/ MergeBegin(c)
    \/ TryCommit(c)
    \/ CommitLedger(c)
    \/ EmitMetrics(c)

-----------------------------------------------------------------------------
DriverStep ==
    \/ Start
    \/ PlanBatch
    \/ WrapperEmpty
    \/ WrapperRaises
    \/ WrapperCall
    \/ ProcessBatch(Driver)
    \/ AckBatch

Environment ==
    \/ \E p \in Partitions, e \in Events : Publish(p, e)
    \/ \E p \in Partitions : Expire(p)
    \/ ChangeMerchants

Failure(c) == Crash(c) \/ WriteDlqTorn(c)

Next == Environment \/ DriverStep \/ Failure(Driver)

Spec == Init /\ [][Next]_vars

(* The driver's own steps are the loop of a Spark query and of the         *)
(* operator's restart after it died; nothing obliges a record to arrive,   *)
(* to expire, or a process to die.                                         *)
FairSpec == Spec /\ WF_vars(DriverStep)

-----------------------------------------------------------------------------
(* Properties.                                                             *)

(* The shape of the state.  The checkpoint is at most one batch ahead of   *)
(* the commit log: a planned batch is finished before the next is planned. *)
TypeOK ==
    /\ topic \in [Partitions -> Seq(Event)]
    /\ head \in [Partitions -> Nat]
    /\ lost \subseteq Partitions \X (Nat \ {0})
    /\ offsets \in Seq([Partitions -> Nat])
    /\ acked \in Nat
    /\ up \subseteq Callers
    /\ call \in [Callers -> Frame]
    /\ registry \in [Callers -> SUBSET Merchants]
    /\ pgMerchants \in SUBSET Merchants
    /\ ledger \subseteq Nat
    /\ table \subseteq Row
    /\ dlq \subseteq Row
    /\ crashes \in Nat
    /\ IF offsets = <<>> THEN acked = 0 ELSE acked <= Planned /\ Planned <= acked + 1

(* A transaction id owns at most one row of the Delta table, whatever      *)
(* duplicates a batch holds and however often it is replayed: the          *)
(* "duplicates" check of scripts/parity_checker.py.                        *)
OneRowPerTransaction == OneRowPerKey(table)

(* A row decoded from a record of a planned batch.                         *)
Sourced(r) ==
    /\ r.offset \in 1..Len(topic[r.partition])
    /\ r = FlatRow(r.partition, r.offset)
    /\ \E b \in 0..(Planned - 1) : InBatch(b, r.partition, r.offset)

(* Every row of the table, and every row of the DLQ, came from a record of *)
(* a batch that the offset log already held; no row reached the table that *)
(* the amount, currency and UUID rules reject.                             *)
SinksFollowOffsetLog ==
    /\ \A r \in table \cup dlq : Sourced(r)
    /\ \A r \in table : r.wellFormed

(* The guarantee the job is built for: each record of a batch the Spark    *)
(* commit log has is settled, through every crash between two writes,      *)
(* replay, torn DLQ write and change of the merchants table.  Only what    *)
(* retention removed first is missing.                                     *)
NoSilentLoss == \A b \in 0..(acked - 1) : BatchSettled(b)

(* A ledger row is a promise about the other sinks: a batch id is in the   *)
(* ledger only after each of its records was settled, so that skipping the *)
(* batch on replay loses nothing.                                          *)
LedgerSound == \A b \in ledger : b < Planned /\ BatchSettled(b)

(* The LSN guard as a property of every step: a row of the table stays or  *)
(* gives way to a strictly later change of its transaction.  A late update *)
(* never brings a deleted row back, and a replay never turns one back.     *)
LsnMonotone == [][Advances(table, table')]_vars

(* Once a batch is in the ledger the driver writes nothing more for it,    *)
(* even if merchants were added that would now admit a rejected row.       *)
LedgeredBatchIsFinal ==
    [][(table' # table \/ dlq' # dlq) => acked \notin ledger]_vars

(* README.md:583: a crash between the DLQ write and the ledger commit      *)
(* "replays the batch and re-writes the same rejections": past its DLQ     *)
(* write, a call has rejected every row of its batch that was quarantined. *)
RewritesSameRejections ==
    call[Driver].pc \in {"merge", "commit", "ledger", "emit"} =>
        call[Driver].rows \cap dlq \subseteq Invalid(Driver)

(* The backlog of every partition is worked off, again and again: no       *)
(* crash, replay, expiry or empty batch leaves the query stuck.  Events    *)
(* are published a bounded number of times, so every record settles.       *)
EveryRecordSettles ==
    \A p \in Partitions : []<>(\A i \in 1..Len(topic[p]) : Settled(p, i))
=============================================================================
