# Verification of the payments CDC pipeline

This directory holds TLA+ models of the pipeline in `src/`, the TLC
configurations that check them on small instances, and TLAPS proofs that hold
for every instance.  `PROJECT.json` lists the components, the runs, the source
lines each definition stands for, the hazards, the findings and the theorems.

    tlc -workers 2 -config MCPaymentsCdcJob.cfg MCPaymentsCdcJob.tla
    tlapm PaymentsCdcJob_proofs.tla

## 1. The system

Postgres changes travel through Debezium and Kafka to one Spark driver
(`spark/jobs/payments_cdc_job.py`), which applies them to a Delta table in
micro-batches.  Around the driver are scripts that inject faults, replay
offsets, and compare the stores.

| Component | State it keeps | Operations | Talks to |
| :-- | :-- | :-- | :-- |
| Driver, `payments_cdc_job.py` | Spark checkpoint (offset log, commit log), Delta table, `_batch_ledger`, module globals | start, plan batch, `foreach_batch_wrapper`, `process_batch`, stop on SIGTERM | Kafka, schema registry, Postgres, Delta, DLQ topic, Pushgateway |
| Avro deserializer | process-wide schema cache | `deserialize_by_schema_id`, `schema_by_id`, `flatten_envelope` | schema registry |
| Validator | none | `validate`: four rules | merchant set |
| Merchant registry and DLQ writer | `_merchant_ids`, `_loaded_at` | `refresh`, `merchants`, `write_to_dlq` | Postgres, DLQ topic |
| Metrics | last processed offsets, last commit time | `push_metrics`, `extract_processed_offsets` | Pushgateway |
| Replay harness, `replay_offsets.py` | none of its own | `run_lsn_guard_test`, `run_ledger_skip_test` | calls `process_batch` in its own process |
| Parity checker | none | reads Postgres, Delta, DLQ one after the other | all stores |
| Snapshot transition checker | none | compares snapshot events with the live table | Kafka, Delta |
| Data generator | a sample of existing ids | `do_inserts`, `do_updates`, `do_deletes`: three kinds of transaction | Postgres |
| Bad record and late delete injectors | dumped ids, `v_before` | insert bad rows, publish a rogue record and late events, wait, look, clean up | Postgres, Kafka, Delta, DLQ |
| Connector and database | WAL, replication slot, flushed offset | snapshot, emit, emit again after a kill | Postgres, Kafka |
| Lag sidecar | none | posts end offsets in a loop | Kafka, Pushgateway |
| Aggregation skew job, trend monitor | none | read-only reports | Delta, Kafka |
| Topics, dashboards | configuration | | |

What is hard here:

* **Five stores, no common transaction.** A batch writes the DLQ topic, the
  Delta table, the ledger and Spark's commit log one after the other; the
  process can die between any two, and inside the DLQ write.
* **At-least-once input in any order.** Debezium re-emits after a restart,
  injectors publish old LSNs, equal LSNs meet in two partitions.
* **State that a replay does not see again.** The merchant set is loaded by
  each process; Kafka retention may have removed records in the meantime.
* **Two processes in one function.** The replay harness runs `process_batch`
  next to the driver, against the same table and ledger, with a log store that
  does not keep two processes from writing the same version of the table.
* **Positions taken before the commit.** A row's place in Postgres' log is that
  of the statement; a snapshot taken again before the commit is older in content
  and newer in position.
* **Two numberings that must agree.** Batch ids come from the checkpoint and
  are remembered in the ledger, and each can be lost without the other.
* **Observers of a moving system.** The checkers read three stores one after
  the other, the injectors sleep and look, the panels subtract gauges that
  different processes posted at different times.

What makes each component correct:

* driver: an acknowledged batch is in the sinks; a ledgered batch is complete
  and final; the table never goes back; one row per key; everything settles;
* deserializer: a delete keeps its key, a tombstone carries nothing, a record
  is decoded with the schema it was written with;
* validator: a row is rejected exactly when a rule applies, NULLs included;
* registry: a known merchant set is never replaced by an empty one;
* harness: a replay of applied records is a no-op and claims no batch;
* source to lake: a drained pipeline is in parity but for what was rejected,
  expired or overtaken by a snapshot, and parity comes back;
* checkers: they pass on a pipeline in step, and report a real difference;
* injectors: their verdicts mean what they print;
* metrics: the offsets shown are settled, and the lag shown covers the backlog.

## 2. Modules

| Module | Models |
| :-- | :-- |
| `LsnTable` | `dedup_latest` and the MERGE of `merge_batch`, as operators on sets of rows |
| `PaymentsCdcJob` | the driver: Spark's batch loop, the wrapper, `process_batch`, crash and restart |
| `LastWriterWins` | abstract specification: a map from keys to changes that only moves forward |
| `JobRefinement` | the refinement mapping from `PaymentsCdcJob` to `LastWriterWins` |
| `ReplayOffsets` | the replay harness beside a live driver |
| `CheckpointRecovery` | the driver when the checkpoint is deleted and the ledger kept |
| `Pipeline` | Postgres, the generator and the Debezium connector in front of the driver |
| `Checkers` | the parity and the snapshot checker beside the pipeline |
| `Injection` | the two injectors, with the checkers and the pipeline |
| `Gate` | deserializer, merchant registry and validator in full detail |
| `Observers` | the offset gauges of the driver, and the lag sidecar |
| `MC*` | instances for TLC |
| `*_proofs` | theorems about `LsnTable` and `PaymentsCdcJob`, and about `JobRefinement`, `ReplayOffsets`, `Pipeline`, `Checkers`, `Injection`, `Gate` and `Observers` |

`Pipeline`, `ReplayOffsets` and `CheckpointRecovery` extend `PaymentsCdcJob`;
`Checkers` extends `Pipeline`, `Injection` extends `Checkers`, and `Observers`
extends `ReplayOffsets`.  Each adds variables and steps of its own and takes the
steps of the module below as they are, so that what is proved of them is
proved of the same handlers.

### LsnTable

A batch and a table are sets of rows.  `DedupLatest` yields the *set* of
possible results: offsets of different partitions are not comparable, so two
rows may tie in the window order, and `row_number()` picks either.  `MergeInto`
has the two clauses of the MERGE and nothing else; that a key owns one row is
proved from the two operators and is not part of the representation.

### PaymentsCdcJob

| Variable | In the system |
| :-- | :-- |
| `topic`, `head` | the Kafka topic and what retention has removed of it |
| `offsets`, `acked` | Spark's offset log and the length of its commit log |
| `up`, `call` | which process runs, and the frame of its `process_batch` call |
| `registry`, `pgMerchants` | the merchant set of each process, and the Postgres table |
| `ledger`, `table`, `dlq` | the three sinks |
| `lost`, `crashes` | history: positions removed before they settled, deaths so far |

Each write to a store is one action, and each read whose result is used later
is in an action before it; the frame `call[c]` holds what Python's locals hold
in between and disappears with the process.

| Action | Code |
| :-- | :-- |
| `Start` | `run_stream` up to the start of the query; needs a merchant set |
| `PlanBatch`, `AckBatch` | Spark's offset log and commit log around `foreachBatch` |
| `WrapperEmpty`, `WrapperRaises`, `WrapperCall` | `foreach_batch_wrapper`: no records; an unknown schema id; a call |
| `CheckLedger` | `already_committed`, and the early return of an empty batch |
| `TryValidate`: `Validate`, `ValidateRaises` | `validate(batch_df, merchants())` with a refresh that happens or not; it raises only in a process that has no merchant set, the harness |
| `WriteDlq`, `WriteDlqTorn` | `write_to_dlq`, complete or cut off |
| `MergeBegin`, `TryCommit`: `MergeCommit`, `MergeConflict` | `merge_batch` with Delta's optimistic commit; it conflicts only with a second writer |
| `CommitLedger` | `commit_ledger`, nothing with `commit=False` |
| `EmitMetrics` | `_emit_metrics`, which cannot fail |
| `Crash` | `kill -9`, an exception of a store, SIGTERM in the middle of a batch |
| `Publish`, `Expire`, `ChangeMerchants` | Kafka Connect and scripts, Kafka retention, the merchants table |

Abstractions.  A record has a key, an LSN, an operation, a merchant, one
Boolean for the amount, currency and UUID rules, and whether its schema id is
known; the business columns are what `merchant` and `wellFormed` tell apart.
The registry's 120-second clock is a choice between its set and Postgres'
current one.  The DLQ is a set: no property here counts duplicates in it.
SIGTERM is a crash, because `query.stop()` interrupts the thread that runs the
batch; the model gives no credit to a batch that happens to finish.  `MergeCommit`
compares the table with the snapshot of the MERGE and commits in one step: that
is what Delta gives the commits of one process, and commits that do not overlap.
What two processes may do to each other is in `ReplayOffsets`.

*Settled* is the notion the properties share: a record is settled when it is a
tombstone, or in the DLQ, or the table has a change of its key that is at
least as recent, or retention removed it before any of that.  A batch that
`commit_ledger` or Spark's commit log has must be settled.

### ReplayOffsets

A second process, `Harness`, runs the same `process_batch` actions.
`LsnGuardCall` reads any Kafka range and calls with `commit=False` under an id
no batch has; `LedgerSkipCall` calls with an empty frame, an id and
`commit=True`.  The script can be run any number of times.  `ReplaySpec` uses
ids of the ledger, as the help text asks; `UncheckedReplaySpec` uses the
default id whatever the ledger holds, since no code checks it.

Driver and harness commit to one Delta log on `s3a://`, and `build_spark`
(`payments_cdc_job.py:66-85`) sets no log store.  The default one for S3 asks
whether a version exists and writes it in two requests, and only the commits of
one process are kept apart.  `MergeOverwrites` is the commit that falls between
the two requests of another: the process writes the MERGE of its snapshot,
`previous`, over the version the other has just written, and both go on to their
ledger commits.  The records the table had seen and has no more are put into
`lost` (`Unseen`), so that the loss is visible to every property that speaks of
settled records.  `previous` is the version behind the current one: a PUT
overlaps one commit of the other process, not several.

### CheckpointRecovery

Adds `DeleteCheckpoint` to the driver: the offset and commit logs go, the
ledger stays, and `Start` applies `--starting-offsets`.  The history variable
`inherited` holds the batch ids the ledger had at the last deletion; no step
reads it.

### LastWriterWins and JobRefinement

`LastWriterWins` says what a reader of the table may rely on: each key is
defined by a published change, and moves only to a strictly later one.  It
knows no batch, crash or ledger.  `JobRefinement` maps a key to the one row of
the table that has it.

### Pipeline

| Variable | In the system |
| :-- | :-- |
| `pg`, `lsn` | the committed rows of Postgres, and the end of its log |
| `view`, `written` | the rows as the open transaction sees them, and its changes with their positions |
| `slot` | the connector was created and its replication slot exists |
| `feed`, `snapshotLen`, `sent` | the events the connector has to emit, how many of them are the snapshot, how many are emitted |
| `restarts` | history: kills of the connector |

| Action | Code |
| :-- | :-- |
| `DoInserts`, `DoUpdates`, `DoDeletes` | one row of a transaction of `data_generator.py`, which takes its position now; up to `BatchSize` rows of one kind |
| `CommitTransaction`, `Rollback` | `conn.commit()`; the generator is killed or a statement raises |
| `CreateConnector` | the connector is registered: slot first, when no transaction is open, then a snapshot in any row order |
| `Emit` | Connect appends the next event to the partition of its key |
| `RestartConnector` | `kill_connect.sh`: back to some flushed offset, or to a new snapshot |
| `JobStep` | the driver, retention and the merchants table, as in `PaymentsCdcJob` |

A delete is an event with only its key and a tombstone (`tombstones.on.delete`).
The rows of a snapshot share one LSN, the end of the log when it was taken.
What is committed before the slot exists is in the snapshot, what is committed
after it in the stream; a repeated snapshot, which waits for no transaction,
overlaps the stream, and may come between a write and its commit.  The change is
then not in the snapshot, and follows it with a position that is not above the
snapshot rows': the strict `>` of the MERGE refuses it.  `Overtaken(t)` says that
this is what happened to the last change of an id.  The generator's whale
merchant, which the merchants table does not have, is what makes rejected rows
without an injector.

### Checkers

One run of one of the two scripts, in `check`: three reads (`ReadPostgres`,
`ReadDelta`, `ReadDlq`) or two (`ReadTopic`, `ReadDeltaLive`), with the pipeline
moving between them, and the verdict computed from what was read.  Three of its
fields are history: `quiet`, nothing was under way when the run began and
Postgres' log has not grown since, which is when a difference is somebody's
fault; `refused`, the ids whose last change had been rejected or expired by
then; and `overtaken`, those whose last change a repeated snapshot had
overtaken.  The MC module follows no run that is not quiet.

### Injection

`script` is the place of one of the two injectors.  The bad-record suite runs
its list of tests: insert rows through Postgres, statement by statement and then
commit (`InjectRow`, `CommitRows`), or publish a rogue record, wait for presence,
for the DLQ, for absence; dump the ids; clean up (`DeleteDumped`, `Cleanup`).  The late-delete
script is a program of eleven lines, publishing or looking.  Every sleep and
timeout may be over at once, every script may die anywhere (`ScriptDies`, and
`DieInTransaction`, which Postgres rolls back), and the pipeline may crash and
replay in between.

### Gate

What `PaymentsCdcJob` abstracts to one predicate and one choice.  A batch is the
set of schema ids of its records; `DecodeGroup` is one turn of the loop over
them, with the cache and a registry that comes and goes.  `ValidateBatch` is
`validate(batch_df, merchants())` with the 120 seconds counted in ticks.  The
rules are written over SQL's TRUE, FALSE and NULL, with `when`, `concat_ws` and
`filter` as Spark evaluates them, over a row whose columns are NULL, valid or
invalid.  `GateIsAdmissible` ties both filters, the rows that pass and the rows
that go to the DLQ, to the one predicate of `PaymentsCdcJob`.

### Observers

On top of `ReplayOffsets`: the Pushgateway group with the processed offsets that
the driver posts and the end offsets that the sidecar posts, and the global the
first come from, polled by the driver's main thread.  A POST replaces only the
series it names, and nothing is withdrawn when a process dies.  The harness runs
the same `push_metrics`, but in its process nothing polls, so that it adds no
offset.

## 3. Runs

| Run | Instance | Shows |
| :-- | :-- | :-- |
| `core` | 1 partition, 3 records of 6 kinds, 2 crashes, 1 expiry, 3 merchant sets | `TypeOK`, `SinksFollowOffsetLog`, `NoSilentLoss`, `LedgerSound`, `LsnMonotone`, `LedgeredBatchIsFinal` |
| `pipeline` | 1 id, 2 merchants of which 1 is known, 4 log positions, transactions of up to 2 rows; a kill of the connector, a crash, an expiry, two of them in one behaviour | `ParityWhenDrained`, `EveryRecordSettles`, `ParityRestored` |
| `overtaken` | as above, a kill of the connector and no other fault | `PostgresAndDeltaAgree` is violated |
| `recovery` | 2 partitions of 2 records, 2 keys, equal LSNs, 1 crash, 1 deletion | `OneRowPerTransaction`, `ImplementsView`, `OnlyInheritedIdsSkipped` |
| `checkpoint_recovery` | 2 records, 1 deletion | `FreshStartLosesNothing` is violated |
| `rejections` | 1 crash, changing merchants | `RewritesSameRejections` is violated |
| `observers` | driver, harness and sidecar, 2 records of 4 kinds, 1 crash, overwritten commits | `NoSilentLoss`, `OnlyOverwritesTakeBack`, `ReplayIsNoop`, `ProcessedIsSettled`, `LagCoversBacklog` |
| `replay_poison` | driver and harness, 2 records of 3 kinds, unchecked id | `HarnessCannotPoison` is violated |
| `replay_overwrites` | the same, ids of the ledger | `ReplayIsAlwaysNoop` is violated |
| `checkers` | 2 ids, 1 change, changing merchants; a kill of the connector, a crash or an expiry | `NoFalseParityAlarm`, `QuarantineHidesNothing`, `SnapshotAlarmExplained` |
| `gate` | 2 merchants, 1 known and 1 unknown schema, interval 2, 3 ticks | `GateTypeOK`, `GateIsAdmissible`, `RecentSet`, `DecodedWhole` |
| `injection` | a suite of 3 tests, or the late-delete script; 4 ids, 1 crash | `OracleAgrees`, `NeverResurrected`, `AlarmMeansPending` |

Why the bounds are enough to be of interest.  Three records make a create, a
late or invalid update and a delete in any order and number, split over one,
two or three batches.  Two crashes make a crash, its replay, and a crash in the
replay.  One expiry can hit a record before its batch, inside it or after it.
Merchant sets include the empty one (a start that must fail, a refresh that
must fall back).  Two partitions make offsets incomparable, so that ties in
LSN are real.  The merchant row of `NULL` belongs to deletes.  `MaxChanges` counts
positions of Postgres' log, one for each row written and one for each commit:
four make a delete and a re-insertion in two transactions, or an update of two
rows in one, before, during and after the snapshot, committed or rolled back,
with room for a snapshot between a write and its commit; ten records hold all of
that and its repetition.  The ids of a pipeline meet only in a batch, which
`core`, `recovery` and `checkers` have.  A behaviour of `recovery` need not delete the
checkpoint, so that it also checks the view of the job itself; the deletion
needs a crash before it, and the read from the start that follows it meets a
table and a ledger that are not empty.  Two records are enough for the harness:
the driver commits one while the harness replays the other, or both replay the
same; the merchants table of `observers` does not change, which `core` has, so
that the five properties fit in one run.  The `checkers` run has two ids and one change,
because two checkers, a re-emitted snapshot and a crash multiply it.  This run
and `pipeline` also bound the mixture of faults, `OneFault` and `FewFaults`:
crashes of the driver, kills of the connector and expired records, counted
together, two in `pipeline` and one once its log is full.  Two
faults still make a crash beside a re-emission, a re-emission that meets an
expired record, and a crash after an expiry; their safety properties are proved
for any number (section 4).  The constraint is harmless to the liveness
properties of `pipeline`: what it cuts off is a fault or a change of Postgres,
and no step that fairness speaks of is either.
Three ticks with an interval of two let a set grow old, be refreshed, and fail
to be.  The three tests of `injection` are the three kinds the suite has: one
bad row, a rogue record that Postgres never had, good and bad rows in one
transaction; with two bad rows in Postgres the oracle's number is 2, for 53.

Deadlock is not checked: a driver with nothing to read, and no event left to
publish within the bound, has stopped as it should.

Fairness.  `FairPipelineSpec` has weak fairness of two things.  One is
`DriverStep` in a step that leaves the source alone: the steps of the Spark
query thread, and the start of the driver, which stands for the operator
restarting it (README of the repository: restart the job and wait for drain).
The other is `Emit`: Connect runs the connector task, and `kill_connect.sh`
starts it again.  The generator, the snapshot and the clients owe nothing, and
nothing forces a record to expire or a process to die.  Crashes are bounded,
which is the assumption that a batch sooner or later gets through undisturbed.
The connector emits no record with an unknown schema id: with one, the driver
fails on the same batch for ever, by its design.  `FairSpec` is the same
for the job alone.

What the violated properties say of the code:

1. `HarnessCannotPoison`.  `run_ledger_skip_test` passes `commit=True`.  With an
   id that the ledger does not have yet (the default is 1), the empty frame
   takes the `n_in == 0` path and commits the ledger.  The driver later finds
   its own batch 1 there, skips it, and Spark acknowledges it.
2. `ReplayIsAlwaysNoop`.  The MERGE of a replay that overlaps the driver's commit
   may overwrite it: the driver's rows leave the table while its batch is
   ledgered and acknowledged.  `OnlyOverwritesTakeBack` says how far it goes, one
   commit and never two, and `ReplayIsNoop` that a replay whose snapshot is
   current is the no-op it is meant to be.
3. `FreshStartLosesNothing`.  The ledger outlives the checkpoint and is looked
   up by batch id alone; a fresh checkpoint counts from 0 again over other
   offset ranges, so that batches of records nobody applied are skipped.
   `OnlyInheritedIdsSkipped` says how far it goes: only batches whose id was in
   the ledger when the checkpoint was deleted.
4. `RewritesSameRejections`.  The replay of a batch validates against the
   merchants of the restarted process.  A row may then be quarantined *and*
   merged.  Nothing is lost by it (`NoSilentLoss` holds), but the DLQ is not
   the complement of the table.
5. `PostgresAndDeltaAgree`.  A row written before Connect takes its snapshot
   again, and committed after, loses to the snapshot's older row, because the
   guard compares the position of the write with the position of the snapshot.
   Nothing is rejected; the table is out of parity until the id changes again.
   `ParityWhenDrained` says that this, a rejection and an expiry are the only
   causes.

What the passing properties allow, because the code does it and the
repository's documents say so or no document speaks of it:

* The snapshot checker wants every key of a snapshot event among the *live* rows,
  and reports a transaction deleted since then as dropped by the MERGE;
  `SnapshotAlarmExplained` counts the deletion among the causes.
* What an overwritten commit lost is below the processed-offset gauge.
* The processed-offset gauge is that of the last finished trigger, posted with
  the next batch: a quiet pipeline shows the lag of one batch for ever, and a
  sidecar that is behind makes it negative.  It never hides a backlog.
* An update that is rejected leaves the older row in the table; parity excepts
  such an id until its next valid change.
* A late-delete run may pass before its late update was merged: the script
  sleeps a fixed time.  Only its alarms for missing rows are explained
  (`AlarmMeansPending`), and a resurrection is excluded at any time.

## 4. Proofs

TLC finds out on small instances; the theorems of the `_proofs` modules hold
for every set of partitions, keys, events and merchants and for every bound.
They assume only the named assumptions of `PaymentsCdcJob`: the driver is a
caller, events are records of the right shape, merchant sets are sets of
merchants, `--starting-offsets` has one of its two values, bounds are naturals;
of `JobRefinement`: the value that stands for an absent row is not a row; of
`ReplayOffsets`: the harness is a caller other than the driver, and the ids it
uses are natural numbers; of `Pipeline`: the mark of an absent row is not a row,
ids are finitely many, what `init.sql` may load and the partition of an id are
of their types, bounds are naturals, and what the source emits are events; of
`Checkers`: the tolerance and the expected count are naturals; of `Injection`:
the suite has at least one test, the two ids of the late-delete script differ,
and what the scripts publish fits the schema of the topic; and of `Gate`:
NULL is none of the values of a column and none of the reasons, and the refresh
interval is positive.  The theorems about parity also assume
`--starting-offsets earliest`, the default (`payments_cdc_job.py:278`): a
stream that starts at the latest offsets never sees what was there before.

`PaymentsCdcJob_proofs` begins with the facts about the two algorithms of
`LsnTable`: the result of
`dedup_latest` has the latest row of each key; a MERGE after it invents no row,
advances every key (`Advances`), keeps one row per key, and leaves the table
up to date with every row of the batch; being up to date is stable; and merging
rows the table is up to date with changes nothing.  Two invariants about the
gate end the module, and later modules build on both: every row of the DLQ was
one that some non-empty merchant set rejects (`OnlyRejected`), every row of the
table one that some non-empty merchant set accepts (`OnlyAccepted`).

Then, of `PaymentsCdcJob`:

| Theorem | Property | Argument |
| :-- | :-- | :-- |
| `TypeCorrect` | `TypeOK` | inductive with `DriverPlace`: while a call is under way its batch is the one planned beyond the commit log |
| `LsnGuard` | `LsnMonotone` | every step leaves the table or merges into it, and a MERGE advances |
| `OneRowCorrect` | `OneRowPerTransaction` | inductive with `TypeOK`; from `MergeKeepsOneRowPerKey` |
| `NothingIsLost` | `NoSilentLoss` | from `ProgressInvariant`, below |
| `LedgerIsSound` | `LedgerSound` | from `ProgressInvariant` |
| `SinksAreSourced` | `SinksFollowOffsetLog` | inductive with the provenance of the rows in the frame |
| `LedgeredIsFinal` | `LedgeredBatchIsFinal` | inductive: a call past the ledger check has an id the ledger lacks |

`NoSilentLoss` and `LedgerSound` are not inductive: an arbitrary state may have
a call at its ledger commit with rows that are nowhere.  `Progress` adds what
the program counter of the driver's call promises: the frame's rows are those
of the batch, or expired ones; past the DLQ write every rejected row is in the
DLQ; past the MERGE every record of the batch is settled; a returned call has a
settled batch.  What keeps it stable under everything else is that `Handled` is
monotone: the DLQ only grows, and the table only advances (`LsnGuard` as a
lemma about one step).  `Expire` records what it removes unsettled, `Publish`
touches only positions beyond every planned batch.

`JobRefinement_proofs` shows that the job implements the abstract view
(`JobImplementsView`, property `ImplementsView`).  The initial table maps to the
empty view.  For a step, `OneRowCorrect` makes the row of a key unique, so the
mapping is a function; `RowsCarried` says that a row, and every row of a frame,
is a change that Kafka carried; and `LsnGuard` makes each key keep its row or
move to a strictly later one, which is the abstract step or a stutter.

The same module proves what is left when the checkpoint is deleted, for
`RecoverySpec`:

| Theorem | Property | Argument |
| :-- | :-- | :-- |
| `OnlyInheritedIdsAreSkipped` | `OnlyInheritedIdsSkipped` | `RecoveryInv`, whose core is `ProgressBut(inherited)` |
| `RecoveryImplementsView` | `ImplementsView` | `RowsCarried` does not mention the offset log, so it survives the deletion |

`ProgressBut(X)` is `Progress` with the batch ids of X excused: a call that the
ledger made return, a ledger row and an acknowledged batch promise nothing if
their id is in X.  It is inductive for every X, and `Progress` is the case of
the empty set (`NothingExcused`); `DeleteCheckpoint` establishes it for the
ledger it leaves behind, because with the driver down no call is under way and
with no offsets nothing is acknowledged.

`ReplayOffsets_proofs`, for `ReplaySpec`:

| Theorem | Property | Argument |
| :-- | :-- | :-- |
| `ReplayLosesNothing` | `NoSilentLoss` | `Progress` together with `HarnessFrame`; what an overwrite takes out of the table is in `lost` (`OverwriteGrows`) |
| `ReplayTakesBackOneCommit` | `OnlyOverwritesTakeBack` | every version is a MERGE of the current one or, overwriting, of the one before |
| `ReplayOneRow` | `OneRowPerTransaction` | whichever version a MERGE starts from has one row per key (`PreviousOK`) |
| `ReplayNoop` | `ReplayIsNoop` | a reflected record is settled (`ReplayLosesNothing`) by the table, so the MERGE of a current snapshot is of old rows |

None of them relies on an atomic commit of two processes: `MergeOverwrites` is
among the steps.  The table then no longer only moves forward, so what is stable
is not that a record is in a sink but that it is *accounted for* (`Accounted`):
in a sink or in `lost`.  `Grows` says this of a step, for the rows of planned
batches and of the frames, and `OverwriteGrows` shows it of the overwriting
commit, because the rows in a frame are decoded records of the topic and
`Unseen` collects those.

The handler lemmas of `PaymentsCdcJob_proofs` take any caller `c`, not only the
driver, so that they serve the harness.  What the harness adds to the invariant
is `HarnessFrame`: it commits the ledger only under an id the ledger already
has, and stages only rows decoded from the topic.  The first half is what
`UncheckedReplaySpec` breaks, and the run `replay_poison` shows the result.

`Gate_proofs`, for `GateSpec`:

| Theorem | Property | Argument |
| :-- | :-- | :-- |
| `GateIsAlwaysAdmissible` | `GateIsAdmissible` | `RowsAreJudged`: each rule by cases on NULL, valid and invalid, for both filters |
| `GateTypeCorrect` | `GateTypeOK` | inductive |
| `DecodedWholeAlways` | `DecodedWhole` | inductive: the ids to do and the frames make up the ids of the batch |
| `RecentSetAlways` | `RecentSet` | inductive: the set is the one Postgres had at `loadedAt`, and `seen` never forgets |

`Observers_proofs`, for `ObserversSpec`, which has the driver, the harness and
crashes of both:

| Theorem | Property | Argument |
| :-- | :-- | :-- |
| `ProcessedIsAlwaysSettled` | `ProcessedIsSettled` | `OffsetsFollowed`, below, on top of `ReplayLosesNothing` |
| `LagAlwaysCoversBacklog` | `LagCoversBacklog` | `ProcessedIsSettled`, and the cardinality of an interval |

`ProcessedIsSettled` speaks of a gauge, and what it says of the future depends
on where the gauge came from.  `OffsetsFollowed` adds that: what the driver
polled, and what the gauge shows, are the end of an acknowledged batch or
nothing (`Known`); and every record from the start of the checkpoint up to the
end of the last acknowledged batch is settled (`AckedSettled`), which is
`NoSilentLoss` carried along the offset log.

`LagCoversBacklog` counts records.  Every record from the start of the
checkpoint up to the processed gauge is settled (`ProcessedIsSettled`), so that
those of the backlog lie in the interval between the two gauges, whose
cardinality is the difference of its ends (`CountBetween`); `EndOffsetsKnown`
makes the other gauge a number.

`Pipeline_proofs`, for `PipelineSpec`:

| Theorem | Property | Argument |
| :-- | :-- | :-- |
| `PipelineImplementsJob` | refinement of `Spec` | an emission is a `Publish`; a write, a commit, a snapshot and a kill are stutters of the job |
| `PipelineGuarantees` | `NoSilentLoss`, `LedgerSound`, `OneRowPerTransaction`, `LsnMonotone` | from the refinement and the job's theorems |
| `DrainedPipelineIsInParity` | `ParityWhenDrained` | `SourceInSync` and the job's invariants, below |

That an emission is a step of the job needs a type invariant of the source: the
feed holds events, whatever snapshot was spliced into it.  Parity needs more.
`SourceInSync` has five parts.  `TransactionOpen`: the changes of the open
transaction lie behind the place where it began (`Begun`), and what it sees of an
id is what is committed or what its last change left.  `NothingBefore`: before
the slot, nothing is emitted.  `EventsBehind`: an emitted change is from before
`Begun`, and the row of a snapshot taken since then still says what Postgres has.
`SentDelivered`: what the connector counts as sent is in the topic.  And, for
each id, `FeedCovers`: either nothing was ever emitted of it and Postgres has no
such row, or the feed holds an event that says what Postgres has and is its
newest, *except* for snapshot rows in front of a change in the stream, which may
be newer and say something else; those are the overtaken changes.  *Newest* is
among everything emitted, the topic included, since a killed connector leaves old
events there; and another event with the same LSN must say the same.  That is a
delicate part: all rows of a snapshot share one LSN, and two snapshots may share
theirs, so that a tie in `dedup_latest` is harmless only because both events were
made of the same row.  A deleted id needs its delete to be in the stream part of
the feed, since a new snapshot does not repeat it.
What is proved inductive is `SyncBut(X)`, which says this of every id outside
`X` and nothing of those in `X`: somebody else may publish records of them.  `SourceInSync` is the case of the empty set
(`NobodyElsePublishes`), `StrangerKeepsSync` the step the source does not have,
and `Injection` takes both with the rogue ids as `X`.

On the job's side, `WorkedOffIsSettled` turns `AckedSettled` around: from the
earliest offsets, when every planned batch is acknowledged and nothing is left
to read, every record of the topic is settled.  For the newest event of an id
this means: rejected or expired, which `NotApplied` excuses, or superseded in
the table by something as new.  If the newest event is a snapshot row that
overtook the last change, the id is `Overtaken`; otherwise it says what Postgres
has.  The last case is `Current(t)`: no event that was or will be emitted can replace the row of `t`
by anything but what Postgres has.

`Checkers_proofs`, for `CheckSpec`:

| Theorem | Property | Argument |
| :-- | :-- | :-- |
| `CheckersOnlyLook` | refinement of `PipelineSpec` | no step of a checker changes a variable of the pipeline |
| `ParityAlarmIsNeverFalse` | `NoFalseParityAlarm` | `ParityRead`: what was read so far agrees with Postgres for each id without an excuse |
| `QuarantineExcusesOnlyRefused` | `QuarantineHidesNothing` | `ParityRead` |
| `SnapshotAlarmIsExplained` | `SnapshotAlarmExplained` | `SnapshotRead`, and `SnapshotFirst` for the second alarm |

A check reads at different times, so that a property of one state, such as
`ParityWhenDrained`, is no help after the first read: the pipeline is not drained
any more when the connector emits again.  `Current` is what survives
(`CurrentIsStable`): while Postgres rests, new emissions are rows of a snapshot
and say what Postgres has, and the table's row only gives way to a later one.
An overtaken id is not current, but its row is there: `KeptRow` says that no
delete can supersede it, which is stable as well and is what
`QuarantineHidesNothing` and `SnapshotAlarmExplained` need; `TableAhead` holds
both facts between the first read and the read of the table.
`SnapshotFirst` says that, until the connector takes a second snapshot, every
snapshot event has a smaller LSN than every change and than the open
transaction.

`Injection_proofs`, for `InjectionSpec`:

| Theorem | Property | Argument |
| :-- | :-- | :-- |
| `InjectorsAreAllowed` | refinement of `Spec` | a test row is a write of Postgres, a rogue record and a line of the late-delete script are a `Publish`, everything else is a stutter |
| `NoResurrection` | `NeverResurrected` | `LateTable` and `Confirmed`, on top of `LsnGuard` and `OneRowCorrect` |
| `AlarmsMeanPending` | `AlarmMeansPending` | `NothingIsLost`, `OnlyRejected` and `LateTable` |
| `OracleIsRight` | `OracleAgrees` | `SuiteState`, with `OnlyRejected`, `OnlyAccepted` and `DrainedIsCurrent` |

`LateTable` follows the table back through the topic to the program of the
script: while it runs, a row of the table is one of the snapshot, at LSN 0, or
one of the lines it has published.  So the only row with an LSN of at least 3 is
a tombstone, and `Confirmed`, the tombstone that `test_cross_batch` has seen, is
stable although the table may move: the LSN guard lets it give way only to
something later, and there is nothing later.  `AlarmsMeanPending` is about time.
A line whose id has no pending record is in an acknowledged batch and therefore
settled.  It can be in the DLQ only if some merchant set rejects it
(`OnlyRejected`), and lost only to retention.  The theorem states both as
hypotheses: `MaxExpired = 0`, since the test takes minutes and the topic keeps
seven days (`infra/kafka/topics.sh:10`), and the script's merchant is in every
non-empty content of the merchants table.  Without them the alarm may have these
other causes.

`OracleIsRight` relates three stores, Postgres, the table and the DLQ, at a
moment when only the script's place says what each should have.  The invariant
is `SuiteState`, which has four parts while the bad-record suite runs:

* `SuiteRows`: until the clean-up Postgres has the bad rows of every test that
  was inserted, afterwards none; it never has a rogue id; the dump has every bad
  id of the tests behind it, which is why one DELETE of the dump is enough;
* `SuiteView`: the open transaction has changed only ids the script is inserting
  or deleting, and as it does;
* `SuiteEvents`: what was or will be emitted of an id is rejected by every
  merchant set if the id is bad, accepted by every one if it is not, says what
  Postgres has until the id is cleaned up (so that no snapshot can overtake it,
  `NothingOvertaken`), and no delete is emitted before the clean-up;
* `SyncBut(Rogue)`: the source in sync, except for the ids of the rogue records,
  which Postgres has not written.  `SourceInSync` itself is false here: the rogue
  record is an event ahead of Postgres, with an LSN beyond its log.

A drained pipeline then leaves three kinds of ids.  A good id is not in the DLQ
(`OnlyRejected`), so it is in parity.  A bad id has no live row
(`OnlyAccepted`: what a merchant set let through is not rejected by all of
them), so Postgres' row is missing from the table and, settled without a row,
it is in the DLQ.  A rogue id is in neither table.  Hence the missing rows are
`PgBad` at the dump and none after the clean-up, the two counts the oracle
takes for right.

The hypothesis `FreshSuite` is what the script and its instructions provide:
each id is a new uuid, or the rogue one that Postgres' uuid column refuses; the
bad rows have a negative amount, an unknown currency or a merchant that no
merchants table has, so that no refresh of the registry makes one good; the good
rows have MERCH_007, which `init.sql` loads; and the checker's constant, 53
(`parity_checker.py:157`), is the number of bad ids that go through Postgres,
three and the fifty of the mixed batch.  `MCInjection` asserts it of its
instance.  The theorem also assumes `MaxExpired = 0`: what
retention removed before the driver read it is nowhere, and the oracle is right
to fail then.

Not proved, and only model-checked: `EveryRecordSettles` and `ParityRestored`,
because liveness under fairness is outside the prover.  Every other property of
a passing run is stated by a theorem.  No module here declares a RECURSIVE
operator.

## 5. Not modelled, and what is left

Not modelled: Spark, Delta, Kafka and Debezium beyond what the code relies on;
log lines, dashboards, session settings, and DDL scripts.  The trend monitor and
the aggregation skew job only read and report, keep no state, and hold nothing
that more than one step could violate.  The commit-time gauge is left out: the harness
posts the time of its own import over the driver's, one assignment in plain sight
(`payments_cdc_job.py:47`, `:164`).  So are two ledger appends of different
processes that overwrite each other: with an id of the ledger the harness appends
nothing, and with another its append is the fault in question.  Of the connector, schema changes and
records that its converter refuses (`errors.tolerance=all`) are left out: what
Connect drops, no code of the repository sees.  The runbooks that the README of
the repository names are not in it, so that recovery after a lost checkpoint is
modelled only as far as `payments_cdc_job.py` goes.

What would be next:

1. `init_delta_table.py --drop` beside a checkpoint and a ledger that stay: what
   the new table lacks, and which of the three must go for a full rebuild.
