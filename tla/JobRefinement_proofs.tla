----------------------- MODULE JobRefinement_proofs -------------------------
(***************************************************************************)
(* PaymentsCdcJob implements LastWriterWins: initial states map to initial *)
(* states, and every step of the job maps to a step of the view or to a    *)
(* stutter.  Then what the job keeps of its guarantees when its checkpoint *)
(* is deleted: all of the view, and NoSilentLoss but for the batch ids     *)
(* that the ledger had.                                                    *)
(***************************************************************************)
EXTENDS JobRefinement, CheckpointRecovery, PaymentsCdcJob_proofs

-----------------------------------------------------------------------------
(* The row of a key.                                                       *)

LEMMA RowForIsARow ==
    ASSUME NEW rows, NEW k, RowFor(rows, k) # NoRow
    PROVE  RowFor(rows, k) \in rows /\ RowFor(rows, k).txn = k
<1>1. RowsOf(rows, k) # {}
    BY DEF RowFor
<1>2. RowFor(rows, k) \in RowsOf(rows, k)
    BY <1>1 DEF RowFor
<1> QED BY <1>2 DEF RowsOf

(* Where a key owns at most one row, that row is the one the view shows.   *)
LEMMA TheOnlyRow ==
    ASSUME NEW rows, OneRowPerKey(rows), NEW r \in rows
    PROVE  RowFor(rows, r.txn) = r
<1>1. r \in RowsOf(rows, r.txn)
    BY DEF RowsOf
<1>2. RowFor(rows, r.txn) \in RowsOf(rows, r.txn)
    BY <1>1 DEF RowFor
<1> QED BY <1>1, <1>2 DEF RowsOf, OneRowPerKey

LEMMA CarriedType ==
    ASSUME TypeOK'
    PROVE  Carried' \subseteq Row
<1>1. \A p \in Partitions : \A i \in 1..Len(topic'[p]) : topic'[p][i] \in Event
    BY DEF TypeOK
<1>2. \A p \in Partitions : \A i \in 1..Len(topic'[p]) : FlatRow(p, i)' \in Row
    BY <1>1 DEF FlatRow, Row, Event
<1> QED BY <1>2 DEF Carried

LEMMA CarriedGrows ==
    ASSUME Grows
    PROVE  Carried \subseteq Carried'
<1>1. SUFFICES ASSUME NEW p \in Partitions, NEW i \in 1..Len(topic[p])
               PROVE  FlatRow(p, i) \in Carried'
    BY DEF Carried
<1>2. Published(p, i) /\ Published(p, i)'
    BY DEF Published, Grows
<1>3. FlatRow(p, i)' = FlatRow(p, i)
    BY <1>2, FlatRowIsStable
<1> QED BY <1>2, <1>3 DEF Carried, Published

-----------------------------------------------------------------------------
(* A step that leaves the topic alone is the one that writes the table.    *)
LEMMA TableStepKeepsTopic ==
    ASSUME TypeOK, [Next]_vars, table' # table
    PROVE  topic' = topic
<1>1. CASE ProcessBatch(Driver) \/ Failure(Driver)
    BY <1>1, HandlerWrites, CallersAssumption
<1>2. CASE Environment \/ LoopStep \/ UNCHANGED vars
    BY <1>2 DEF Environment, Publish, Expire, ChangeMerchants, LoopStep, Start,
                PlanBatch, WrapperEmpty, WrapperRaises, WrapperCall, AckBatch,
                vars, sinks
<1> QED BY <1>1, <1>2, NextCases

(* The rows of the table, and those on their way there, are changes that   *)
(* Kafka carried.  Unlike RowsSourced, this asks nothing of the offset     *)
(* log, which an operator may delete.                                      *)
RowsCarried == /\ table \subseteq Carried
               /\ call[Driver].rows \subseteq Carried
               /\ call[Driver].valid \subseteq call[Driver].rows

LEMMA FetchedIsCarried ==
    ASSUME TypeOK, NEW b
    PROVE  Deserialized(Fetched(b)) \subseteq Carried
<1>1. SUFFICES ASSUME NEW pos \in Fetched(b)
               PROVE  FlatRow(pos[1], pos[2]) \in Carried
    BY DEF Deserialized
<1>2. Published(pos[1], pos[2])
    BY FetchedPublished
<1> QED BY <1>2 DEF Carried, Published

LEMMA FrameCarriedStep ==
    ASSUME TypeOK, TypeOK', DriverPlace, RowsCarried, [Next]_vars
    PROVE  /\ call'[Driver].rows \subseteq Carried'
           /\ call'[Driver].valid \subseteq call'[Driver].rows
<1> USE CallersAssumption
<1>1. call \in [Callers -> Frame] /\ call[Driver] \in Frame
    BY DEF TypeOK
<1>2. Carried \subseteq Carried'
    BY StepGrows, CarriedGrows
<1>3. CASE call'[Driver].rows = call[Driver].rows /\ call'[Driver].valid = call[Driver].valid
    BY <1>2, <1>3 DEF RowsCarried
<1>4. CASE call'[Driver].rows = {} /\ call'[Driver].valid = {}
    BY <1>4
<1>5. CASE WrapperCall
    <2>1. /\ call'[Driver].rows = Deserialized(Fetched(acked))
          /\ call'[Driver].valid = {}
        BY <1>1, <1>5 DEF WrapperCall, EnterCall, Idle
    <2>2. Deserialized(Fetched(acked)) \subseteq Carried
        BY FetchedIsCarried
    <2> QED BY <1>2, <2>1, <2>2
<1>6. CASE ProcessBatch(Driver) \/ Failure(Driver)
    BY <1>2, <1>3, <1>4, <1>6, HandlerRows DEF RowsCarried
<1>7. CASE LoopStep /\ ~WrapperCall
    <2>1. call'[Driver] \in {call[Driver], Idle, Returned}
        BY <1>1, <1>7
           DEF LoopStep, Start, PlanBatch, WrapperEmpty, WrapperRaises, WrapperCall,
               AckBatch, Stop, process
    <2> QED BY <1>3, <1>4, <2>1 DEF Idle, Returned
<1>8. CASE Environment \/ UNCHANGED vars
    <2>1. call' = call
        BY <1>8 DEF Environment, Publish, Expire, ChangeMerchants, vars, process
    <2> QED BY <1>3, <2>1
<1> QED BY <1>5, <1>6, <1>7, <1>8, NextCases

LEMMA RowsCarriedStep ==
    ASSUME TypeOK, TypeOK', DriverPlace, RowsCarried, [Next]_vars
    PROVE  RowsCarried'
<1>1. Carried \subseteq Carried'
    BY StepGrows, CarriedGrows
<1>2. table' \subseteq table \cup call[Driver].valid
    <2>1. CASE MergeCommit(Driver)
        <3>1. PICK staged \in DedupLatest(call[Driver].valid) :
                  table' = MergeInto(table, staged)
            BY <2>1 DEF MergeCommit
        <3> QED BY <3>1, MergeInventsNothing DEF DedupLatest
    <2>2. CASE ~MergeCommit(Driver)
        BY <2>2, NextCases
           DEF ProcessBatch, TryValidate, TryCommit,
               Failure, CheckLedger, Validate, ValidateRaises, WriteDlq,
               WriteDlqTorn, MergeBegin, MergeConflict, CommitLedger, EmitMetrics,
               Crash, Environment, Publish, Expire, ChangeMerchants, LoopStep, Start,
               PlanBatch, WrapperEmpty, WrapperRaises, WrapperCall, AckBatch, vars,
               sinks
    <2> QED BY <2>1, <2>2
<1>3. table' \subseteq Carried'
    BY <1>1, <1>2 DEF RowsCarried
<1> QED BY <1>3, FrameCarriedStep DEF RowsCarried

LEMMA RowsCarriedInitially ==
    ASSUME Init
    PROVE  RowsCarried
BY CallersAssumption DEF Init, RowsCarried, Idle

LEMMA RowsCarriedInvariant == Spec => []RowsCarried
<1>1. Init => RowsCarried
    BY RowsCarriedInitially
<1>2. /\ TypeOK /\ DriverPlace
      /\ TypeOK'
      /\ RowsCarried
      /\ [Next]_vars
      => RowsCarried'
    BY RowsCarriedStep
<1> QED BY <1>1, <1>2, TypeCorrect, PTL DEF Spec

(* What a MERGE does to one key.                                           *)
LEMMA KeyMoves ==
    ASSUME Advances(table, table'), OneRowPerKey(table'), NEW k \in Txns
    PROVE  \/ RowFor(table', k) = RowFor(table, k)
           \/ /\ RowFor(table', k) \in table'
              /\ RowFor(table', k).txn = k
              /\ RowFor(table, k) # NoRow
                    => RowFor(table', k).lsn > RowFor(table, k).lsn
<1>1. CASE RowFor(table, k) = NoRow
    <2>1. RowFor(table', k) = NoRow
             \/ (RowFor(table', k) \in table' /\ RowFor(table', k).txn = k)
        BY RowForIsARow
    <2> QED BY <1>1, <2>1
<1>2. CASE RowFor(table, k) # NoRow
    <2>1. RowFor(table, k) \in table /\ RowFor(table, k).txn = k
        BY <1>2, RowForIsARow
    <2>2. PICK u \in table' : /\ u.txn = k
                              /\ \/ u = RowFor(table, k)
                                 \/ u.lsn > RowFor(table, k).lsn
        BY <2>1 DEF Advances
    <2>3. RowFor(table', k) = u
        BY <2>2, TheOnlyRow
    <2> QED BY <2>2, <2>3
<1> QED BY <1>1, <1>2

LEMMA ViewStep ==
    ASSUME TypeOK, TypeOK', OneRowPerTransaction', RowsCarried', [Next]_vars
    PROVE  [View!ViewNext]_(View!viewVars)
<1>1. Grows
    BY StepGrows
<1>2. CASE table' = table
    <2>1. TableView' = TableView
        BY <1>2 DEF TableView
    <2>2. Carried \subseteq Carried' /\ Carried' \subseteq Row
        BY <1>1, CarriedGrows, CarriedType
    <2> QED BY <2>1, <2>2 DEF View!ViewNext, View!Emit
<1>3. CASE table' # table
    <2>1. topic' = topic
        BY <1>3, TableStepKeepsTopic
    <2>2. Carried' = Carried
        BY <2>1 DEF Carried, FlatRow
    <2>3. table' \subseteq Carried
        <3>1. table' \subseteq Carried'
            BY DEF RowsCarried
        <3> QED BY <2>2, <3>1
    <2>4. ASSUME NEW k \in Txns
          PROVE  TableView'[k] = TableView[k] \/ View!Moves(k)
        <3>1. TableView[k] = RowFor(table, k) /\ TableView'[k] = RowFor(table', k)
            BY DEF TableView
        <3>2. OneRowPerKey(table')
            BY DEF OneRowPerTransaction
        <3>3. Advances(table, table')
            BY StepAdvances
        <3> QED BY <2>3, <3>1, <3>2, <3>3, KeyMoves DEF View!Moves
    <2>5. TableView' = [k \in Txns |-> TableView'[k]]
        BY DEF TableView
    <2> QED BY <2>2, <2>4, <2>5 DEF View!ViewNext, View!Apply
<1> QED BY <1>2, <1>3

LEMMA ViewInitially ==
    ASSUME Init
    PROVE  View!ViewInit
<1>1. Carried = {}
    BY DEF Init, Carried
<1>2. \A k \in Txns : RowFor(table, k) = NoRow
    BY DEF Init, RowFor, RowsOf
<1> QED BY <1>1, <1>2 DEF View!ViewInit, TableView

(* The job implements the last-writer-wins view of its table, for every    *)
(* topic, batching, crash and replay.                                      *)
THEOREM JobImplementsView == Spec => ImplementsView
<1>1. Init => View!ViewInit
    BY ViewInitially
<1>2. TypeOK /\ TypeOK' /\ OneRowPerTransaction' /\ RowsCarried' /\ [Next]_vars
        => [View!ViewNext]_(View!viewVars)
    BY ViewStep
<1> QED BY <1>1, <1>2, TypeCorrect, OneRowCorrect, RowsCarriedInvariant, PTL
        DEF Spec, ImplementsView, View!ViewSpec

-----------------------------------------------------------------------------
(* The checkpoint is deleted.                                              *)

(* What the job keeps.  The batch ids the ledger had are excused; nothing  *)
(* else is, and the table is bound to the topic as before.                 *)
RecoveryInv == /\ Shape
               /\ ProgressBut(inherited)
               /\ OneRowPerTransaction
               /\ RowsCarried

LEMMA DeletionKeepsTheRest ==
    ASSUME DeleteCheckpoint
    PROVE  /\ UNCHANGED <<topic, head, lost, up, call, registry, pgMerchants>>
           /\ UNCHANGED <<ledger, table, dlq, crashes>>
           /\ Grows
<1>1. /\ UNCHANGED <<topic, head, lost, up, call, registry, pgMerchants>>
      /\ UNCHANGED <<ledger, table, dlq, crashes>>
    BY DEF DeleteCheckpoint, kafka, process, sinks
<1> QED BY <1>1, AdvancesIsReflexive DEF Grows, Published

(* With the driver down no call is under way, so nothing refers to the     *)
(* offsets that go.                                                        *)
LEMMA DeletionShape ==
    ASSUME Shape, DeleteCheckpoint
    PROVE  Shape'
<1>1. /\ UNCHANGED <<topic, head, lost, up, call, registry, pgMerchants>>
      /\ UNCHANGED <<ledger, table, dlq, crashes>>
    BY DeletionKeepsTheRest
<1>2. Driver \notin up /\ offsets' = <<>> /\ acked' = 0
    BY DEF DeleteCheckpoint
<1>3. TypeOK'
    BY <1>1, <1>2 DEF Shape, TypeOK
<1>4. DriverPlace'
    BY <1>1, <1>2 DEF Shape, DriverPlace, Active
<1>5. Positions'
    BY <1>1, <1>2 DEF Shape, Positions
<1> QED BY <1>3, <1>4, <1>5 DEF Shape

LEMMA DeletionProgress ==
    ASSUME Shape, ProgressBut(inherited), DeleteCheckpoint
    PROVE  ProgressBut(inherited)'
<1>1. /\ UNCHANGED <<topic, head, lost, up, call, registry, pgMerchants>>
      /\ UNCHANGED <<ledger, table, dlq, crashes>>
    BY DeletionKeepsTheRest
<1>2. acked' = 0 /\ inherited' = ledger /\ call[Driver].pc = "idle"
    BY DEF DeleteCheckpoint, Shape, DriverPlace
<1>3. ExpiredSettled'
    <2>1. \A p, i : Settled(p, i)' <=> Settled(p, i)
        BY <1>1 DEF Settled, Handled, FlatRow
    <2> QED BY <1>1, <2>1 DEF ProgressBut, ExpiredSettled
<1>4. \A c \in Callers : CallProgress(c)'
    BY <1>1 DEF ProgressBut, CallProgress, Invalid, Accounted, Handled
<1>5. DriverProgressBut(inherited)'
    BY <1>1, <1>2 DEF DriverProgressBut, Active
<1>6. LedgerSoundBut(inherited)'
    BY <1>1, <1>2 DEF LedgerSoundBut
<1>7. NoSilentLossBut(inherited)'
    BY <1>2 DEF NoSilentLossBut
<1> QED BY <1>3, <1>4, <1>5, <1>6, <1>7 DEF ProgressBut

(* The excused ids do not change while the job runs.                       *)
LEMMA JobKeepsRecovery ==
    ASSUME RecoveryInv, [Next]_vars, inherited' = inherited
    PROVE  RecoveryInv'
<1>1. PICK ids : ids = inherited
    OBVIOUS
<1>2. ProgressBut(ids)
    BY <1>1 DEF RecoveryInv
<1>3. Shape' /\ ProgressBut(ids)'
    BY <1>2, ProgressButStep DEF RecoveryInv
<1>4. ids = inherited'
    BY <1>1
<1>5. ProgressBut(inherited)'
    BY <1>3, <1>4
       DEF ProgressBut, DriverProgressBut, LedgerSoundBut, NoSilentLossBut, SettledBut
<1>6. OneRowPerTransaction' /\ RowsCarried'
    BY <1>3, OneRowStep, RowsCarriedStep DEF RecoveryInv, Shape
<1> QED BY <1>3, <1>5, <1>6 DEF RecoveryInv

LEMMA RecoveryCases ==
    ASSUME [RecoveryNext]_recoveryVars
    PROVE  DeleteCheckpoint \/ ([Next]_vars /\ inherited' = inherited)
BY DEF RecoveryNext, recoveryVars

LEMMA RecoveryStep ==
    ASSUME RecoveryInv, [RecoveryNext]_recoveryVars
    PROVE  RecoveryInv'
<1>1. CASE DeleteCheckpoint
    <2>1. Shape' /\ ProgressBut(inherited)'
        BY <1>1, DeletionShape, DeletionProgress DEF RecoveryInv
    <2>2. table' = table /\ call' = call /\ Carried' = Carried
        BY <1>1, DeletionKeepsTheRest DEF Carried, FlatRow
    <2>3. OneRowPerTransaction' /\ RowsCarried'
        BY <2>2 DEF RecoveryInv, OneRowPerTransaction, RowsCarried
    <2> QED BY <2>1, <2>3 DEF RecoveryInv
<1>2. CASE [Next]_vars /\ inherited' = inherited
    BY <1>2, JobKeepsRecovery
<1> QED BY <1>1, <1>2, RecoveryCases

LEMMA RecoveryInvariant == RecoverySpec => []RecoveryInv
<1>1. Init /\ inherited = {} => RecoveryInv
    <2> SUFFICES ASSUME Init, inherited = {} PROVE RecoveryInv
        OBVIOUS
    <2>1. Shape /\ ProgressBut(inherited)
        BY ProgressInit, NothingExcused
    <2>2. OneRowPerTransaction
        BY DEF Init, OneRowPerTransaction, OneRowPerKey
    <2> QED BY <2>1, <2>2, RowsCarriedInitially DEF RecoveryInv
<1>2. RecoveryInv /\ [RecoveryNext]_recoveryVars => RecoveryInv'
    BY RecoveryStep
<1> QED BY <1>1, <1>2, PTL DEF RecoverySpec

(* However often the checkpoint is deleted, and whatever crashes come in   *)
(* between, the driver acknowledges without applying only batches whose id *)
(* the ledger had at the last deletion.                                    *)
THEOREM OnlyInheritedIdsAreSkipped == RecoverySpec => []OnlyInheritedIdsSkipped
<1>1. RecoveryInv => OnlyInheritedIdsSkipped
    BY DEF RecoveryInv, ProgressBut, NoSilentLossBut, SettledBut,
           OnlyInheritedIdsSkipped
<1> QED BY <1>1, RecoveryInvariant, PTL

(* Reading the topic again from its start shows a reader of the table      *)
(* nothing older than what it has: the LSN guard needs no ledger.          *)
THEOREM RecoveryImplementsView == RecoverySpec => ImplementsView
<1>1. Init => View!ViewInit
    BY ViewInitially
<1>2. RecoveryInv /\ RecoveryInv' /\ [RecoveryNext]_recoveryVars
        => [View!ViewNext]_(View!viewVars)
    <2> SUFFICES ASSUME RecoveryInv, RecoveryInv', [RecoveryNext]_recoveryVars
                 PROVE  [View!ViewNext]_(View!viewVars)
        OBVIOUS
    <2>1. CASE DeleteCheckpoint
        <3>1. TableView' = TableView /\ Carried' = Carried
            BY <2>1, DeletionKeepsTheRest DEF TableView, Carried, FlatRow
        <3> QED BY <3>1 DEF View!viewVars
    <2>2. CASE [Next]_vars
        BY <2>2, ViewStep DEF RecoveryInv, Shape
    <2> QED BY <2>1, <2>2, RecoveryCases
<1> QED BY <1>1, <1>2, RecoveryInvariant, PTL
        DEF RecoverySpec, ImplementsView, View!ViewSpec
=============================================================================
