------------------------ MODULE ReplayOffsets_proofs ------------------------
(***************************************************************************)
(* The replay harness, used with the ids its help asks for, keeps what the *)
(* driver guarantees but for what an overwritten commit takes back, and    *)
(* replaying what the driver applied is a no-op.  The lemmas of            *)
(* PaymentsCdcJob_proofs about process_batch take any caller; what is left *)
(* are the steps of the script around its calls, and the commit that       *)
(* replaces one of the other process.                                      *)
(***************************************************************************)
EXTENDS ReplayOffsets, PaymentsCdcJob_proofs

(* A row as deserialize_by_schema_id makes it from a record of the topic.  *)
Decoded(r) ==
    /\ Published(r.partition, r.offset)
    /\ r.offset \in 1..MaxRecords
    /\ r = FlatRow(r.partition, r.offset)
    /\ topic[r.partition][r.offset].schema # "none"

DecodedFrame(c) == /\ \A r \in call[c].rows : Decoded(r)
                   /\ call[c].valid \subseteq call[c].rows

(* The harness commits only an id that the ledger has, and both processes  *)
(* stage only rows of the topic.                                           *)
HarnessFrame ==
    /\ call[Harness].commit => call[Harness].id \in ledger
    /\ \A c \in Callers : DecodedFrame(c)

(* The steps of the script outside process_batch.                          *)
HarnessStep ==
    \/ LsnGuardCall
    \/ \E id \in ledger : LedgerSkipCall(id)
    \/ HarnessExit

(* A step in which no process overwrites the other.                        *)
ApartStep == \/ [Next]_vars
             \/ ProcessBatch(Harness) \/ Failure(Harness)
             \/ HarnessStep

LEMMA ReplayCases ==
    ASSUME [ReplayNext]_replayVars
    PROVE  \/ ApartStep /\ (KeepPrevious \/ UNCHANGED replayVars)
           \/ \E c \in Callers : MergeOverwrites(c)
BY CallersAssumption, HarnessAssumption
   DEF ReplayNext, HelpedNext, JobNext, HarnessStep, ApartStep, replayVars

-----------------------------------------------------------------------------
(* The steps of the script.                                                *)

LEMMA HarnessStepWrites ==
    ASSUME TypeOK, HarnessStep
    PROVE  /\ UNCHANGED <<topic, head, lost, offsets, acked, pgMerchants>>
           /\ UNCHANGED <<ledger, table, dlq, crashes>>
           /\ registry' \in [Callers -> SUBSET Merchants]
           /\ up' \subseteq Callers
           /\ Driver \in up' <=> Driver \in up
<1> USE HarnessAssumption
<1>1. CASE LsnGuardCall
    BY <1>1 DEF LsnGuardCall, TypeOK, kafka, checkpoint, sinks
<1>2. CASE \E id \in ledger : LedgerSkipCall(id)
    BY <1>2 DEF LedgerSkipCall, TypeOK, kafka, checkpoint, sinks
<1>3. CASE HarnessExit
    BY <1>3 DEF HarnessExit, Stop, TypeOK, kafka, checkpoint, sinks
<1> QED BY <1>1, <1>2, <1>3 DEF HarnessStep

LEMMA KafkaRangePublished ==
    ASSUME TypeOK, NEW lo, NEW hi
    PROVE  \A pos \in KafkaRange(lo, hi) : /\ Published(pos[1], pos[2])
                                            /\ pos[2] \in 1..MaxRecords
BY BoundsAssumption DEF KafkaRange, Retained, Published, TypeOK

LEMMA DeserializedIsDecoded ==
    ASSUME TypeOK, NEW positions,
           \A pos \in positions : /\ Published(pos[1], pos[2])
                                  /\ pos[2] \in 1..MaxRecords
    PROVE  \A r \in Deserialized(positions) : Decoded(r)
<1> SUFFICES ASSUME NEW r \in Deserialized(positions) PROVE Decoded(r)
    OBVIOUS
<1>1. PICK pos \in positions : /\ topic[pos[1]][pos[2]].schema # "none"
                               /\ r = FlatRow(pos[1], pos[2])
    BY DEF Deserialized
<1>2. r.partition = pos[1] /\ r.offset = pos[2]
    BY <1>1, FlatRowType
<1> QED BY <1>1, <1>2 DEF Decoded

(* Each of them puts a fresh frame in the harness's slot.                  *)
LEMMA HarnessStepFrame ==
    ASSUME TypeOK, HarnessStep
    PROVE  \E f \in Frame : /\ call' = [call EXCEPT ![Harness] = f]
                            /\ f.pc \in {"check", "idle"}
                            /\ f.commit => f.id \in ledger
                            /\ \A r \in f.rows : Decoded(r)
                            /\ f.valid = {}
<1> USE HarnessAssumption, ReplayIdsAssumption
<1>1. CASE LsnGuardCall
    <2>1. PICK lo, hi :
            EnterCall(Harness, ReplayId, FALSE, Deserialized(KafkaRange(lo, hi)))
        BY <1>1 DEF LsnGuardCall
    <2> DEFINE rows == Deserialized(KafkaRange(lo, hi))
    <2>2. rows \in SUBSET Row
        BY KafkaRangePublished, DeserializedType
    <2>3. \A r \in rows : Decoded(r)
        BY KafkaRangePublished, DeserializedIsDecoded
    <2>4. call' = [call EXCEPT ![Harness] =
                      [Idle EXCEPT !.pc = "check", !.id = ReplayId,
                                   !.commit = FALSE, !.rows = rows]]
        BY <2>1 DEF EnterCall
    <2> HIDE DEF rows
    <2> DEFINE f == [Idle EXCEPT !.pc = "check", !.id = ReplayId,
                                 !.commit = FALSE, !.rows = rows]
    <2>5. f \in Frame
        BY <2>2, EnteredType
    <2>6. f.pc = "check" /\ f.commit = FALSE /\ f.rows = rows /\ f.valid = {}
        BY DEF Idle
    <2>7. call' = [call EXCEPT ![Harness] = f]
        BY <2>4
    <2> HIDE DEF f
    <2> QED BY <2>3, <2>5, <2>6, <2>7
<1>2. CASE \E id \in ledger : LedgerSkipCall(id)
    <2>1. PICK id \in ledger : LedgerSkipCall(id)
        BY <1>2
    <2> DEFINE f == [Idle EXCEPT !.pc = "check", !.id = id,
                                 !.commit = TRUE, !.rows = {}]
    <2>2. f \in Frame
        BY EnteredType DEF TypeOK
    <2>3. f.pc = "check" /\ f.id = id /\ f.rows = {} /\ f.valid = {}
        BY DEF Idle
    <2>4. call' = [call EXCEPT ![Harness] = f]
        BY <2>1 DEF LedgerSkipCall, EnterCall
    <2> HIDE DEF f
    <2> QED BY <2>2, <2>3, <2>4
<1>3. CASE HarnessExit
    <2>1. call' = [call EXCEPT ![Harness] = Idle]
        BY <1>3 DEF HarnessExit, Stop
    <2>2. /\ Idle.pc = "idle" /\ Idle.commit = FALSE
          /\ Idle.rows = {} /\ Idle.valid = {}
        BY DEF Idle
    <2> QED BY <2>1, <2>2, FrameType
<1> QED BY <1>1, <1>2, <1>3 DEF HarnessStep

LEMMA HarnessStepCalls ==
    ASSUME TypeOK, HarnessStep
    PROVE  /\ call' \in [Callers -> Frame]
           /\ \A d \in Callers \ {Harness} : call'[d] = call[d]
           /\ call'[Harness].pc \in {"check", "idle"}
           /\ call'[Harness].commit => call'[Harness].id \in ledger'
           /\ DecodedFrame(Harness)'
<1>1. PICK f \in Frame : /\ call' = [call EXCEPT ![Harness] = f]
                         /\ f.pc \in {"check", "idle"}
                         /\ f.commit => f.id \in ledger
                         /\ \A r \in f.rows : Decoded(r)
                         /\ f.valid = {}
    BY HarnessStepFrame
<1>2. call'[Harness] = f
    BY <1>1, HarnessAssumption DEF TypeOK
<1>3. ledger' = ledger /\ topic' = topic
    BY HarnessStepWrites
<1>4. DecodedFrame(Harness)'
    BY <1>1, <1>2, <1>3 DEF DecodedFrame, Decoded, Published, FlatRow
<1> QED BY <1>1, <1>2, <1>3, <1>4, HarnessAssumption DEF TypeOK

LEMMA HarnessStepShape ==
    ASSUME Shape, HarnessStep
    PROVE  Shape'
<1> USE CallersAssumption, HarnessAssumption DEF Shape
<1>1. TypeOK'
    BY HarnessStepWrites, HarnessStepCalls DEF TypeOK, Planned
<1>2. DriverPlace'
    <2>1. call'[Driver] = call[Driver]
        BY HarnessStepCalls
    <2> QED BY <2>1, HarnessStepWrites DEF DriverPlace, Planned
<1>3. Positions'
    BY HarnessStepWrites DEF Positions
<1> QED BY <1>1, <1>2, <1>3

LEMMA HarnessStepProgress ==
    ASSUME Shape, Shape', Progress, HarnessStep
    PROVE  Progress'
<1> USE CallersAssumption, HarnessAssumption DEF Shape
<1>1. /\ UNCHANGED <<topic, head, lost, offsets, acked>>
      /\ UNCHANGED <<ledger, table, dlq>>
    BY HarnessStepWrites
<1>2. Grows
    BY <1>1, AdvancesIsReflexive DEF Grows, Published
<1>3. ExpiredSettled'
    <2>1. ExpiredSettled
        BY DEF Progress
    <2>2. \A p, i : Settled(p, i)' <=> Settled(p, i)
        BY <1>1 DEF Settled, Handled, FlatRow
    <2> QED BY <1>1, <2>1, <2>2 DEF ExpiredSettled
<1>4. ASSUME NEW c \in Callers PROVE CallProgress(c)'
    <2>1. CASE c # Harness
        BY <1>2, <2>1, HarnessStepCalls, CallProgressIsStable DEF Progress
    <2>2. CASE c = Harness
        BY <2>2, HarnessStepCalls DEF CallProgress
    <2> QED BY <2>1, <2>2
<1>5. ProgressBut({})
    BY NothingExcused
<1>6. DriverProgressBut({})'
    <2>1. call'[Driver] = call[Driver]
        BY HarnessStepCalls
    <2> QED
        BY <1>1, <1>2, <1>5, <2>1, DriverProgressIsStable
           DEF ProgressBut, DriverPlace, DriverProgressBut
<1>7. LedgerSoundBut({})' /\ NoSilentLossBut({})'
    BY <1>1, <1>2, <1>5, SettledBatchesStay DEF ProgressBut
<1>8. ProgressBut({})'
    BY <1>3, <1>4, <1>6, <1>7 DEF ProgressBut
<1> QED BY <1>8, NothingExcused

-----------------------------------------------------------------------------
(* The commit that overwrites another.                                     *)

(* The version that is left behind holds rows, one of each transaction.    *)
PreviousOK == previous \subseteq Row /\ OneRowPerKey(previous)

LEMMA OverwriteFrame ==
    ASSUME TypeOK, NEW c \in Callers, MergeOverwrites(c)
    PROVE  /\ call' \in [Callers -> Frame]
           /\ call[c].pc = "commit" /\ call'[c].pc = "ledger"
           /\ call'[c].id = call[c].id /\ call'[c].commit = call[c].commit
           /\ call'[c].rows = call[c].rows /\ call'[c].valid = call[c].valid
           /\ \A d \in Callers \ {c} : call'[d] = call[d]
           /\ UNCHANGED <<topic, head, offsets, acked, up, registry, pgMerchants>>
           /\ UNCHANGED <<ledger, dlq, crashes, previous>>
<1>1. call \in [Callers -> Frame] /\ call[c] \in Frame
    BY DEF TypeOK
<1>2. /\ call[c].pc = "commit"
      /\ call' = [call EXCEPT ![c] = [call[c] EXCEPT !.pc = "ledger", !.base = {}]]
    BY <1>1 DEF MergeOverwrites
<1> DEFINE f == [call[c] EXCEPT !.pc = "ledger", !.base = {}]
<1>3. /\ f \in Frame /\ f.pc = "ledger" /\ f.id = call[c].id
      /\ f.commit = call[c].commit /\ f.rows = call[c].rows
      /\ f.valid = call[c].valid
    <2>1. f \in Frame
        BY <1>1, FrameType DEF Steps
    <2>2. /\ f.pc = "ledger" /\ f.id = call[c].id /\ f.commit = call[c].commit
          /\ f.rows = call[c].rows /\ f.valid = call[c].valid
        BY <1>1 DEF Frame
    <2> QED BY <2>1, <2>2
<1>4. call' = [call EXCEPT ![c] = f]
    BY <1>2
<1> HIDE DEF f
<1>5. /\ UNCHANGED <<topic, head, offsets, acked, up, registry, pgMerchants>>
      /\ UNCHANGED <<ledger, dlq, crashes, previous>>
    BY DEF MergeOverwrites, checkpoint
<1> QED BY <1>1, <1>2, <1>3, <1>4, <1>5

LEMMA OverwriteTable ==
    ASSUME TypeOK, PreviousOK, NEW c \in Callers, MergeOverwrites(c)
    PROVE  /\ table' \subseteq Row
           /\ Advances(previous, table')
           /\ OneRowPerKey(table')
           /\ \A r \in call[c].valid : UpToDate(table', r)
<1>1. PICK staged \in DedupLatest(call[c].valid) :
          table' = MergeInto(previous, staged)
    BY DEF MergeOverwrites
<1>2. call[c].valid \subseteq Row /\ previous \subseteq Row
    BY FrameType DEF TypeOK, PreviousOK
<1>3. \A r \in Row : r.lsn \in Int
    BY DEF Row
<1>4. staged \subseteq call[c].valid /\ OneRowPerKey(staged)
    BY <1>2, <1>3, DedupLatestKeepsTheLatest
<1>5. table' \subseteq Row
    BY <1>1, <1>2, <1>4, MergeInventsNothing
<1>6. Advances(previous, table')
    BY <1>1, MergeAdvances
<1>7. OneRowPerKey(table')
    BY <1>1, <1>4, MergeKeepsOneRowPerKey DEF PreviousOK
<1>8. \A r \in call[c].valid : UpToDate(table', r)
    BY <1>1, <1>2, MergedIsUpToDate
<1> QED BY <1>5, <1>6, <1>7, <1>8

(* What the table had seen and has no more is in lost: every row in play   *)
(* is still accounted for.                                                 *)
LEMMA OverwriteGrows ==
    ASSUME TypeOK, HarnessFrame, NEW c \in Callers, MergeOverwrites(c)
    PROVE  Grows
<1>1. topic' = topic /\ dlq' = dlq /\ lost' = lost \cup Unseen(table')
    BY DEF MergeOverwrites
<1>2. ASSUME NEW r \in Row, InPlay(r), Accounted(r) PROVE Accounted(r)'
    <2>1. Published(r.partition, r.offset) /\ r = FlatRow(r.partition, r.offset)
        BY <1>2 DEF InPlay, HarnessFrame, DecodedFrame, Decoded
    <2>2. CASE r \in dlq \/ <<r.partition, r.offset>> \in lost \/ UpToDate(table', r)
        BY <1>1, <2>2 DEF Accounted, Handled
    <2>3. CASE UpToDate(table, r) /\ ~UpToDate(table', r)
        <3> DEFINE pos == <<r.partition, r.offset>>
        <3>1. pos \in UNION { {p} \X (1..Len(topic[p])) : p \in Partitions }
            BY <2>1 DEF Published
        <3>2. pos[1] = r.partition /\ pos[2] = r.offset
            OBVIOUS
        <3>3. FlatRow(pos[1], pos[2]) = r
            BY <2>1, <3>2
        <3> HIDE DEF pos
        <3>4. pos \in Unseen(table')
            BY <2>3, <3>1, <3>3 DEF Unseen
        <3> QED BY <1>1, <3>4 DEF Accounted, pos
    <2> QED BY <1>2, <2>2, <2>3 DEF Accounted, Handled
<1> QED BY <1>1, <1>2 DEF Grows, Published

LEMMA OverwriteShape ==
    ASSUME Shape, PreviousOK, NEW c \in Callers, MergeOverwrites(c)
    PROVE  Shape'
<1> USE DEF Shape
<1>1. lost' \subseteq Partitions \X (Nat \ {0})
    <2>1. lost' = lost \cup Unseen(table')
        BY DEF MergeOverwrites
    <2>2. \A p \in Partitions : Len(topic[p]) \in Nat
        BY DEF TypeOK
    <2>3. Unseen(table') \subseteq Partitions \X (Nat \ {0})
        BY <2>2 DEF Unseen
    <2> QED BY <2>1, <2>3 DEF TypeOK
<1>2. TypeOK'
    BY <1>1, OverwriteFrame, OverwriteTable DEF TypeOK, Planned
<1>3. DriverPlace'
    BY OverwriteFrame, CallersAssumption DEF DriverPlace, Planned, Active, Steps
<1>4. Positions'
    BY OverwriteFrame DEF Positions
<1> QED BY <1>2, <1>3, <1>4

LEMMA OverwriteProgress ==
    ASSUME Shape, Shape', Progress, HarnessFrame, PreviousOK,
           NEW c \in Callers, MergeOverwrites(c)
    PROVE  Progress'
<1> USE CallersAssumption DEF Shape
<1>1. Grows
    BY OverwriteGrows
<1>2. /\ UNCHANGED <<topic, head, offsets, acked, ledger, dlq>>
      /\ call[c].pc = "commit" /\ call'[c].pc = "ledger"
      /\ call'[c].rows = call[c].rows /\ call'[c].valid = call[c].valid
      /\ \A d \in Callers \ {c} : call'[d] = call[d]
    BY OverwriteFrame
<1>3. ProgressBut({})
    BY NothingExcused
<1>4. ExpiredSettled'
    <2> SUFFICES ASSUME NEW p \in Partitions, NEW i \in 1..head[p]
                 PROVE  Settled(p, i)'
        BY <1>2 DEF ExpiredSettled
    <2>1. Published(p, i) /\ Settled(p, i)
        BY DEF Published, Positions, ExpiredSettled, Progress, TypeOK
    <2> QED BY <1>1, <2>1, SettledIsStable
<1>5. ASSUME NEW d \in Callers PROVE CallProgress(d)'
    <2>1. CASE d # c
        BY <1>1, <1>2, <2>1, CallProgressIsStable DEF Progress
    <2>2. CASE d = c
        <3>1. Invalid(c) \subseteq dlq
            BY <1>2 DEF Progress, CallProgress
        <3>2. \A r \in call[c].rows : r \in dlq' \/ UpToDate(table', r)
            BY <1>2, <3>1, OverwriteTable DEF Invalid
        <3> QED BY <1>2, <2>2, <3>2 DEF CallProgress, Accounted, Handled
    <2> QED BY <2>1, <2>2
<1>6. DriverProgressBut({})'
    <2>1. CASE c = Driver
        <3>1. call[Driver].pc \in Active /\ call'[Driver].pc = "ledger"
            BY <1>2, <2>1 DEF Active, Steps
        <3>2. Planned = acked + 1
            BY <1>2, <2>1 DEF DriverPlace
        <3> QED
            BY <1>1, <1>2, <1>3, <2>1, <3>1, <3>2, DriverProgressIsStable
               DEF ProgressBut
    <2>2. CASE c # Driver
        <3>1. call'[Driver] = call[Driver]
            BY <1>2, <2>2
        <3> QED
            BY <1>1, <1>2, <1>3, <3>1, DriverProgressIsStable
               DEF ProgressBut, DriverPlace, DriverProgressBut
    <2> QED BY <2>1, <2>2
<1>7. LedgerSoundBut({})' /\ NoSilentLossBut({})'
    BY <1>1, <1>2, <1>3, SettledBatchesStay DEF ProgressBut
<1>8. ProgressBut({})'
    BY <1>4, <1>5, <1>6, <1>7 DEF ProgressBut
<1> QED BY <1>8, NothingExcused

-----------------------------------------------------------------------------
(* The inductive invariant.                                                *)

LEMMA ApartAdvances ==
    ASSUME TypeOK, ApartStep
    PROVE  Advances(table, table')
<1>1. CASE [Next]_vars
    BY <1>1, StepAdvances
<1>2. CASE ProcessBatch(Harness) \/ Failure(Harness)
    BY <1>2, HandlerAdvances, HarnessAssumption
<1>3. CASE HarnessStep
    BY <1>3, HarnessStepWrites, AdvancesIsReflexive
<1> QED BY <1>1, <1>2, <1>3 DEF ApartStep

LEMMA ApartGrows ==
    ASSUME TypeOK, ApartStep
    PROVE  Grows
<1>1. CASE [Next]_vars
    BY <1>1, StepGrows
<1>2. CASE ProcessBatch(Harness) \/ Failure(Harness)
    BY <1>2, HandlerGrows, HarnessAssumption
<1>3. CASE HarnessStep
    BY <1>3, HarnessStepWrites, AdvancesIsReflexive DEF Grows, Published
<1> QED BY <1>1, <1>2, <1>3 DEF ApartStep

LEMMA ReplayGrows ==
    ASSUME TypeOK, HarnessFrame, [ReplayNext]_replayVars
    PROVE  Grows
BY ApartGrows, OverwriteGrows, ReplayCases

LEMMA ReplayShapeStep ==
    ASSUME Shape, PreviousOK, [ReplayNext]_replayVars
    PROVE  Shape'
<1>1. CASE [Next]_vars
    BY <1>1, ShapeStep
<1>2. CASE ProcessBatch(Harness) \/ Failure(Harness)
    <2>1. TypeOK' /\ DriverPlace'
        BY <1>2, TypeHandler, HarnessAssumption DEF Shape
    <2>2. UNCHANGED <<topic, head, offsets>>
        BY <1>2, HandlerWrites, HarnessAssumption DEF Shape
    <2> QED BY <2>1, <2>2 DEF Shape, Positions
<1>3. CASE HarnessStep
    BY <1>3, HarnessStepShape
<1>4. CASE \E c \in Callers : MergeOverwrites(c)
    BY <1>4, OverwriteShape
<1> QED BY <1>1, <1>2, <1>3, <1>4, ReplayCases DEF ApartStep

LEMMA DecodedIsStable ==
    ASSUME Grows, NEW r, Decoded(r)
    PROVE  Decoded(r)'
<1>1. /\ Published(r.partition, r.offset)'
      /\ topic'[r.partition][r.offset] = topic[r.partition][r.offset]
    BY DEF Grows, Decoded
<1>2. FlatRow(r.partition, r.offset)' = FlatRow(r.partition, r.offset)
    BY FlatRowIsStable DEF Decoded
<1> QED BY <1>1, <1>2 DEF Decoded

(* The driver's world does not touch the harness's frame.                  *)
LEMMA NextKeepsHarness ==
    ASSUME TypeOK, [Next]_vars
    PROVE  call'[Harness] = call[Harness] /\ ledger \subseteq ledger'
<1> USE CallersAssumption, HarnessAssumption
<1>1. call \in [Callers -> Frame]
    BY DEF TypeOK
<1>2. CASE ProcessBatch(Driver) \/ Failure(Driver)
    <2>1. call'[Harness] = call[Harness]
        BY <1>1, <1>2, HandlerShape
           DEF Stop, Returns, Continues, Failure, Crash, WriteDlqTorn
    <2>2. ledger \subseteq ledger'
        BY <1>2
           DEF ProcessBatch, TryValidate, TryCommit,
               Failure, CheckLedger, Validate, ValidateRaises,
               WriteDlq, WriteDlqTorn, MergeBegin, MergeCommit, MergeConflict,
               CommitLedger, EmitMetrics, Crash, sinks
    <2> QED BY <2>1, <2>2
<1>3. CASE LoopStep
    BY <1>1, <1>3
       DEF LoopStep, Start, PlanBatch, WrapperEmpty, WrapperRaises, WrapperCall,
           AckBatch, EnterCall, Stop, process, sinks
<1>4. CASE Environment \/ UNCHANGED vars
    BY <1>4 DEF Environment, Publish, Expire, ChangeMerchants, vars, process, sinks
<1> QED BY <1>2, <1>3, <1>4, NextCases

(* A step that leaves a caller's frame alone, or empties it, or keeps some *)
(* of its rows, leaves it decoded.                                         *)
LEMMA DecodedFrameIsStable ==
    ASSUME Grows, NEW c, DecodedFrame(c),
           call'[c].rows \subseteq call[c].rows,
           call'[c].valid \subseteq call'[c].rows
    PROVE  DecodedFrame(c)'
<1>1. \A r \in call'[c].rows : Decoded(r)'
    BY DecodedIsStable DEF DecodedFrame
<1> QED BY <1>1 DEF DecodedFrame

LEMMA HandlerKeepsDecoded ==
    ASSUME TypeOK, Grows, HarnessFrame, NEW d \in Callers,
           ProcessBatch(d) \/ Failure(d), NEW c \in Callers
    PROVE  DecodedFrame(c)'
<1>1. DecodedFrame(c)
    BY DEF HarnessFrame
<1>2. CASE c = d
    <2>1. /\ call'[c].rows \subseteq call[c].rows
          /\ call'[c].valid \subseteq call'[c].rows
        BY <1>1, <1>2, HandlerRows DEF DecodedFrame
    <2> QED BY <1>1, <2>1, DecodedFrameIsStable
<1>3. CASE c # d
    <2>1. call'[c] = call[c]
        BY <1>3, HandlerShape
           DEF Stop, Returns, Continues, Failure, Crash, WriteDlqTorn, TypeOK
    <2> QED BY <1>1, <2>1, DecodedFrameIsStable DEF DecodedFrame
<1> QED BY <1>2, <1>3

LEMMA LoopKeepsDecoded ==
    ASSUME TypeOK, Grows, HarnessFrame, LoopStep, NEW c \in Callers
    PROVE  DecodedFrame(c)'
<1> USE CallersAssumption
<1>1. DecodedFrame(c) /\ call \in [Callers -> Frame]
    BY DEF HarnessFrame, TypeOK
<1>2. Idle.rows = {} /\ Idle.valid = {} /\ Returned.rows = {} /\ Returned.valid = {}
    BY DEF Idle, Returned
<1>3. CASE call'[c] \in {call[c], Idle, Returned}
    <2>1. /\ call'[c].rows \subseteq call[c].rows
          /\ call'[c].valid \subseteq call'[c].rows
        BY <1>1, <1>2, <1>3 DEF DecodedFrame
    <2> QED BY <1>1, <2>1, DecodedFrameIsStable
<1>4. CASE WrapperCall /\ c = Driver
    <2> DEFINE rows == Deserialized(Fetched(acked))
    <2>1. call'[c].rows = rows /\ call'[c].valid = {}
        BY <1>1, <1>4 DEF WrapperCall, EnterCall, Idle
    <2>2. \A pos \in Fetched(acked) : pos[2] \in 1..MaxRecords
        BY DEF Fetched, Retained
    <2>3. \A r \in rows : Decoded(r)
        BY <2>2, FetchedPublished, DeserializedIsDecoded
    <2> HIDE DEF rows
    <2>4. \A r \in call'[c].rows : Decoded(r)'
        BY <2>1, <2>3, DecodedIsStable
    <2> QED BY <2>1, <2>4 DEF DecodedFrame
<1>5. CASE ~(WrapperCall /\ c = Driver)
    <2>1. call'[c] \in {call[c], Idle, Returned}
        BY <1>1, <1>5 DEF LoopStep, Start, PlanBatch, WrapperEmpty, WrapperRaises,
                          WrapperCall, EnterCall, AckBatch, Stop, process
    <2> QED BY <1>3, <2>1
<1> QED BY <1>4, <1>5

LEMMA NextKeepsDecoded ==
    ASSUME TypeOK, Grows, HarnessFrame, [Next]_vars, NEW c \in Callers
    PROVE  DecodedFrame(c)'
<1>1. CASE Environment \/ UNCHANGED vars
    <2>1. call' = call
        BY <1>1 DEF Environment, Publish, Expire, ChangeMerchants, vars, process
    <2> QED BY <2>1, DecodedFrameIsStable DEF HarnessFrame, DecodedFrame
<1>2. CASE LoopStep
    BY <1>2, LoopKeepsDecoded
<1>3. CASE ProcessBatch(Driver) \/ Failure(Driver)
    BY <1>3, HandlerKeepsDecoded, CallersAssumption
<1> QED BY <1>1, <1>2, <1>3, NextCases

LEMMA HarnessFrameStep ==
    ASSUME Shape, Shape', HarnessFrame, [ReplayNext]_replayVars
    PROVE  HarnessFrame'
<1> USE HarnessAssumption DEF Shape
<1>1. Grows
    BY ReplayGrows
<1>2. call[Harness].commit => call[Harness].id \in ledger
    BY DEF HarnessFrame
<1>3. CASE [Next]_vars
    <2>1. call'[Harness] = call[Harness] /\ ledger \subseteq ledger'
        BY <1>3, NextKeepsHarness
    <2>2. \A c \in Callers : DecodedFrame(c)'
        BY <1>1, <1>3, NextKeepsDecoded
    <2> QED BY <1>2, <2>1, <2>2 DEF HarnessFrame
<1>4. CASE ProcessBatch(Harness) \/ Failure(Harness)
    <2>1. \A c \in Callers : DecodedFrame(c)'
        BY <1>1, <1>4, HandlerKeepsDecoded
    <2>2. ledger \subseteq ledger'
        BY <1>4
           DEF ProcessBatch, TryValidate, TryCommit,
               Failure, CheckLedger, Validate, ValidateRaises,
               WriteDlq, WriteDlqTorn, MergeBegin, MergeCommit, MergeConflict,
               CommitLedger, EmitMetrics, Crash, sinks
    <2>3. \/ call'[Harness] \in {Idle, Returned}
          \/ /\ call'[Harness].commit = call[Harness].commit
             /\ call'[Harness].id = call[Harness].id
        BY <1>4, HandlerShape
           DEF Stop, Returns, Continues, Failure, Crash, WriteDlqTorn, TypeOK
    <2>4. Idle.commit = FALSE /\ Returned.commit = FALSE
        BY DEF Idle, Returned
    <2>5. call'[Harness].commit => call'[Harness].id \in ledger'
        <3>1. CASE call'[Harness] \in {Idle, Returned}
            <4>1. call'[Harness].commit = FALSE
                BY <2>4, <3>1
            <4> QED BY <4>1
        <3>2. CASE /\ call'[Harness].commit = call[Harness].commit
                   /\ call'[Harness].id = call[Harness].id
            BY <1>2, <2>2, <3>2
        <3> QED BY <2>3, <3>1, <3>2
    <2> QED BY <2>1, <2>5 DEF HarnessFrame
<1>5. CASE HarnessStep
    <2>1. /\ \A d \in Callers \ {Harness} : call'[d] = call[d]
          /\ call'[Harness].commit => call'[Harness].id \in ledger'
          /\ DecodedFrame(Harness)'
        BY <1>5, HarnessStepCalls
    <2>2. \A d \in Callers \ {Harness} : DecodedFrame(d)'
        BY <1>1, <2>1, DecodedFrameIsStable DEF HarnessFrame, DecodedFrame
    <2> QED BY <2>1, <2>2 DEF HarnessFrame
<1>6. CASE \E c \in Callers : MergeOverwrites(c)
    <2>1. PICK c \in Callers : MergeOverwrites(c)
        BY <1>6
    <2>2. /\ call'[c].id = call[c].id /\ call'[c].commit = call[c].commit
          /\ call'[c].rows = call[c].rows /\ call'[c].valid = call[c].valid
          /\ \A d \in Callers \ {c} : call'[d] = call[d]
          /\ ledger' = ledger
        BY <2>1, OverwriteFrame
    <2>3. \A d \in Callers : DecodedFrame(d)'
        BY <1>1, <2>2, DecodedFrameIsStable DEF HarnessFrame, DecodedFrame
    <2>4. call'[Harness].commit => call'[Harness].id \in ledger'
        BY <1>2, <2>2
    <2> QED BY <2>3, <2>4 DEF HarnessFrame
<1> QED BY <1>3, <1>4, <1>5, <1>6, ReplayCases DEF ApartStep

LEMMA ReplayProgressStep ==
    ASSUME Shape, Shape', Progress, HarnessFrame, PreviousOK, [ReplayNext]_replayVars
    PROVE  Progress'
<1>1. CASE [Next]_vars
    BY <1>1, ProgressStep
<1>2. CASE ProcessBatch(Harness) \/ Failure(Harness)
    BY <1>2, HandlerProgress, NothingExcused, HarnessAssumption
       DEF HarnessFrame
<1>3. CASE HarnessStep
    BY <1>3, HarnessStepProgress
<1>4. CASE \E c \in Callers : MergeOverwrites(c)
    BY <1>4, OverwriteProgress
<1> QED BY <1>1, <1>2, <1>3, <1>4, ReplayCases DEF ApartStep

LEMMA ReplayOneRowStep ==
    ASSUME TypeOK, PreviousOK, OneRowPerTransaction, [ReplayNext]_replayVars
    PROVE  OneRowPerTransaction'
<1>1. CASE [Next]_vars
    BY <1>1, OneRowStep
<1>2. CASE ProcessBatch(Harness) \/ Failure(Harness)
    BY <1>2, HandlerKeepsOneRow, HarnessAssumption
<1>3. CASE HarnessStep
    BY <1>3, HarnessStepWrites DEF OneRowPerTransaction
<1>4. CASE \E c \in Callers : MergeOverwrites(c)
    BY <1>4, OverwriteTable DEF OneRowPerTransaction
<1> QED BY <1>1, <1>2, <1>3, <1>4, ReplayCases DEF ApartStep

(* The version that falls behind the current one is the table as it was.   *)
LEMMA PreviousStep ==
    ASSUME TypeOK, PreviousOK, OneRowPerTransaction, [ReplayNext]_replayVars
    PROVE  PreviousOK'
<1>1. previous' \in {previous, table}
    BY OverwriteFrame, ReplayCases DEF KeepPrevious, replayVars
<1>2. table \subseteq Row
    BY DEF TypeOK
<1> QED BY <1>1, <1>2 DEF PreviousOK, OneRowPerTransaction

ReplayInv == /\ Shape
             /\ Progress
             /\ HarnessFrame
             /\ PreviousOK
             /\ OneRowPerTransaction

LEMMA ReplayInvariant == ReplaySpec => []ReplayInv
<1>1. ReplayInit => ReplayInv
    <2> SUFFICES ASSUME ReplayInit PROVE ReplayInv
        OBVIOUS
    <2>1. Init /\ previous = {} /\ table = {}
        BY DEF ReplayInit, Init
    <2>2. \A c \in Callers : /\ call[c].commit = FALSE
                             /\ call[c].rows = {} /\ call[c].valid = {}
        BY <2>1 DEF Init, Idle
    <2>3. HarnessFrame
        BY <2>2, HarnessAssumption DEF HarnessFrame, DecodedFrame
    <2>4. PreviousOK /\ OneRowPerTransaction
        BY <2>1 DEF PreviousOK, OneRowPerTransaction, OneRowPerKey
    <2> QED BY <2>1, <2>3, <2>4, ProgressInit DEF ReplayInv
<1>2. ReplayInv /\ [ReplayNext]_replayVars => ReplayInv'
    <2> SUFFICES ASSUME ReplayInv, [ReplayNext]_replayVars PROVE ReplayInv'
        OBVIOUS
    <2> USE DEF ReplayInv
    <2>1. Shape'
        BY ReplayShapeStep
    <2>2. Progress' /\ HarnessFrame'
        BY <2>1, ReplayProgressStep, HarnessFrameStep
    <2>3. PreviousOK' /\ OneRowPerTransaction'
        BY PreviousStep, ReplayOneRowStep DEF Shape
    <2> QED BY <2>1, <2>2, <2>3
<1> QED BY <1>1, <1>2, PTL DEF ReplaySpec

-----------------------------------------------------------------------------
(* Theorems.                                                               *)

(* With the harness running next to it, any number of times and crashing   *)
(* where it likes, the driver loses no record it acknowledged but those of *)
(* a commit that a commit of the other process overwrote.                  *)
THEOREM ReplayLosesNothing == ReplaySpec => []NoSilentLoss
<1>1. ReplayInv => NoSilentLoss
    BY DEF ReplayInv, Progress
<1> QED BY <1>1, ReplayInvariant, PTL

(* Nothing but an overwritten commit turns a row back, and that takes back *)
(* one version of the table and no more.                                   *)
THEOREM ReplayTakesBackOneCommit == ReplaySpec => OnlyOverwritesTakeBack
<1>1. ReplayInv /\ [ReplayNext]_replayVars
        => [ \/ Advances(table, table')
             \/ Advances(previous, table') /\ previous' = previous ]_replayVars
    <2> SUFFICES ASSUME ReplayInv, [ReplayNext]_replayVars
                 PROVE  \/ Advances(table, table')
                        \/ Advances(previous, table') /\ previous' = previous
        OBVIOUS
    <2>1. TypeOK /\ PreviousOK
        BY DEF ReplayInv, Shape
    <2>2. CASE ApartStep
        BY <2>1, <2>2, ApartAdvances
    <2>3. CASE \E c \in Callers : MergeOverwrites(c)
        BY <2>1, <2>3, OverwriteTable, OverwriteFrame
    <2> QED BY <2>2, <2>3, ReplayCases
<1> QED BY <1>1, ReplayInvariant, PTL DEF ReplaySpec, OnlyOverwritesTakeBack

(* One row per transaction, with two writers of the table that may         *)
(* overwrite each other's commits: what an overwrite leaves is a MERGE of  *)
(* the version before, which had one row per transaction as well.          *)
THEOREM ReplayOneRow == ReplaySpec => []OneRowPerTransaction
<1>1. ReplayInv => OneRowPerTransaction
    BY DEF ReplayInv
<1> QED BY <1>1, ReplayInvariant, PTL

(* A row that an acknowledged batch applied is one the table is up to date *)
(* with.                                                                   *)
LEMMA ReflectedIsUpToDate ==
    ASSUME Shape, NoSilentLoss, NEW r, Decoded(r), Reflected(r)
    PROVE  UpToDate(table, r)
<1>1. PICK b \in 0..(acked - 1) : InBatch(b, r.partition, r.offset)
    BY DEF Reflected
<1>2. BatchSettled(b)
    BY DEF NoSilentLoss
<1>3. /\ r.partition \in Partitions /\ r.offset \in 1..MaxRecords
      /\ r = FlatRow(r.partition, r.offset)
      /\ topic[r.partition][r.offset].schema # "none"
    BY DEF Decoded, Published
<1>4. Settled(r.partition, r.offset)
    BY <1>1, <1>2, <1>3 DEF BatchSettled
<1>5. Handled(FlatRow(r.partition, r.offset))
    BY <1>3, <1>4 DEF Settled, Reflected
<1> QED BY <1>3, <1>5 DEF Handled, Reflected

(* The harness gets from the MERGE's snapshot to the ledger only by        *)
(* committing the MERGE; with a current snapshot it overwrites nothing.    *)
LEMMA HarnessCommits ==
    ASSUME TypeOK, [ReplayNext]_replayVars, table = call[Harness].base,
           call[Harness].pc = "commit", call'[Harness].pc = "ledger"
    PROVE  MergeCommit(Harness)
<1> USE HarnessAssumption
<1>1. call \in [Callers -> Frame]
    BY DEF TypeOK
<1>2. ~[Next]_vars
    BY NextKeepsHarness
<1>3. ~HarnessStep
    BY HarnessStepCalls
<1>4. ~MergeConflict(Harness) /\ ~Failure(Harness)
    <2>1. ~Stop(Harness)
        BY <1>1 DEF Stop, Idle
    <2> QED BY <2>1 DEF MergeConflict, Failure, Crash, WriteDlqTorn
<1>5. ProcessBatch(Harness) => MergeCommit(Harness) \/ MergeConflict(Harness)
    BY DEF ProcessBatch, TryValidate, TryCommit,
           CheckLedger, Validate, ValidateRaises, WriteDlq,
           MergeBegin, CommitLedger, EmitMetrics
<1>6. ASSUME NEW c \in Callers, MergeOverwrites(c) PROVE FALSE
    <2>1. c = Harness
        BY <1>6, OverwriteFrame
    <2> QED BY <1>6, <2>1 DEF MergeOverwrites
<1> QED BY <1>2, <1>3, <1>4, <1>5, <1>6, ReplayCases DEF ApartStep

LEMMA ReplayNoopStep ==
    ASSUME ReplayInv, [ReplayNext]_replayVars,
           ReplayCommits, table = call[Harness].base
    PROVE  table' = table
<1> USE DEF ReplayInv
<1>1. MergeCommit(Harness)
    BY HarnessCommits DEF Shape, ReplayCommits
<1> DEFINE valid == call[Harness].valid
<1>2. PICK staged \in DedupLatest(valid) : table' = MergeInto(table, staged)
    BY <1>1 DEF MergeCommit
<1>3. valid \subseteq Row /\ table \subseteq Row
    BY HarnessAssumption, FrameType DEF Shape, TypeOK
<1>4. \A r \in valid : UpToDate(table, r)
    BY ReflectedIsUpToDate, HarnessAssumption
       DEF HarnessFrame, DecodedFrame, ReplayCommits, Progress
<1>5. \A r \in Row : r.lsn \in Int
    BY DEF Row
<1>6. staged \subseteq valid
    BY <1>3, <1>5, DedupLatestKeepsTheLatest
<1> HIDE DEF valid
<1>7. MergeInto(table, staged) = table
    BY <1>3, <1>4, <1>5, <1>6, MergeOfOldRowsIsNoop DEF OneRowPerTransaction
<1> QED BY <1>2, <1>7

(* Replaying what acknowledged batches applied changes no row when the     *)
(* snapshot of the MERGE is current: the point of --mode lsn-guard.        *)
THEOREM ReplayNoop == ReplaySpec => ReplayIsNoop
<1>1. ReplayInv /\ [ReplayNext]_replayVars
        => [ReplayCommits /\ table = call[Harness].base => table' = table]_replayVars
    BY ReplayNoopStep
<1> QED BY <1>1, ReplayInvariant, PTL DEF ReplaySpec, ReplayIsNoop
=============================================================================
