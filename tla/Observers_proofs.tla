-------------------------- MODULE Observers_proofs --------------------------
(***************************************************************************)
(* The gauges of Observers, proved for every set of partitions and events  *)
(* and for every bound: the observers write nothing the job reads, so the  *)
(* invariant of ReplayOffsets_proofs holds of their behaviours too, and    *)
(* what is left is to follow a position to the Pushgateway.                *)
(***************************************************************************)
EXTENDS Observers, ReplayOffsets_proofs, FiniteSetTheorems

(* What was polled or posted is such an end.                               *)
Known(o) == o = NoOffsets \/ \E k \in AckedEnds : o = offsets[k]

GaugesShape == gauges = [processed |-> gauges.processed, end |-> gauges.end]

OffsetsFollowed == /\ AckedSettled
                   /\ GaugesShape
                   /\ Known(polled)
                   /\ Known(gauges.processed)

-----------------------------------------------------------------------------
(* The checkpoint under every step of the driver and of the harness.       *)

LEMMA ObserversStep ==
    ASSUME [ObserversNext]_observedVars
    PROVE  [ReplayNext]_replayVars
BY DEF ObserversNext, JobStep, PollProgress, PushEndOffsets, observedVars

LEMMA ReplayKeepsOffsets ==
    ASSUME TypeOK, [ReplayNext]_replayVars
    PROVE  OffsetsKept
<1>1. CASE [Next]_vars
    BY <1>1, StepKeepsOffsets
<1>2. CASE offsets' = offsets
    BY <1>2 DEF OffsetsKept, TypeOK
<1>3. CASE \E c \in Callers : MergeOverwrites(c)
    BY <1>2, <1>3, OverwriteFrame
<1> QED
    BY <1>1, <1>2, <1>3, ReplayCases, HandlerWrites, HarnessStepWrites,
       HarnessAssumption DEF ApartStep

(* The commit log grows only by the batch that returned.                   *)
LEMMA AckedMoves ==
    ASSUME TypeOK, [ReplayNext]_replayVars
    PROVE  \/ acked' = acked
           \/ /\ acked' = acked + 1
              /\ offsets' = offsets
              /\ call[Driver].pc = "returned"
<1>1. CASE [Next]_vars
    BY <1>1, JobAckedMoves
<1>2. CASE ProcessBatch(Harness) \/ Failure(Harness) \/ HarnessStep
    BY <1>2, HandlerWrites, HarnessStepWrites, HarnessAssumption
<1>3. CASE \E c \in Callers : MergeOverwrites(c)
    BY <1>3, OverwriteFrame
<1> QED BY <1>1, <1>2, <1>3, ReplayCases DEF ApartStep

(* What acknowledged batches settled stays settled.                        *)
LEMMA AckedSettledKept ==
    ASSUME ReplayInv, ReplayInv', AckedSettled, [ReplayNext]_replayVars
    PROVE  AckedSettled'
BY ReplayGrows, ReplayKeepsOffsets, AckedMoves, AckedSettledIsStable
   DEF ReplayInv, Shape

LEMMA KnownStep ==
    ASSUME TypeOK, TypeOK', [ReplayNext]_replayVars, NEW o, Known(o)
    PROVE  o = NoOffsets \/ \E k \in AckedEnds' : o = offsets'[k]
<1>1. CASE o = NoOffsets
    BY <1>1
<1>2. CASE \E k \in AckedEnds : o = offsets[k]
    <2>1. PICK k \in AckedEnds : o = offsets[k]
        BY <1>2
    <2>2. k \in 1..Len(offsets) /\ k - 1 <= acked
        BY <2>1 DEF AckedEnds
    <2>3. Len(offsets) \in Nat /\ Len(offsets') \in Nat /\ acked \in Nat
        BY DEF TypeOK
    <2>4. k \in 1..Len(offsets') /\ offsets'[k] = offsets[k]
        BY <2>2, <2>3, ReplayKeepsOffsets DEF OffsetsKept
    <2>5. k - 1 <= acked'
        BY <2>2, <2>3, AckedMoves
    <2> QED BY <2>1, <2>4, <2>5 DEF AckedEnds
<1> QED BY <1>1, <1>2 DEF Known

(* What a step of the job does to the offsets that are on their way.       *)
LEMMA PushedOffsets ==
    ASSUME GaugesShape, JobStep
    PROVE  /\ polled' \in {NoOffsets, polled}
           /\ GaugesShape'
           /\ gauges'.processed \in {gauges.processed, polled}
<1>1. polled' \in {NoOffsets, polled}
    BY DEF JobStep
<1>2. CASE gauges' = gauges
    BY <1>1, <1>2 DEF GaugesShape
<1>3. CASE gauges' = [gauges EXCEPT !.processed = polled]
    BY <1>1, <1>3 DEF GaugesShape
<1> QED BY <1>1, <1>2, <1>3 DEF JobStep

LEMMA OffsetsFollowedStep ==
    ASSUME ReplayInv, ReplayInv', OffsetsFollowed, [ObserversNext]_observedVars
    PROVE  OffsetsFollowed'
<1> USE DEF OffsetsFollowed
<1>1. AckedSettled'
    BY ObserversStep, AckedSettledKept
<1>2. \A o : Known(o) => o = NoOffsets \/ \E k \in AckedEnds' : o = offsets'[k]
    BY ObserversStep, KnownStep DEF ReplayInv, Shape
<1>3. CASE JobStep
    BY <1>1, <1>2, <1>3, PushedOffsets DEF Known
<1>4. CASE PollProgress
    <2>1. gauges' = gauges /\ polled' \in {NoOffsets, offsets'[acked' + 1]}
        BY <1>4 DEF PollProgress, replayVars, vars, checkpoint
    <2>2. acked' + 1 \in AckedEnds'
        BY <1>4 DEF PollProgress, replayVars, vars, checkpoint, process, ReplayInv, Shape, TypeOK,
                    DriverPlace, Planned, AckedEnds
    <2> QED BY <1>1, <1>2, <2>1, <2>2 DEF Known, GaugesShape
<1>5. CASE PushEndOffsets
    BY <1>1, <1>2, <1>5 DEF PushEndOffsets, GaugesShape, Known
<1>6. CASE UNCHANGED observedVars
    BY <1>1, <1>2, <1>6 DEF observedVars, observers, GaugesShape, Known
<1> QED BY <1>3, <1>4, <1>5, <1>6 DEF ObserversNext

LEMMA JobInvariant == ObserversSpec => []ReplayInv
<1>1. ObserversInit /\ [][ReplayNext]_replayVars => []ReplayInv
    <2>1. ObserversInit => ReplayInit
        BY DEF ObserversInit
    <2> QED BY <2>1, ReplayInvariant, PTL DEF ReplaySpec
<1>2. [ObserversNext]_observedVars => [ReplayNext]_replayVars
    BY ObserversStep
<1> QED BY <1>1, <1>2, PTL DEF ObserversSpec

LEMMA OffsetsInvariant == ObserversSpec => []OffsetsFollowed
<1>1. ObserversInit => OffsetsFollowed
    BY DEF ObserversInit, ReplayInit, Init, OffsetsFollowed, AckedSettled, AckedEnds,
           GaugesShape, Blank, Known
<1>2. ReplayInv /\ ReplayInv' /\ OffsetsFollowed /\ [ObserversNext]_observedVars
        => OffsetsFollowed'
    BY OffsetsFollowedStep
<1> QED BY <1>1, <1>2, JobInvariant, PTL DEF ObserversSpec

(* The processed-offset gauge is never ahead of the sinks, whichever       *)
(* process posted last and however old the poll is.                        *)
THEOREM ProcessedIsAlwaysSettled == ObserversSpec => []ProcessedIsSettled
<1>1. OffsetsFollowed => ProcessedIsSettled
    BY DEF OffsetsFollowed, AckedSettled, SettledUpTo, Known, ProcessedIsSettled
<1> QED BY <1>1, OffsetsInvariant, PTL

(* How many positions there are between two.                               *)
LEMMA CountBetween ==
    ASSUME NEW a \in Int, NEW b \in Int, NEW S, S \subseteq (a + 1)..b, S # {}
    PROVE  Cardinality(S) <= b - a
<1>1. a + 1 \in Int /\ ~(a + 1 > b)
    <2>1. PICK i \in S : TRUE
        OBVIOUS
    <2> QED BY <2>1
<1>2. IsFiniteSet((a + 1)..b) /\ Cardinality((a + 1)..b) = b - (a + 1) + 1
    BY <1>1, FS_Interval
<1>3. Cardinality(S) <= Cardinality((a + 1)..b)
    BY <1>2, FS_Subset
<1> QED BY <1>2, <1>3

(* The end-offset gauge holds what Kafka had at some time.                 *)
EndOffsetsKnown == gauges.end = NoOffsets \/ gauges.end \in [Partitions -> Nat]

LEMMA EndOffsetsStep ==
    ASSUME ReplayInv, GaugesShape, EndOffsetsKnown, [ObserversNext]_observedVars
    PROVE  EndOffsetsKnown'
<1>1. CASE JobStep
    <2>1. gauges'.end = gauges.end
        <3>1. CASE gauges' = [gauges EXCEPT !.processed = polled]
            BY <3>1 DEF GaugesShape
        <3> QED BY <1>1, <3>1 DEF JobStep
    <2> QED BY <2>1 DEF EndOffsetsKnown
<1>2. CASE PushEndOffsets
    <2>1. gauges'.end = Ends
        BY <1>2 DEF PushEndOffsets, GaugesShape
    <2> QED BY <2>1, EndsType DEF EndOffsetsKnown, ReplayInv, Shape
<1>3. CASE PollProgress \/ UNCHANGED observedVars
    BY <1>3 DEF PollProgress, observedVars, observers, EndOffsetsKnown
<1> QED BY <1>1, <1>2, <1>3 DEF ObserversNext

(* The lag panel shows at least the backlog of the records the sidecar     *)
(* last saw: what is not settled lies between the two gauges.              *)
THEOREM LagAlwaysCoversBacklog == ObserversSpec => []LagCoversBacklog
<1>1. ASSUME ReplayInv, OffsetsFollowed, EndOffsetsKnown, ProcessedIsSettled
      PROVE  LagCoversBacklog
    <2> SUFFICES ASSUME gauges.processed # NoOffsets, gauges.end # NoOffsets,
                        NEW p \in Partitions
                 PROVE  LET backlog == { i \in 1..MaxRecords :
                                           /\ offsets[1][p] < i /\ i <= gauges.end[p]
                                           /\ ~Settled(p, i) }
                        IN  \/ backlog = {}
                            \/ Cardinality(backlog) <= gauges.end[p] - gauges.processed[p]
        BY <1>1 DEF LagCoversBacklog
    <2> DEFINE backlog == { i \in 1..MaxRecords :
                              /\ offsets[1][p] < i /\ i <= gauges.end[p]
                              /\ ~Settled(p, i) }
    <2>1. gauges.end[p] \in Nat
        BY <1>1 DEF EndOffsetsKnown
    <2>2. gauges.processed[p] \in Nat
        <3>1. PICK k \in 1..Len(offsets) : gauges.processed = offsets[k]
            BY <1>1 DEF OffsetsFollowed, Known, AckedEnds
        <3> QED BY <1>1, <3>1 DEF ReplayInv, Shape, TypeOK
    <2>3. \A i \in backlog : i \in Nat /\ ~(i <= gauges.processed[p]) /\ i <= gauges.end[p]
        BY <1>1, BoundsAssumption DEF ProcessedIsSettled
    <2>4. backlog \subseteq (gauges.processed[p] + 1)..gauges.end[p]
        BY <2>1, <2>2, <2>3
    <2> HIDE DEF backlog
    <2>5. backlog # {} => Cardinality(backlog) <= gauges.end[p] - gauges.processed[p]
        <3>1. gauges.processed[p] \in Int /\ gauges.end[p] \in Int
            BY <2>1, <2>2
        <3> QED BY <2>4, <3>1, CountBetween, Zenon
    <2> QED BY <2>5 DEF backlog
<1>2. ObserversInit => EndOffsetsKnown
    BY DEF ObserversInit, Blank, EndOffsetsKnown
<1>3. ReplayInv /\ OffsetsFollowed /\ EndOffsetsKnown /\ [ObserversNext]_observedVars
        => EndOffsetsKnown'
    BY EndOffsetsStep DEF OffsetsFollowed
<1>4. ObserversSpec => []EndOffsetsKnown
    BY <1>2, <1>3, JobInvariant, OffsetsInvariant, PTL DEF ObserversSpec
<1> QED BY <1>1, <1>4, JobInvariant, OffsetsInvariant, ProcessedIsAlwaysSettled, PTL

=============================================================================
