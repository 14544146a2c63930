------------------------------ MODULE Observers ------------------------------
(***************************************************************************)
(* What the dashboards show of a running job: utils/metrics_listener.py in *)
(* the driver and in the replay harness, and scripts/lag_sidecar.py.  All  *)
(* post to one Pushgateway group, where a POST replaces only the series it *)
(* names and nothing is ever withdrawn; the panels subtract what different *)
(* processes posted at different times.                                    *)
(*                                                                         *)
(* The row counts, the duration of a batch and the time of the last commit *)
(* are left out.                                                           *)
(***************************************************************************)
EXTENDS ReplayOffsets

CONSTANT NoOffsets  \* {}: no offsets are known

VARIABLES
    polled,   \* _LAST_PROCESSED_OFFSETS of the driver
    gauges    \* the Pushgateway

observers == <<polled, gauges>>
observedVars == <<replayVars, observers>>

(* The offset series of the group; push_metrics posts processed and the    *)
(* sidecar end.                                                            *)
Blank == [processed |-> NoOffsets, end |-> NoOffsets]

(* The driver's push_metrics returns.  The harness calls it too, but only  *)
(* the driver's main thread polls: an empty dictionary adds no series.     *)
Posts == /\ call[Driver].pc = "emit" /\ call'[Driver].pc = "returned"
         /\ polled # NoOffsets

(* A step of the job or of the harness; _LAST_PROCESSED_OFFSETS is {} in a *)
(* process that has just started.  A POST that fails changes nothing and   *)
(* is not repeated.                                                        *)
JobStep ==
    /\ ReplayNext
    /\ polled' = IF Driver \in up \cap up' THEN polled ELSE NoOffsets
    /\ \/ UNCHANGED gauges
       \/ Posts /\ gauges' = [gauges EXCEPT !.processed = polled]

(* Mutant of PollProgress: latestOffset instead of endOffset.              *)
MutPollLatest ==
    /\ Driver \in up
    /\ polled' = Ends
    /\ UNCHANGED <<replayVars, gauges>>

(* The main thread, every two seconds: lastProgress is about the last      *)
(* finished trigger.  Until there is one, and whenever it cannot be read,  *)
(* the answer is {}.                                                       *)
PollProgress ==
    /\ Driver \in up
    /\ polled' \in {NoOffsets, offsets[acked + 1]}
    /\ UNCHANGED <<replayVars, gauges>>

(* One turn of the sidecar posts the high watermarks it has just read; one *)
(* that is killed or fails in between has done nothing.                    *)
PushEndOffsets ==
    /\ gauges' = [gauges EXCEPT !.end = Ends]
    /\ UNCHANGED <<replayVars, polled>>

ObserversInit ==
    /\ ReplayInit
    /\ polled = NoOffsets
    /\ gauges = Blank

ObserversNext == JobStep \/ PollProgress \/ PushEndOffsets

ObserversSpec == ObserversInit /\ [][ObserversNext]_observedVars

-----------------------------------------------------------------------------
(* The processed-offset gauge is never ahead of the sinks: every record    *)
(* from where the checkpoint started up to the gauge is settled, although  *)
(* the gauge outlives the process that posted it, the poll races with the  *)
(* batch, and a restart repeats a batch; only what an overwritten commit   *)
(* lost is below it and missing.                                           *)
ProcessedIsSettled ==
    gauges.processed # NoOffsets =>
      \A p \in Partitions, i \in 1..MaxRecords :
        offsets[1][p] < i /\ i <= gauges.processed[p] => Settled(p, i)

(* The lag panel, end minus processed, covers the backlog: of the records  *)
(* the sidecar last saw, no more are unsettled than the panel shows, with  *)
(* two gauges that are as old as the last POST of either process.          *)
LagCoversBacklog ==
    gauges.processed # NoOffsets /\ gauges.end # NoOffsets =>
      \A p \in Partitions :
        LET backlog == { i \in 1..MaxRecords :
                           offsets[1][p] < i /\ i <= gauges.end[p] /\ ~Settled(p, i) }
        IN  backlog = {} \/ Cardinality(backlog) <= gauges.end[p] - gauges.processed[p]
=============================================================================
