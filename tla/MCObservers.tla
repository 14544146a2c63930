----------------------------- MODULE MCObservers -----------------------------
(***************************************************************************)
(* The instance of MCReplayOffsets, with its dashboards.                   *)
(***************************************************************************)
EXTENDS MCReplayOffsets, Observers
=============================================================================
