----------------------------- MODULE MCCheckers -----------------------------
(***************************************************************************)
(* The two checkers beside the pipeline of MCPipeline.                     *)
(***************************************************************************)
EXTENDS MCPipeline, Checkers

(* The properties say nothing of a run that did not begin on a quiet       *)
(* pipeline or that Postgres changed under: it is not followed.            *)
WorthFollowing == check.pc = "idle" \/ check.quiet
OneFault == FaultsAtMost(1)
=============================================================================
