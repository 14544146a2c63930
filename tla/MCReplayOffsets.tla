-------------------------- MODULE MCReplayOffsets ---------------------------
(***************************************************************************)
(* The driver and one replay harness on a topic of two records.            *)
(***************************************************************************)
EXTENDS ReplayOffsets

CONSTANTS driver, harness, t1, m1, m2, paid, null

Change(lsn, op, merchant) ==
    [txn |-> t1, lsn |-> lsn, op |-> op, merchant |-> merchant, status |-> paid,
     wellFormed |-> TRUE, schema |-> "known"]

(* Two changes share an LSN, as a re-published record with another value   *)
(* does: only the strict comparison keeps a replay of either from changing *)
(* the table.                                                              *)
MCEvents == {Change(1, "c", m1), Change(2, "u", m2), Change(2, "d", null)}
MCMerchantSets == {{m2}, {m1, m2}}

(* For the run with the dashboards: every order and value of the valid     *)
(* changes, and one of an unknown merchant.                                *)
MCFewEvents == {Change(1, "c", m2), Change(2, "u", m2), Change(2, "d", null),
                Change(2, "u", m1)}
MCOneMerchantSet == {{m2}}
=============================================================================
