-------------------------- MODULE MCPaymentsCdcJob --------------------------
(***************************************************************************)
(* The instance of PaymentsCdcJob that TLC checks: one transaction with a  *)
(* create, a late update and a delete, an update to an invalid value, and  *)
(* the tombstone Debezium emits after a delete.                            *)
(***************************************************************************)
EXTENDS JobRefinement

CONSTANTS driver, t1, t2, m1, m2, paid, null

Change(txn, lsn, op, merchant, wellFormed) ==
    [txn |-> txn, lsn |-> lsn, op |-> op, merchant |-> merchant, status |-> paid,
     wellFormed |-> wellFormed, schema |-> "known"]

Create1   == Change(t1, 1, "c", m1, TRUE)
Update1   == Change(t1, 2, "u", m2, TRUE)
BadValue1 == Change(t1, 2, "u", m2, FALSE)
Delete1   == Change(t1, 3, "d", null, TRUE)
Tombstone1 == [Delete1 EXCEPT !.schema = "none"]
Unknown1  == [Create1 EXCEPT !.schema = "unknown"]

MCEvents == {Create1, Update1, BadValue1, Delete1, Tombstone1, Unknown1}
MCLiveEvents == {Create1, BadValue1, Delete1, Tombstone1}

(* The instance with two partitions: one key's records in both, as when a  *)
(* script publishes with a key of its own, two different changes with the  *)
(* same LSN and a late one.                                                *)
Rival1  == Change(t1, 2, "u", m1, TRUE)
Create2 == Change(t2, 1, "c", m1, TRUE)
MCRivalEvents == {Create1, Update1, Rival1, Create2}
MCRivalMerchantSets == {{m1, m2}}

(* m1 comes and goes; m2 is always known.                                  *)
MCMerchantSets == {{}, {m2}, {m1, m2}}
MCLiveMerchantSets == {{m2}, {m1, m2}}
=============================================================================
