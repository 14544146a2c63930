------------------------------ MODULE LsnTable ------------------------------
(***************************************************************************)
(* The two pure algorithms that make a micro-batch safe to apply to the    *)
(* Delta table: dedup_latest and the MERGE of merge_batch, both in         *)
(* spark/jobs/payments_cdc_job.py.                                         *)
(*                                                                         *)
(* A row is a record with at least the fields                              *)
(*    txn     transaction_id, the business key                             *)
(*    lsn     the Postgres log sequence number of the change               *)
(*    offset  the offset of the Kafka record the row was decoded from.     *)
(* A batch and a table are sets of rows: nothing in the storage makes the  *)
(* key unique, so that a key owns one table row is a consequence of these  *)
(* two operators and is proved, never assumed.                             *)
(*                                                                         *)
(* The module declares no constant and no RECURSIVE operator: the proofs   *)
(* of PaymentsCdcJob_proofs hold for every set of rows.                    *)
(***************************************************************************)
EXTENDS Integers, FiniteSets

(* The rows of a set that carry one key.                                   *)
RowsOf(rows, txn) == { r \in rows : r.txn = txn }

(* Mutant of Precedes: row_number() orders by lsn ascending.               *)
MutAscending(r, s) == \/ r.lsn < s.lsn
                      \/ r.lsn = s.lsn /\ r.offset >= s.offset

(* row_number() orders by lsn descending, then by offset descending.       *)
(* r precedes or ties with s when no row order puts s strictly first.      *)
Precedes(r, s) == \/ r.lsn > s.lsn
                  \/ r.lsn = s.lsn /\ r.offset >= s.offset

(* Mutant of DedupLatest: the batch is merged as it came.                  *)
MutNoDedup(rows) == {rows}

(* dedup_latest: every result keeps exactly one row of each key, one that  *)
(* no other row of the key strictly precedes.  Rows of two partitions can  *)
(* tie on both columns: row_number() then picks either, which is why the   *)
(* operator yields the set of possible results.                            *)
DedupLatest(rows) ==
    { kept \in SUBSET rows :
        /\ \A r, s \in kept : r.txn = s.txn => r = s
        /\ \A r \in rows : \E s \in kept : s.txn = r.txn
        /\ \A s \in kept : \A r \in rows : r.txn = s.txn => Precedes(s, r) }

(* Mutant of Supersedes: the MERGE without its condition.                  *)
MutAnyMatch(staged, target) == staged.txn = target.txn

(* Mutant of Supersedes: the MERGE only inserts.                           *)
MutInsertOnly(staged, target) == FALSE

(* Mutant of Supersedes: >= where the code has >.                          *)
MutNotOlder(staged, target) == staged.txn = target.txn /\ staged.lsn >= target.lsn

(* The MERGE condition staged.lsn > target.lsn.                            *)
Supersedes(staged, target) == staged.txn = target.txn /\ staged.lsn > target.lsn

(* merge_batch: a target row with a superseding staged row is replaced by  *)
(* it, a target row without one is kept, and a staged row with no target   *)
(* row of its key is inserted.                                             *)
MergeInto(table, staged) ==
    { t \in table : \A s \in staged : ~Supersedes(s, t) }
        \cup { s \in staged : \E t \in table : Supersedes(s, t) }
        \cup { s \in staged : RowsOf(table, s.txn) = {} }

(* A key owns at most one row.                                             *)
OneRowPerKey(rows) == \A r, s \in rows : r.txn = s.txn => r = s

(* The table has seen a change at least as recent as r.                    *)
UpToDate(table, r) == \E t \in table : t.txn = r.txn /\ t.lsn >= r.lsn

(* No row of old was lost: it is still there, or a strictly later change   *)
(* of its key took its place.                                              *)
Advances(old, new) ==
    \A t \in old : \E u \in new : u.txn = t.txn /\ (u = t \/ u.lsn > t.lsn)
=============================================================================
