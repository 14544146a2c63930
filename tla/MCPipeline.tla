----------------------------- MODULE MCPipeline -----------------------------
(***************************************************************************)
(* The pipeline on a small database.                                       *)
(***************************************************************************)
EXTENDS Pipeline, TLC

CONSTANTS driver, t1, t2, m1, m2, paid, pending, null, absent

(* Every event the source can emit.                                        *)
MCEvents ==
    { RowEvent(op, t, image, n) : op \in {"c", "u", "r"}, t \in Txns,
                                  n \in 0..MaxChanges, image \in Image }
    \cup { DeleteEvent(t, n) : t \in Txns, n \in 0..MaxChanges }
    \cup { TombstoneOf(DeleteEvent(t, n)) : t \in Txns, n \in 0..MaxChanges }

(* Crashes, kills of the connector and expiries, in any mixture, but few   *)
(* in one behaviour, and fewer once the log is full.  What is cut off is   *)
(* a fault or a change, neither of which any fairness promises.            *)
FaultsAtMost(n) == crashes + restarts + head[1] <= n
FewFaults == FaultsAtMost(IF lsn < MaxChanges THEN 2 ELSE 1)

MCPartitionOf == [t \in Txns |-> 1]
Paid(m) == [merchant |-> m, status |-> paid, wellFormed |-> TRUE]
MCLoadedTables == {[t \in Txns |-> IF t = t1 THEN Paid(m1) ELSE absent]}
MCTwoTables == { [t \in Txns |-> IF t = t1 THEN Paid(m) ELSE absent] : m \in Merchants }

MCMerchantSets == {{m1}}
MCChangingMerchantSets == {{m1}, {m1, m2}}
=============================================================================
