----------------------------- MODULE MCInjection -----------------------------
(***************************************************************************)
(* The two injectors on an almost empty pipeline: a suite of three tests,  *)
(* a bad row, a rogue record and a mixed batch.                            *)
(***************************************************************************)
EXTENDS MCPipeline, Injection

CONSTANTS t3, t4, ghost

MCRowOf == [t \in Txns |-> [merchant |-> IF t = t3 THEN ghost ELSE m1, status |-> paid,
                            wellFormed |-> t \notin {t1, t2}]]

MCTests == << [inPostgres |-> TRUE,  good |-> {},   bad |-> {t1}],
              [inPostgres |-> FALSE, good |-> {},   bad |-> {t2}],
              [inPostgres |-> TRUE,  good |-> {t4}, bad |-> {t3}] >>

MCInjectedEvents ==
    MCEvents \cup { RowEvent("c", t, RowOf[t], MaxChanges + 1) : t \in Txns }
             \cup { Late(op, t, n) : op \in {"c", "u", "d"}, t \in {IntraId, CrossId},
                                    n \in 1..3 }

MCEmptyTable == {[t \in Txns |-> absent]}

(* The hypothesis of OracleIsRight: this suite is as the script has it.    *)
ASSUME SuiteAssumption == FreshSuite
=============================================================================
