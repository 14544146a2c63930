--------------------------- MODULE JobRefinement ----------------------------
(***************************************************************************)
(* PaymentsCdcJob implements LastWriterWins: a micro-batch, its crash and  *)
(* its replay are, seen from the table, moves of keys to later changes.    *)
(***************************************************************************)
EXTENDS PaymentsCdcJob

CONSTANT NoRow  \* no row of the table has the key

ASSUME NoRowAssumption == NoRow \notin Row

(* The change that defines a key is the one row the table has for it.      *)
RowFor(rows, k) == IF RowsOf(rows, k) = {} THEN NoRow
                   ELSE CHOOSE r \in RowsOf(rows, k) : TRUE

TableView == [k \in Txns |-> RowFor(table, k)]

(* The changes Kafka ever carried, as the rows the job decodes them to.    *)
Carried == UNION { { FlatRow(p, i) : i \in 1..Len(topic[p]) } : p \in Partitions }

View == INSTANCE LastWriterWins WITH
            Keys <- Txns, Changes <- Row, Unset <- NoRow,
            published <- Carried, view <- TableView

(* The job implements the last-writer-wins view, through every crash and   *)
(* replay: no step of process_batch shows a reader an older change, a      *)
(* change nobody published, or a key that lost its row.                    *)
ImplementsView == View!ViewSpec
=============================================================================
