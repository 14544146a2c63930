--------------------------- MODULE LastWriterWins ---------------------------
(***************************************************************************)
(* What the pipeline promises of the Delta table, without batches, crashes *)
(* or a ledger: a map from transaction ids to the change that currently    *)
(* defines the row.  Changes are published in any order; at any moment any *)
(* keys may move, each to a published change of its own with a strictly    *)
(* greater LSN.  A key never moves back and never becomes unset.           *)
(***************************************************************************)
EXTENDS Integers

CONSTANTS
    Keys,     \* transaction ids
    Changes,  \* changes, records with at least the fields txn and lsn
    Unset     \* a key no change has been applied to

VARIABLES
    published,  \* the changes the source has emitted
    view        \* the change that defines each key

viewVars == <<published, view>>

ViewInit ==
    /\ published = {}
    /\ view = [k \in Keys |-> Unset]

Emit ==
    /\ published \subseteq published'
    /\ published' \subseteq Changes
    /\ UNCHANGED view

Moves(k) ==
    /\ view'[k] \in published
    /\ view'[k].txn = k
    /\ view[k] # Unset => view'[k].lsn > view[k].lsn

Apply ==
    /\ view' = [k \in Keys |-> view'[k]]
    /\ \A k \in Keys : view'[k] = view[k] \/ Moves(k)
    /\ UNCHANGED published

ViewNext == Emit \/ Apply

ViewSpec == ViewInit /\ [][ViewNext]_viewVars
=============================================================================
