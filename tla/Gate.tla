-------------------------------- MODULE Gate --------------------------------
(***************************************************************************)
(* What stands between a Kafka batch and the Delta table, in the detail    *)
(* PaymentsCdcJob leaves out: deserialize_by_schema_id with its schema     *)
(* cache, the MerchantRegistry with its clock, and the rules of validate   *)
(* over SQL's three truth values.  One process, its batches one after the  *)
(* other; Postgres and the schema registry come and go.                    *)
(*                                                                         *)
(* Time is counted in ticks; the clock of the process never goes back.     *)
(***************************************************************************)
EXTENDS Integers, Sequences, FiniteSets

CONSTANTS
    Merchants,  \* merchant ids
    MerchantSets,  \* the contents the Postgres merchants table takes
    Null,       \* SQL's NULL
    SchemaIds,  \* ids the schema registry knows
    UnknownId,  \* an id it does not know
    Refresh,    \* MERCHANT_REFRESH_SECONDS, in ticks
    MaxTime     \* bound: ticks

ReasonNames == {"NEGATIVE_AMOUNT", "INVALID_CURRENCY", "INVALID_UUID", "UNKNOWN_MERCHANT"}

ASSUME GateAssumption ==
    /\ Null \notin Merchants /\ Null \notin BOOLEAN /\ Null \notin {"valid", "invalid"}
    /\ Null \notin ReasonNames /\ \A names \in SUBSET ReasonNames : Null # names
    /\ MerchantSets \subseteq SUBSET Merchants
    /\ UnknownId \notin SchemaIds
    /\ Refresh \in Nat \ {0} /\ MaxTime \in Nat

-----------------------------------------------------------------------------
(* SQL: a predicate is TRUE, FALSE or NULL.                                *)

SqlNot(a) == IF a = Null THEN Null ELSE ~a

SqlAnd(a, b) == IF a = FALSE \/ b = FALSE THEN FALSE
                ELSE IF a = Null \/ b = Null THEN Null ELSE TRUE

SqlOr(a, b) == IF a = TRUE \/ b = TRUE THEN TRUE
               ELSE IF a = Null \/ b = Null THEN Null ELSE FALSE

Coalesce(a, b) == IF a = Null THEN b ELSE a

(* A flattened row as the rules see it.  A column is NULL, or its value    *)
(* satisfies its rule, or it does not.  is_delete is NULL when op is.      *)
Column == {Null, "valid", "invalid"}
GateRow == [amount : Column, currency : Column, tid : Column,
            merchant : Merchants \cup {Null}, isDelete : BOOLEAN \cup {Null}]

Fails(column) == IF column = Null THEN Null ELSE column = "invalid"
IsIn(column, values) == IF column = Null THEN Null ELSE column \in values

(* F.when without otherwise: the reason if the condition is TRUE, and NULL *)
(* if it is FALSE or NULL.                                                 *)
When(condition, reason) == IF condition = TRUE THEN reason ELSE Null

RuleAmount(r, isDelete) ==
    When(SqlAnd(SqlNot(isDelete), Fails(r.amount)), "NEGATIVE_AMOUNT")

RuleCurrency(r, isDelete) ==
    When(SqlAnd(SqlNot(isDelete), Fails(r.currency)), "INVALID_CURRENCY")

RuleUuid(r) == When(SqlOr(r.tid = Null, Fails(r.tid)), "INVALID_UUID")

(* Mutant of RuleMerchant: no test for NULL.                               *)
MutMerchantNull(r, isDelete, ids) ==
    When(SqlAnd(SqlNot(isDelete), SqlNot(IsIn(r.merchant, ids))), "UNKNOWN_MERCHANT")

RuleMerchant(r, isDelete, ids) ==
    When(SqlAnd(SqlNot(isDelete),
                SqlOr(r.merchant = Null, SqlNot(IsIn(r.merchant, ids)))),
         "UNKNOWN_MERCHANT")

Reasons(r, ids) ==
    LET isDelete == Coalesce(r.isDelete, FALSE)
    IN  {RuleAmount(r, isDelete), RuleCurrency(r, isDelete), RuleUuid(r),
         RuleMerchant(r, isDelete, ids)}

(* concat_ws skips the arguments that are NULL; {} stands for "".          *)
RejectionReason(r, ids) == Reasons(r, ids) \ {Null}

(* filter keeps a row when its predicate is TRUE, not when it is NULL.     *)
IsValid(r, ids) == RejectionReason(r, ids) = {}
IsInvalid(r, ids) == RejectionReason(r, ids) \notin {{}, Null}

-----------------------------------------------------------------------------
VARIABLES
    now,          \* the clock
    pgMerchants,  \* Postgres: the merchants table
    pgUp,         \* Postgres answers
    seen,         \* history: the contents the table had in each tick
    srUp,         \* the schema registry answers
    merchantIds,  \* _merchant_ids, {} before the process has started
    loadedAt,     \* _loaded_at
    cache,        \* _schema_cache
    batch,        \* the batch the process works on
    called        \* history: the last merchants() and how it came about

world == <<now, pgMerchants, pgUp, seen, srUp>>
gateVars == <<world, merchantIds, loadedAt, cache, batch, called>>

(* A batch is the set of schema ids of its records, Null for a tombstone.  *)
NoBatch == [pc |-> "idle", ids |-> {}, todo |-> {}, frames |-> {}]
NoCall == [at |-> 0, answered |-> FALSE, ids |-> {}]

Running == merchantIds # {}
Readable == pgUp /\ pgMerchants # {}

GateInit ==
    /\ now = 0
    /\ pgMerchants \in MerchantSets
    /\ pgUp \in BOOLEAN
    /\ seen = [k \in {0} |-> {pgMerchants}]
    /\ srUp \in BOOLEAN
    /\ merchantIds = {}
    /\ loadedAt = 0
    /\ cache = {}
    /\ batch = NoBatch
    /\ called = NoCall

(* Time passes, and the services and the merchants table change.           *)
Tick ==
    /\ now < MaxTime
    /\ now' = now + 1
    /\ seen' = [k \in 0..(now + 1) |-> IF k <= now THEN seen[k] ELSE {pgMerchants}]
    /\ UNCHANGED <<pgMerchants, pgUp, srUp, merchantIds, loadedAt, cache, batch, called>>

Change ==
    /\ \/ /\ pgMerchants' \in MerchantSets \ {pgMerchants}
          /\ seen' = [seen EXCEPT ![now] = @ \cup {pgMerchants'}]
          /\ UNCHANGED <<pgUp, srUp>>
       \/ pgUp' = ~pgUp /\ UNCHANGED <<pgMerchants, seen, srUp>>
       \/ srUp' = ~srUp /\ UNCHANGED <<pgMerchants, seen, pgUp>>
    /\ UNCHANGED <<now, merchantIds, loadedAt, cache, batch, called>>

(* The process ends, for whatever reason, and forgets everything.          *)
Exit ==
    /\ merchantIds' = {}
    /\ loadedAt' = 0
    /\ cache' = {}
    /\ batch' = NoBatch
    /\ called' = NoCall
    /\ UNCHANGED world

(* MerchantRegistry(): a forced refresh; if it fails nothing starts.       *)
StartProcess ==
    /\ ~Running
    /\ Readable
    /\ merchantIds' = pgMerchants
    /\ loadedAt' = now
    /\ UNCHANGED <<world, cache, batch, called>>

(* A batch arrives: its distinct schema ids are collected.                 *)
TakeBatch ==
    /\ Running
    /\ batch.pc = "idle"
    /\ \E ids \in SUBSET (SchemaIds \cup {UnknownId, Null}) \ {{}} :
         batch' = [pc |-> "decode", ids |-> ids, todo |-> ids \ {Null}, frames |-> {}]
    /\ UNCHANGED <<world, merchantIds, loadedAt, cache, called>>

(* Mutant of DecodeGroup: a schema that cannot be fetched skips its group. *)
MutSkipGroup(id) ==
    /\ batch.pc = "decode" /\ id \in batch.todo
    /\ LET known == id \in cache \/ (srUp /\ id \in SchemaIds)
       IN  /\ cache' = IF known THEN cache \cup {id} ELSE cache
           /\ batch' = [batch EXCEPT !.todo = @ \ {id},
                                     !.frames = IF known THEN @ \cup {id} ELSE @]
    /\ UNCHANGED <<world, merchantIds, loadedAt, called>>

(* Mutant of DecodeGroup: the answer is cached before its status is looked *)
(* at.                                                                     *)
MutCacheUnchecked(id) ==
    /\ batch.pc = "decode" /\ id \in batch.todo
    /\ id \in cache \/ srUp
    /\ cache' = cache \cup {id}
    /\ batch' = [batch EXCEPT !.todo = @ \ {id}, !.frames = @ \cup {id}]
    /\ UNCHANGED <<world, merchantIds, loadedAt, called>>

(* One turn of the loop over the ids, in any order: schema_by_id from the  *)
(* cache or from the registry, then the group's rows are decoded.          *)
DecodeGroup(id) ==
    /\ batch.pc = "decode" /\ id \in batch.todo
    /\ id \in cache \/ (srUp /\ id \in SchemaIds)
    /\ cache' = cache \cup {id}
    /\ batch' = [batch EXCEPT !.todo = @ \ {id}, !.frames = @ \cup {id}]
    /\ UNCHANGED <<world, merchantIds, loadedAt, called>>

(* raise_for_status, or no connection: the batch fails and the driver      *)
(* exits.                                                                  *)
DecodeRaises(id) ==
    /\ batch.pc = "decode" /\ id \in batch.todo
    /\ id \notin cache
    /\ ~srUp \/ id \notin SchemaIds
    /\ Exit

(* A batch of tombstones is empty and is not validated.                    *)
Decoded ==
    /\ batch.pc = "decode" /\ batch.todo = {}
    /\ batch' = IF batch.frames = {} THEN NoBatch ELSE [batch EXCEPT !.pc = "validate"]
    /\ UNCHANGED <<world, merchantIds, loadedAt, cache, called>>

(* Mutant of ValidateBatch: a failed refresh counts as a refresh.          *)
MutStampAlways ==
    /\ batch.pc = "validate"
    /\ LET old == now - loadedAt >= Refresh
       IN  /\ merchantIds' = IF old /\ Readable THEN pgMerchants ELSE merchantIds
           /\ loadedAt' = IF old THEN now ELSE loadedAt
    /\ called' = [at |-> now, answered |-> Readable, ids |-> merchantIds']
    /\ batch' = NoBatch
    /\ UNCHANGED <<world, cache>>

(* validate(batch_df, merchants()): refresh() returns at once while the    *)
(* set is young; a read that fails or finds no row keeps the old set.      *)
ValidateBatch ==
    /\ batch.pc = "validate"
    /\ IF now - loadedAt >= Refresh /\ Readable
       THEN merchantIds' = pgMerchants /\ loadedAt' = now
       ELSE UNCHANGED <<merchantIds, loadedAt>>
    /\ called' = [at |-> now, answered |-> Readable, ids |-> merchantIds']
    /\ batch' = NoBatch
    /\ UNCHANGED <<world, cache>>

GateStep ==
    \/ StartProcess
    \/ TakeBatch
    \/ \E id \in SchemaIds \cup {UnknownId} : DecodeGroup(id) \/ DecodeRaises(id)
    \/ Decoded
    \/ ValidateBatch

GateNext == Tick \/ Change \/ GateStep \/ (Running /\ Exit)

GateSpec == GateInit /\ [][GateNext]_gateVars

-----------------------------------------------------------------------------
(* The shape of the state.                                                 *)
GateTypeOK ==
    /\ now \in 0..MaxTime
    /\ pgMerchants \subseteq Merchants /\ merchantIds \subseteq Merchants
    /\ pgUp \in BOOLEAN /\ srUp \in BOOLEAN
    /\ seen \in [0..now -> SUBSET SUBSET Merchants]
    /\ loadedAt \in 0..now
    /\ cache \subseteq SchemaIds
    /\ batch \in [pc : {"idle", "decode", "validate"},
                  ids : SUBSET (SchemaIds \cup {UnknownId, Null}),
                  todo : SUBSET (SchemaIds \cup {UnknownId}), frames : SUBSET SchemaIds]
    /\ called \in [at : 0..now, answered : BOOLEAN, ids : SUBSET Merchants]

(* The gate is the one PaymentsCdcJob assumes: with wellFormed read as     *)
(* "the uuid rule, and for anything but a delete the amount and currency   *)
(* rules, hold", a batch that reaches validate has exactly those rows      *)
(* admitted that Admissible admits, and exactly the others rejected; a     *)
(* delete is admitted, whatever its columns and the registry hold.         *)
WellFormed(r) == /\ r.tid = "valid"
                 /\ r.isDelete = TRUE \/ (r.amount # "invalid" /\ r.currency # "invalid")

EveryRowIsJudged ==
    \A ids \in SUBSET Merchants, r \in GateRow :
      LET admissible == WellFormed(r) /\ (r.isDelete = TRUE \/ r.merchant \in ids)
      IN  (IsValid(r, ids) <=> admissible) /\ (IsInvalid(r, ids) <=> ~admissible)

GateIsAdmissible == batch.pc = "validate" => EveryRowIsJudged

(* Bounded staleness: the set a batch was validated against is one that    *)
(* the merchants table had less than a refresh interval ago, unless        *)
(* Postgres was unreachable or its table empty when it was asked.          *)
RecentSet ==
    Running /\ called.answered =>
      \E k \in 0..called.at : k > called.at - Refresh /\ called.ids \in seen[k]

(* A batch is decoded as a whole: when it goes on to validation every      *)
(* record except the tombstones is in it, although each group needs a      *)
(* schema of its own and the registry may vanish between two of them.      *)
DecodedWhole == batch.pc = "validate" => batch.frames = batch.ids \ {Null}
=============================================================================
