----------------------------- MODULE Gate_proofs -----------------------------
(***************************************************************************)
(* What holds of the gate for any merchants, schemas, refresh interval and *)
(* length of the run.                                                      *)
(***************************************************************************)
EXTENDS Gate, TLAPS

(* A reason is one of the four, or NULL.                                   *)
LEMMA ReasonsAreNamed ==
    ASSUME NEW ids \in SUBSET Merchants, NEW r \in GateRow
    PROVE  RejectionReason(r, ids) \in SUBSET ReasonNames
BY DEF RejectionReason, Reasons, RuleAmount, RuleCurrency, RuleUuid, RuleMerchant,
       When, ReasonNames

(* No row falls between the two filters of validate, and none passes both: *)
(* the reason of a row is never NULL.                                      *)
LEMMA RowsSplit ==
    ASSUME NEW ids \in SUBSET Merchants, NEW r \in GateRow
    PROVE  IsInvalid(r, ids) <=> ~IsValid(r, ids)
<1>1. RejectionReason(r, ids) # Null
  BY ReasonsAreNamed, GateAssumption
<1> QED
  BY <1>1 DEF IsValid, IsInvalid

-----------------------------------------------------------------------------
(* When a rule gives no reason.                                            *)
LEMMA IsDeleteCoalesced ==
    ASSUME NEW r \in GateRow
    PROVE  /\ Coalesce(r.isDelete, FALSE) \in BOOLEAN
           /\ Coalesce(r.isDelete, FALSE) = TRUE <=> r.isDelete = TRUE
BY GateAssumption DEF Coalesce, GateRow

LEMMA AmountPasses ==
    ASSUME NEW r \in GateRow, NEW isDelete \in BOOLEAN
    PROVE  RuleAmount(r, isDelete) = Null <=> isDelete \/ r.amount # "invalid"
BY GateAssumption DEF RuleAmount, When, SqlAnd, SqlNot, Fails, ReasonNames, GateRow, Column

LEMMA CurrencyPasses ==
    ASSUME NEW r \in GateRow, NEW isDelete \in BOOLEAN
    PROVE  RuleCurrency(r, isDelete) = Null <=> isDelete \/ r.currency # "invalid"
BY GateAssumption DEF RuleCurrency, When, SqlAnd, SqlNot, Fails, ReasonNames, GateRow, Column

LEMMA UuidPasses ==
    ASSUME NEW r \in GateRow
    PROVE  RuleUuid(r) = Null <=> r.tid = "valid"
BY GateAssumption DEF RuleUuid, When, SqlOr, Fails, ReasonNames, GateRow, Column

LEMMA MerchantPasses ==
    ASSUME NEW ids \in SUBSET Merchants, NEW r \in GateRow, NEW isDelete \in BOOLEAN
    PROVE  RuleMerchant(r, isDelete, ids) = Null <=> isDelete \/ r.merchant \in ids
<1> DEFINE unknown == SqlOr(r.merchant = Null, SqlNot(IsIn(r.merchant, ids)))
<1>1. CASE r.merchant = Null
  <2>1. unknown = TRUE
    BY <1>1 DEF SqlOr
  <2>2. r.merchant \notin ids
    BY <1>1, GateAssumption
  <2> QED
    BY <2>1, <2>2, GateAssumption DEF RuleMerchant, When, SqlAnd, SqlNot, ReasonNames
<1>2. CASE r.merchant \in ids
  <2>1. r.merchant # Null
    BY <1>2, GateAssumption
  <2>2. unknown = FALSE
    BY <1>2, <2>1, GateAssumption DEF SqlOr, SqlNot, IsIn
  <2> QED
    BY <1>2, <2>2, GateAssumption DEF RuleMerchant, When, SqlAnd, SqlNot
<1>3. CASE r.merchant \notin ids /\ r.merchant # Null
  <2>1. IsIn(r.merchant, ids) = FALSE
    BY <1>3 DEF IsIn
  <2>2. FALSE # Null
    BY GateAssumption
  <2>3. SqlNot(FALSE) = TRUE
    BY <2>2 DEF SqlNot
  <2>4. unknown = TRUE
    BY <2>1, <2>3 DEF SqlOr
  <2> QED
    BY <1>3, <2>4, GateAssumption DEF RuleMerchant, When, SqlAnd, SqlNot, ReasonNames
<1> QED
  BY <1>1, <1>2, <1>3

(* The four rules together are the Admissible of the job's model.          *)
LEMMA RowsAreJudged == EveryRowIsJudged
<1> SUFFICES ASSUME NEW ids \in SUBSET Merchants, NEW r \in GateRow
             PROVE  IsValid(r, ids)
                      <=> WellFormed(r) /\ (r.isDelete = TRUE \/ r.merchant \in ids)
  BY RowsSplit DEF EveryRowIsJudged
<1> DEFINE isDelete == Coalesce(r.isDelete, FALSE)
<1>1. isDelete \in BOOLEAN /\ (isDelete <=> r.isDelete = TRUE)
  BY IsDeleteCoalesced
<1>2. IsValid(r, ids) <=> /\ RuleAmount(r, isDelete) = Null
                          /\ RuleCurrency(r, isDelete) = Null
                          /\ RuleUuid(r) = Null
                          /\ RuleMerchant(r, isDelete, ids) = Null
  BY DEF IsValid, RejectionReason, Reasons
<1> HIDE DEF isDelete
<1> QED
  BY <1>1, <1>2, AmountPasses, CurrencyPasses, UuidPasses, MerchantPasses DEF WellFormed

(* So the gate admits what the job's model says, in every behaviour.       *)
THEOREM GateIsAlwaysAdmissible == GateSpec => []GateIsAdmissible
<1>1. GateIsAdmissible
  BY RowsAreJudged DEF GateIsAdmissible
<1> QED
  BY <1>1, PTL

-----------------------------------------------------------------------------
(* The shape of the state is inductive.                                    *)
LEMMA GateTypeInit == GateInit => GateTypeOK
<1> SUFFICES ASSUME GateInit PROVE GateTypeOK
  OBVIOUS
<1>1. pgMerchants \subseteq Merchants
  BY GateAssumption DEF GateInit
<1>2. seen \in [0..now -> SUBSET SUBSET Merchants]
  BY <1>1 DEF GateInit
<1> QED
  BY <1>1, <1>2, GateAssumption DEF GateInit, GateTypeOK, NoBatch, NoCall

LEMMA GateTypeNext == GateTypeOK /\ [GateNext]_gateVars => GateTypeOK'
<1> SUFFICES ASSUME GateTypeOK, [GateNext]_gateVars PROVE GateTypeOK'
  OBVIOUS
<1> USE GateAssumption
<1>1. CASE Tick
  <2>1. seen' \in [0..now' -> SUBSET SUBSET Merchants]
    BY <1>1 DEF Tick, GateTypeOK
  <2> QED
    BY <1>1, <2>1 DEF Tick, GateTypeOK
<1>2. CASE Change
  <2>1. CASE /\ pgMerchants' \in MerchantSets \ {pgMerchants}
             /\ seen' = [seen EXCEPT ![now] = @ \cup {pgMerchants'}]
             /\ UNCHANGED <<pgUp, srUp>>
    <3>1. pgMerchants' \subseteq Merchants
      BY <2>1
    <3>2. seen' \in [0..now -> SUBSET SUBSET Merchants]
      BY <2>1, <3>1 DEF GateTypeOK
    <3> QED
      BY <1>2, <2>1, <3>1, <3>2 DEF Change, GateTypeOK
  <2>2. CASE pgUp' = ~pgUp /\ UNCHANGED <<pgMerchants, seen, srUp>>
    BY <1>2, <2>2 DEF Change, GateTypeOK
  <2>3. CASE srUp' = ~srUp /\ UNCHANGED <<pgMerchants, seen, pgUp>>
    BY <1>2, <2>3 DEF Change, GateTypeOK
  <2> QED
    BY <1>2, <2>1, <2>2, <2>3 DEF Change
<1>3. CASE StartProcess
  BY <1>3 DEF StartProcess, GateTypeOK, world
<1>4. CASE TakeBatch
  BY <1>4 DEF TakeBatch, GateTypeOK, world
<1>5. ASSUME NEW id \in SchemaIds \cup {UnknownId}, DecodeGroup(id) PROVE GateTypeOK'
  <2>1. id \in SchemaIds
    BY <1>5 DEF DecodeGroup, GateTypeOK
  <2>2. /\ batch' = [batch EXCEPT !.todo = batch.todo \ {id},
                                  !.frames = batch.frames \cup {id}]
        /\ cache' = cache \cup {id}
        /\ UNCHANGED <<world, merchantIds, loadedAt, called>>
    BY <1>5 DEF DecodeGroup
  <2>3. batch' \in [pc : {"idle", "decode", "validate"},
                    ids : SUBSET (SchemaIds \cup {UnknownId, Null}),
                    todo : SUBSET (SchemaIds \cup {UnknownId}),
                    frames : SUBSET SchemaIds]
    <3>1. /\ batch.todo \ {id} \in SUBSET (SchemaIds \cup {UnknownId})
          /\ batch.frames \cup {id} \in SUBSET SchemaIds
      BY <2>1 DEF GateTypeOK
    <3> QED
      BY <2>2, <3>1 DEF GateTypeOK
  <2>4. cache' \subseteq SchemaIds
    BY <2>1, <2>2 DEF GateTypeOK
  <2> QED
    BY <2>2, <2>3, <2>4 DEF GateTypeOK, world
<1>6. CASE Exit
  BY <1>6 DEF Exit, GateTypeOK, world, NoBatch, NoCall
<1>7. CASE Decoded
  BY <1>7 DEF Decoded, GateTypeOK, world, NoBatch
<1>8. CASE ValidateBatch
  <2>1. called' \in [at : 0..now', answered : BOOLEAN, ids : SUBSET Merchants]
    BY <1>8 DEF ValidateBatch, GateTypeOK, world, Readable
  <2> QED
    BY <1>8, <2>1 DEF ValidateBatch, GateTypeOK, world, NoBatch
<1>9. CASE UNCHANGED gateVars
  BY <1>9 DEF gateVars, world, GateTypeOK
<1>10. ASSUME NEW id \in SchemaIds \cup {UnknownId}, DecodeRaises(id) PROVE GateTypeOK'
  BY <1>6, <1>10 DEF DecodeRaises
<1> QED
  BY <1>1, <1>2, <1>3, <1>4, <1>5, <1>6, <1>7, <1>8, <1>9, <1>10 DEF GateNext, GateStep

THEOREM GateTypeCorrect == GateSpec => []GateTypeOK
BY GateTypeInit, GateTypeNext, PTL DEF GateSpec

-----------------------------------------------------------------------------
(* What makes DecodedWhole inductive: the groups that are left and those   *)
(* that are decoded are all of them.                                       *)
GroupsAddUp ==
    /\ batch.pc # "idle" => batch.frames \cup batch.todo = batch.ids \ {Null}
    /\ batch.pc = "validate" => batch.todo = {}

(* Every record of a batch that reaches the rules was decoded, for any     *)
(* number of schemas and whatever becomes of the registry in between.      *)
THEOREM DecodedWholeAlways == GateSpec => []DecodedWhole
<1>1. GateInit => GroupsAddUp
  BY DEF GateInit, GroupsAddUp, NoBatch
<1>2. GateTypeOK /\ GroupsAddUp /\ [GateNext]_gateVars => GroupsAddUp'
  <2> SUFFICES ASSUME GateTypeOK, GroupsAddUp, [GateNext]_gateVars PROVE GroupsAddUp'
    OBVIOUS
  <2>1. CASE UNCHANGED batch
    BY <2>1 DEF GroupsAddUp
  <2>2. CASE batch' = NoBatch
    BY <2>2 DEF GroupsAddUp, NoBatch
  <2>3. CASE TakeBatch
    BY <2>3 DEF TakeBatch, GroupsAddUp
  <2>4. ASSUME NEW id \in SchemaIds \cup {UnknownId}, DecodeGroup(id)
        PROVE  GroupsAddUp'
    BY <2>4 DEF DecodeGroup, GroupsAddUp, GateTypeOK
  <2>5. CASE Decoded
    BY <2>5 DEF Decoded, GroupsAddUp, GateTypeOK, NoBatch
  <2> QED
    BY <2>1, <2>2, <2>3, <2>4, <2>5
       DEF GateNext, GateStep, DecodeRaises, Exit, Tick, Change, StartProcess,
           ValidateBatch, gateVars
<1>3. GroupsAddUp => DecodedWhole
  BY DEF GroupsAddUp, DecodedWhole
<1> QED
  BY <1>1, <1>2, <1>3, GateTypeCorrect, PTL DEF GateSpec

-----------------------------------------------------------------------------
(* What makes RecentSet inductive: the set in memory is one the table had  *)
(* when it was loaded, and every set the table ever had is on record.      *)
Recorded ==
    /\ pgMerchants \in seen[now]
    /\ Running => merchantIds \in seen[loadedAt]
    /\ batch.pc # "idle" => Running
    /\ called.answered =>
         \E k \in 0..called.at : k > called.at - Refresh /\ called.ids \in seen[k]

(* What the table was seen to hold stays on record.                        *)
LEMMA SeenGrows ==
    ASSUME GateTypeOK, [GateNext]_gateVars
    PROVE  /\ now' >= now
           /\ \A k \in 0..now : seen[k] \subseteq seen'[k]
<1>1. CASE Tick
  BY <1>1 DEF Tick, GateTypeOK
<1>2. CASE Change
  <2>1. \A k \in 0..now : seen[k] \subseteq seen'[k]
    BY <1>2 DEF Change, GateTypeOK
  <2> QED
    BY <1>2, <2>1 DEF Change, GateTypeOK
<1>3. CASE UNCHANGED world
  BY <1>3 DEF world, GateTypeOK
<1> QED
  BY <1>1, <1>2, <1>3
     DEF GateNext, GateStep, DecodeGroup, DecodeRaises, Exit, StartProcess, TakeBatch,
         Decoded, ValidateBatch, gateVars

(* A batch is never validated against a set of merchants that is older     *)
(* than the refresh interval while Postgres answers.                       *)
THEOREM RecentSetAlways == GateSpec => []RecentSet
<1>1. GateInit => Recorded
  BY DEF GateInit, Recorded, Running, NoCall, NoBatch
<1>2. GateTypeOK /\ GateTypeOK' /\ Recorded /\ [GateNext]_gateVars => Recorded'
  <2> SUFFICES ASSUME GateTypeOK, GateTypeOK', Recorded, [GateNext]_gateVars
               PROVE  Recorded'
    OBVIOUS
  <2>1. /\ now \in Nat /\ now' \in Nat /\ now' >= now
        /\ \A k \in 0..now : seen[k] \subseteq seen'[k]
    BY SeenGrows DEF GateTypeOK
  <2>2. pgMerchants' \in seen'[now']
    <3>1. CASE Tick
      BY <3>1 DEF Tick, GateTypeOK
    <3>2. CASE Change
      BY <3>2, <2>1 DEF Change, Recorded, GateTypeOK
    <3>3. CASE UNCHANGED world
      BY <3>3 DEF world, Recorded
    <3> QED
      BY <3>1, <3>2, <3>3
         DEF GateNext, GateStep, DecodeGroup, DecodeRaises, Exit, StartProcess,
             TakeBatch, Decoded, ValidateBatch, gateVars
  <2>3. Running' => merchantIds' \in seen'[loadedAt']
    <3>1. CASE UNCHANGED <<merchantIds, loadedAt>>
      BY <3>1, <2>1 DEF Running, Recorded, GateTypeOK
    <3>2. CASE merchantIds' = {}
      BY <3>2 DEF Running
    <3>3. CASE /\ merchantIds' = pgMerchants
               /\ loadedAt' = now
               /\ UNCHANGED world
      BY <3>3 DEF Recorded, world
    <3> QED
      BY <3>1, <3>2, <3>3
         DEF GateNext, GateStep, DecodeGroup, DecodeRaises, Exit, StartProcess,
             TakeBatch, Decoded, ValidateBatch, Tick, Change, gateVars
  <2>4. called'.answered =>
          \E k \in 0..called'.at :
            k > called'.at - Refresh /\ called'.ids \in seen'[k]
    <3>1. CASE UNCHANGED called
      BY <3>1, <2>1 DEF Recorded, GateTypeOK
    <3>2. CASE called' = NoCall
      BY <3>2 DEF NoCall
    <3>3. CASE ValidateBatch
      <4> SUFFICES ASSUME Readable
                   PROVE  \E k \in 0..now : /\ k > now - Refresh
                                            /\ merchantIds' \in seen[k]
        BY <3>3 DEF ValidateBatch, world
      <4>1. Refresh \in Nat \ {0}
        BY GateAssumption
      <4>2. CASE now - loadedAt >= Refresh
        <5>1. merchantIds' = pgMerchants
          BY <3>3, <4>2 DEF ValidateBatch
        <5>2. now \in 0..now /\ now > now - Refresh
          BY <4>1, <2>1
        <5> QED
          BY <5>1, <5>2 DEF Recorded
      <4>3. CASE ~(now - loadedAt >= Refresh)
        <5>1. merchantIds' = merchantIds
          BY <3>3, <4>3 DEF ValidateBatch
        <5>2. merchantIds \in seen[loadedAt]
          BY <3>3 DEF ValidateBatch, Recorded
        <5> QED
          BY <4>1, <4>3, <5>1, <5>2, <2>1 DEF GateTypeOK
      <4> QED
        BY <4>2, <4>3
    <3> QED
      BY <3>1, <3>2, <3>3
         DEF GateNext, GateStep, DecodeGroup, DecodeRaises, Exit, StartProcess,
             TakeBatch, Decoded, Tick, Change, gateVars
  <2>5. batch'.pc # "idle" => Running'
    <3>1. CASE UNCHANGED <<batch, merchantIds>>
      BY <3>1 DEF Recorded, Running
    <3>2. CASE batch' = NoBatch
      BY <3>2 DEF NoBatch
    <3>3. CASE StartProcess
      BY <3>3 DEF StartProcess, Running, Readable
    <3>4. CASE UNCHANGED merchantIds /\ (Running \/ batch.pc # "idle")
      BY <3>4 DEF Recorded, Running
    <3> QED
      BY <3>1, <3>2, <3>3, <3>4
         DEF GateNext, GateStep, DecodeGroup, DecodeRaises, Exit, TakeBatch, Decoded,
             ValidateBatch, Tick, Change, gateVars, Running
  <2> QED
    BY <2>2, <2>3, <2>4, <2>5 DEF Recorded
<1>3. Recorded => RecentSet
  BY DEF Recorded, RecentSet
<1> QED
  BY <1>1, <1>2, <1>3, GateTypeCorrect, PTL DEF GateSpec
=============================================================================
