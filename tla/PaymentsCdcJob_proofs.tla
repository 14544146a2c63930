----------------------- MODULE PaymentsCdcJob_proofs ------------------------
(***************************************************************************)
(* The safety properties of PaymentsCdcJob, proved for every set of        *)
(* partitions, transactions, events and merchants and for every bound.     *)
(***************************************************************************)
EXTENDS PaymentsCdcJob, TLAPS

-----------------------------------------------------------------------------
(* What dedup_latest and the MERGE guarantee, for every table and batch.   *)

(* dedup_latest invents no row, keeps one row of each key, and the row it  *)
(* keeps is at least as recent as any other of its key.                    *)
LEMMA DedupLatestKeepsTheLatest ==
    ASSUME NEW rows, \A r \in rows : r.lsn \in Int,
           NEW kept \in DedupLatest(rows)
    PROVE  /\ kept \subseteq rows
           /\ OneRowPerKey(kept)
           /\ \A r \in rows : UpToDate(kept, r)
<1>1. kept \subseteq rows /\ OneRowPerKey(kept)
    BY DEF DedupLatest, OneRowPerKey
<1>2. ASSUME NEW r \in rows PROVE UpToDate(kept, r)
    <2>1. PICK s \in kept : s.txn = r.txn
        BY DEF DedupLatest
    <2>2. Precedes(s, r)
        BY <2>1 DEF DedupLatest
    <2>3. s.lsn >= r.lsn
        BY <1>1, <2>2 DEF Precedes
    <2> QED BY <2>1, <2>3 DEF UpToDate
<1> QED BY <1>1, <1>2

(* Every row a MERGE leaves behind was in the table or in the batch.       *)
LEMMA MergeInventsNothing ==
    ASSUME NEW target, NEW staged
    PROVE  MergeInto(target, staged) \subseteq target \cup staged
BY DEF MergeInto

(* The LSN guard: a MERGE keeps each row or replaces it by a strictly      *)
(* later change of its key.                                                *)
LEMMA MergeAdvances ==
    ASSUME NEW target, NEW staged
    PROVE  Advances(target, MergeInto(target, staged))
BY DEF Advances, MergeInto, Supersedes

(* A deduplicated batch merged into a table with one row per key leaves    *)
(* one row per key.                                                        *)
LEMMA MergeKeepsOneRowPerKey ==
    ASSUME NEW target, NEW staged, OneRowPerKey(target), OneRowPerKey(staged)
    PROVE  OneRowPerKey(MergeInto(target, staged))
<1> SUFFICES ASSUME NEW r \in MergeInto(target, staged),
                    NEW s \in MergeInto(target, staged), r.txn = s.txn
             PROVE  r = s
    BY DEF OneRowPerKey
<1> DEFINE Kept(t) == t \in target /\ \A u \in staged : ~Supersedes(u, t)
           Fresh(t) == /\ t \in staged
                       /\ \/ \E u \in target : Supersedes(t, u)
                          \/ RowsOf(target, t.txn) = {}
<1>1. /\ Kept(r) \/ Fresh(r)
      /\ Kept(s) \/ Fresh(s)
    BY DEF MergeInto
<1>2. ASSUME NEW t, NEW u, Kept(t), Fresh(u), t.txn = u.txn PROVE FALSE
    <2>1. t \in RowsOf(target, u.txn)
        BY <1>2 DEF RowsOf
    <2>2. PICK v \in target : Supersedes(u, v)
        BY <1>2, <2>1
    <2>3. v = t
        BY <1>2, <2>2 DEF Supersedes, OneRowPerKey
    <2> QED BY <1>2, <2>2, <2>3
<1>3. CASE Kept(r) /\ Kept(s)
    BY <1>3 DEF OneRowPerKey
<1>4. CASE Fresh(r) /\ Fresh(s)
    BY <1>4 DEF OneRowPerKey
<1> HIDE DEF Kept, Fresh
<1> QED BY <1>1, <1>2, <1>3, <1>4

(* After the MERGE the table is up to date with every row of the batch:    *)
(* with the row itself or with a later change it already had.              *)
LEMMA MergeIsUpToDate ==
    ASSUME NEW target, NEW staged, NEW s \in staged,
           \A r \in target \cup staged : r.lsn \in Int
    PROVE  UpToDate(MergeInto(target, staged), s)
<1>1. CASE RowsOf(target, s.txn) = {}
    <2>1. s \in MergeInto(target, staged)
        BY <1>1 DEF MergeInto
    <2> QED BY <2>1 DEF UpToDate
<1>2. CASE \E t \in target : Supersedes(s, t)
    <2>1. s \in MergeInto(target, staged)
        BY <1>2 DEF MergeInto
    <2> QED BY <2>1 DEF UpToDate
<1>3. CASE RowsOf(target, s.txn) # {} /\ \A t \in target : ~Supersedes(s, t)
    <2>1. PICK t \in target : t.txn = s.txn
        BY <1>3 DEF RowsOf
    <2>2. t.lsn >= s.lsn
        BY <1>3, <2>1 DEF Supersedes
    <2>3. PICK u \in MergeInto(target, staged) :
              u.txn = t.txn /\ (u = t \/ u.lsn > t.lsn)
        BY MergeAdvances DEF Advances
    <2>4. u.lsn \in Int
        BY <2>3, MergeInventsNothing
    <2>5. u.lsn >= s.lsn
        BY <2>2, <2>3, <2>4
    <2> QED BY <2>1, <2>3, <2>5 DEF UpToDate
<1> QED BY <1>1, <1>2, <1>3

(* What a table is up to date with, a table it advanced to is up to date   *)
(* with.                                                                   *)
LEMMA UpToDateIsStable ==
    ASSUME NEW old, NEW new, Advances(old, new),
           \A r \in old \cup new : r.lsn \in Int,
           NEW r, r.lsn \in Int, UpToDate(old, r)
    PROVE  UpToDate(new, r)
<1>1. PICK t \in old : t.txn = r.txn /\ t.lsn >= r.lsn
    BY DEF UpToDate
<1>2. PICK u \in new : u.txn = t.txn /\ (u = t \/ u.lsn > t.lsn)
    BY DEF Advances
<1>3. u.lsn >= r.lsn
    BY <1>1, <1>2
<1> QED BY <1>1, <1>2, <1>3 DEF UpToDate

(* A MERGE of rows the table is already up to date with changes nothing:   *)
(* the strict comparison makes a replay a no-op.                           *)
LEMMA MergeOfOldRowsIsNoop ==
    ASSUME NEW target, NEW staged, OneRowPerKey(target),
           \A r \in target \cup staged : r.lsn \in Int,
           \A s \in staged : UpToDate(target, s)
    PROVE  MergeInto(target, staged) = target
<1>1. ASSUME NEW s \in staged, NEW t \in target PROVE ~Supersedes(s, t)
    <2>1. PICK u \in target : u.txn = s.txn /\ u.lsn >= s.lsn
        BY DEF UpToDate
    <2>2. s.txn = t.txn => u = t
        BY <2>1 DEF OneRowPerKey
    <2> QED BY <2>1, <2>2 DEF Supersedes
<1>2. ASSUME NEW s \in staged PROVE RowsOf(target, s.txn) # {}
    BY DEF UpToDate, RowsOf
<1> QED BY <1>1, <1>2 DEF MergeInto

(* The same for the batch that was staged, whatever deduplication kept.    *)
LEMMA MergedIsUpToDate ==
    ASSUME NEW target, target \subseteq Row, NEW valid, valid \subseteq Row,
           NEW staged \in DedupLatest(valid), NEW r \in valid
    PROVE  UpToDate(MergeInto(target, staged), r)
<1>1. \A s \in target \cup valid : s.lsn \in Int
    BY DEF Row
<1>2. staged \subseteq valid /\ UpToDate(staged, r)
    BY <1>1, DedupLatestKeepsTheLatest
<1>3. PICK s \in staged : s.txn = r.txn /\ s.lsn >= r.lsn
    BY <1>2 DEF UpToDate
<1>4. UpToDate(MergeInto(target, staged), s)
    BY <1>1, <1>2, MergeIsUpToDate
<1>5. PICK t \in MergeInto(target, staged) : t.txn = s.txn /\ t.lsn >= s.lsn
    BY <1>4 DEF UpToDate
<1>6. t \in target \cup valid
    BY <1>2, <1>5, MergeInventsNothing
<1>7. t.txn = r.txn /\ t.lsn >= r.lsn
    BY <1>1, <1>2, <1>3, <1>5, <1>6
<1> QED BY <1>5, <1>7 DEF UpToDate

-----------------------------------------------------------------------------
(* Types.                                                                  *)

(* The positions that hold a record.                                       *)
Published(p, i) == p \in Partitions /\ i \in 1..Len(topic[p])

(* A published record decodes to a row.                                    *)
LEMMA FlatRowType ==
    ASSUME TypeOK, NEW p, NEW i, Published(p, i)
    PROVE  /\ FlatRow(p, i) \in Row
           /\ FlatRow(p, i).partition = p
           /\ FlatRow(p, i).offset = i
<1>1. topic[p][i] \in Event
    BY DEF TypeOK, Published
<1> QED BY <1>1 DEF FlatRow, Row, Event, Published

LEMMA DeserializedType ==
    ASSUME TypeOK, NEW positions,
           \A pos \in positions : Published(pos[1], pos[2])
    PROVE  Deserialized(positions) \subseteq Row
BY FlatRowType DEF Deserialized

LEMMA FetchedPublished ==
    ASSUME NEW b, TypeOK
    PROVE  \A pos \in Fetched(b) : Published(pos[1], pos[2])
BY BoundsAssumption DEF Fetched, Retained, Published, TypeOK

LEMMA FrameType ==
    /\ Idle \in Frame
    /\ Returned \in Frame
    /\ \A f \in Frame, s \in Steps : [f EXCEPT !.pc = s] \in Frame
    /\ \A f \in Frame, s \in Steps, v \in SUBSET Row :
         /\ [f EXCEPT !.pc = s, !.valid = v] \in Frame
         /\ [f EXCEPT !.pc = s, !.base = v] \in Frame
    /\ \A f \in Frame : /\ f.pc \in Steps
                        /\ f.id \in Nat
                        /\ f.rows \subseteq Row
                        /\ f.valid \subseteq Row
<1>1. Idle \in Frame /\ Returned \in Frame
    BY DEF Idle, Returned, Frame, Steps
<1>2. \A f \in Frame, s \in Steps : [f EXCEPT !.pc = s] \in Frame
    BY DEF Frame
<1>3. \A f \in Frame, s \in Steps, v \in SUBSET Row :
         /\ [f EXCEPT !.pc = s, !.valid = v] \in Frame
         /\ [f EXCEPT !.pc = s, !.base = v] \in Frame
    BY DEF Frame
<1>4. \A f \in Frame : /\ f.pc \in Steps
                        /\ f.id \in Nat
                        /\ f.rows \subseteq Row
                        /\ f.valid \subseteq Row
    BY DEF Frame
<1> QED BY <1>1, <1>2, <1>3, <1>4

LEMMA EnteredType ==
    ASSUME NEW id \in Nat, NEW commit \in BOOLEAN, NEW rows \in SUBSET Row
    PROVE  [Idle EXCEPT !.pc = "check", !.id = id,
                        !.commit = commit, !.rows = rows] \in Frame
BY DEF Idle, Frame, Steps

(* Each action of the handler leaves a frame in its caller's slot.         *)
LEMMA CallType ==
    ASSUME TypeOK, NEW c \in Callers, ProcessBatch(c) \/ Failure(c)
    PROVE  call' \in [Callers -> Frame]
<1>1. call \in [Callers -> Frame] /\ call[c] \in Frame /\ table \subseteq Row
    BY DEF TypeOK
<1>2. ASSUME NEW f \in Frame, call' = [call EXCEPT ![c] = f]
      PROVE  call' \in [Callers -> Frame]
    BY <1>1, <1>2
<1>3. ASSUME NEW s \in Steps, Goto(c, s) PROVE call' \in [Callers -> Frame]
    BY <1>1, <1>3, <1>2, FrameType DEF Goto
<1>4. CASE CheckLedger(c)
    BY <1>2, <1>3, <1>4, FrameType DEF CheckLedger, Steps
<1>5. CASE Validate(c)
    <2>1. PICK m : call' = [call EXCEPT ![c].pc = "dlq",
                                ![c].valid = { r \in call[c].rows : Admissible(r, m) }]
        BY <1>5 DEF Validate
    <2> DEFINE v == { r \in call[c].rows : Admissible(r, m) }
    <2>2. v \in SUBSET Row
        BY <1>1, FrameType
    <2>3. call' = [call EXCEPT ![c] = [call[c] EXCEPT !.pc = "dlq", !.valid = v]]
        BY <2>1
    <2> HIDE DEF v
    <2>4. [call[c] EXCEPT !.pc = "dlq", !.valid = v] \in Frame
        BY <1>1, <2>2, FrameType DEF Steps
    <2> QED BY <1>2, <2>3, <2>4
<1>6. CASE WriteDlq(c)
    BY <1>3, <1>6 DEF WriteDlq, Steps
<1>7. CASE MergeBegin(c)
    <2>1. CASE Goto(c, "ledger")
        BY <1>3, <2>1 DEF Steps
    <2>2. CASE call' = [call EXCEPT ![c].pc = "commit", ![c].base = table]
        <3>1. call' = [call EXCEPT ![c] = [call[c] EXCEPT !.pc = "commit", !.base = table]]
            BY <2>2
        <3>2. [call[c] EXCEPT !.pc = "commit", !.base = table] \in Frame
            BY <1>1, FrameType DEF Steps
        <3> QED BY <1>2, <3>1, <3>2
    <2> QED BY <1>7, <2>1, <2>2 DEF MergeBegin
<1>8. CASE MergeCommit(c)
    <2>1. call' = [call EXCEPT ![c] = [call[c] EXCEPT !.pc = "ledger", !.base = {}]]
        BY <1>8 DEF MergeCommit
    <2>2. [call[c] EXCEPT !.pc = "ledger", !.base = {}] \in Frame
        BY <1>1, FrameType DEF Steps
    <2> QED BY <1>2, <2>1, <2>2
<1>9. CASE CommitLedger(c)
    BY <1>3, <1>9 DEF CommitLedger, Steps
<1>10. CASE EmitMetrics(c)
    BY <1>2, <1>10, FrameType DEF EmitMetrics
<1>11. CASE ValidateRaises(c) \/ MergeConflict(c) \/ Failure(c)
    BY <1>2, <1>11, FrameType
       DEF ValidateRaises, MergeConflict, Failure, Crash, WriteDlqTorn, Stop
<1> QED BY <1>4, <1>5, <1>6, <1>7, <1>8, <1>9, <1>10, <1>11
       DEF ProcessBatch, TryValidate, TryCommit

(* How a handler step treats the frame of its caller: the process stops,   *)
(* the call returns, or it goes on with the same batch.                    *)
Active == Steps \ {"idle", "returned"}

Returns(c) ==
    /\ call[c].pc \in Active
    /\ up' = up
    /\ call' = [call EXCEPT ![c] = Returned]

Continues(c) ==
    /\ call[c].pc \in Active
    /\ up' = up
    /\ \A d \in Callers \ {c} : call'[d] = call[d]
    /\ call'[c].pc \in Active
    /\ call'[c].id = call[c].id
    /\ call'[c].commit = call[c].commit
    /\ call'[c].rows = call[c].rows

LEMMA FrameFields ==
    /\ \A f \in Frame, s \in Steps :
         LET g == [f EXCEPT !.pc = s]
         IN  /\ g.pc = s /\ g.id = f.id /\ g.commit = f.commit
             /\ g.rows = f.rows /\ g.valid = f.valid /\ g.base = f.base
    /\ \A f \in Frame, s \in Steps, v \in SUBSET Row :
         LET g == [f EXCEPT !.pc = s, !.valid = v]
         IN  /\ g.pc = s /\ g.id = f.id /\ g.commit = f.commit
             /\ g.rows = f.rows /\ g.valid = v /\ g.base = f.base
    /\ \A f \in Frame, s \in Steps, v \in SUBSET Row :
         LET g == [f EXCEPT !.pc = s, !.base = v]
         IN  /\ g.pc = s /\ g.id = f.id /\ g.commit = f.commit
             /\ g.rows = f.rows /\ g.valid = f.valid /\ g.base = v
BY DEF Frame

LEMMA GotoContinues ==
    ASSUME TypeOK, NEW c \in Callers, NEW s \in Active, Goto(c, s), up' = up,
           call[c].pc \in Active
    PROVE  /\ Continues(c)
           /\ call'[c].pc = s
           /\ call'[c].valid = call[c].valid
           /\ call'[c].base = call[c].base
<1>1. call \in [Callers -> Frame] /\ call[c] \in Frame /\ s \in Steps
    BY DEF TypeOK, Active
<1>2. /\ call'[c] = [call[c] EXCEPT !.pc = s]
      /\ \A d \in Callers \ {c} : call'[d] = call[d]
    BY <1>1 DEF Goto
<1> QED BY <1>1, <1>2, FrameFields DEF Continues

LEMMA HandlerShape ==
    ASSUME TypeOK, NEW c \in Callers, ProcessBatch(c)
    PROVE  Stop(c) \/ Returns(c) \/ Continues(c)
<1>1. call \in [Callers -> Frame] /\ call[c] \in Frame /\ table \subseteq Row
    BY DEF TypeOK
<1>2. CASE CheckLedger(c)
    BY <1>2, GotoContinues DEF CheckLedger, Returns, Active, Steps
<1>3. CASE Validate(c)
    <2>1. PICK m : call' = [call EXCEPT ![c].pc = "dlq",
                                ![c].valid = { r \in call[c].rows : Admissible(r, m) }]
        BY <1>3 DEF Validate
    <2> DEFINE v == { r \in call[c].rows : Admissible(r, m) }
    <2>2. v \in SUBSET Row
        BY <1>1, FrameType
    <2>3. /\ call'[c] = [call[c] EXCEPT !.pc = "dlq", !.valid = v]
          /\ \A d \in Callers \ {c} : call'[d] = call[d]
        BY <1>1, <2>1
    <2> HIDE DEF v
    <2>4. up' = up /\ call[c].pc = "validate"
        BY <1>3 DEF Validate
    <2> QED BY <1>1, <2>2, <2>3, <2>4, FrameFields DEF Continues, Active, Steps
<1>4. CASE WriteDlq(c)
    BY <1>4, GotoContinues DEF WriteDlq, Active, Steps
<1>5. CASE MergeBegin(c)
    <2>1. up' = up /\ call[c].pc = "merge"
        BY <1>5 DEF MergeBegin
    <2>2. CASE Goto(c, "ledger")
        BY <2>1, <2>2, GotoContinues DEF Active, Steps
    <2>3. CASE call' = [call EXCEPT ![c].pc = "commit", ![c].base = table]
        <3>1. /\ call'[c] = [call[c] EXCEPT !.pc = "commit", !.base = table]
              /\ \A d \in Callers \ {c} : call'[d] = call[d]
            BY <1>1, <2>3
        <3> QED BY <1>1, <2>1, <3>1, FrameFields DEF Continues, Active, Steps
    <2> QED BY <1>5, <2>2, <2>3 DEF MergeBegin
<1>6. CASE MergeCommit(c)
    <2>1. /\ call'[c] = [call[c] EXCEPT !.pc = "ledger", !.base = {}]
          /\ \A d \in Callers \ {c} : call'[d] = call[d]
          /\ up' = up /\ call[c].pc = "commit"
        BY <1>1, <1>6 DEF MergeCommit
    <2> QED BY <1>1, <2>1, FrameFields DEF Continues, Active, Steps
<1>7. CASE CommitLedger(c)
    BY <1>7, GotoContinues DEF CommitLedger, Active, Steps
<1>8. CASE EmitMetrics(c)
    BY <1>8 DEF EmitMetrics, Returns, Active, Steps
<1>9. CASE ValidateRaises(c) \/ MergeConflict(c)
    BY <1>9 DEF ValidateRaises, MergeConflict
<1> QED BY <1>2, <1>3, <1>4, <1>5, <1>6, <1>7, <1>8, <1>9
       DEF ProcessBatch, TryValidate, TryCommit

(* What a handler step leaves in the frame of its caller: the rows of the  *)
(* batch with those that passed the gate, or nothing.                      *)
LEMMA HandlerRows ==
    ASSUME TypeOK, NEW c \in Callers, ProcessBatch(c) \/ Failure(c)
    PROVE  \/ call'[c].rows = {} /\ call'[c].valid = {}
           \/ /\ call'[c].rows = call[c].rows
              /\ \/ call'[c].valid = call[c].valid
                 \/ \E m \in {registry[c], pgMerchants} \ {{}} :
                      call'[c].valid = { r \in call[c].rows : Admissible(r, m) }
<1>1. call \in [Callers -> Frame] /\ call[c] \in Frame
    BY DEF TypeOK
<1>2. ASSUME NEW s \in Active, Goto(c, s), up' = up, call[c].pc \in Active
      PROVE  call'[c].rows = call[c].rows /\ call'[c].valid = call[c].valid
    BY <1>2, GotoContinues DEF Continues
<1>3. ASSUME call'[c] \in {Idle, Returned}
      PROVE  call'[c].rows = {} /\ call'[c].valid = {}
    BY <1>3 DEF Idle, Returned
<1>4. CASE CheckLedger(c)
    BY <1>1, <1>2, <1>3, <1>4 DEF CheckLedger, Active, Steps
<1>5. CASE Validate(c)
    <2>1. PICK m \in {registry[c], pgMerchants} \ {{}} :
              call' = [call EXCEPT ![c].pc = "dlq",
                                   ![c].valid = { r \in call[c].rows : Admissible(r, m) }]
        BY <1>5 DEF Validate
    <2> DEFINE v == { r \in call[c].rows : Admissible(r, m) }
    <2>2. v \in SUBSET Row
        BY <1>1, FrameType
    <2>3. call'[c] = [call[c] EXCEPT !.pc = "dlq", !.valid = v]
        BY <1>1, <2>1
    <2> HIDE DEF v
    <2>4. call'[c].rows = call[c].rows /\ call'[c].valid = v
        BY <1>1, <2>2, <2>3, FrameFields DEF Steps
    <2> QED BY <2>4 DEF v
<1>6. CASE WriteDlq(c)
    BY <1>2, <1>6 DEF WriteDlq, Active, Steps
<1>7. CASE MergeBegin(c)
    <2>1. CASE Goto(c, "ledger")
        BY <1>2, <1>7, <2>1 DEF MergeBegin, Active, Steps
    <2>2. CASE call' = [call EXCEPT ![c].pc = "commit", ![c].base = table]
        <3>1. call'[c] = [call[c] EXCEPT !.pc = "commit", !.base = table]
            BY <1>1, <2>2
        <3> QED BY <1>1, <3>1, FrameFields DEF TypeOK, Steps
    <2> QED BY <1>7, <2>1, <2>2 DEF MergeBegin
<1>8. CASE MergeCommit(c)
    <2>1. call'[c] = [call[c] EXCEPT !.pc = "ledger", !.base = {}]
        BY <1>1, <1>8 DEF MergeCommit
    <2> QED BY <1>1, <2>1, FrameFields DEF Steps
<1>9. CASE CommitLedger(c)
    BY <1>2, <1>9 DEF CommitLedger, Active, Steps
<1>10. CASE EmitMetrics(c) \/ ValidateRaises(c) \/ MergeConflict(c) \/ Failure(c)
    <2>1. call'[c] \in {Idle, Returned}
        BY <1>1, <1>10
           DEF EmitMetrics, ValidateRaises, MergeConflict, Failure, Crash,
               WriteDlqTorn, Stop
    <2> QED BY <1>3, <2>1
<1> QED BY <1>4, <1>5, <1>6, <1>7, <1>8, <1>9, <1>10 DEF ProcessBatch, TryValidate, TryCommit

(* The driver's place in the checkpoint: it has one as soon as it runs,    *)
(* and while a call is under way, its batch is the one planned beyond the  *)
(* commit log.                                                             *)
DriverPlace ==
    /\ Driver \in up => offsets # <<>>
    /\ call[Driver].pc # "idle" => Driver \in up /\ Planned = acked + 1
    /\ call[Driver].pc \in Active => call[Driver].id = acked /\ call[Driver].commit

(* What a handler step may write.                                          *)
LEMMA HandlerWrites ==
    ASSUME TypeOK, NEW c \in Callers, ProcessBatch(c) \/ Failure(c)
    PROVE  /\ UNCHANGED <<topic, head, lost, offsets, acked, pgMerchants>>
           /\ registry' \in [Callers -> SUBSET Merchants]
           /\ ledger' \subseteq Nat
           /\ table' \subseteq Row
           /\ dlq' \subseteq Row
           /\ crashes' \in Nat
<1>1. UNCHANGED <<topic, head, lost, offsets, acked, pgMerchants>>
    BY DEF ProcessBatch, TryValidate, TryCommit,
           Failure, CheckLedger, Validate, ValidateRaises, WriteDlq,
           WriteDlqTorn, MergeBegin, MergeCommit, MergeConflict, CommitLedger,
           EmitMetrics, Crash, kafka, checkpoint
<1>2. registry' \in [Callers -> SUBSET Merchants]
    <2>1. CASE Validate(c)
        BY <2>1 DEF Validate, TypeOK
    <2>2. CASE ValidateRaises(c) \/ MergeConflict(c) \/ Failure(c)
        <3>1. registry' = [registry EXCEPT ![c] = {}]
            BY <2>2 DEF ValidateRaises, MergeConflict, Failure, Crash, WriteDlqTorn, Stop
        <3> QED BY <3>1 DEF TypeOK
    <2>3. CASE \/ CheckLedger(c) \/ WriteDlq(c) \/ MergeBegin(c)
               \/ MergeCommit(c) \/ CommitLedger(c) \/ EmitMetrics(c)
        <3>1. registry' = registry
            BY <2>3 DEF CheckLedger, WriteDlq, MergeBegin, MergeCommit,
                        CommitLedger, EmitMetrics
        <3> QED BY <3>1 DEF TypeOK
    <2> QED BY <2>1, <2>2, <2>3 DEF ProcessBatch, TryValidate, TryCommit
<1>3. call[c] \in Frame
    BY DEF TypeOK
<1>4. ledger' \subseteq Nat
    <2>1. call[c].id \in Nat
        BY <1>3, FrameType
    <2> QED
        BY <2>1
           DEF ProcessBatch, TryValidate, TryCommit,
               Failure, CheckLedger, Validate, ValidateRaises, WriteDlq,
               WriteDlqTorn, MergeBegin, MergeCommit, MergeConflict, CommitLedger,
               EmitMetrics, Crash, TypeOK, sinks
<1>5. table' \subseteq Row
    <2>1. CASE MergeCommit(c)
        <3>1. PICK staged \in DedupLatest(call[c].valid) :
                  table' = MergeInto(table, staged)
            BY <2>1 DEF MergeCommit
        <3>2. staged \subseteq Row
            BY <1>3, FrameType DEF DedupLatest
        <3> QED BY <3>1, <3>2, MergeInventsNothing DEF TypeOK
    <2>2. CASE ~MergeCommit(c)
        BY <2>2
           DEF ProcessBatch, TryValidate, TryCommit,
               Failure, CheckLedger, Validate, ValidateRaises, WriteDlq,
               WriteDlqTorn, MergeBegin, MergeConflict, CommitLedger,
               EmitMetrics, Crash, TypeOK, sinks
    <2> QED BY <2>1, <2>2
<1>6. dlq' \subseteq Row
    <2>1. Invalid(c) \subseteq Row
        BY <1>3, FrameType DEF Invalid
    <2> QED
        BY <2>1
           DEF ProcessBatch, TryValidate, TryCommit,
               Failure, CheckLedger, Validate, ValidateRaises, WriteDlq,
               WriteDlqTorn, MergeBegin, MergeCommit, MergeConflict, CommitLedger,
               EmitMetrics, Crash, TypeOK, sinks
<1>7. crashes' \in Nat
    BY DEF ProcessBatch, TryValidate, TryCommit,
           Failure, CheckLedger, Validate, ValidateRaises, WriteDlq,
           WriteDlqTorn, MergeBegin, MergeCommit, MergeConflict, CommitLedger,
           EmitMetrics, Crash, TypeOK
<1> QED BY <1>1, <1>2, <1>4, <1>5, <1>6, <1>7

LEMMA TypeHandler ==
    ASSUME TypeOK, DriverPlace, NEW c \in Callers, ProcessBatch(c) \/ Failure(c)
    PROVE  TypeOK' /\ DriverPlace'
<1>1. call' \in [Callers -> Frame]
    BY CallType
<1>2. \/ Stop(c)
      \/ Returns(c)
      \/ Continues(c)
    BY HandlerShape DEF Failure, Crash, WriteDlqTorn
<1>3. up' \subseteq Callers
    BY <1>2 DEF Stop, Returns, Continues, TypeOK
<1>4. TypeOK'
    BY <1>1, <1>3, HandlerWrites DEF TypeOK, Planned
<1>5. DriverPlace'
    <2>1. offsets' = offsets /\ acked' = acked
        BY HandlerWrites
    <2>2. CASE Stop(c)
        <3>1. CASE c = Driver
            BY <2>1, <2>2, <3>1, CallersAssumption
               DEF DriverPlace, Stop, TypeOK, Idle, Active, Planned
        <3>2. CASE c # Driver
            BY <2>1, <2>2, <3>2, CallersAssumption
               DEF DriverPlace, Stop, TypeOK, Planned
        <3> QED BY <3>1, <3>2
    <2>3. CASE Returns(c)
        <3>1. CASE c = Driver
            BY <2>1, <2>3, <3>1, CallersAssumption
               DEF DriverPlace, Returns, TypeOK, Returned, Idle, Active, Planned
        <3>2. CASE c # Driver
            BY <2>1, <2>3, <3>2, CallersAssumption
               DEF DriverPlace, Returns, TypeOK, Planned
        <3> QED BY <3>1, <3>2
    <2>4. CASE Continues(c)
        BY <2>1, <2>4, CallersAssumption DEF DriverPlace, Continues, Active, Planned
    <2> QED BY <1>2, <2>2, <2>3, <2>4
<1> QED BY <1>4, <1>5

LEMMA EndsType ==
    ASSUME TypeOK
    PROVE  Ends \in [Partitions -> Nat]
BY DEF Ends, TypeOK

LEMMA TypeEnvironment ==
    ASSUME TypeOK, DriverPlace, Environment
    PROVE  TypeOK' /\ DriverPlace'
<1>1. CASE \E p \in Partitions, e \in Events : Publish(p, e)
    <2>1. PICK p \in Partitions, e \in Events : Publish(p, e)
        BY <1>1
    <2>2. topic' \in [Partitions -> Seq(Event)]
        BY <2>1, EventsAssumption DEF Publish, TypeOK
    <2> QED
        BY <2>1, <2>2
           DEF Publish, TypeOK, DriverPlace, Planned, checkpoint, process, sinks
<1>2. CASE \E p \in Partitions : Expire(p)
    <2>1. PICK p \in Partitions : Expire(p)
        BY <1>2
    <2>2. head' \in [Partitions -> Nat] /\ lost' \subseteq Partitions \X (Nat \ {0})
        BY <2>1 DEF Expire, TypeOK
    <2> QED
        BY <2>1, <2>2
           DEF Expire, TypeOK, DriverPlace, Planned, checkpoint, process, sinks
<1>3. CASE ChangeMerchants
    BY <1>3, MerchantSetsAssumption
       DEF ChangeMerchants, TypeOK, DriverPlace, Planned, kafka, checkpoint,
           process, sinks
<1> QED BY <1>1, <1>2, <1>3 DEF Environment

(* The steps of the driver outside process_batch.                          *)
LoopStep == Start \/ PlanBatch \/ WrapperEmpty \/ WrapperRaises \/ WrapperCall
              \/ AckBatch

LEMMA TypeLoop ==
    ASSUME TypeOK, DriverPlace, LoopStep
    PROVE  TypeOK' /\ DriverPlace'
<1> USE CallersAssumption
<1>1. CASE Start
    <2>1. offsets' \in Seq([Partitions -> Nat]) /\ offsets' # <<>>
        <3>1. ASSUME NEW m \in [Partitions -> Nat]
              PROVE  <<m>> \in Seq([Partitions -> Nat]) /\ <<m>> # <<>>
            OBVIOUS
        <3>2. \/ offsets # <<>> /\ offsets' = offsets
              \/ offsets' = <<head>>
              \/ offsets' = <<Ends>>
            BY <1>1 DEF Start
        <3>3. head \in [Partitions -> Nat] /\ offsets \in Seq([Partitions -> Nat])
            BY DEF TypeOK
        <3> QED BY <3>1, <3>2, <3>3, EndsType
    <2>2. offsets = <<>> => Len(offsets') = 1
        BY <1>1 DEF Start
    <2>3. TypeOK'
        BY <1>1, <2>1, <2>2 DEF Start, TypeOK, Planned, kafka, sinks
    <2>4. call[Driver].pc = "idle"
        BY <1>1 DEF Start, DriverPlace
    <2> QED BY <1>1, <2>1, <2>3, <2>4 DEF Start, DriverPlace, Active
<1>2. CASE PlanBatch
    <2>1. offsets # <<>> /\ Len(offsets) \in Nat
        BY <1>2 DEF PlanBatch, DriverPlace, TypeOK
    <2>2. /\ offsets' \in Seq([Partitions -> Nat])
          /\ offsets' # <<>>
          /\ Len(offsets') = Len(offsets) + 1
        BY <1>2, <2>1, EndsType DEF PlanBatch, TypeOK
    <2>3. acked' = acked /\ acked \in Nat /\ Planned = acked
        BY <1>2 DEF PlanBatch, TypeOK
    <2>4. acked' <= Planned' /\ Planned' <= acked' + 1
        BY <2>1, <2>2, <2>3 DEF Planned
    <2>5. TypeOK'
        BY <1>2, <2>2, <2>3, <2>4 DEF PlanBatch, TypeOK, kafka, process, sinks
    <2> QED BY <1>2, <2>2, <2>5 DEF PlanBatch, DriverPlace, Active, process
<1>3. CASE WrapperEmpty
    <2>1. /\ call' \in [Callers -> Frame]
          /\ call'[Driver].pc = "returned"
        BY <1>3, FrameType DEF WrapperEmpty, TypeOK, Returned, Idle
    <2> QED
        BY <1>3, <2>1
           DEF WrapperEmpty, BatchReady, TypeOK, DriverPlace, Active, Planned,
               kafka, checkpoint, sinks
<1>4. CASE WrapperRaises
    <2>1. /\ call' \in [Callers -> Frame]
          /\ call'[Driver].pc = "idle"
          /\ Driver \notin up' /\ up' \subseteq Callers
          /\ registry' \in [Callers -> SUBSET Merchants]
        BY <1>4, FrameType DEF WrapperRaises, Stop, TypeOK, Idle
    <2> QED
        BY <1>4, <2>1
           DEF WrapperRaises, TypeOK, DriverPlace, Active, Planned,
               kafka, checkpoint, sinks
<1>5. CASE WrapperCall
    <2> DEFINE f == [Idle EXCEPT !.pc = "check", !.id = acked, !.commit = TRUE,
                                 !.rows = Deserialized(Fetched(acked))]
    <2>1. Deserialized(Fetched(acked)) \in SUBSET Row /\ acked \in Nat
        BY DeserializedType, FetchedPublished DEF TypeOK
    <2>2. f \in Frame /\ f.id = acked /\ f.commit = TRUE
        BY <2>1, EnteredType DEF Idle
    <2>3. call' = [call EXCEPT ![Driver] = f]
        BY <1>5 DEF WrapperCall, EnterCall
    <2> HIDE DEF f
    <2>4. call' \in [Callers -> Frame] /\ call'[Driver] = f
        BY <2>2, <2>3 DEF TypeOK
    <2> QED
        BY <1>5, <2>2, <2>4
           DEF WrapperCall, BatchReady, TypeOK, DriverPlace, Planned,
               kafka, checkpoint, sinks
<1>6. CASE AckBatch
    <2>1. Driver \in up /\ Planned = acked + 1
        BY <1>6 DEF AckBatch, DriverPlace
    <2>2. call' \in [Callers -> Frame] /\ call'[Driver].pc = "idle"
        BY <1>6, FrameType DEF AckBatch, TypeOK, Idle
    <2> QED
        BY <1>6, <2>1, <2>2
           DEF AckBatch, TypeOK, DriverPlace, Active, Planned, kafka, sinks
<1> QED BY <1>1, <1>2, <1>3, <1>4, <1>5, <1>6 DEF LoopStep

LEMMA TypeInit ==
    ASSUME Init
    PROVE  TypeOK /\ DriverPlace
<1>1. call \in [Callers -> Frame] /\ call[Driver].pc = "idle"
    BY FrameType, CallersAssumption DEF Init, Idle
<1> QED
    BY <1>1, MerchantSetsAssumption, CallersAssumption
       DEF Init, TypeOK, DriverPlace, Active

LEMMA NextCases ==
    ASSUME Next
    PROVE  \/ Environment
           \/ LoopStep
           \/ ProcessBatch(Driver) \/ Failure(Driver)
BY DEF Next, DriverStep, LoopStep

LEMMA TypeStep ==
    ASSUME TypeOK, DriverPlace, [Next]_vars
    PROVE  TypeOK' /\ DriverPlace'
<1>1. CASE Next
    BY <1>1, NextCases, TypeEnvironment, TypeLoop, TypeHandler, CallersAssumption
<1>2. CASE UNCHANGED vars
    BY <1>2 DEF vars, kafka, checkpoint, process, sinks, TypeOK, DriverPlace, Planned
<1> QED BY <1>1, <1>2

(* The state keeps its shape, and the offset log is never more than one    *)
(* batch ahead of the commit log.                                          *)
THEOREM TypeCorrect == Spec => [](TypeOK /\ DriverPlace)
<1>1. Init => TypeOK /\ DriverPlace
    BY TypeInit
<1>2. TypeOK /\ DriverPlace /\ [Next]_vars => (TypeOK /\ DriverPlace)'
    BY TypeStep
<1> QED BY <1>1, <1>2, PTL DEF Spec

-----------------------------------------------------------------------------
(* What every step preserves.                                              *)

LEMMA AdvancesIsReflexive == \A rows : Advances(rows, rows)
BY DEF Advances

(* A row is accounted for when it is in a sink, or given up.               *)
Accounted(r) == Handled(r) \/ <<r.partition, r.offset>> \in lost

(* The rows that anything depends on: those of records, and of calls.      *)
InPlay(r) == \/ /\ Published(r.partition, r.offset)
                /\ r = FlatRow(r.partition, r.offset)
             \/ \E c \in Callers : r \in call[c].rows

(* Records are appended and never change, the table advances or at least   *)
(* accounts for the same rows, and nothing leaves the DLQ.                 *)
Grows ==
    /\ \A p, i : Published(p, i) => /\ Published(p, i)'
                                    /\ topic'[p][i] = topic[p][i]
    /\ \/ Advances(table, table')
       \/ \A r \in Row : InPlay(r) /\ Accounted(r) => Accounted(r)'
    /\ dlq \subseteq dlq'
    /\ lost \subseteq lost'

LEMMA HandlerAdvances ==
    ASSUME TypeOK, NEW c \in Callers, ProcessBatch(c) \/ Failure(c)
    PROVE  Advances(table, table')
<1>1. CASE MergeCommit(c)
    BY <1>1, MergeAdvances DEF MergeCommit
<1>2. CASE ~MergeCommit(c)
    <2>1. table' = table
        BY <1>2
           DEF ProcessBatch, TryValidate, TryCommit,
               Failure, CheckLedger, Validate, ValidateRaises,
               WriteDlq, WriteDlqTorn, MergeBegin, MergeConflict, CommitLedger,
               EmitMetrics, Crash, sinks
    <2> QED BY <2>1, AdvancesIsReflexive
<1> QED BY <1>1, <1>2

LEMMA StepAdvances ==
    ASSUME TypeOK, [Next]_vars
    PROVE  Advances(table, table')
<1>1. CASE ProcessBatch(Driver) \/ Failure(Driver)
    BY <1>1, HandlerAdvances, CallersAssumption
<1>2. CASE Environment \/ LoopStep \/ UNCHANGED vars
    <2>1. table' = table
        BY <1>2 DEF Environment, Publish, Expire, ChangeMerchants, LoopStep, Start,
                    PlanBatch, WrapperEmpty, WrapperRaises, WrapperCall, AckBatch,
                    vars, sinks
    <2> QED BY <2>1, AdvancesIsReflexive
<1> QED BY <1>1, <1>2, NextCases

LEMMA HandlerGrows ==
    ASSUME TypeOK, NEW c \in Callers, ProcessBatch(c) \/ Failure(c)
    PROVE  Grows
<1>1. topic' = topic /\ lost' = lost
    BY HandlerWrites
<1>2. Advances(table, table')
    BY HandlerAdvances
<1>3. dlq \subseteq dlq'
    BY DEF ProcessBatch, TryValidate, TryCommit,
           Failure, CheckLedger, Validate, ValidateRaises,
           WriteDlq, WriteDlqTorn, MergeBegin, MergeCommit, MergeConflict,
           CommitLedger, EmitMetrics, Crash, sinks
<1> QED BY <1>1, <1>2, <1>3 DEF Grows, Published

LEMMA StepGrows ==
    ASSUME TypeOK, [Next]_vars
    PROVE  Grows
<1>1. CASE ProcessBatch(Driver) \/ Failure(Driver)
    BY <1>1, HandlerGrows, CallersAssumption
<1>2. CASE LoopStep \/ UNCHANGED vars
    <2>1. topic' = topic /\ lost' = lost /\ table' = table /\ dlq' = dlq
        BY <1>2 DEF LoopStep, Start, PlanBatch, WrapperEmpty, WrapperRaises,
                    WrapperCall, AckBatch, vars, kafka, sinks
    <2> QED BY <2>1, AdvancesIsReflexive DEF Grows, Published
<1>3. CASE Environment
    <2>1. table' = table /\ dlq' = dlq
        BY <1>3 DEF Environment, Publish, Expire, ChangeMerchants, sinks
    <2>2. lost \subseteq lost'
        BY <1>3 DEF Environment, Publish, Expire, ChangeMerchants, kafka
    <2>3. ASSUME NEW p, NEW i, Published(p, i)
          PROVE  Published(p, i)' /\ topic'[p][i] = topic[p][i]
        <3>1. CASE topic' = topic
            BY <2>3, <3>1 DEF Published
        <3>2. CASE \E q \in Partitions, e \in Events : Publish(q, e)
            <4>1. PICK q \in Partitions, e \in Events :
                      topic' = [topic EXCEPT ![q] = Append(@, e)]
                BY <3>2 DEF Publish
            <4>2. topic[q] \in Seq(Event) /\ topic[p] \in Seq(Event) /\ e \in Event
                BY <2>3, EventsAssumption DEF TypeOK, Published
            <4>3. topic'[p] = IF p = q THEN Append(topic[p], e) ELSE topic[p]
                BY <2>3, <4>1 DEF TypeOK, Published
            <4> QED BY <2>3, <4>2, <4>3 DEF Published
        <3> QED BY <1>3, <3>1, <3>2 DEF Environment, Expire, ChangeMerchants, kafka
    <2> QED BY <2>1, <2>2, <2>3, AdvancesIsReflexive DEF Grows
<1> QED BY <1>1, <1>2, <1>3, NextCases

(* The LSN guard holds of every behaviour: whatever crashes, replays,      *)
(* duplicates and late events do, a row of the Delta table only ever       *)
(* gives way to a strictly later change of its transaction.                *)
THEOREM LsnGuard == Spec => LsnMonotone
<1>1. TypeOK /\ [Next]_vars => [Advances(table, table')]_vars
    BY StepAdvances
<1> QED BY <1>1, TypeCorrect, PTL DEF Spec, LsnMonotone

-----------------------------------------------------------------------------
(* One row per transaction.                                                *)

LEMMA HandlerKeepsOneRow ==
    ASSUME TypeOK, OneRowPerTransaction, NEW c \in Callers,
           ProcessBatch(c) \/ Failure(c)
    PROVE  OneRowPerTransaction'
<1>1. CASE MergeCommit(c)
    <2>1. PICK staged \in DedupLatest(call[c].valid) :
              table' = MergeInto(table, staged)
        BY <1>1 DEF MergeCommit
    <2>2. \A r \in call[c].valid : r.lsn \in Int
        <3>1. call[c].valid \subseteq Row
            BY FrameType DEF TypeOK
        <3> QED BY <3>1 DEF Row
    <2>3. OneRowPerKey(staged)
        BY <2>2, DedupLatestKeepsTheLatest
    <2> QED BY <2>1, <2>3, MergeKeepsOneRowPerKey DEF OneRowPerTransaction
<1>2. CASE ~MergeCommit(c)
    BY <1>2
       DEF ProcessBatch, TryValidate, TryCommit,
           Failure, CheckLedger, Validate, ValidateRaises,
           WriteDlq, WriteDlqTorn, MergeBegin, MergeConflict, CommitLedger,
           EmitMetrics, Crash, sinks, OneRowPerTransaction
<1> QED BY <1>1, <1>2

LEMMA OneRowStep ==
    ASSUME TypeOK, OneRowPerTransaction, [Next]_vars
    PROVE  OneRowPerTransaction'
<1>1. CASE ProcessBatch(Driver) \/ Failure(Driver)
    BY <1>1, HandlerKeepsOneRow, CallersAssumption
<1>2. CASE Environment \/ LoopStep \/ UNCHANGED vars
    BY <1>2 DEF Environment, Publish, Expire, ChangeMerchants, LoopStep, Start,
                PlanBatch, WrapperEmpty, WrapperRaises, WrapperCall, AckBatch,
                vars, sinks, OneRowPerTransaction
<1> QED BY <1>1, <1>2, NextCases

(* No transaction ever owns two rows of the Delta table.                   *)
THEOREM OneRowCorrect == Spec => []OneRowPerTransaction
<1>1. Init => OneRowPerTransaction
    BY DEF Init, OneRowPerTransaction, OneRowPerKey
<1>2. TypeOK /\ OneRowPerTransaction /\ [Next]_vars => OneRowPerTransaction'
    BY OneRowStep
<1> QED BY <1>1, <1>2, TypeCorrect, PTL DEF Spec

-----------------------------------------------------------------------------
(* No record is lost.                                                      *)

(* The checkpoint and the retention point lie within the topic.            *)
Positions ==
    /\ \A p \in Partitions : head[p] <= Len(topic[p])
    /\ \A m \in 1..Len(offsets), p \in Partitions :
         offsets[1][p] <= offsets[m][p] /\ offsets[m][p] <= Len(topic[p])

(* What retention removed was settled, or is recorded as lost.             *)
ExpiredSettled == \A p \in Partitions : \A i \in 1..head[p] : Settled(p, i)

(* What a call has achieved at each of its steps.                          *)
CallProgress(c) ==
    /\ call[c].pc \in {"merge", "commit"} => Invalid(c) \subseteq dlq
    /\ call[c].pc \in {"ledger", "emit"} => \A r \in call[c].rows : Accounted(r)

(* The driver's call holds every record of its batch that is not settled,  *)
(* and it returns only when they all are.                                  *)
DriverProgress ==
    /\ call[Driver].pc \in Active =>
         \A p \in Partitions, i \in 1..MaxRecords :
            InBatch(acked, p, i) =>
                Settled(p, i) \/ FlatRow(p, i) \in call[Driver].rows
    /\ call[Driver].pc = "returned" => BatchSettled(acked)

Shape == TypeOK /\ DriverPlace /\ Positions

Progress == /\ ExpiredSettled
            /\ \A c \in Callers : CallProgress(c)
            /\ DriverProgress
            /\ LedgerSound
            /\ NoSilentLoss

(* The same for a job of which the batch ids in X promise nothing: the     *)
(* ids a ledger has from an earlier checkpoint.  A job that never lost its *)
(* checkpoint has none.                                                    *)
SettledBut(X, b) == b \in X \/ BatchSettled(b)

DriverProgressBut(X) ==
    /\ call[Driver].pc \in Active =>
         \A p \in Partitions, i \in 1..MaxRecords :
            InBatch(acked, p, i) =>
                Settled(p, i) \/ FlatRow(p, i) \in call[Driver].rows
    /\ call[Driver].pc = "returned" => SettledBut(X, acked)

LedgerSoundBut(X) == \A b \in ledger : b \in X \/ (b < Planned /\ BatchSettled(b))

NoSilentLossBut(X) == \A b \in 0..(acked - 1) : SettledBut(X, b)

ProgressBut(X) == /\ ExpiredSettled
                  /\ \A c \in Callers : CallProgress(c)
                  /\ DriverProgressBut(X)
                  /\ LedgerSoundBut(X)
                  /\ NoSilentLossBut(X)

LEMMA NothingExcused ==
    /\ Progress <=> ProgressBut({})
    /\ Progress' <=> ProgressBut({})'
<1>1. DriverProgress <=> DriverProgressBut({})
    BY DEF DriverProgress, DriverProgressBut, SettledBut
<1>2. DriverProgress' <=> DriverProgressBut({})'
    BY DEF DriverProgress, DriverProgressBut, SettledBut
<1>3. /\ LedgerSound <=> LedgerSoundBut({})
      /\ LedgerSound' <=> LedgerSoundBut({})'
    BY DEF LedgerSound, LedgerSoundBut
<1>4. /\ NoSilentLoss <=> NoSilentLossBut({})
      /\ NoSilentLoss' <=> NoSilentLossBut({})'
    BY DEF NoSilentLoss, NoSilentLossBut, SettledBut
<1> QED BY <1>1, <1>2, <1>3, <1>4 DEF Progress, ProgressBut

(* Every step keeps what the offset log already holds.                     *)
OffsetsKept ==
    /\ Len(offsets) <= Len(offsets')
    /\ \A m \in 1..Len(offsets) : offsets'[m] = offsets[m]

LEMMA StepKeepsOffsets ==
    ASSUME TypeOK, [Next]_vars
    PROVE  OffsetsKept
<1>1. CASE offsets' = offsets
    BY <1>1 DEF OffsetsKept, TypeOK
<1>2. CASE Start
    BY <1>2 DEF Start, OffsetsKept, TypeOK
<1>3. CASE PlanBatch
    BY <1>3, EndsType DEF PlanBatch, OffsetsKept, TypeOK
<1>4. CASE ~Start /\ ~PlanBatch
    <2>1. CASE ProcessBatch(Driver) \/ Failure(Driver)
        BY <1>1, <2>1, HandlerWrites, CallersAssumption
    <2>2. CASE Environment \/ LoopStep \/ UNCHANGED vars
        BY <1>1, <1>4, <2>2
           DEF Environment, Publish, Expire, ChangeMerchants, LoopStep, WrapperEmpty,
               WrapperRaises, WrapperCall, AckBatch, vars, checkpoint
    <2> QED BY <2>1, <2>2, NextCases
<1> QED BY <1>2, <1>3, <1>4

LEMMA AccountedIsStable ==
    ASSUME TypeOK, TypeOK', Grows, NEW r \in Row, InPlay(r), Accounted(r)
    PROVE  Accounted(r)'
<1>1. CASE ~Advances(table, table')
    BY <1>1 DEF Grows
<1>2. CASE r \in dlq \/ <<r.partition, r.offset>> \in lost
    BY <1>2 DEF Grows, Accounted, Handled
<1>3. CASE UpToDate(table, r) /\ Advances(table, table')
    <2>1. \A t \in table \cup table' : t.lsn \in Int
        BY DEF TypeOK, Row
    <2>2. r.lsn \in Int
        BY DEF Row
    <2>3. UpToDate(table', r)
        BY <1>3, <2>1, <2>2, UpToDateIsStable
    <2> QED BY <2>3 DEF Accounted, Handled
<1> QED BY <1>1, <1>2, <1>3 DEF Accounted, Handled

LEMMA FlatRowIsStable ==
    ASSUME Grows, NEW p, NEW i, Published(p, i)
    PROVE  FlatRow(p, i)' = FlatRow(p, i)
BY DEF Grows, FlatRow

LEMMA SettledIsStable ==
    ASSUME TypeOK, TypeOK', Grows, NEW p, NEW i, Published(p, i), Settled(p, i)
    PROVE  Settled(p, i)'
<1>1. CASE topic[p][i].schema = "none"
    BY <1>1 DEF Grows, Settled
<1>2. CASE Accounted(FlatRow(p, i))
    <2>1. PICK r \in Row : r = FlatRow(p, i)
        BY FlatRowType
    <2>2. r.partition = p /\ r.offset = i
        BY <2>1, FlatRowType
    <2>3. InPlay(r)
        BY <2>1, <2>2 DEF InPlay
    <2>4. Accounted(r)'
        BY <1>2, <2>1, <2>3, AccountedIsStable
    <2>5. FlatRow(p, i)' = r
        BY <2>1, FlatRowIsStable
    <2> QED BY <2>2, <2>4, <2>5 DEF Accounted, Settled
<1>3. CASE <<p, i>> \in lost
    BY <1>3 DEF Grows, Settled
<1> QED BY <1>1, <1>2, <1>3 DEF Settled, Accounted

(* A position of a planned batch holds a record.                           *)
LEMMA InBatchPublished ==
    ASSUME TypeOK, Positions, NEW b \in Nat, b + 2 <= Len(offsets),
           NEW p \in Partitions, NEW i \in 1..MaxRecords, InBatch(b, p, i)
    PROVE  Published(p, i)
<1>1. Len(offsets) \in Nat /\ Len(topic[p]) \in Nat
    BY DEF TypeOK
<1>2. offsets[b + 2] \in [Partitions -> Nat]
    <2>1. offsets \in Seq([Partitions -> Nat]) /\ b + 2 \in 1..Len(offsets)
        BY <1>1 DEF TypeOK
    <2> QED BY <2>1
<1>3. offsets[b + 2][p] <= Len(topic[p])
    BY <1>1 DEF Positions
<1> QED BY <1>1, <1>2, <1>3, BoundsAssumption DEF InBatch, Published

LEMMA BatchSettledIsStable ==
    ASSUME TypeOK, TypeOK', Positions, Grows, OffsetsKept,
           NEW b \in Nat, b + 2 <= Len(offsets), BatchSettled(b)
    PROVE  BatchSettled(b)'
<1> SUFFICES ASSUME NEW p \in Partitions, NEW i \in 1..MaxRecords, InBatch(b, p, i)'
             PROVE  Settled(p, i)'
    BY DEF BatchSettled
<1>1. Len(offsets) \in Nat
    BY DEF TypeOK
<1>2. InBatch(b, p, i)
    BY <1>1 DEF InBatch, OffsetsKept
<1>3. Settled(p, i) /\ Published(p, i)
    BY <1>2, InBatchPublished DEF BatchSettled
<1> QED BY <1>3, SettledIsStable

LEMMA PositionsStep ==
    ASSUME Shape, TypeOK', [Next]_vars
    PROVE  Positions'
<1> USE DEF Shape
<1>1. /\ \A p \in Partitions : Len(topic[p]) \in Nat /\ Len(topic'[p]) \in Nat
      /\ Len(offsets) \in Nat
    BY DEF TypeOK
<1>2. \A p \in Partitions : Len(topic[p]) <= Len(topic'[p])
    <2>1. CASE topic' = topic
        BY <1>1, <2>1
    <2>2. CASE \E q \in Partitions, e \in Events : Publish(q, e)
        BY <2>2, EventsAssumption DEF Publish, TypeOK
    <2>3. CASE ProcessBatch(Driver) \/ Failure(Driver)
        BY <2>1, <2>3, HandlerWrites, CallersAssumption
    <2>4. CASE LoopStep \/ UNCHANGED vars
        BY <2>1, <2>4
           DEF LoopStep, Start, PlanBatch, WrapperEmpty, WrapperRaises,
               WrapperCall, AckBatch, vars, kafka
    <2>5. CASE Environment
        BY <2>1, <2>2, <2>5 DEF Environment, Expire, ChangeMerchants, kafka
    <2> QED BY <2>3, <2>4, <2>5, NextCases
<1>3. \A p \in Partitions : head'[p] <= Len(topic'[p])
    <2>1. CASE head' = head
        BY <1>1, <1>2, <2>1 DEF Positions, TypeOK
    <2>2. CASE \E q \in Partitions : Expire(q)
        BY <1>1, <2>2 DEF Expire, Positions, TypeOK
    <2>3. CASE ProcessBatch(Driver) \/ Failure(Driver)
        BY <2>1, <2>3, HandlerWrites, CallersAssumption
    <2>4. CASE LoopStep \/ UNCHANGED vars
        BY <2>1, <2>4
           DEF LoopStep, Start, PlanBatch, WrapperEmpty, WrapperRaises,
               WrapperCall, AckBatch, vars, kafka
    <2>5. CASE Environment
        BY <2>1, <2>2, <2>5 DEF Environment, Publish, ChangeMerchants, kafka
    <2> QED BY <2>3, <2>4, <2>5, NextCases
<1>4. \A m \in 1..Len(offsets'), p \in Partitions :
         offsets'[1][p] <= offsets'[m][p] /\ offsets'[m][p] <= Len(topic'[p])
    <2>1. CASE offsets' = offsets
        <3>1. \A m \in 1..Len(offsets), p \in Partitions : offsets[m][p] \in Nat
            BY DEF TypeOK
        <3> QED BY <1>1, <1>2, <2>1, <3>1 DEF Positions
    <2>2. CASE Start /\ offsets = <<>>
        <3>1. PICK m \in {head, Ends} : offsets' = <<m>>
            BY <2>2 DEF Start
        <3>2. topic' = topic
            BY <2>2 DEF Start, kafka
        <3>3. \A p \in Partitions : m[p] \in Nat /\ m[p] <= Len(topic[p])
            BY <1>1, <3>1 DEF Positions, Ends, TypeOK
        <3> QED BY <3>1, <3>2, <3>3
    <2>3. CASE PlanBatch
        <3>1. offsets # <<>> /\ offsets' = Append(offsets, Ends) /\ topic' = topic
            BY <2>3 DEF PlanBatch, DriverPlace, kafka
        <3>2. \A m \in 1..Len(offsets) : offsets[m] \in [Partitions -> Nat]
            <4>1. offsets \in Seq([Partitions -> Nat])
                BY DEF TypeOK
            <4> QED BY <4>1
        <3>3. \A p \in Partitions : /\ offsets[1][p] \in Nat
                                    /\ Ends[p] = Len(topic[p])
                                    /\ offsets[1][p] <= Ends[p]
            <4>1. \A p \in Partitions : Len(topic[p]) \in Nat /\ offsets[1][p] \in Nat
                BY <3>1, <3>2 DEF TypeOK
            <4>2. 1 \in 1..Len(offsets)
                BY <3>1 DEF TypeOK
            <4> QED BY <1>1, <4>1, <4>2 DEF Positions, Ends
        <3>4. /\ Len(offsets') = Len(offsets) + 1
              /\ \A m \in 1..Len(offsets) : offsets'[m] = offsets[m]
              /\ offsets'[Len(offsets) + 1] = Ends
            BY <1>1, <3>1, EndsType DEF TypeOK
        <3>5. Len(offsets) >= 1 /\ offsets'[1] = offsets[1]
            BY <1>1, <3>1, <3>4 DEF TypeOK
        <3> QED BY <1>1, <3>1, <3>2, <3>3, <3>4, <3>5 DEF Positions
    <2>4. CASE ProcessBatch(Driver) \/ Failure(Driver)
        BY <2>1, <2>4, HandlerWrites, CallersAssumption
    <2>5. CASE LoopStep \/ UNCHANGED vars
        BY <2>1, <2>2, <2>3, <2>5
           DEF LoopStep, Start, WrapperEmpty, WrapperRaises, WrapperCall,
               AckBatch, vars, checkpoint
    <2>6. CASE Environment
        BY <2>1, <2>6
           DEF Environment, Publish, Expire, ChangeMerchants, checkpoint
    <2> QED BY <2>4, <2>5, <2>6, NextCases
<1> QED BY <1>3, <1>4 DEF Positions

LEMMA ShapeStep ==
    ASSUME Shape, [Next]_vars
    PROVE  Shape'
BY TypeStep, PositionsStep DEF Shape

LEMMA ExpiredSettledStep ==
    ASSUME Shape, Shape', ExpiredSettled, [Next]_vars
    PROVE  ExpiredSettled'
<1> SUFFICES ASSUME NEW p \in Partitions, NEW i \in 1..head'[p]
             PROVE  Settled(p, i)'
    BY DEF ExpiredSettled
<1> USE DEF Shape
<1>1. Grows
    BY StepGrows
<1>2. head[p] \in Nat /\ head[p] <= Len(topic[p]) /\ Len(topic[p]) \in Nat
    BY DEF Positions, TypeOK
<1>3. CASE i \in 1..head[p]
    BY <1>1, <1>2, <1>3, SettledIsStable DEF ExpiredSettled, Published
<1>4. CASE i \notin 1..head[p]
    <2>1. ~(head' = head)
        BY <1>4
    <2>2. PICK q \in Partitions : Expire(q)
        <3>1. CASE ProcessBatch(Driver) \/ Failure(Driver)
            BY <2>1, <3>1, HandlerWrites, CallersAssumption
        <3>2. CASE Environment \/ LoopStep \/ UNCHANGED vars
            BY <2>1, <3>2
               DEF Environment, Publish, ChangeMerchants, LoopStep, Start, PlanBatch,
                   WrapperEmpty, WrapperRaises, WrapperCall, AckBatch, vars, kafka
        <3> QED BY <3>1, <3>2, NextCases
    <2>3. q = p /\ i = head[p] + 1
        BY <1>2, <1>4, <2>2 DEF Expire, TypeOK
    <2>4. Published(p, i)
        BY <1>2, <2>2, <2>3 DEF Expire, Published
    <2>5. CASE Settled(p, i)
        BY <1>1, <2>4, <2>5, SettledIsStable
    <2>6. CASE ~Settled(p, i)
        BY <2>2, <2>3, <2>6 DEF Expire, Settled
    <2> QED BY <2>5, <2>6
<1> QED BY <1>3, <1>4

-----------------------------------------------------------------------------
(* The handler, step by step.                                              *)

(* Sinks only grow, so what a caller achieved stays achieved while it does *)
(* not move.                                                               *)
LEMMA CallProgressIsStable ==
    ASSUME TypeOK, TypeOK', Grows, NEW c \in Callers, CallProgress(c),
           call'[c] = call[c]
    PROVE  CallProgress(c)'
<1>1. call[c] \in Frame
    BY DEF TypeOK
<1>2. ASSUME NEW r \in call[c].rows, Accounted(r) PROVE Accounted(r)'
    BY <1>1, <1>2, AccountedIsStable, FrameType DEF InPlay
<1>3. Invalid(c)' = Invalid(c)
    BY DEF Invalid
<1> QED BY <1>2, <1>3 DEF CallProgress, Grows

(* A frame that has not reached the MERGE has nothing to show yet.         *)
LEMMA EarlyCallProgress ==
    ASSUME NEW c, call[c].pc \notin {"merge", "commit", "ledger", "emit"}
    PROVE  CallProgress(c)
BY DEF CallProgress

LEMMA HandlerCallProgress ==
    ASSUME TypeOK, TypeOK', NEW c \in Callers, ProcessBatch(c) \/ Failure(c),
           \A d \in Callers : CallProgress(d), NEW d \in Callers
    PROVE  CallProgress(d)'
<1> USE DEF Active, Steps
<1>1. Grows
    BY HandlerGrows
<1>2. call \in [Callers -> Frame] /\ call[c] \in Frame
    BY DEF TypeOK
<1>3. call[c].rows \subseteq Row /\ call[c].valid \subseteq Row
    BY <1>2, FrameType
<1>4. CASE d # c
    <2>1. call'[d] = call[d]
        BY <1>2, <1>4, HandlerShape
           DEF Stop, Returns, Continues, Failure, Crash, WriteDlqTorn
    <2> QED BY <1>1, <2>1, CallProgressIsStable
<1>5. CASE d = c /\ call'[c].pc \notin {"merge", "commit", "ledger", "emit"}
    BY <1>5 DEF CallProgress
<1>6. CASE d = c /\ CheckLedger(c)
    <2>1. CASE Goto(c, "ledger") /\ call[c].rows = {}
        <3>1. call'[c].rows = {} /\ call'[c].pc = "ledger"
            BY <1>6, <2>1, GotoContinues DEF CheckLedger, Continues
        <3> QED BY <1>6, <3>1 DEF CallProgress
    <2>2. CASE Goto(c, "validate")
        <3>1. call'[c].pc = "validate"
            BY <1>6, <2>2, GotoContinues DEF CheckLedger
        <3> QED BY <1>5, <1>6, <3>1
    <2>3. CASE call' = [call EXCEPT ![c] = Returned]
        <3>1. call'[c].pc = "returned"
            BY <1>2, <2>3 DEF Returned, Idle
        <3> QED BY <1>5, <1>6, <3>1
    <2> QED BY <1>6, <2>1, <2>2, <2>3 DEF CheckLedger
<1>7. CASE d = c /\ WriteDlq(c)
    <2>1. /\ call'[c].pc = "merge"
          /\ call'[c].rows = call[c].rows
          /\ call'[c].valid = call[c].valid
        BY <1>7, GotoContinues DEF WriteDlq, Continues
    <2> QED BY <1>7, <2>1 DEF WriteDlq, CallProgress, Invalid
<1>8. CASE d = c /\ MergeBegin(c)
    <2>1. Invalid(c) \subseteq dlq /\ dlq' = dlq
        BY <1>8 DEF MergeBegin, CallProgress, sinks
    <2>2. CASE call[c].valid = {} /\ Goto(c, "ledger")
        <3>1. call'[c].pc = "ledger" /\ call'[c].rows = call[c].rows
            BY <1>8, <2>2, GotoContinues DEF MergeBegin, Continues
        <3>2. \A r \in call[c].rows : r \in dlq
            BY <2>1, <2>2 DEF Invalid
        <3> QED BY <1>8, <2>1, <3>1, <3>2 DEF CallProgress, Accounted, Handled
    <2>3. CASE call' = [call EXCEPT ![c].pc = "commit", ![c].base = table]
        <3>1. call'[c] = [call[c] EXCEPT !.pc = "commit", !.base = table]
            BY <1>2, <2>3
        <3>2. /\ call'[c].pc = "commit"
              /\ call'[c].rows = call[c].rows
              /\ call'[c].valid = call[c].valid
            BY <1>2, <3>1, FrameFields DEF TypeOK
        <3> QED BY <1>8, <2>1, <3>2 DEF CallProgress, Invalid
    <2> QED BY <1>8, <2>2, <2>3 DEF MergeBegin
<1>9. CASE d = c /\ MergeCommit(c)
    <2>1. PICK staged \in DedupLatest(call[c].valid) :
              table' = MergeInto(table, staged)
        BY <1>9 DEF MergeCommit
    <2>2. call'[c] = [call[c] EXCEPT !.pc = "ledger", !.base = {}]
        BY <1>2, <1>9 DEF MergeCommit
    <2>3. call'[c].pc = "ledger" /\ call'[c].rows = call[c].rows
        BY <1>2, <2>2, FrameFields
    <2>4. Invalid(c) \subseteq dlq'
        BY <1>9 DEF MergeCommit, CallProgress
    <2>5. \A r \in call[c].valid : UpToDate(table', r)
        BY <1>3, <2>1, MergedIsUpToDate DEF TypeOK
    <2>6. \A r \in call[c].rows : Accounted(r)'
        BY <2>4, <2>5 DEF Accounted, Handled, Invalid
    <2> QED BY <1>9, <2>3, <2>6 DEF CallProgress
<1>10. CASE d = c /\ CommitLedger(c)
    <2>1. call'[c].pc = "emit" /\ call'[c].rows = call[c].rows
        BY <1>10, GotoContinues DEF CommitLedger, Continues
    <2>2. \A r \in call[c].rows : Accounted(r)
        BY <1>10 DEF CommitLedger, CallProgress
    <2>3. dlq' = dlq /\ table' = table /\ lost' = lost
        BY <1>10 DEF CommitLedger, kafka
    <2> QED BY <1>10, <2>1, <2>2, <2>3 DEF CallProgress, Accounted, Handled
<1>11. CASE Validate(c) \/ EmitMetrics(c)
    <2>1. call'[c].pc \in {"dlq", "returned"}
        BY <1>2, <1>11, FrameFields DEF Validate, EmitMetrics, Returned, Idle, Frame
    <2> QED BY <1>4, <1>5, <2>1
<1>12. CASE ValidateRaises(c) \/ MergeConflict(c) \/ Failure(c)
    <2>1. call'[c].pc = "idle"
        BY <1>2, <1>12
           DEF ValidateRaises, MergeConflict, Failure, Crash, WriteDlqTorn, Stop, Idle
    <2> QED BY <1>4, <1>5, <2>1
<1> QED
    BY <1>4, <1>6, <1>7, <1>8, <1>9, <1>10, <1>11, <1>12
       DEF ProcessBatch, TryValidate, TryCommit

-----------------------------------------------------------------------------
(* The inductive step.                                                     *)

(* Both ways to have dealt with a batch last.                              *)
LEMMA SettledButIsStable ==
    ASSUME TypeOK, TypeOK', Positions, Grows, OffsetsKept, NEW X,
           NEW b \in Nat, b + 2 <= Len(offsets), SettledBut(X, b)
    PROVE  SettledBut(X, b)'
BY BatchSettledIsStable DEF SettledBut

(* A batch whose records are all in a call that handled its rows is        *)
(* settled.                                                                *)
LEMMA HandledBatchIsSettled ==
    ASSUME NEW X, DriverProgressBut(X), call[Driver].pc \in Active,
           \A r \in call[Driver].rows : Accounted(r)
    PROVE  BatchSettled(acked)
<1>1. \A p, i : Accounted(FlatRow(p, i)) => Settled(p, i)
    BY DEF Accounted, Settled, FlatRow
<1> QED BY <1>1 DEF DriverProgressBut, BatchSettled

(* A step that leaves the checkpoint alone keeps what was settled.         *)
LEMMA SettledBatchesStay ==
    ASSUME Shape, TypeOK', Grows, NEW X, NoSilentLossBut(X), LedgerSoundBut(X),
           offsets' = offsets, acked' = acked, ledger' = ledger
    PROVE  LedgerSoundBut(X)' /\ NoSilentLossBut(X)'
<1> USE DEF Shape
<1>1. OffsetsKept /\ Len(offsets) \in Nat /\ acked \in Nat /\ ledger \subseteq Nat
    BY DEF OffsetsKept, TypeOK
<1>2. LedgerSoundBut(X)'
    BY <1>1, BatchSettledIsStable DEF LedgerSoundBut, Planned
<1>3. NoSilentLossBut(X)'
    <2> SUFFICES ASSUME NEW b \in 0..(acked - 1) PROVE SettledBut(X, b)'
        BY DEF NoSilentLossBut
    <2>1. b \in Nat /\ b + 2 <= Len(offsets) /\ SettledBut(X, b)
        BY <1>1 DEF NoSilentLossBut, TypeOK, Planned
    <2> QED BY <1>1, <2>1, SettledButIsStable
<1> QED BY <1>2, <1>3

(* The same for the driver's call, when its frame does not move.           *)
LEMMA DriverProgressIsStable ==
    ASSUME Shape, TypeOK', Grows, NEW X, DriverProgressBut(X),
           offsets' = offsets, acked' = acked,
           call'[Driver].pc \in Active => /\ call[Driver].pc \in Active
                                          /\ call'[Driver].rows = call[Driver].rows,
           call'[Driver].pc = "returned" => SettledBut(X, acked),
           call'[Driver].pc # "idle" => Planned = acked + 1
    PROVE  DriverProgressBut(X)'
<1> USE DEF Shape
<1>1. OffsetsKept /\ Len(offsets) \in Nat /\ acked \in Nat
    BY DEF OffsetsKept, TypeOK
<1>2. ASSUME call'[Driver].pc \in Active, NEW p \in Partitions,
             NEW i \in 1..MaxRecords, InBatch(acked, p, i)'
      PROVE  Settled(p, i)' \/ FlatRow(p, i)' \in call'[Driver].rows
    <2>1. acked + 2 <= Len(offsets)
        BY <1>1, <1>2 DEF Active, Planned
    <2>2. InBatch(acked, p, i)
        BY <1>2 DEF InBatch
    <2>3. Published(p, i)
        BY <1>1, <2>1, <2>2, InBatchPublished
    <2>4. Settled(p, i) \/ FlatRow(p, i) \in call[Driver].rows
        BY <1>2, <2>2 DEF DriverProgressBut
    <2> QED BY <1>2, <2>3, <2>4, SettledIsStable, FlatRowIsStable
<1>3. ASSUME call'[Driver].pc = "returned" PROVE SettledBut(X, acked)'
    <2>1. acked + 2 <= Len(offsets)
        BY <1>1, <1>3 DEF Planned
    <2> QED BY <1>1, <1>3, <2>1, SettledButIsStable
<1> QED BY <1>2, <1>3 DEF DriverProgressBut

(* process_batch and the deaths of its process, for the driver or for any  *)
(* caller that does not write a new id to the ledger.                      *)
LEMMA HandlerProgress ==
    ASSUME Shape, Shape', NEW X, ProgressBut(X), NEW c \in Callers,
           ProcessBatch(c) \/ Failure(c),
           c = Driver \/ (call[c].commit => call[c].id \in ledger)
    PROVE  ProgressBut(X)'
<1> USE CallersAssumption DEF Shape
<1>1. /\ topic' = topic /\ head' = head /\ lost' = lost
      /\ offsets' = offsets /\ acked' = acked
    BY HandlerWrites
<1>2. Grows
    BY HandlerGrows
<1>3. OffsetsKept /\ Len(offsets) \in Nat /\ acked \in Nat /\ ledger \subseteq Nat
    BY <1>1 DEF OffsetsKept, TypeOK
<1>4. call \in [Callers -> Frame]
    BY DEF TypeOK
<1>5. ExpiredSettled'
    <2> SUFFICES ASSUME NEW p \in Partitions, NEW i \in 1..head[p]
                 PROVE  Settled(p, i)'
        BY <1>1 DEF ExpiredSettled
    <2>1. Published(p, i) /\ Settled(p, i)
        BY DEF Published, Positions, ExpiredSettled, ProgressBut, TypeOK
    <2> QED BY <1>2, <2>1, SettledIsStable
<1>6. \A d \in Callers : CallProgress(d)'
    BY HandlerCallProgress DEF ProgressBut
<1>7. ASSUME call[c].pc = "ledger", c = Driver PROVE BatchSettled(acked)
    BY <1>7, HandledBatchIsSettled DEF ProgressBut, CallProgress, Active, Steps
<1>8. DriverProgressBut(X)'
    <2>1. CASE c = Driver /\ CheckLedger(c) /\ call[c].id \in ledger
        <3>1. call'[Driver].pc = "returned"
            BY <1>4, <2>1, GotoContinues
               DEF CheckLedger, Returned, Idle
        <3>2. call[Driver].id = acked
            BY <2>1 DEF CheckLedger, DriverPlace, Active, Steps
        <3>3. SettledBut(X, acked)
            BY <2>1, <3>2 DEF ProgressBut, LedgerSoundBut, SettledBut
        <3>4. Planned = acked + 1
            BY <2>1 DEF CheckLedger, DriverPlace
        <3> QED BY <1>1, <1>2, <3>1, <3>3, <3>4, DriverProgressIsStable DEF ProgressBut, Active
    <2>2. CASE c = Driver /\ EmitMetrics(c)
        <3>1. call'[Driver].pc = "returned" /\ call[Driver].pc = "emit"
            BY <1>4, <2>2 DEF EmitMetrics, Returned, Idle
        <3>2. SettledBut(X, acked)
            BY <2>2, <3>1, HandledBatchIsSettled
               DEF ProgressBut, CallProgress, Active, Steps, SettledBut
        <3>3. Planned = acked + 1
            BY <3>1 DEF DriverPlace
        <3> QED BY <1>1, <1>2, <3>1, <3>2, <3>3, DriverProgressIsStable DEF ProgressBut, Active
    <2>3. CASE c = Driver /\ Continues(c)
        BY <1>1, <1>2, <2>3, DriverProgressIsStable
           DEF Continues, ProgressBut, Active, DriverPlace
    <2>4. CASE c = Driver /\ Stop(c)
        <3>1. call'[Driver].pc = "idle"
            BY <1>4, <2>4 DEF Stop, Idle
        <3> QED BY <3>1 DEF DriverProgressBut, Active
    <2>5. CASE c # Driver
        <3>1. call'[Driver] = call[Driver]
            BY <1>4, <2>5, HandlerShape
               DEF Stop, Returns, Continues, Failure, Crash, WriteDlqTorn
        <3> QED
            BY <1>1, <1>2, <3>1, DriverProgressIsStable
               DEF ProgressBut, DriverPlace, DriverProgressBut
    <2>6. ASSUME Returns(c)
          PROVE  (CheckLedger(c) /\ call[c].id \in ledger) \/ EmitMetrics(c) \/ Stop(c)
        <3>1. call'[c].pc = "returned"
            BY <1>4, <2>6 DEF Returns, Returned, Idle
        <3>2. ASSUME Continues(c) PROVE FALSE
            BY <3>1, <3>2 DEF Continues, Active
        <3>3. CASE CheckLedger(c)
            BY <3>2, <3>3, GotoContinues DEF CheckLedger, Active, Steps
        <3>4. CASE Validate(c)
            BY <1>4, <3>1, <3>4, FrameFields DEF Validate, Frame
        <3>5. CASE WriteDlq(c)
            BY <3>2, <3>5, GotoContinues DEF WriteDlq, Active, Steps
        <3>6. CASE MergeBegin(c)
            <4>1. CASE Goto(c, "ledger")
                BY <3>2, <3>6, <4>1, GotoContinues DEF MergeBegin, Active, Steps
            <4>2. CASE call' = [call EXCEPT ![c].pc = "commit", ![c].base = table]
                BY <1>4, <3>1, <4>2 DEF Frame
            <4> QED BY <3>6, <4>1, <4>2 DEF MergeBegin
        <3>7. CASE MergeCommit(c)
            BY <1>4, <3>1, <3>7 DEF MergeCommit, Frame
        <3>8. CASE CommitLedger(c)
            BY <3>2, <3>8, GotoContinues DEF CommitLedger, Active, Steps
        <3> QED
            BY <3>3, <3>4, <3>5, <3>6, <3>7, <3>8
               DEF ProcessBatch, TryValidate, TryCommit,
                   ValidateRaises, MergeConflict, Failure, Crash,
                   WriteDlqTorn
    <2>7. Stop(c) \/ Returns(c) \/ Continues(c)
        BY HandlerShape DEF Failure, Crash, WriteDlqTorn
    <2> QED BY <2>1, <2>2, <2>3, <2>4, <2>5, <2>6, <2>7
<1>9. LedgerSoundBut(X)' /\ NoSilentLossBut(X)'
    <2>1. CASE ledger' = ledger
        BY <1>1, <1>2, <2>1, SettledBatchesStay DEF ProgressBut
    <2>2. CASE CommitLedger(c) /\ ledger' # ledger
        <3>1. c = Driver /\ call[c].pc = "ledger" /\ ledger' = ledger \cup {call[c].id}
            BY <2>2 DEF CommitLedger
        <3>2. call[c].id = acked /\ Planned = acked + 1
            BY <3>1 DEF DriverPlace, Active, Steps
        <3>3. BatchSettled(acked) /\ acked + 2 <= Len(offsets)
            BY <1>3, <1>7, <3>1, <3>2 DEF Planned
        <3>4. \A b \in ledger' :
                 b \in X \/ (b \in Nat /\ b + 2 <= Len(offsets) /\ BatchSettled(b))
            BY <1>3, <3>1, <3>2, <3>3 DEF ProgressBut, LedgerSoundBut, Planned
        <3>5. LedgerSoundBut(X)'
            BY <1>1, <1>2, <1>3, <3>4, BatchSettledIsStable DEF LedgerSoundBut, Planned
        <3>6. NoSilentLossBut(X)'
            <4> SUFFICES ASSUME NEW b \in 0..(acked - 1) PROVE SettledBut(X, b)'
                BY <1>1 DEF NoSilentLossBut
            <4>1. b \in Nat /\ b + 2 <= Len(offsets) /\ SettledBut(X, b)
                BY <1>3, <3>2 DEF ProgressBut, NoSilentLossBut, Planned
            <4> QED BY <1>2, <1>3, <4>1, SettledButIsStable
        <3> QED BY <3>5, <3>6
    <2>3. CASE ~CommitLedger(c)
        <3>1. ledger' = ledger
            BY <2>3
               DEF ProcessBatch, TryValidate, TryCommit,
                   Failure, CheckLedger, Validate, ValidateRaises,
                   WriteDlq, WriteDlqTorn, MergeBegin, MergeCommit, MergeConflict,
                   EmitMetrics, Crash, sinks
        <3> QED BY <2>1, <3>1
    <2> QED BY <2>1, <2>2, <2>3
<1> QED BY <1>5, <1>6, <1>8, <1>9 DEF ProgressBut

(* The steps of Spark's loop around process_batch.                         *)
LEMMA LoopProgress ==
    ASSUME Shape, Shape', NEW X, ProgressBut(X), LoopStep
    PROVE  ProgressBut(X)'
<1> USE CallersAssumption DEF Shape
<1>1. /\ topic' = topic /\ head' = head /\ lost' = lost
      /\ ledger' = ledger /\ table' = table /\ dlq' = dlq
    BY DEF LoopStep, Start, PlanBatch, WrapperEmpty, WrapperRaises, WrapperCall,
           AckBatch, kafka, sinks
<1>2. Grows
    BY <1>1, AdvancesIsReflexive DEF Grows, Published
<1>3. Len(offsets) \in Nat /\ acked \in Nat /\ ledger \subseteq Nat
    BY DEF TypeOK
<1>4. OffsetsKept
    BY StepKeepsOffsets DEF LoopStep, Next, DriverStep
<1>5. call \in [Callers -> Frame]
    BY DEF TypeOK
<1>6. ExpiredSettled'
    <2> SUFFICES ASSUME NEW p \in Partitions, NEW i \in 1..head[p]
                 PROVE  Settled(p, i)'
        BY <1>1 DEF ExpiredSettled
    <2>1. Published(p, i) /\ Settled(p, i)
        BY DEF Published, Positions, ExpiredSettled, ProgressBut, TypeOK
    <2> QED BY <1>2, <2>1, SettledIsStable
<1>7. \A c \in Callers \ {Driver} : call'[c] = call[c]
    BY <1>5 DEF LoopStep, Start, PlanBatch, WrapperEmpty, WrapperRaises, WrapperCall,
                AckBatch, EnterCall, Stop, process
<1>8. call'[Driver].pc \in {"idle", "returned", "check"}
    <2>1. CASE Start
        BY <2>1 DEF Start, DriverPlace
    <2>2. CASE PlanBatch
        BY <2>2 DEF PlanBatch, process
    <2>3. CASE WrapperEmpty \/ WrapperRaises \/ AckBatch
        BY <1>5, <2>3
           DEF WrapperEmpty, WrapperRaises, AckBatch, Stop, Returned, Idle
    <2>4. CASE WrapperCall
        BY <1>5, <2>4 DEF WrapperCall, EnterCall, Idle
    <2> QED BY <2>1, <2>2, <2>3, <2>4 DEF LoopStep
<1>9. \A c \in Callers : CallProgress(c)'
    <2> SUFFICES ASSUME NEW c \in Callers PROVE CallProgress(c)'
        OBVIOUS
    <2>1. CASE c = Driver
        BY <1>8, <2>1 DEF CallProgress
    <2>2. CASE c # Driver
        BY <1>2, <1>7, <2>2, CallProgressIsStable DEF ProgressBut
    <2> QED BY <2>1, <2>2
<1>10. \A b \in ledger :
          b \in X \/ (b \in Nat /\ b + 2 <= Len(offsets) /\ BatchSettled(b))
    BY <1>3 DEF ProgressBut, LedgerSoundBut, Planned
<1>11. LedgerSoundBut(X)'
    <2> SUFFICES ASSUME NEW b \in ledger, b \notin X
                 PROVE  b < Planned' /\ BatchSettled(b)'
        BY <1>1 DEF LedgerSoundBut
    <2>1. Len(offsets') \in Nat
        BY DEF TypeOK
    <2>2. b < Planned'
        BY <1>3, <1>4, <1>10, <2>1 DEF Planned, OffsetsKept
    <2> QED BY <1>2, <1>4, <1>10, <2>2, BatchSettledIsStable
<1>12. \A b \in 0..(acked - 1) :
          b \in Nat /\ b + 2 <= Len(offsets) /\ SettledBut(X, b)
    BY <1>3 DEF ProgressBut, NoSilentLossBut, Planned, TypeOK
<1>13. CASE AckBatch
    <2>1. acked' = acked + 1 /\ call[Driver].pc = "returned"
        BY <1>13 DEF AckBatch
    <2>2. SettledBut(X, acked) /\ acked + 2 <= Len(offsets)
        BY <1>3, <2>1 DEF ProgressBut, DriverProgressBut, DriverPlace, Planned
    <2>3. ASSUME NEW b \in 0..acked PROVE SettledBut(X, b)'
        <3>1. b \in Nat /\ b + 2 <= Len(offsets) /\ SettledBut(X, b)
            BY <1>3, <1>12, <2>2
        <3> QED BY <1>2, <1>4, <3>1, SettledButIsStable
    <2>4. NoSilentLossBut(X)'
        BY <1>3, <2>1, <2>3 DEF NoSilentLossBut
    <2>5. call'[Driver].pc = "idle"
        BY <1>5, <1>13 DEF AckBatch, Idle
    <2>6. DriverProgressBut(X)'
        BY <2>5 DEF DriverProgressBut, Active
    <2> QED BY <1>6, <1>9, <1>11, <2>4, <2>6 DEF ProgressBut
<1>14. ASSUME ~AckBatch PROVE NoSilentLossBut(X)'
    <2>1. acked' = acked
        BY <1>14 DEF LoopStep, Start, PlanBatch, WrapperEmpty, WrapperRaises,
                     WrapperCall, checkpoint
    <2>2. ASSUME NEW b \in 0..(acked - 1) PROVE SettledBut(X, b)'
        BY <1>2, <1>4, <1>12, <2>2, SettledButIsStable
    <2> QED BY <2>1, <2>2 DEF NoSilentLossBut
<1>15. CASE Start \/ PlanBatch \/ WrapperRaises
    <2>1. call'[Driver].pc = "idle"
        BY <1>5, <1>15
           DEF Start, PlanBatch, WrapperRaises, Stop, DriverPlace, process, Idle
    <2>2. DriverProgressBut(X)'
        BY <2>1 DEF DriverProgressBut, Active
    <2>3. NoSilentLossBut(X)'
        <3>1. acked' = acked
            BY <1>15 DEF Start, PlanBatch, WrapperRaises, checkpoint
        <3>2. ASSUME NEW b \in 0..(acked - 1) PROVE SettledBut(X, b)'
            BY <1>2, <1>4, <1>12, <3>2, SettledButIsStable
        <3> QED BY <3>1, <3>2 DEF NoSilentLossBut
    <2> QED BY <1>6, <1>9, <1>11, <2>2, <2>3 DEF ProgressBut
<1>16. CASE WrapperEmpty \/ WrapperCall
    <2>1. /\ BatchReady
          /\ offsets' = offsets /\ acked' = acked
        BY <1>16 DEF WrapperEmpty, WrapperCall, checkpoint
    <2>2. acked + 2 <= Len(offsets)
        BY <1>3, <2>1 DEF BatchReady, Planned
    <2>3. ASSUME NEW p \in Partitions, NEW i \in 1..MaxRecords, InBatch(acked, p, i)
          PROVE  /\ Published(p, i)
                 /\ <<p, i>> \in Fetched(acked) \/ Settled(p, i)
        <3>1. Published(p, i)
            BY <1>3, <2>2, <2>3, InBatchPublished
        <3>2. head[p] \in Nat /\ Len(topic[p]) \in Nat
            BY DEF TypeOK
        <3>3. CASE i <= head[p]
            BY <3>1, <3>2, <3>3 DEF ProgressBut, ExpiredSettled
        <3>4. CASE head[p] < i
            BY <2>3, <3>1, <3>4 DEF Fetched, Retained, Published
        <3> QED BY <3>1, <3>2, <3>3, <3>4 DEF Published
    <2>4. CASE WrapperEmpty
        <3>1. SettledBut(X, acked)
            BY <2>3, <2>4 DEF WrapperEmpty, BatchSettled, SettledBut
        <3>2. call'[Driver].pc = "returned"
            BY <1>5, <2>4 DEF WrapperEmpty, Returned, Idle
        <3>3. Planned = acked + 1
            BY <2>1 DEF BatchReady
        <3>4. DriverProgressBut(X)'
            BY <1>2, <2>1, <3>1, <3>2, <3>3, DriverProgressIsStable DEF ProgressBut, Active
        <3>5. ~AckBatch
            BY <2>1 DEF BatchReady, AckBatch
        <3> QED BY <1>6, <1>9, <1>11, <1>14, <3>4, <3>5 DEF ProgressBut
    <2>5. CASE WrapperCall
        <3> DEFINE rows == Deserialized(Fetched(acked))
        <3>1. call'[Driver].pc = "check" /\ call'[Driver].rows = rows
            BY <1>5, <2>5 DEF WrapperCall, EnterCall, Idle
        <3>2. ASSUME NEW p \in Partitions, NEW i \in 1..MaxRecords,
                     InBatch(acked, p, i)
              PROVE  Settled(p, i) \/ FlatRow(p, i) \in rows
            <4>1. CASE <<p, i>> \in Fetched(acked)
                BY <4>1 DEF Deserialized, Settled
            <4> QED BY <2>3, <3>2, <4>1
        <3> HIDE DEF rows
        <3>3. ASSUME NEW p \in Partitions, NEW i \in 1..MaxRecords,
                     InBatch(acked, p, i)'
              PROVE  Settled(p, i)' \/ FlatRow(p, i)' \in call'[Driver].rows
            <4>1. InBatch(acked, p, i)
                BY <2>1, <3>3 DEF InBatch
            <4> QED
                BY <1>2, <2>3, <3>1, <3>2, <4>1, SettledIsStable, FlatRowIsStable
        <3>4. DriverProgressBut(X)'
            BY <3>1, <3>3 DEF DriverProgressBut
        <3>5. ~AckBatch
            BY <2>1 DEF BatchReady, AckBatch
        <3> QED BY <1>6, <1>9, <1>11, <1>14, <3>4, <3>5 DEF ProgressBut
    <2> QED BY <1>16, <2>4, <2>5
<1> QED BY <1>13, <1>15, <1>16 DEF LoopStep

LEMMA EnvironmentProgress ==
    ASSUME Shape, Shape', NEW X, ProgressBut(X), Environment \/ UNCHANGED vars
    PROVE  ProgressBut(X)'
<1> USE CallersAssumption DEF Shape
<1>1. /\ offsets' = offsets /\ acked' = acked /\ call' = call /\ ledger' = ledger
    BY DEF Environment, Publish, Expire, ChangeMerchants, vars, checkpoint, process,
           sinks
<1>2. Grows
    BY StepGrows DEF Next
<1>3. ExpiredSettled'
    BY ExpiredSettledStep DEF Next, ProgressBut
<1>4. \A c \in Callers : CallProgress(c)'
    BY <1>1, <1>2, CallProgressIsStable DEF ProgressBut
<1>5. DriverProgressBut(X)'
    BY <1>1, <1>2, DriverProgressIsStable DEF ProgressBut, DriverProgressBut, DriverPlace
<1> QED BY <1>1, <1>2, <1>3, <1>4, <1>5, SettledBatchesStay DEF ProgressBut

LEMMA ProgressInit ==
    ASSUME Init
    PROVE  Shape /\ Progress
<1>1. TypeOK /\ DriverPlace
    BY TypeInit
<1>2. call[Driver].pc = "idle" /\ \A c \in Callers : call[c].pc = "idle"
    BY CallersAssumption DEF Init, Idle
<1>3. Positions
    BY DEF Init, Positions
<1>4. ExpiredSettled /\ LedgerSound /\ NoSilentLoss
    BY DEF Init, ExpiredSettled, LedgerSound, NoSilentLoss
<1>5. (\A c \in Callers : CallProgress(c)) /\ DriverProgress
    BY <1>2 DEF CallProgress, DriverProgress, Active
<1> QED BY <1>1, <1>3, <1>4, <1>5 DEF Shape, Progress

LEMMA ProgressButStep ==
    ASSUME Shape, NEW X, ProgressBut(X), [Next]_vars
    PROVE  Shape' /\ ProgressBut(X)'
<1>1. Shape'
    BY ShapeStep
<1>2. CASE ProcessBatch(Driver) \/ Failure(Driver)
    BY <1>1, <1>2, HandlerProgress, CallersAssumption
<1>3. CASE LoopStep
    BY <1>1, <1>3, LoopProgress
<1>4. CASE Environment \/ UNCHANGED vars
    BY <1>1, <1>4, EnvironmentProgress
<1> QED BY <1>1, <1>2, <1>3, <1>4, NextCases

LEMMA ProgressStep ==
    ASSUME Shape, Progress, [Next]_vars
    PROVE  Shape' /\ Progress'
BY ProgressButStep, NothingExcused

LEMMA ProgressInvariant == Spec => [](Shape /\ Progress)
<1>1. Init => Shape /\ Progress
    BY ProgressInit
<1>2. Shape /\ Progress /\ [Next]_vars => (Shape /\ Progress)'
    BY ProgressStep
<1> QED BY <1>1, <1>2, PTL DEF Spec

(* Whatever crashes, replays, torn writes, duplicates and registry         *)
(* refreshes happen, each record of an acknowledged batch is in the Delta  *)
(* table (itself or a later change of its key), in the DLQ, a tombstone,   *)
(* or was removed by retention first.                                      *)
THEOREM NothingIsLost == Spec => []NoSilentLoss
<1>1. Shape /\ Progress => NoSilentLoss
    BY DEF Progress
<1> QED BY <1>1, ProgressInvariant, PTL

(* The ledger never runs ahead of the sinks: skipping a ledgered batch on  *)
(* replay skips nothing that is not settled.                               *)
THEOREM LedgerIsSound == Spec => []LedgerSound
<1>1. Shape /\ Progress => LedgerSound
    BY DEF Progress
<1> QED BY <1>1, ProgressInvariant, PTL

-----------------------------------------------------------------------------
(* The acknowledged batches, taken together.                               *)

(* Every record from where the checkpoint started up to m is settled.      *)
SettledUpTo(m) ==
    \A p \in Partitions, i \in 1..MaxRecords :
        offsets[1][p] < i /\ i <= m[p] => Settled(p, i)

(* The ends of acknowledged batches that the offset log holds; the first   *)
(* one is the start of the checkpoint.                                     *)
AckedEnds == { k \in 1..Len(offsets) : k - 1 <= acked }

AckedSettled == \A k \in AckedEnds : SettledUpTo(offsets[k])

(* The commit log grows only by the batch that returned.                   *)
LEMMA JobAckedMoves ==
    ASSUME TypeOK, [Next]_vars
    PROVE  \/ acked' = acked
           \/ /\ acked' = acked + 1
              /\ offsets' = offsets
              /\ call[Driver].pc = "returned"
<1>1. CASE ProcessBatch(Driver) \/ Failure(Driver)
    BY <1>1, HandlerWrites, CallersAssumption
<1>2. CASE LoopStep
    BY <1>2 DEF LoopStep, Start, PlanBatch, WrapperEmpty, WrapperRaises,
                WrapperCall, AckBatch, checkpoint
<1>3. CASE Environment \/ UNCHANGED vars
    BY <1>3 DEF Environment, Publish, Expire, ChangeMerchants, vars, checkpoint
<1> QED BY <1>1, <1>2, <1>3, NextCases

(* A position of an acknowledged end that is behind the start of the       *)
(* checkpoint holds a record.                                              *)
LEMMA EndsPublished ==
    ASSUME Shape, NEW k \in 1..Len(offsets),
           NEW p \in Partitions, NEW i \in 1..MaxRecords,
           i <= offsets[k][p]
    PROVE  Published(p, i)
<1>1. Len(topic[p]) \in Nat
    BY DEF Shape, TypeOK
<1>2. offsets[k] \in [Partitions -> Nat]
    BY DEF Shape, TypeOK
<1>3. offsets[k][p] <= Len(topic[p])
    BY DEF Shape, Positions
<1>4. i \in Nat /\ 1 <= i
    BY BoundsAssumption
<1> QED BY <1>1, <1>2, <1>3, <1>4 DEF Published

LEMMA AckedSettledIsStable ==
    ASSUME Shape, Shape', Progress, AckedSettled, Grows, OffsetsKept,
           \/ acked' = acked
           \/ /\ acked' = acked + 1
              /\ offsets' = offsets
              /\ call[Driver].pc = "returned"
    PROVE  AckedSettled'
<1> USE DEF Shape
<1>1. Grows /\ OffsetsKept
    OBVIOUS
<1>2. /\ Len(offsets) \in Nat /\ Len(offsets') \in Nat /\ acked \in Nat
      /\ offsets # <<>> => Len(offsets) >= 1 /\ acked + 1 <= Len(offsets)
      /\ offsets = <<>> => Len(offsets) = 0 /\ acked = 0
    BY DEF TypeOK, Planned
<1>3. \/ acked' = acked
      \/ /\ acked' = acked + 1
         /\ offsets' = offsets
         /\ call[Driver].pc = "returned"
    OBVIOUS
<1> SUFFICES ASSUME NEW k, k \in 1..Len(offsets'), k - 1 <= acked',
                    NEW p \in Partitions, NEW i \in 1..MaxRecords,
                    offsets'[1][p] < i, i <= offsets'[k][p]
             PROVE  Settled(p, i)'
    BY DEF AckedSettled, AckedEnds, SettledUpTo
<1>4. i \in Int /\ offsets'[1][p] \in Nat /\ offsets'[k][p] \in Nat
    <2>1. offsets' \in Seq([Partitions -> Nat]) /\ Len(offsets') \in Nat
        BY DEF TypeOK
    <2>2. 1 \in 1..Len(offsets')
        BY <2>1
    <2>3. offsets'[1] \in [Partitions -> Nat] /\ offsets'[k] \in [Partitions -> Nat]
        BY <2>1, <2>2
    <2> QED BY <2>3, BoundsAssumption
<1>5. CASE k <= Len(offsets)
    <2>1. /\ k \in 1..Len(offsets)
          /\ offsets'[1] = offsets[1]
          /\ offsets'[k] = offsets[k]
        BY <1>1, <1>2, <1>5 DEF OffsetsKept
    <2>2. Published(p, i)
        BY <2>1, EndsPublished
    <2>3. Settled(p, i)
        <3>1. CASE k \in AckedEnds
            BY <2>1, <3>1 DEF AckedSettled, SettledUpTo
        <3>2. CASE k \notin AckedEnds
            <4>1. k = acked + 2 /\ call[Driver].pc = "returned"
                BY <1>2, <1>3, <2>1, <3>2 DEF AckedEnds
            <4>2. BatchSettled(acked)
                BY <4>1 DEF Progress, DriverProgress
            <4>3. acked + 1 \in AckedEnds /\ offsets[acked + 1][p] \in Nat
                BY <1>2, <2>1, <4>1 DEF AckedEnds, TypeOK
            <4>4. CASE i <= offsets[acked + 1][p]
                BY <2>1, <4>3, <4>4 DEF AckedSettled, SettledUpTo
            <4>5. CASE offsets[acked + 1][p] < i
                BY <2>1, <4>1, <4>2, <4>5 DEF BatchSettled, InBatch
            <4> QED BY <1>4, <4>3, <4>4, <4>5
        <3> QED BY <3>1, <3>2
    <2> QED BY <1>1, <2>2, <2>3, SettledIsStable
<1>6. CASE Len(offsets) < k
    <2>1. k = 1
        BY <1>2, <1>3, <1>6
    <2> QED BY <1>4, <2>1
<1> QED BY <1>2, <1>5, <1>6

LEMMA AckedSettledInvariant == Spec => []AckedSettled
<1>1. Init => AckedSettled
    BY DEF Init, AckedSettled, AckedEnds
<1>2. /\ Shape /\ Progress
      /\ Shape' /\ Progress'
      /\ AckedSettled
      /\ [Next]_vars
      => AckedSettled'
    BY StepGrows, StepKeepsOffsets, JobAckedMoves, AckedSettledIsStable DEF Shape
<1> QED BY <1>1, <1>2, ProgressInvariant, PTL DEF Spec

(* The topic keeps its bound, and a checkpoint that began at the earliest  *)
(* offset began no later than what retention has left.                     *)
TopicBounded == \A p \in Partitions : Len(topic[p]) <= MaxRecords

StartsAtHead ==
    StartingOffsets = "earliest" /\ offsets # <<>> =>
      \A p \in Partitions : offsets[1][p] <= head[p]

LEMMA TopicBoundedStep ==
    ASSUME TypeOK, TopicBounded, [Next]_vars
    PROVE  TopicBounded'
<1>1. CASE topic' = topic
    BY <1>1 DEF TopicBounded
<1>2. CASE \E p \in Partitions, e \in Events : Publish(p, e)
    <2>1. PICK p \in Partitions, e \in Events :
              /\ Len(topic[p]) < MaxRecords
              /\ topic' = [topic EXCEPT ![p] = Append(@, e)]
        BY <1>2 DEF Publish
    <2>2. topic[p] \in Seq(Event) /\ e \in Event
        BY EventsAssumption DEF TypeOK
    <2>3. ASSUME NEW q \in Partitions PROVE Len(topic'[q]) <= MaxRecords
        <3>1. CASE q = p
            <4>1. topic'[q] = Append(topic[p], e)
                BY <2>1, <3>1 DEF TypeOK
            <4>2. Len(topic'[q]) = Len(topic[p]) + 1 /\ Len(topic[p]) \in Nat
                BY <2>2, <4>1
            <4> QED BY <2>1, <4>2, BoundsAssumption
        <3>2. CASE q # p
            BY <2>1, <3>2 DEF TypeOK, TopicBounded
        <3> QED BY <3>1, <3>2
    <2> QED BY <2>3 DEF TopicBounded
<1>3. CASE ProcessBatch(Driver) \/ Failure(Driver)
    BY <1>1, <1>3, HandlerWrites, CallersAssumption
<1>4. CASE LoopStep \/ UNCHANGED vars
    BY <1>1, <1>4 DEF LoopStep, Start, PlanBatch, WrapperEmpty, WrapperRaises,
                      WrapperCall, AckBatch, vars, kafka
<1>5. CASE Environment
    BY <1>1, <1>2, <1>5 DEF Environment, Expire, ChangeMerchants, kafka
<1> QED BY <1>3, <1>4, <1>5, NextCases

(* Retention only goes forward.                                            *)
LEMMA HeadAdvances ==
    ASSUME TypeOK, [Next]_vars, NEW p \in Partitions
    PROVE  head[p] \in Nat /\ head'[p] \in Nat /\ head[p] <= head'[p]
<1>1. head[p] \in Nat
    BY DEF TypeOK
<1>2. CASE head' = head
    BY <1>1, <1>2
<1>3. CASE \E q \in Partitions : Expire(q)
    <2>1. PICK q \in Partitions : head' = [head EXCEPT ![q] = @ + 1]
        BY <1>3 DEF Expire
    <2>2. head'[p] = IF p = q THEN head[p] + 1 ELSE head[p]
        BY <2>1 DEF TypeOK
    <2> QED BY <1>1, <2>2
<1>4. CASE ProcessBatch(Driver) \/ Failure(Driver)
    BY <1>2, <1>4, HandlerWrites, CallersAssumption
<1>5. CASE LoopStep \/ UNCHANGED vars
    BY <1>2, <1>5 DEF LoopStep, Start, PlanBatch, WrapperEmpty, WrapperRaises,
                      WrapperCall, AckBatch, vars, kafka
<1>6. CASE Environment
    BY <1>2, <1>3, <1>6 DEF Environment, Publish, ChangeMerchants, kafka
<1> QED BY <1>4, <1>5, <1>6, NextCases

LEMMA StartsAtHeadStep ==
    ASSUME TypeOK, DriverPlace, TypeOK', StartsAtHead, [Next]_vars
    PROVE  StartsAtHead'
<1> SUFFICES ASSUME StartingOffsets = "earliest", offsets' # <<>>, NEW p \in Partitions
             PROVE  offsets'[1][p] <= head'[p]
    BY DEF StartsAtHead
<1>1. CASE offsets # <<>>
    <2>1. 1 \in 1..Len(offsets)
        BY <1>1 DEF TypeOK
    <2>2. offsets'[1] = offsets[1]
        BY <2>1, StepKeepsOffsets DEF OffsetsKept
    <2>3. offsets[1][p] \in Nat /\ offsets[1][p] <= head[p]
        BY <1>1, <2>1 DEF TypeOK, StartsAtHead
    <2> QED BY <2>2, <2>3, HeadAdvances
<1>2. CASE offsets = <<>>
    <2>1. CASE Start
        BY <1>2, <2>1 DEF Start, kafka, TypeOK
    <2>2. CASE ProcessBatch(Driver) \/ Failure(Driver)
        BY <1>2, <2>2, HandlerWrites, CallersAssumption
    <2>3. CASE LoopStep /\ ~Start
        BY <1>2, <2>3 DEF LoopStep, PlanBatch, WrapperEmpty, WrapperRaises,
                          WrapperCall, AckBatch, checkpoint, DriverPlace
    <2>4. CASE Environment \/ UNCHANGED vars
        BY <1>2, <2>4 DEF Environment, Publish, Expire, ChangeMerchants, vars, checkpoint
    <2> QED BY <2>1, <2>2, <2>3, <2>4, NextCases
<1> QED BY <1>1, <1>2

LEMMA BeginningInvariant == Spec => [](TopicBounded /\ StartsAtHead)
<1>1. Init => TopicBounded /\ StartsAtHead
    BY BoundsAssumption DEF Init, TopicBounded, StartsAtHead
<1>2. /\ TypeOK /\ DriverPlace /\ (TypeOK /\ DriverPlace)'
      /\ TopicBounded /\ StartsAtHead /\ [Next]_vars
      => (TopicBounded /\ StartsAtHead)'
    BY TopicBoundedStep, StartsAtHeadStep
<1> QED BY <1>1, <1>2, TypeCorrect, PTL DEF Spec

(* A driver that is through with the topic has left no record unsettled.   *)
WorkedOff == offsets # <<>> /\ Planned = acked /\ Ends = offsets[Len(offsets)]

LEMMA WorkedOffIsSettled ==
    ASSUME Shape, Progress, AckedSettled, TopicBounded, StartsAtHead,
           StartingOffsets = "earliest", WorkedOff,
           NEW p \in Partitions, NEW i \in 1..Len(topic[p])
    PROVE  i \in 1..MaxRecords /\ Settled(p, i)
<1> USE DEF Shape
<1>1. Len(topic[p]) \in Nat /\ Len(topic[p]) <= MaxRecords
    BY DEF TypeOK, TopicBounded
<1>2. i \in 1..MaxRecords
    BY <1>1, BoundsAssumption
<1>3. /\ offsets[1][p] \in Nat /\ offsets[1][p] <= head[p]
      /\ Len(offsets) \in AckedEnds /\ offsets[Len(offsets)][p] = Len(topic[p])
    <2>1. Len(offsets) \in Nat /\ Len(offsets) >= 1
        BY DEF TypeOK, WorkedOff
    <2> QED BY <2>1 DEF TypeOK, WorkedOff, StartsAtHead, Planned, AckedEnds, Ends
<1>4. CASE i <= offsets[1][p]
    <2>1. i \in 1..head[p]
        BY <1>3, <1>4 DEF TypeOK
    <2> QED BY <1>2, <2>1 DEF Progress, ExpiredSettled
<1>5. CASE offsets[1][p] < i
    BY <1>2, <1>3, <1>5 DEF AckedSettled, SettledUpTo
<1> QED BY <1>2, <1>3, <1>4, <1>5

-----------------------------------------------------------------------------
(* Where the rows come from.                                               *)

(* Rows in the sinks and in the frames are decoded records of planned      *)
(* batches, and what passed validation is well formed.                     *)
RowsSourced ==
    /\ \A r \in table \cup dlq : Sourced(r)
    /\ \A r \in table : r.wellFormed
    /\ \A c \in Callers : /\ \A r \in call[c].rows : Sourced(r)
                          /\ call[c].valid \subseteq call[c].rows
                          /\ \A r \in call[c].valid : r.wellFormed

LEMMA SourcedIsStable ==
    ASSUME TypeOK, TypeOK', Grows, OffsetsKept, NEW r \in Row, Sourced(r)
    PROVE  Sourced(r)'
<1>1. Published(r.partition, r.offset)
    BY DEF Sourced, Published, Row
<1>2. Published(r.partition, r.offset)' /\ r = FlatRow(r.partition, r.offset)'
    BY <1>1, FlatRowIsStable DEF Grows, Sourced
<1>3. PICK b \in 0..(Planned - 1) : InBatch(b, r.partition, r.offset)
    BY DEF Sourced
<1>4. Len(offsets) \in Nat /\ Len(offsets') \in Nat
    BY DEF TypeOK
<1>5. b \in 0..(Planned' - 1) /\ InBatch(b, r.partition, r.offset)'
    BY <1>3, <1>4 DEF OffsetsKept, Planned, InBatch
<1> QED BY <1>2, <1>5 DEF Sourced, Published

LEMMA FramesSourced ==
    ASSUME Shape, Shape', RowsSourced, [Next]_vars, Grows, OffsetsKept,
           NEW c \in Callers
    PROVE  /\ \A r \in call'[c].rows : Sourced(r)'
           /\ call'[c].valid \subseteq call'[c].rows
           /\ \A r \in call'[c].valid : r.wellFormed
<1> USE CallersAssumption DEF Shape
<1>1. call \in [Callers -> Frame] /\ call[c] \in Frame /\ call[Driver] \in Frame
    BY DEF TypeOK
<1>2. \A r \in call[c].rows : Sourced(r)'
    BY <1>1, FrameType, SourcedIsStable DEF RowsSourced
<1>3. CASE call'[c].rows = call[c].rows /\ call'[c].valid = call[c].valid
    BY <1>2, <1>3 DEF RowsSourced
<1>4. CASE call'[c].rows = {} /\ call'[c].valid = {}
    BY <1>4
<1>5. CASE c = Driver /\ WrapperCall
    <2>1. call'[c].rows = Deserialized(Fetched(acked)) /\ call'[c].valid = {}
        BY <1>1, <1>5 DEF WrapperCall, EnterCall, Idle
    <2>2. ASSUME NEW r \in Deserialized(Fetched(acked)) PROVE Sourced(r)
        <3>1. PICK pos \in Fetched(acked) : r = FlatRow(pos[1], pos[2])
            BY <2>2 DEF Deserialized
        <3>2. Published(pos[1], pos[2]) /\ InBatch(acked, pos[1], pos[2])
            BY FetchedPublished DEF Fetched
        <3>3. r.partition = pos[1] /\ r.offset = pos[2]
            BY <3>1, <3>2, FlatRowType
        <3>4. acked \in 0..(Planned - 1)
            BY <1>5 DEF WrapperCall, BatchReady, TypeOK
        <3> QED BY <3>1, <3>2, <3>3, <3>4 DEF Sourced, Published
    <2>3. Deserialized(Fetched(acked)) \subseteq Row
        BY DeserializedType, FetchedPublished
    <2> QED BY <2>1, <2>2, <2>3, SourcedIsStable
<1>6. CASE c = Driver /\ (ProcessBatch(c) \/ Failure(c))
    BY <1>2, <1>3, <1>4, <1>6, HandlerRows DEF Admissible
<1>7. CASE c # Driver /\ (ProcessBatch(Driver) \/ Failure(Driver))
    <2>1. call'[c] = call[c]
        BY <1>1, <1>7, HandlerShape
           DEF Stop, Returns, Continues, Failure, Crash, WriteDlqTorn
    <2> QED BY <1>3, <2>1
<1>8. CASE LoopStep /\ ~(c = Driver /\ WrapperCall)
    <2>1. call'[c] \in {call[c], Idle, Returned}
        BY <1>1, <1>8
           DEF LoopStep, Start, PlanBatch, WrapperEmpty, WrapperRaises, WrapperCall,
               AckBatch, EnterCall, Stop, process
    <2> QED BY <1>3, <1>4, <2>1 DEF Idle, Returned
<1>9. CASE Environment \/ UNCHANGED vars
    <2>1. call' = call
        BY <1>9 DEF Environment, Publish, Expire, ChangeMerchants, vars, process
    <2> QED BY <1>3, <2>1
<1> QED BY <1>5, <1>6, <1>7, <1>8, <1>9, NextCases

(* What a step adds to the sinks comes from the driver's call.             *)
LEMMA SinksGrow ==
    ASSUME [Next]_vars
    PROVE  /\ table' \subseteq table \cup call[Driver].valid
           /\ dlq' \subseteq dlq \cup call[Driver].rows
<1>1. CASE MergeCommit(Driver)
    <2>1. PICK staged \in DedupLatest(call[Driver].valid) :
              table' = MergeInto(table, staged)
        BY <1>1 DEF MergeCommit
    <2> QED BY <1>1, <2>1, MergeInventsNothing DEF MergeCommit, DedupLatest
<1>2. CASE WriteDlq(Driver) \/ WriteDlqTorn(Driver)
    BY <1>2 DEF WriteDlq, WriteDlqTorn, Invalid
<1>3. CASE ~MergeCommit(Driver) /\ ~WriteDlq(Driver) /\ ~WriteDlqTorn(Driver)
    BY <1>3, NextCases
       DEF ProcessBatch, TryValidate, TryCommit,
           Failure, CheckLedger, Validate, ValidateRaises,
           MergeBegin, MergeConflict, CommitLedger, EmitMetrics, Crash,
           Environment, Publish, Expire, ChangeMerchants, LoopStep, Start,
           PlanBatch, WrapperEmpty, WrapperRaises, WrapperCall, AckBatch,
           vars, sinks
<1> QED BY <1>1, <1>2, <1>3

LEMMA RowsSourcedStep ==
    ASSUME Shape, Shape', RowsSourced, [Next]_vars
    PROVE  RowsSourced'
<1> USE CallersAssumption DEF Shape
<1>1. Grows /\ OffsetsKept
    BY StepGrows, StepKeepsOffsets
<1>2. call[Driver] \in Frame /\ table \subseteq Row /\ dlq \subseteq Row
    BY DEF TypeOK
<1>3. call[Driver].rows \subseteq Row
    BY <1>2, FrameType
<1>4. /\ table' \subseteq table \cup call[Driver].valid
      /\ dlq' \subseteq dlq \cup call[Driver].rows
    BY SinksGrow
<1>5. \A r \in table' \cup dlq' : r \in Row /\ Sourced(r)
    BY <1>2, <1>3, <1>4 DEF RowsSourced
<1>6. \A r \in table' \cup dlq' : Sourced(r)'
    BY <1>1, <1>5, SourcedIsStable
<1>7. \A r \in table' : r.wellFormed
    BY <1>4 DEF RowsSourced
<1>8. \A c \in Callers : /\ \A r \in call'[c].rows : Sourced(r)'
                         /\ call'[c].valid \subseteq call'[c].rows
                         /\ \A r \in call'[c].valid : r.wellFormed
    BY <1>1, FramesSourced
<1> QED BY <1>6, <1>7, <1>8 DEF RowsSourced

LEMMA RowsSourcedInvariant == Spec => [](Shape /\ RowsSourced)
<1>1. Init => Shape /\ RowsSourced
    <2> SUFFICES ASSUME Init PROVE Shape /\ RowsSourced
        OBVIOUS
    <2>1. \A c \in Callers : call[c].rows = {} /\ call[c].valid = {}
        BY DEF Init, Idle
    <2> QED BY <2>1, ProgressInit DEF Init, RowsSourced
<1>2. Shape /\ RowsSourced /\ [Next]_vars => (Shape /\ RowsSourced)'
    BY ShapeStep, RowsSourcedStep
<1> QED BY <1>1, <1>2, PTL DEF Spec

(* Neither the Delta table nor the DLQ ever holds a row that the offset    *)
(* log does not account for, and no row that is not well formed gets into  *)
(* the table.                                                              *)
THEOREM SinksAreSourced == Spec => []SinksFollowOffsetLog
<1>1. Shape /\ RowsSourced => SinksFollowOffsetLog
    BY DEF RowsSourced, SinksFollowOffsetLog
<1> QED BY <1>1, RowsSourcedInvariant, PTL

-----------------------------------------------------------------------------
(* A batch in the ledger is final.                                         *)

(* Between the lookup and the commit of the ledger the driver's batch is   *)
(* not in it.                                                              *)
Unledgered ==
    call[Driver].pc \in {"validate", "dlq", "merge", "commit", "ledger"} =>
        acked \notin ledger

LEMMA UnledgeredStep ==
    ASSUME TypeOK, DriverPlace, Unledgered, [Next]_vars
    PROVE  Unledgered'
<1> USE CallersAssumption DEF Active, Steps
<1>1. call \in [Callers -> Frame] /\ call[Driver] \in Frame
    BY DEF TypeOK
<1>2. CASE ProcessBatch(Driver) \/ Failure(Driver)
    <2>1. acked' = acked
        BY <1>2, HandlerWrites
    <2>2. CASE CheckLedger(Driver)
        <3>1. ledger' = ledger /\ call[Driver].id = acked
            BY <2>2 DEF CheckLedger, DriverPlace, sinks
        <3>2. CASE call[Driver].id \in ledger
            BY <1>1, <2>2, <3>2 DEF CheckLedger, Unledgered, Returned, Idle
        <3> QED BY <2>1, <2>2, <3>1, <3>2 DEF Unledgered
    <2>3. CASE CommitLedger(Driver)
        <3>1. call'[Driver].pc = "emit"
            BY <2>3, GotoContinues DEF CommitLedger
        <3> QED BY <3>1 DEF Unledgered
    <2>4. CASE ~CheckLedger(Driver) /\ ~CommitLedger(Driver)
        <3>1. ledger' = ledger
            BY <1>2, <2>4
               DEF ProcessBatch, TryValidate, TryCommit,
                   Failure, Validate, ValidateRaises, WriteDlq,
                   WriteDlqTorn, MergeBegin, MergeCommit, MergeConflict, EmitMetrics,
                   Crash, sinks
        <3>2. \/ call[Driver].pc \in {"validate", "dlq", "merge", "commit", "ledger"}
              \/ call'[Driver].pc \in {"idle", "returned"}
            BY <1>1, <1>2, <2>4
               DEF ProcessBatch, TryValidate, TryCommit,
                   Failure, Validate, ValidateRaises, WriteDlq,
                   WriteDlqTorn, MergeBegin, MergeCommit, MergeConflict, EmitMetrics,
                   Crash, Stop, Returned, Idle
        <3> QED BY <2>1, <3>1, <3>2 DEF Unledgered
    <2> QED BY <2>2, <2>3, <2>4
<1>3. CASE LoopStep
    <2>1. call'[Driver].pc \in {"idle", "returned", "check"}
        <3>1. CASE WrapperCall
            BY <1>1, <3>1 DEF WrapperCall, EnterCall, Idle
        <3>2. CASE ~WrapperCall
            BY <1>1, <1>3, <3>2
               DEF LoopStep, Start, PlanBatch, WrapperEmpty, WrapperRaises, AckBatch,
                   Stop, Returned, Idle, process, DriverPlace
        <3> QED BY <3>1, <3>2
    <2> QED BY <2>1 DEF Unledgered
<1>4. CASE Environment \/ UNCHANGED vars
    BY <1>4 DEF Environment, Publish, Expire, ChangeMerchants, vars, checkpoint,
                process, sinks, Unledgered
<1> QED BY <1>2, <1>3, <1>4, NextCases

(* Once the ledger has a batch, the driver changes neither the Delta table *)
(* nor the DLQ until it moves on to the next one: the ledger makes the     *)
(* replay of an acknowledged micro-batch a no-op even when the merchants   *)
(* table would now admit other rows.                                       *)
THEOREM LedgeredIsFinal == Spec => LedgeredBatchIsFinal
<1>1. Init => Unledgered
    BY CallersAssumption DEF Init, Unledgered, Idle
<1>2. TypeOK /\ DriverPlace /\ Unledgered /\ [Next]_vars => Unledgered'
    BY UnledgeredStep
<1>3. TypeOK /\ Unledgered /\ [Next]_vars
        => [(table' # table \/ dlq' # dlq) => acked \notin ledger]_vars
    BY NextCases
       DEF Unledgered, ProcessBatch, TryValidate, TryCommit,
           Failure, CheckLedger, Validate, ValidateRaises,
           WriteDlq, WriteDlqTorn, MergeBegin, MergeCommit, MergeConflict,
           CommitLedger, EmitMetrics, Crash, Environment, Publish, Expire,
           ChangeMerchants, LoopStep, Start, PlanBatch, WrapperEmpty, WrapperRaises,
           WrapperCall, AckBatch, vars, sinks
<1> QED BY <1>1, <1>2, <1>3, TypeCorrect, PTL DEF Spec, LedgeredBatchIsFinal

-----------------------------------------------------------------------------
(* What is in the DLQ.                                                     *)

(* Some content of the merchants table rejects the row.                    *)
Rejectable(r) == \E m \in MerchantSets \ {{}} : ~Admissible(r, m)

(* The registry of a process is empty or what Postgres had at some time,   *)
(* and what it rejects goes to the DLQ and nothing else.                   *)
OnlyRejected ==
    /\ pgMerchants \in MerchantSets
    /\ registry \in [Callers -> MerchantSets \cup {{}}]
    /\ \A c \in Callers : call[c].pc = "dlq" => \A r \in Invalid(c) : Rejectable(r)
    /\ \A r \in dlq : Rejectable(r)

LEMMA OnlyRejectedStep ==
    ASSUME TypeOK, OnlyRejected, [Next]_vars
    PROVE  OnlyRejected'
<1> USE CallersAssumption
<1>1. call \in [Callers -> Frame] /\ call[Driver] \in Frame
    BY DEF TypeOK
<1>2. CASE Environment \/ UNCHANGED vars
    <2>1. UNCHANGED <<call, registry, dlq>> /\ pgMerchants' \in MerchantSets
        BY <1>2 DEF Environment, Publish, Expire, ChangeMerchants, vars, process, sinks,
                    OnlyRejected
    <2> QED BY <2>1 DEF OnlyRejected, Invalid
<1>3. CASE LoopStep
    <2>1. UNCHANGED <<pgMerchants, dlq>>
        BY <1>3 DEF LoopStep, Start, PlanBatch, WrapperEmpty, WrapperRaises,
                    WrapperCall, AckBatch, sinks
    <2>2. registry' \in [Callers -> MerchantSets \cup {{}}]
        BY <1>3 DEF LoopStep, Start, PlanBatch, WrapperEmpty, WrapperRaises,
                    WrapperCall, AckBatch, Stop, process, OnlyRejected
    <2>3. \A c \in Callers : call'[c] = call[c] \/ call'[c].pc # "dlq"
        <3>1. CASE WrapperCall
            BY <1>1, <3>1 DEF WrapperCall, EnterCall, Idle
        <3>2. CASE ~WrapperCall
            <4>1. \A c \in Callers : call'[c] \in {call[c], Idle, Returned}
                BY <1>1, <1>3, <3>2 DEF LoopStep, Start, PlanBatch, WrapperEmpty,
                                        WrapperRaises, AckBatch, Stop, process
            <4> QED BY <4>1 DEF Idle, Returned
        <3> QED BY <3>1, <3>2
    <2> QED BY <2>1, <2>2, <2>3 DEF OnlyRejected, Invalid
<1>4. CASE Validate(Driver)
    <2>1. PICK m \in {registry[Driver], pgMerchants} \ {{}} :
            /\ registry' = [registry EXCEPT ![Driver] = m]
            /\ call' = [call EXCEPT ![Driver].pc = "dlq",
                                    ![Driver].valid = { r \in call[Driver].rows :
                                                          Admissible(r, m) }]
        BY <1>4 DEF Validate
    <2>2. m \in MerchantSets \ {{}}
        BY <2>1 DEF OnlyRejected
    <2> DEFINE v == { r \in call[Driver].rows : Admissible(r, m) }
    <2>3. /\ \A c \in Callers \ {Driver} : call'[c] = call[c]
          /\ call'[Driver] = [call[Driver] EXCEPT !.pc = "dlq", !.valid = v]
        BY <1>1, <2>1
    <2>4. \A r \in Invalid(Driver)' : Rejectable(r)
        <3>1. v \in SUBSET Row
            BY <1>1, FrameType
        <3> HIDE DEF v
        <3>2. call'[Driver].rows = call[Driver].rows /\ call'[Driver].valid = v
            BY <1>1, <2>3, <3>1, FrameFields DEF Steps
        <3> QED BY <2>2, <3>2 DEF v, Invalid, Rejectable
    <2>5. UNCHANGED <<pgMerchants, dlq>>
        BY <1>4 DEF Validate, sinks
    <2>6. registry' \in [Callers -> MerchantSets \cup {{}}]
        BY <2>1, <2>2 DEF OnlyRejected
    <2> QED BY <2>3, <2>4, <2>5, <2>6 DEF OnlyRejected, Invalid
<1>5. CASE (ProcessBatch(Driver) \/ Failure(Driver)) /\ ~Validate(Driver)
    <2>1. pgMerchants' = pgMerchants
        BY <1>5, HandlerWrites
    <2>2. registry' \in [Callers -> MerchantSets \cup {{}}]
        BY <1>5 DEF ProcessBatch, TryValidate, TryCommit,
                    Failure, CheckLedger, ValidateRaises, WriteDlq,
                    WriteDlqTorn, MergeBegin, MergeCommit, MergeConflict,
                    CommitLedger, EmitMetrics, Crash, Stop, OnlyRejected
    <2>3. \A r \in dlq' : Rejectable(r)
        BY <1>5 DEF ProcessBatch, TryValidate, TryCommit,
                    Failure, CheckLedger, ValidateRaises, WriteDlq,
                    WriteDlqTorn, MergeBegin, MergeCommit, MergeConflict,
                    CommitLedger, EmitMetrics, Crash, sinks, OnlyRejected
    <2>4. \A c \in Callers : call'[c] = call[c] \/ call'[c].pc # "dlq"
        BY <1>1, <1>5 DEF ProcessBatch, TryValidate, TryCommit,
                          Failure, CheckLedger, ValidateRaises, WriteDlq,
                    WriteDlqTorn, MergeBegin, MergeCommit, MergeConflict,
                    CommitLedger, EmitMetrics, Crash, Stop, Goto, Idle, Returned, Frame
    <2> QED BY <2>1, <2>2, <2>3, <2>4 DEF OnlyRejected, Invalid
<1> QED BY <1>2, <1>3, <1>4, <1>5, NextCases

LEMMA OnlyRejectedInvariant == Spec => []OnlyRejected
<1>1. Init => OnlyRejected
    BY DEF Init, OnlyRejected, Idle
<1>2. TypeOK /\ OnlyRejected /\ [Next]_vars => OnlyRejected'
    BY OnlyRejectedStep
<1> QED BY <1>1, <1>2, TypeCorrect, PTL DEF Spec

(* Where retention removes nothing, nothing is lost.                       *)
NothingLost == lost = {}

LEMMA NothingExpires ==
    ASSUME MaxExpired = 0
    PROVE  Spec => []NothingLost
<1>1. Init => NothingLost
    BY DEF Init, NothingLost
<1>2. TypeOK /\ NothingLost /\ [Next]_vars => NothingLost'
    <2> SUFFICES ASSUME TypeOK, lost = {}, [Next]_vars
                 PROVE  lost' = {}
        BY DEF NothingLost
    <2>1. CASE ProcessBatch(Driver) \/ Failure(Driver)
        BY <2>1, HandlerWrites, CallersAssumption
    <2>2. CASE LoopStep \/ UNCHANGED vars
        BY <2>2 DEF LoopStep, Start, PlanBatch, WrapperEmpty, WrapperRaises,
                          WrapperCall, AckBatch, vars, kafka
    <2>3. CASE Environment
        <3>1. \A p \in Partitions : ~Expire(p)
            BY DEF Expire, TypeOK
        <3> QED BY <2>3, <3>1 DEF Environment, Publish, ChangeMerchants, kafka
    <2> QED BY <2>1, <2>2, <2>3, NextCases
<1> QED BY <1>1, <1>2, TypeCorrect, PTL DEF Spec

(* Some content of the merchants table accepts the row.                    *)
Acceptable(r) == \E m \in MerchantSets \ {{}} : Admissible(r, m)

(* What is in the table, or passed the gate on its way there, was accepted *)
(* under some content of the merchants table.                              *)
OnlyAccepted == \A r \in table \cup call[Driver].valid : Acceptable(r)

LEMMA OnlyAcceptedStep ==
    ASSUME TypeOK, OnlyRejected, OnlyAccepted, [Next]_vars
    PROVE  OnlyAccepted'
<1> USE CallersAssumption
<1>1. call \in [Callers -> Frame]
    BY DEF TypeOK
<1>2. \A r \in table' : Acceptable(r)
    BY SinksGrow DEF OnlyAccepted
<1>3. CASE call'[Driver].valid \subseteq call[Driver].valid
    BY <1>2, <1>3 DEF OnlyAccepted
<1>4. CASE ProcessBatch(Driver) \/ Failure(Driver)
    <2>1. CASE \E m \in {registry[Driver], pgMerchants} \ {{}} :
                 call'[Driver].valid = { r \in call[Driver].rows : Admissible(r, m) }
        <3>1. PICK m \in {registry[Driver], pgMerchants} \ {{}} :
                  call'[Driver].valid = { r \in call[Driver].rows : Admissible(r, m) }
            BY <2>1
        <3>2. m \in MerchantSets \ {{}}
            BY DEF OnlyRejected
        <3>3. \A r \in call'[Driver].valid : Acceptable(r)
            BY <3>1, <3>2 DEF Acceptable
        <3> QED BY <1>2, <3>3 DEF OnlyAccepted, Acceptable
    <2>2. CASE ~\E m \in {registry[Driver], pgMerchants} \ {{}} :
                  call'[Driver].valid = { r \in call[Driver].rows : Admissible(r, m) }
        <3>1. call'[Driver].valid = {} \/ call'[Driver].valid = call[Driver].valid
            BY <1>4, <2>2, HandlerRows
        <3> QED BY <1>3, <3>1
    <2> QED BY <2>1, <2>2
<1>5. CASE LoopStep
    <2>1. CASE WrapperCall
        <3>1. call'[Driver].valid = {}
            BY <1>1, <2>1 DEF WrapperCall, EnterCall, Idle
        <3> QED BY <1>3, <3>1
    <2>2. CASE ~WrapperCall
        <3>1. call'[Driver] \in {call[Driver], Idle, Returned}
            BY <1>1, <1>5, <2>2 DEF LoopStep, Start, PlanBatch, WrapperEmpty,
                                    WrapperRaises, AckBatch, Stop, process
        <3>2. Idle.valid = {} /\ Returned.valid = {}
            BY DEF Idle, Returned
        <3> QED BY <1>3, <3>1, <3>2
    <2> QED BY <2>1, <2>2
<1>6. CASE Environment \/ UNCHANGED vars
    <2>1. call' = call
        BY <1>6 DEF Environment, Publish, Expire, ChangeMerchants, vars, process
    <2> QED BY <1>3, <2>1
<1> QED BY <1>4, <1>5, <1>6, NextCases

LEMMA OnlyAcceptedInvariant == Spec => []OnlyAccepted
<1>1. Init => OnlyAccepted
    BY CallersAssumption DEF Init, OnlyAccepted, Idle
<1>2. TypeOK /\ OnlyRejected /\ OnlyAccepted /\ [Next]_vars => OnlyAccepted'
    BY OnlyAcceptedStep
<1> QED BY <1>1, <1>2, TypeCorrect, OnlyRejectedInvariant, PTL DEF Spec
=============================================================================
