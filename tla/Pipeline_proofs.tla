-------------------------- MODULE Pipeline_proofs ---------------------------
(***************************************************************************)
(* Postgres, the connector and the job together: the job's theorems carry  *)
(* over, because the source only publishes; and a drained pipeline is in   *)
(* parity, but for what was refused, expired or overtaken by a snapshot,   *)
(* for every database, every generator and every bound.                    *)
(***************************************************************************)
EXTENDS Pipeline, PaymentsCdcJob_proofs, FiniteSetTheorems

(* What the connector has published or is going to publish.                *)
InTopic(e) == \E p \in Partitions : \E i \in 1..Len(topic[p]) : topic[p][i] = e
InFeed(e) == \E k \in 1..Len(feed) : feed[k] = e
Emitted(e) == InTopic(e) \/ InFeed(e)

SourceType ==
    /\ pg \in [Txns -> Image \cup {Absent}]
    /\ view \in [Txns -> Image \cup {Absent}]
    /\ written \in Seq(Events)
    /\ lsn \in 0..MaxChanges
    /\ slot \in BOOLEAN
    /\ feed \in Seq(Events)
    /\ snapshotLen \in 0..Len(feed)
    /\ sent \in 0..Len(feed)

(* The last change the open transaction made to t left this row.           *)
LeftAs(t, row) ==
    \E j \in 1..Len(written) :
      /\ written[j].txn = t /\ written[j].schema # "none" /\ Says(written[j], row)
      /\ \A i \in 1..Len(written) : written[i].txn = t =>
           \/ written[i].lsn < written[j].lsn
           \/ written[i].lsn = written[j].lsn /\ Says(written[i], row)

(* The open transaction: its changes lie behind the place where it began,  *)
(* and what it sees is what is committed and what it changed.              *)
TransactionOpen ==
    /\ Begun \in 0..lsn
    /\ \A j \in 1..Len(written) :
         /\ Begun < written[j].lsn /\ written[j].lsn <= lsn
         /\ written[j].op # "r"
    /\ \A t \in Txns :
         \/ view[t] = pg[t] /\ \A j \in 1..Len(written) : written[j].txn # t
         \/ LeftAs(t, view[t])

(* The ids in X are those of which somebody besides the connector may      *)
(* publish records; nothing is claimed of them.                            *)

(* Nothing is published before the slot exists.                            *)
NothingBefore(X) ==
    ~slot => feed = <<>> /\ sent = 0 /\ \A e \in Event : InTopic(e) => e.txn \in X

(* A change is only emitted once it is committed; the row of a snapshot    *)
(* taken since the last commit is still that of Postgres.                  *)
EventsBehind(X) ==
    \A e \in Event : Emitted(e) /\ e.txn \notin X =>
      /\ e.lsn <= lsn
      /\ e.op # "r" => e.lsn < Begun
      /\ e.op = "r" => e.schema # "none" /\ (Begun <= e.lsn => Says(e, pg[e.txn]))

(* What the connector counts as sent is in the topic.                      *)
SentDelivered == \A k \in 1..sent : InTopic(feed[k])

(* The event at place k of the feed says what Postgres has of t.  Nothing  *)
(* else that is emitted of t is newer, but for the rows of a snapshot that *)
(* overtook a change of the stream.                                        *)
Newest(t, k) ==
    /\ k \in 1..Len(feed)
    /\ feed[k].txn = t
    /\ feed[k].schema # "none"
    /\ Says(feed[k], pg[t])
    /\ \A e \in Event : Emitted(e) /\ e.txn = t =>
         \/ e.lsn < feed[k].lsn
         \/ e.lsn = feed[k].lsn /\ Says(e, pg[t])
         \/ e.op = "r" /\ snapshotLen < k

NeverEmitted(t) == \A e \in Event : Emitted(e) => e.txn # t

(* The feed ends with what Postgres has.  The last word on an id that is   *)
(* gone is a delete in the stream: a new snapshot would not repeat it.     *)
FeedCovers(t) ==
    \/ \E k \in 1..Len(feed) : Newest(t, k) /\ (pg[t] = Absent => snapshotLen < k)
    \/ pg[t] = Absent /\ NeverEmitted(t)

SyncBut(X) ==
    /\ TransactionOpen
    /\ NothingBefore(X)
    /\ EventsBehind(X)
    /\ SentDelivered
    /\ slot => \A t \in Txns \ X : FeedCovers(t)

(* Where only the connector publishes, no id is left out.                  *)
SourceInSync == SyncBut({})

-----------------------------------------------------------------------------
(* Facts about the events, the writes and the snapshots.                   *)

LEMMA EventFields ==
    /\ \A op \in {"c", "u", "r"}, t \in Txns, n \in 0..MaxChanges, image \in Image :
         LET e == RowEvent(op, t, image, n)
         IN  /\ e \in Events /\ e \in Event
             /\ e.txn = t /\ e.lsn = n /\ e.op = op /\ e.schema # "none"
             /\ Says(e, image)
    /\ \A t \in Txns, n \in 0..MaxChanges :
         /\ DeleteEvent(t, n) \in Events /\ TombstoneOf(DeleteEvent(t, n)) \in Events
         /\ \A e \in {DeleteEvent(t, n), TombstoneOf(DeleteEvent(t, n))} :
              e.txn = t /\ e.lsn = n /\ e.op = "d" /\ Says(e, Absent)
         /\ DeleteEvent(t, n).schema # "none"
<1>1. \A op \in {"c", "u", "r"}, t \in Txns, n \in 0..MaxChanges, image \in Image :
        LET e == RowEvent(op, t, image, n)
        IN  /\ e \in Events /\ e \in Event
            /\ e.txn = t /\ e.lsn = n /\ e.op = op /\ e.schema # "none"
            /\ Says(e, image)
    <2> SUFFICES ASSUME NEW op \in {"c", "u", "r"}, NEW t \in Txns,
                        NEW n \in 0..MaxChanges, NEW image \in Image
                 PROVE  LET e == RowEvent(op, t, image, n)
                        IN  /\ e \in Events /\ e \in Event
                            /\ e.txn = t /\ e.lsn = n /\ e.op = op /\ e.schema # "none"
                            /\ Says(e, image)
        OBVIOUS
    <2>1. RowEvent(op, t, image, n) \in Events
        BY SourceEventsAssumption
    <2>2. image # Absent
        BY AbsentAssumption
    <2>3. image = [merchant |-> image.merchant, status |-> image.status,
                   wellFormed |-> image.wellFormed]
        BY DEF Image
    <2>4. op # "d"
        OBVIOUS
    <2> QED BY <2>1, <2>2, <2>3, <2>4, EventsAssumption DEF RowEvent, Says
<1>2. \A t \in Txns, n \in 0..MaxChanges :
        /\ DeleteEvent(t, n) \in Events /\ TombstoneOf(DeleteEvent(t, n)) \in Events
        /\ \A e \in {DeleteEvent(t, n), TombstoneOf(DeleteEvent(t, n))} :
             e.txn = t /\ e.lsn = n /\ e.op = "d" /\ Says(e, Absent)
        /\ DeleteEvent(t, n).schema # "none"
    BY SourceEventsAssumption DEF DeleteEvent, TombstoneOf, Says
<1> QED BY <1>1, <1>2

(* A statement that changes the row of t: its events are all at the next   *)
(* position, and say what it left; one is no tombstone.                    *)
Writes(t, row, events) ==
    /\ t \in Txns /\ row \in Image \cup {Absent}
    /\ events \in Seq(Events) /\ Len(events) >= 1
    /\ events[1].schema # "none"
    /\ \A j \in 1..Len(events) :
         /\ events[j].txn = t /\ events[j].lsn = lsn + 1
         /\ events[j].op # "r" /\ Says(events[j], row)
    /\ WriteRow(t, row, events)

LEMMA NextPosition ==
    ASSUME SourceType, lsn < MaxChanges
    PROVE  lsn \in Nat /\ lsn + 1 \in 0..MaxChanges
BY SourceBoundsAssumption DEF SourceType

LEMMA RowWritten ==
    ASSUME SourceType, NEW t \in Txns, NEW row \in Image, NEW op \in {"c", "u"},
           WriteRow(t, row, <<RowEvent(op, t, row, lsn + 1)>>)
    PROVE  Writes(t, row, <<RowEvent(op, t, row, lsn + 1)>>)
<1> DEFINE e == RowEvent(op, t, row, lsn + 1)
<1>1. lsn + 1 \in 0..MaxChanges
    BY NextPosition DEF WriteRow
<1>2. /\ e \in Events /\ e.txn = t /\ e.lsn = lsn + 1 /\ e.op # "r"
      /\ e.schema # "none" /\ Says(e, row)
    BY <1>1, EventFields
<1> HIDE DEF e
<1>3. /\ <<e>> \in Seq(Events) /\ Len(<<e>>) = 1 /\ <<e>>[1] = e
      /\ \A j \in 1..Len(<<e>>) : <<e>>[j] = e
    BY <1>2
<1>4. WriteRow(t, row, <<e>>)
    BY DEF e
<1>5. Writes(t, row, <<e>>)
    BY <1>2, <1>3, <1>4 DEF Writes
<1> QED BY <1>5 DEF e

LEMMA InsertWrites ==
    ASSUME SourceType, NEW t \in Txns, NEW image \in Image, InsertRow(t, image)
    PROVE  Writes(t, image, <<RowEvent("c", t, image, lsn + 1)>>)
BY RowWritten DEF InsertRow

LEMMA DeleteWrites ==
    ASSUME SourceType, NEW t \in Txns, DeleteRow(t)
    PROVE  LET e == DeleteEvent(t, lsn + 1)
           IN  Writes(t, Absent, <<e, TombstoneOf(e)>>)
<1> DEFINE e == DeleteEvent(t, lsn + 1)
           f == TombstoneOf(e)
<1>1. WriteRow(t, Absent, <<e, f>>)
    BY DEF DeleteRow
<1>2. lsn + 1 \in 0..MaxChanges
    BY <1>1, NextPosition DEF WriteRow
<1>3. /\ e \in Events /\ f \in Events /\ e.schema # "none"
      /\ \A x \in {e, f} : x.txn = t /\ x.lsn = lsn + 1 /\ x.op = "d" /\ Says(x, Absent)
    BY <1>2, EventFields
<1> HIDE DEF e, f
<1>4. /\ <<e, f>> \in Seq(Events) /\ Len(<<e, f>>) = 2 /\ <<e, f>>[1] = e
      /\ \A j \in 1..Len(<<e, f>>) : <<e, f>>[j] \in {e, f}
    BY <1>3
<1>5. Writes(t, Absent, <<e, f>>)
    BY <1>1, <1>3, <1>4 DEF Writes
<1> QED BY <1>5 DEF e, f

(* What a transaction does: it writes a row, it commits or it gives up.    *)
TransactionStep == \/ \E t, row, events : Writes(t, row, events)
                   \/ CommitTransaction
                   \/ Rollback

LEMMA GeneratorWrites ==
    ASSUME SourceType, Generator
    PROVE  TransactionStep
<1>1. CASE DoInserts
    BY <1>1, InsertWrites DEF DoInserts, TransactionStep
<1>2. CASE DoUpdates
    <2>1. PICK t \in Txns, s \in Statuses :
              /\ view[t] # Absent
              /\ LET image == [view[t] EXCEPT !.status = s]
                 IN  WriteRow(t, image, <<RowEvent("u", t, image, lsn + 1)>>)
        BY <1>2 DEF DoUpdates
    <2> DEFINE image == [view[t] EXCEPT !.status = s]
    <2>2. image \in Image
        <3>1. view[t] \in Image
            BY <2>1 DEF SourceType
        <3> QED BY <3>1 DEF Image
    <2>3. WriteRow(t, image, <<RowEvent("u", t, image, lsn + 1)>>)
        BY <2>1
    <2> HIDE DEF image
    <2> QED BY <2>2, <2>3, RowWritten DEF TransactionStep
<1>3. CASE DoDeletes
    <2>1. PICK t \in Txns : DeleteRow(t)
        BY <1>3 DEF DoDeletes
    <2> QED BY <2>1, DeleteWrites DEF TransactionStep
<1> QED BY <1>1, <1>2, <1>3 DEF Generator, TransactionStep

(* It is no step of the job.                                               *)
LEMMA TransactionLeavesJob ==
    ASSUME TransactionStep
    PROVE  UNCHANGED <<vars, slot, snapshotLen, sent, restarts>>
BY DEF TransactionStep, Writes, WriteRow, CommitTransaction, Rollback

-----------------------------------------------------------------------------
(* The source stays in sync.                                               *)

LEMMA SameEmissions ==
    ASSUME topic' = topic, feed' = feed, NEW e
    PROVE  Emitted(e)' <=> Emitted(e)
BY DEF Emitted, InTopic, InFeed

(* What does not change what is emitted keeps what is said about it.       *)
LEMMA SameFeedCovers ==
    ASSUME NEW X,
           UNCHANGED <<pg, slot, feed, snapshotLen>>,
           \A e \in Event : Emitted(e)' <=> Emitted(e),
           slot => \A t \in Txns \ X : FeedCovers(t)
    PROVE  slot' => \A t \in Txns \ X : FeedCovers(t)'
<1>1. ASSUME NEW t \in Txns \ X, FeedCovers(t) PROVE FeedCovers(t)'
    <2>1. CASE pg[t] = Absent /\ NeverEmitted(t)
        BY <2>1 DEF FeedCovers, NeverEmitted
    <2>2. ASSUME NEW k \in 1..Len(feed), Newest(t, k), pg[t] = Absent => snapshotLen < k
          PROVE  FeedCovers(t)'
        <3>1. Newest(t, k)'
            BY <2>2 DEF Newest, Says
        <3> QED BY <2>2, <3>1 DEF FeedCovers
    <2> QED BY <1>1, <2>1, <2>2 DEF FeedCovers
<1> QED BY <1>1

(* The transaction stays as it is while others act.                        *)
LEMMA SameTransaction ==
    ASSUME UNCHANGED <<pg, view, written, lsn>>
    PROVE  Begun' = Begun /\ (TransactionOpen' <=> TransactionOpen)
BY DEF Begun, TransactionOpen, LeftAs, Says

(* Appending events to a sequence of events.                               *)
LEMMA Appended ==
    ASSUME NEW s \in Seq(Events), NEW u \in Seq(Events)
    PROVE  /\ s \o u \in Seq(Events)
           /\ Len(s) \in Nat /\ Len(u) \in Nat
           /\ Len(s \o u) = Len(s) + Len(u)
           /\ \A k \in 1..Len(s) : k \in 1..Len(s \o u) /\ (s \o u)[k] = s[k]
           /\ \A j \in 1..Len(u) : /\ Len(s) + j \in 1..Len(s \o u)
                                   /\ (s \o u)[Len(s) + j] = u[j]
           /\ \A k \in 1..Len(s \o u) :
                \/ k \in 1..Len(s)
                \/ \E j \in 1..Len(u) : k = Len(s) + j
<1> DEFINE su == s \o u
<1>1. /\ su \in Seq(Events) /\ Len(s) \in Nat /\ Len(u) \in Nat
      /\ Len(su) = Len(s) + Len(u)
    OBVIOUS
<1>2. \A k \in 1..Len(su) : su[k] = IF k <= Len(s) THEN s[k] ELSE u[k - Len(s)]
    BY <1>1
<1>3. \A k \in 1..Len(s) : k \in 1..Len(su) /\ su[k] = s[k]
    BY <1>1, <1>2
<1>4. \A j \in 1..Len(u) : Len(s) + j \in 1..Len(su) /\ su[Len(s) + j] = u[j]
    BY <1>1, <1>2
<1>5. ASSUME NEW k \in 1..Len(su), k \notin 1..Len(s)
      PROVE  \E j \in 1..Len(u) : k = Len(s) + j
    <2>1. k - Len(s) \in 1..Len(u) /\ k = Len(s) + (k - Len(s))
        BY <1>1, <1>5
    <2> QED BY <2>1
<1> QED BY <1>1, <1>3, <1>4, <1>5

(* What a commit hands on, if there is a slot.                             *)
LEMMA CommitFeed ==
    ASSUME SourceType, CommitTransaction, slot
    PROVE  /\ feed' \in Seq(Events)
           /\ Len(feed) \in Nat /\ Len(feed') \in Nat /\ Len(feed) <= Len(feed')
           /\ \A k \in 1..Len(feed) : k \in 1..Len(feed') /\ feed'[k] = feed[k]
           /\ \A j \in 1..Len(written) : /\ Len(feed) + j \in 1..Len(feed')
                                         /\ feed'[Len(feed) + j] = written[j]
           /\ \A e : Emitted(e)' => Emitted(e) \/ \E j \in 1..Len(written) : written[j] = e
<1>1. feed \in Seq(Events) /\ written \in Seq(Events)
    BY DEF SourceType
<1>2. feed' = feed \o written /\ topic' = topic
    BY DEF CommitTransaction, vars, kafka
<1>3. ASSUME NEW e, Emitted(e)'
      PROVE  Emitted(e) \/ \E j \in 1..Len(written) : written[j] = e
    <2>1. CASE InTopic(e)'
        BY <1>2, <2>1 DEF InTopic, Emitted
    <2>2. CASE InFeed(e)'
        <3>1. PICK k \in 1..Len(feed') : feed'[k] = e
            BY <2>2 DEF InFeed
        <3>2. k \in 1..Len(feed) \/ \E j \in 1..Len(written) : k = Len(feed) + j
            BY <1>1, <1>2, Appended
        <3> QED BY <1>1, <1>2, <3>1, <3>2, Appended DEF InFeed, Emitted
    <2> QED BY <1>3, <2>1, <2>2 DEF Emitted
<1> QED BY <1>1, <1>2, <1>3, Appended

LEMMA TransactionKeepsType ==
    ASSUME SourceType, TransactionStep
    PROVE  SourceType'
<1>1. CASE \E t, row, events : Writes(t, row, events)
    <2>1. PICK t, row, events : Writes(t, row, events)
        BY <1>1
    <2>2. /\ t \in Txns /\ row \in Image \cup {Absent} /\ events \in Seq(Events)
          /\ UNCHANGED <<pg, slot, feed, snapshotLen, sent>>
          /\ lsn < MaxChanges /\ lsn' = lsn + 1
          /\ view' = [view EXCEPT ![t] = row] /\ written' = written \o events
        BY <2>1 DEF Writes, WriteRow
    <2>3. view' \in [Txns -> Image \cup {Absent}] /\ written' \in Seq(Events)
        BY <2>2, Appended DEF SourceType
    <2> QED BY <2>2, <2>3, NextPosition DEF SourceType
<1>2. CASE CommitTransaction
    <2>1. /\ UNCHANGED <<slot, snapshotLen, sent, view>>
          /\ lsn' = lsn + 1 /\ lsn < MaxChanges /\ pg' = view /\ written' = <<>>
          /\ ~slot => feed' = feed
        BY <1>2 DEF CommitTransaction
    <2>2. feed' \in Seq(Events) /\ Len(feed') \in Nat /\ Len(feed) <= Len(feed')
        <3>1. CASE slot
            BY <1>2, <3>1, CommitFeed
        <3>2. CASE ~slot
            BY <2>1, <3>2 DEF SourceType
        <3> QED BY <3>1, <3>2
    <2>3. snapshotLen' \in 0..Len(feed') /\ sent' \in 0..Len(feed')
        BY <2>1, <2>2 DEF SourceType
    <2>4. written' \in Seq(Events)
        BY <2>1
    <2> QED BY <2>1, <2>2, <2>3, <2>4, NextPosition DEF SourceType
<1>3. CASE Rollback
    BY <1>3 DEF Rollback, SourceType
<1> QED BY <1>1, <1>2, <1>3 DEF TransactionStep

(* A statement adds to what is written; the transaction began where it did.*)
LEMMA WrittenGrows ==
    ASSUME SourceType, NEW t, NEW row, NEW events, Writes(t, row, events)
    PROVE  /\ Len(written) + 1 \in 1..Len(written')
           /\ \A k \in 1..Len(written) : k \in 1..Len(written') /\ written'[k] = written[k]
           /\ written'[Len(written) + 1] = events[1]
           /\ \A k \in 1..Len(written') :
                \/ k \in 1..Len(written) /\ written'[k] = written[k]
                \/ \E j \in 1..Len(events) : written'[k] = events[j]
           /\ Begun' = Begun
<1>1. lsn < MaxChanges /\ lsn' = lsn + 1 /\ written' = written \o events
    BY DEF Writes, WriteRow
<1>2. /\ written \in Seq(Events) /\ events \in Seq(Events) /\ Len(events) >= 1
      /\ lsn \in Nat /\ lsn + 1 \in 0..MaxChanges
      /\ \A j \in 1..Len(events) : events[j].lsn = lsn + 1
    BY <1>1, NextPosition DEF Writes, SourceType
<1>3. 1 \in 1..Len(events) /\ Len(written) + 1 \in 1..Len(written')
    BY <1>1, <1>2, Appended
<1>4. /\ \A k \in 1..Len(written) : k \in 1..Len(written') /\ written'[k] = written[k]
      /\ written'[Len(written) + 1] = events[1]
      /\ \A k \in 1..Len(written') :
           \/ k \in 1..Len(written) /\ written'[k] = written[k]
           \/ \E j \in 1..Len(events) : written'[k] = events[j]
    <2>1. written'[Len(written) + 1] = events[1]
        BY <1>1, <1>2, <1>3, Appended
    <2> QED BY <1>1, <1>2, <2>1, Appended
<1>5. Begun' = Begun
    <2>1. Len(written) \in Nat /\ Len(events) \in Nat /\ Len(written') = Len(written) + Len(events)
        BY <1>1, <1>2, Appended
    <2>2. written' # <<>>
        <3>1. Len(written') # 0
            BY <1>2, <2>1
        <3> QED BY <3>1
    <2>3. CASE written = <<>>
        <3>1. written'[1] = events[1] /\ events[1].lsn = lsn + 1
            <4>1. Len(written) + 1 = 1
                BY <2>3
            <4> QED BY <1>2, <1>3, <1>4, <4>1
        <3> QED BY <1>2, <2>2, <2>3, <3>1 DEF Begun
    <2>4. CASE written # <<>>
        <3>1. 1 \in 1..Len(written)
            BY <1>2, <2>1, <2>4
        <3>2. written'[1] = written[1]
            BY <1>4, <3>1
        <3> QED BY <2>2, <2>4, <3>2 DEF Begun
    <2> QED BY <2>3, <2>4
<1> QED BY <1>3, <1>4, <1>5

(* A statement shows in the view of its transaction alone.                 *)
LEMMA WriteKeepsSync ==
    ASSUME NEW X, SourceType, SyncBut(X), NEW t, NEW row, NEW events,
           Writes(t, row, events)
    PROVE  SourceType' /\ SyncBut(X)'
<1>1. /\ UNCHANGED <<topic, pg, slot, feed, snapshotLen, sent>>
      /\ lsn < MaxChanges /\ lsn' = lsn + 1
      /\ view' = [view EXCEPT ![t] = row] /\ written' = written \o events
    BY DEF Writes, WriteRow, vars, kafka
<1>2. /\ t \in Txns /\ row \in Image \cup {Absent} /\ written \in Seq(Events)
      /\ events \in Seq(Events) /\ Len(events) >= 1 /\ events[1].schema # "none"
      /\ lsn \in Nat /\ lsn + 1 \in 0..MaxChanges
    BY <1>1, NextPosition DEF Writes, SourceType
<1>3. \A j \in 1..Len(events) : /\ events[j].txn = t /\ events[j].lsn = lsn + 1
                                /\ events[j].op # "r" /\ Says(events[j], row)
    BY DEF Writes
<1>4. SourceType'
    BY TransactionKeepsType DEF TransactionStep
<1>5. 1 \in 1..Len(events) /\ Len(written) + 1 \in 1..Len(written')
    BY <1>2, WrittenGrows
<1>6. /\ \A k \in 1..Len(written) : k \in 1..Len(written') /\ written'[k] = written[k]
      /\ written'[Len(written) + 1] = events[1]
      /\ \A k \in 1..Len(written') :
           \/ k \in 1..Len(written) /\ written'[k] = written[k]
           \/ \E j \in 1..Len(events) : written'[k] = events[j]
    BY WrittenGrows
<1>7. Begun' = Begun
    BY WrittenGrows
<1>8. TransactionOpen'
    <2>1. /\ Begun \in 0..lsn
          /\ \A j \in 1..Len(written) :
               /\ Begun < written[j].lsn /\ written[j].lsn <= lsn
               /\ written[j].op # "r"
          /\ \A u \in Txns :
               \/ view[u] = pg[u] /\ \A j \in 1..Len(written) : written[j].txn # u
               \/ LeftAs(u, view[u])
        BY DEF SyncBut, TransactionOpen
    <2>2. \A j \in 1..Len(written) : written[j].lsn \in Nat
        BY <1>2, EventsAssumption DEF Event
    <2>3. Begun' \in 0..lsn'
        BY <1>1, <1>2, <1>7, <2>1
    <2>4. ASSUME NEW k \in 1..Len(written')
          PROVE  /\ Begun' < written'[k].lsn /\ written'[k].lsn <= lsn'
                 /\ written'[k].op # "r"
        <3>1. CASE k \in 1..Len(written) /\ written'[k] = written[k]
            BY <1>1, <1>2, <1>7, <2>1, <2>2, <3>1
        <3>2. CASE \E j \in 1..Len(events) : written'[k] = events[j]
            BY <1>1, <1>2, <1>3, <1>7, <2>1, <3>2
        <3> QED BY <1>6, <3>1, <3>2
    <2>5. LeftAs(t, view[t])'
        <3> DEFINE n == Len(written) + 1
        <3>1. view'[t] = row
            BY <1>1, <1>2 DEF SourceType
        <3>2. /\ written'[n].txn = t /\ written'[n].schema # "none"
              /\ Says(written'[n], row) /\ written'[n].lsn = lsn + 1
            BY <1>2, <1>3, <1>5, <1>6
        <3>3. ASSUME NEW i \in 1..Len(written')
              PROVE  \/ written'[i].lsn < written'[n].lsn
                     \/ written'[i].lsn = written'[n].lsn /\ Says(written'[i], row)
            <4>1. CASE i \in 1..Len(written) /\ written'[i] = written[i]
                BY <1>2, <2>1, <2>2, <3>2, <4>1
            <4>2. CASE \E j \in 1..Len(events) : written'[i] = events[j]
                BY <1>3, <3>2, <4>2
            <4> QED BY <1>6, <4>1, <4>2
        <3>4. n \in 1..Len(written')
            BY <1>5
        <3> HIDE DEF n
        <3> QED BY <3>1, <3>2, <3>3, <3>4 DEF LeftAs, Says
    <2>6. ASSUME NEW u \in Txns, u # t
          PROVE  \/ view'[u] = pg'[u] /\ \A j \in 1..Len(written') : written'[j].txn # u
                 \/ LeftAs(u, view[u])'
        <3>1. view'[u] = view[u] /\ pg'[u] = pg[u]
            BY <1>1, <2>6 DEF SourceType
        <3>2. \A k \in 1..Len(written') : written'[k].txn = u =>
                k \in 1..Len(written) /\ written'[k] = written[k]
            BY <1>3, <1>6, <2>6
        <3>3. CASE view[u] = pg[u] /\ \A j \in 1..Len(written) : written[j].txn # u
            BY <3>1, <3>2, <3>3
        <3>4. CASE LeftAs(u, view[u])
            <4>1. PICK j \in 1..Len(written) :
                     /\ written[j].txn = u /\ written[j].schema # "none"
                     /\ Says(written[j], view[u])
                     /\ \A i \in 1..Len(written) : written[i].txn = u =>
                          \/ written[i].lsn < written[j].lsn
                          \/ written[i].lsn = written[j].lsn /\ Says(written[i], view[u])
                BY <3>4 DEF LeftAs
            <4>2. j \in 1..Len(written') /\ written'[j] = written[j]
                BY <1>6
            <4>3. \A i \in 1..Len(written') : written'[i].txn = u =>
                    \/ written'[i].lsn < written'[j].lsn
                    \/ written'[i].lsn = written'[j].lsn /\ Says(written'[i], view[u])
                BY <3>2, <4>1, <4>2
            <4> QED BY <3>1, <4>1, <4>2, <4>3 DEF LeftAs, Says
        <3> QED BY <2>1, <3>3, <3>4
    <2> QED BY <2>3, <2>4, <2>5, <2>6 DEF TransactionOpen
<1>9. \A e : Emitted(e)' <=> Emitted(e)
    BY <1>1, SameEmissions
<1>10. EventsBehind(X)'
    <2> SUFFICES ASSUME NEW e \in Event, Emitted(e), e.txn \notin X
                 PROVE  /\ e.lsn <= lsn'
                        /\ e.op # "r" => e.lsn < Begun
                        /\ e.op = "r" => e.schema # "none" /\ (Begun <= e.lsn => Says(e, pg[e.txn])')
        BY <1>7, <1>9 DEF EventsBehind
    <2>1. e.lsn \in Nat
        BY DEF Event
    <2>2. /\ e.lsn <= lsn
          /\ e.op # "r" => e.lsn < Begun
          /\ e.op = "r" => e.schema # "none" /\ (Begun <= e.lsn => Says(e, pg[e.txn]))
        BY DEF SyncBut, EventsBehind
    <2> QED BY <1>1, <1>2, <2>1, <2>2 DEF Says
<1>11. NothingBefore(X)' /\ SentDelivered'
    BY <1>1 DEF SyncBut, NothingBefore, SentDelivered, InTopic
<1>12. slot' => \A u \in Txns \ X : FeedCovers(u)'
    BY <1>1, <1>9, SameFeedCovers DEF SyncBut
<1> QED BY <1>4, <1>8, <1>10, <1>11, <1>12 DEF SyncBut

(* Without an open transaction there is nothing to say of one.             *)
LEMMA NothingOpen ==
    ASSUME written = <<>>, view = pg, lsn \in Nat
    PROVE  TransactionOpen /\ Begun = lsn
BY DEF TransactionOpen, Begun

LEMMA RollbackKeepsSync ==
    ASSUME NEW X, SourceType, SyncBut(X), Rollback
    PROVE  SourceType' /\ SyncBut(X)'
<1>1. /\ UNCHANGED <<topic, pg, lsn, slot, feed, snapshotLen, sent>>
      /\ view' = pg /\ written' = <<>>
    BY DEF Rollback, vars, kafka
<1>2. lsn \in Nat /\ Begun \in 0..lsn
    BY SourceBoundsAssumption DEF SourceType, SyncBut, TransactionOpen
<1>3. SourceType'
    BY TransactionKeepsType DEF TransactionStep
<1>4. TransactionOpen' /\ Begun' = lsn
    BY <1>1, <1>2 DEF TransactionOpen, Begun
<1>5. \A e : Emitted(e)' <=> Emitted(e)
    BY <1>1, SameEmissions
<1>6. EventsBehind(X)'
    <2> SUFFICES ASSUME NEW e \in Event, Emitted(e), e.txn \notin X
                 PROVE  /\ e.lsn <= lsn
                        /\ e.op # "r" => e.lsn < lsn
                        /\ e.op = "r" => e.schema # "none" /\ (lsn <= e.lsn => Says(e, pg[e.txn])')
        BY <1>1, <1>4, <1>5 DEF EventsBehind
    <2>1. e.lsn \in Nat
        BY DEF Event
    <2>2. /\ e.lsn <= lsn
          /\ e.op # "r" => e.lsn < Begun
          /\ e.op = "r" => e.schema # "none" /\ (Begun <= e.lsn => Says(e, pg[e.txn]))
        BY DEF SyncBut, EventsBehind
    <2> QED BY <1>1, <1>2, <2>1, <2>2 DEF Says
<1>7. NothingBefore(X)' /\ SentDelivered'
    BY <1>1 DEF SyncBut, NothingBefore, SentDelivered, InTopic
<1>8. slot' => \A u \in Txns \ X : FeedCovers(u)'
    BY <1>1, <1>5, SameFeedCovers DEF SyncBut
<1> QED BY <1>3, <1>4, <1>6, <1>7, <1>8 DEF SyncBut

(* An id the transaction changed is covered by its last event of it.  Only *)
(* a snapshot that was taken meanwhile can have emitted anything newer.    *)
LEMMA ChangedIsCovered ==
    ASSUME NEW X, SourceType, SyncBut(X), CommitTransaction, slot,
           NEW t \in Txns \ X, LeftAs(t, view[t])
    PROVE  FeedCovers(t)'
<1>1. PICK j \in 1..Len(written) :
         /\ written[j].txn = t /\ written[j].schema # "none"
         /\ Says(written[j], view[t])
         /\ \A i \in 1..Len(written) : written[i].txn = t =>
              \/ written[i].lsn < written[j].lsn
              \/ written[i].lsn = written[j].lsn /\ Says(written[i], view[t])
    BY DEF LeftAs
<1>2. pg' = view /\ snapshotLen' = snapshotLen /\ snapshotLen \in 0..Len(feed)
    BY DEF CommitTransaction, SourceType
<1>3. PICK k \in 1..Len(feed') : feed'[k] = written[j] /\ snapshotLen' < k
    <2>1. /\ Len(feed) + j \in 1..Len(feed') /\ feed'[Len(feed) + j] = written[j]
          /\ Len(feed) \in Nat
        BY CommitFeed
    <2>2. snapshotLen' < Len(feed) + j
        BY <1>2, <2>1
    <2> QED BY <2>1, <2>2
<1>4. ASSUME NEW e \in Event, Emitted(e)', e.txn = t
      PROVE  \/ e.lsn < feed'[k].lsn
             \/ e.lsn = feed'[k].lsn /\ Says(e, pg'[t])
             \/ e.op = "r" /\ snapshotLen' < k
    <2>1. CASE \E i \in 1..Len(written) : written[i] = e
        BY <1>1, <1>2, <1>3, <1>4, <2>1
    <2>2. CASE Emitted(e) /\ e.op # "r"
        <3>1. e.lsn < Begun /\ Begun < written[j].lsn /\ Begun \in 0..lsn
            BY <1>4, <2>2 DEF SyncBut, EventsBehind, TransactionOpen
        <3>2. e.lsn \in Nat /\ written[j].lsn \in Nat /\ lsn \in Nat
            BY EventsAssumption, SourceBoundsAssumption DEF SourceType, Event
        <3> QED BY <1>3, <3>1, <3>2
    <2>3. CASE Emitted(e) /\ e.op = "r"
        BY <1>3, <2>3
    <2> QED BY <1>4, <2>1, <2>2, <2>3, CommitFeed
<1>5. Newest(t, k)'
    BY <1>1, <1>2, <1>3, <1>4 DEF Newest, Says
<1> QED BY <1>3, <1>5 DEF FeedCovers

(* An id the transaction did not change is covered as before.              *)
LEMMA UnchangedIsCovered ==
    ASSUME SourceType, CommitTransaction, slot,
           NEW t \in Txns, view[t] = pg[t],
           \A j \in 1..Len(written) : written[j].txn # t, FeedCovers(t)
    PROVE  FeedCovers(t)'
<1>1. snapshotLen' = snapshotLen /\ pg'[t] = pg[t]
    BY DEF CommitTransaction
<1>2. \A e : Emitted(e)' /\ e.txn = t => Emitted(e)
    BY CommitFeed
<1>3. CASE pg[t] = Absent /\ NeverEmitted(t)
    BY <1>1, <1>2, <1>3 DEF FeedCovers, NeverEmitted
<1>4. ASSUME NEW k \in 1..Len(feed), Newest(t, k), pg[t] = Absent => snapshotLen < k
      PROVE  FeedCovers(t)'
    <2>1. k \in 1..Len(feed') /\ feed'[k] = feed[k]
        BY CommitFeed
    <2>2. Newest(t, k)'
        BY <1>1, <1>2, <1>4, <2>1 DEF Newest, Says
    <2> QED BY <1>1, <1>4, <2>1, <2>2 DEF FeedCovers
<1> QED BY <1>3, <1>4 DEF FeedCovers

LEMMA CommitKeepsSync ==
    ASSUME NEW X, SourceType, SyncBut(X), CommitTransaction
    PROVE  SourceType' /\ SyncBut(X)'
<1>1. /\ UNCHANGED <<topic, slot, snapshotLen, sent, view>>
      /\ lsn' = lsn + 1 /\ lsn < MaxChanges /\ pg' = view /\ written' = <<>>
    BY DEF CommitTransaction, vars, kafka
<1>2. lsn \in Nat /\ lsn + 1 \in 0..MaxChanges /\ Begun \in 0..lsn
    BY <1>1, NextPosition DEF SyncBut, TransactionOpen
<1>3. ~slot => feed' = feed
    BY DEF CommitTransaction
<1>4. SourceType'
    BY TransactionKeepsType DEF TransactionStep
<1>5. TransactionOpen' /\ Begun' = lsn + 1
    BY <1>1, <1>2 DEF TransactionOpen, Begun
<1>6. \A e : Emitted(e)' => Emitted(e) \/ (slot /\ \E j \in 1..Len(written) : written[j] = e)
    BY <1>1, <1>3, CommitFeed, SameEmissions
<1>7. EventsBehind(X)'
    <2> SUFFICES ASSUME NEW e \in Event, Emitted(e)', e.txn \notin X
                 PROVE  e.lsn <= lsn /\ (e.op = "r" => e.schema # "none")
        <3>1. ASSUME NEW e \in Event, e.lsn <= lsn
              PROVE  e.lsn <= lsn' /\ e.lsn < Begun' /\ ~(Begun' <= e.lsn)
            BY <1>1, <1>2, <1>5, <3>1 DEF Event
        <3> QED BY <3>1 DEF EventsBehind
    <2>1. CASE Emitted(e)
        BY <2>1 DEF SyncBut, EventsBehind
    <2>2. CASE \E j \in 1..Len(written) : written[j] = e
        BY <2>2 DEF SyncBut, TransactionOpen
    <2> QED BY <1>6, <2>1, <2>2
<1>8. NothingBefore(X)'
    BY <1>1, <1>3 DEF SyncBut, NothingBefore, InTopic
<1>9. SentDelivered'
    <2> SUFFICES ASSUME NEW k \in 1..sent PROVE feed'[k] = feed[k]
        BY <1>1 DEF SyncBut, SentDelivered, InTopic
    <2>1. k \in 1..Len(feed)
        BY DEF SourceType
    <2> QED BY <1>3, <2>1, CommitFeed
<1>10. slot' => \A t \in Txns \ X : FeedCovers(t)'
    <2> SUFFICES ASSUME slot, NEW t \in Txns \ X PROVE FeedCovers(t)'
        BY <1>1
    <2>1. \/ view[t] = pg[t] /\ \A j \in 1..Len(written) : written[j].txn # t
          \/ LeftAs(t, view[t])
        BY DEF SyncBut, TransactionOpen
    <2>2. FeedCovers(t)
        BY DEF SyncBut
    <2> QED BY <2>1, <2>2, ChangedIsCovered, UnchangedIsCovered
<1> QED BY <1>4, <1>5, <1>7, <1>8, <1>9, <1>10 DEF SyncBut

LEMMA TransactionKeepsSync ==
    ASSUME NEW X, SourceType, SyncBut(X), TransactionStep
    PROVE  SourceType' /\ SyncBut(X)'
BY WriteKeepsSync, CommitKeepsSync, RollbackKeepsSync DEF TransactionStep

(* A snapshot has one row for each id Postgres has, at the position of the *)
(* snapshot, and nothing else.                                             *)
SnapshotRow(e) == /\ e.txn \in Present /\ e.lsn = lsn /\ e.op = "r"
                  /\ e.schema # "none" /\ Says(e, pg[e.txn])

LEMMA SnapshotRows ==
    ASSUME SourceType, NEW rows \in Snapshots
    PROVE  /\ rows \in Seq(Events)
           /\ \A k \in 1..Len(rows) : SnapshotRow(rows[k])
           /\ \A t \in Present : \E k \in 1..Len(rows) : rows[k].txn = t
<1> DEFINE n == Cardinality(Present)
<1>1. Present \subseteq Txns /\ IsFiniteSet(Present) /\ n \in Nat
    BY TxnsAssumption, FS_Subset, FS_CardinalityType DEF Present
<1>2. PICK ids \in [1..n -> Present] :
          /\ \A j, k \in 1..n : ids[j] = ids[k] => j = k
          /\ rows = [k \in 1..n |-> RowEvent("r", ids[k], pg[ids[k]], lsn)]
    BY DEF Snapshots
<1>3. ASSUME NEW k \in 1..n
      PROVE  /\ rows[k] \in Events /\ rows[k].txn = ids[k] /\ SnapshotRow(rows[k])
    <2>1. rows[k] = RowEvent("r", ids[k], pg[ids[k]], lsn)
        BY <1>2
    <2>2. ids[k] \in Txns /\ pg[ids[k]] \in Image /\ lsn \in 0..MaxChanges
        BY <1>1 DEF SourceType, Present
    <2>3. LET e == RowEvent("r", ids[k], pg[ids[k]], lsn)
          IN  /\ e \in Events
              /\ e.txn = ids[k] /\ e.lsn = lsn /\ e.op = "r" /\ e.schema # "none"
              /\ Says(e, pg[ids[k]])
        BY <2>2, EventFields
    <2> QED BY <2>1, <2>3 DEF SnapshotRow
<1>4. rows \in Seq(Events) /\ Len(rows) = n
    <2>1. rows \in [1..n -> Events]
        BY <1>2, <1>3
    <2> QED BY <1>1, <2>1
<1>5. \A t \in Present : \E k \in 1..n : ids[k] = t
    <2>1. ids \in Injection(1..n, Present)
        BY <1>2 DEF Injection, IsInjective
    <2>2. Cardinality(1..n) = Cardinality(Present)
        BY <1>1, FS_Interval
    <2>3. ids \in Surjection(1..n, Present)
        BY <1>1, <2>1, <2>2, FS_Injection
    <2> QED BY <2>3 DEF Surjection
<1> QED BY <1>3, <1>4, <1>5

(* A snapshot that replaces the rows of an earlier one, and leaves the     *)
(* changes that follow them.                                               *)
TakesSnapshot(rows) ==
    /\ rows \in Snapshots
    /\ feed' = rows \o SubSeq(feed, snapshotLen + 1, Len(feed))
    /\ snapshotLen' = Len(rows)
    /\ UNCHANGED <<topic, pg, view, written, lsn>>

LEMMA SnapshotFeed ==
    ASSUME SourceType, NEW rows, TakesSnapshot(rows)
    PROVE  /\ feed' \in Seq(Events)
           /\ Len(rows) \in Nat
           /\ Len(feed') = Len(rows) + Len(feed) - snapshotLen
           /\ \A k \in 1..Len(rows) : k \in 1..Len(feed') /\ feed'[k] = rows[k]
           /\ \A k \in 1..Len(feed) : snapshotLen < k =>
                /\ Len(rows) + k - snapshotLen \in 1..Len(feed')
                /\ feed'[Len(rows) + k - snapshotLen] = feed[k]
           /\ \A e : Emitted(e)' => Emitted(e) \/ \E k \in 1..Len(rows) : rows[k] = e
<1>1. rows \in Seq(Events) /\ Len(rows) \in Nat
    BY SnapshotRows DEF TakesSnapshot
<1>2. /\ feed \in Seq(Events) /\ Len(feed) \in Nat
      /\ snapshotLen \in Nat /\ snapshotLen <= Len(feed)
    BY DEF SourceType
<1> DEFINE tail == SubSeq(feed, snapshotLen + 1, Len(feed))
<1>3. /\ tail \in Seq(Events)
      /\ Len(tail) = Len(feed) - snapshotLen
      /\ \A i \in 1..Len(tail) : tail[i] = feed[snapshotLen + i]
    BY <1>2
<1> HIDE DEF tail
<1>4. feed' = rows \o tail /\ topic' = topic
    BY DEF TakesSnapshot, tail
<1>5. /\ feed' \in Seq(Events)
      /\ Len(feed') = Len(rows) + Len(feed) - snapshotLen
      /\ \A k \in 1..Len(feed') :
           feed'[k] = IF k <= Len(rows) THEN rows[k] ELSE tail[k - Len(rows)]
    <2>1. Len(tail) \in Nat
        BY <1>3
    <2>2. feed' \in Seq(Events) /\ Len(feed') = Len(rows) + Len(tail)
        BY <1>1, <1>3, <1>4
    <2>3. \A k \in 1..(Len(rows) + Len(tail)) :
            feed'[k] = IF k <= Len(rows) THEN rows[k] ELSE tail[k - Len(rows)]
        BY <1>1, <1>3, <1>4, <2>1
    <2> QED BY <1>1, <1>2, <1>3, <2>1, <2>2, <2>3
<1>6. \A k \in 1..Len(rows) : k \in 1..Len(feed') /\ feed'[k] = rows[k]
    BY <1>1, <1>2, <1>5
<1>7. \A k \in 1..Len(feed) : snapshotLen < k =>
        /\ Len(rows) + k - snapshotLen \in 1..Len(feed')
        /\ feed'[Len(rows) + k - snapshotLen] = feed[k]
    <2> SUFFICES ASSUME NEW k \in 1..Len(feed), snapshotLen < k
                 PROVE  /\ Len(rows) + k - snapshotLen \in 1..Len(feed')
                        /\ feed'[Len(rows) + k - snapshotLen] = feed[k]
        OBVIOUS
    <2> DEFINE i == k - snapshotLen
    <2>1. /\ i \in 1..Len(tail) /\ Len(rows) + i \in 1..Len(feed')
          /\ ~(Len(rows) + i <= Len(rows)) /\ Len(rows) + i - Len(rows) = i
          /\ Len(rows) + k - snapshotLen = Len(rows) + i /\ snapshotLen + i = k
        <3>1. snapshotLen \in Nat /\ Len(feed) \in Nat /\ Len(rows) \in Nat
            BY <1>1, <1>2
        <3>2. i \in 1..Len(tail)
            BY <1>1, <1>3, <3>1
        <3>3. /\ ~(Len(rows) + i <= Len(rows)) /\ Len(rows) + i - Len(rows) = i
              /\ Len(rows) + k - snapshotLen = Len(rows) + i /\ snapshotLen + i = k
            BY <3>1, <3>2
        <3>4. Len(rows) + i \in 1..Len(feed')
            BY <1>5, <3>1, <3>2
        <3> QED BY <3>2, <3>3, <3>4
    <2> QED BY <1>3, <1>5, <2>1
<1>8. ASSUME NEW e, Emitted(e)'
      PROVE  Emitted(e) \/ \E k \in 1..Len(rows) : rows[k] = e
    <2>1. CASE InTopic(e)'
        BY <1>4, <2>1 DEF InTopic, Emitted
    <2>2. CASE InFeed(e)'
        <3>1. PICK k \in 1..Len(feed') : feed'[k] = e
            BY <2>2 DEF InFeed
        <3>2. CASE k <= Len(rows)
            BY <1>1, <1>6, <3>1, <3>2
        <3>3. CASE ~(k <= Len(rows))
            <4>1. /\ k - Len(rows) \in 1..Len(tail)
                  /\ snapshotLen + (k - Len(rows)) \in 1..Len(feed)
                BY <1>1, <1>2, <1>3, <1>5, <3>3
            <4>2. feed[snapshotLen + (k - Len(rows))] = e
                BY <1>3, <1>5, <3>1, <3>3, <4>1
            <4> QED BY <4>1, <4>2 DEF InFeed, Emitted
        <3> QED BY <3>2, <3>3
    <2> QED BY <1>8, <2>1, <2>2 DEF Emitted
<1> QED BY <1>1, <1>5, <1>6, <1>7, <1>8

(* After a snapshot the ids Postgres has are covered by their rows, and    *)
(* the ids that are gone by the changes that follow.                       *)
LEMMA SnapshotCovers ==
    ASSUME NEW X, SourceType, TransactionOpen, EventsBehind(X),
           NEW rows, TakesSnapshot(rows),
           NEW t \in Txns \ X, FeedCovers(t) \/ NeverEmitted(t)
    PROVE  FeedCovers(t)'
<1>1. /\ \A k \in 1..Len(rows) : SnapshotRow(rows[k])
      /\ \A u \in Present : \E k \in 1..Len(rows) : rows[k].txn = u
    BY SnapshotRows DEF TakesSnapshot
<1>2. /\ pg' = pg /\ lsn \in Nat /\ Begun \in 0..lsn
      /\ snapshotLen' = Len(rows) /\ Len(rows) \in Nat
    BY SourceBoundsAssumption, SnapshotFeed DEF TakesSnapshot, SourceType, TransactionOpen
<1>3. CASE pg[t] # Absent
    <2>1. PICK k \in 1..Len(rows) : rows[k].txn = t
        BY <1>1, <1>3 DEF Present
    <2>2. /\ k \in 1..Len(feed') /\ feed'[k].txn = t /\ feed'[k].schema # "none"
          /\ feed'[k].lsn = lsn /\ Says(feed'[k], pg[t])
        BY <1>1, <2>1, SnapshotFeed DEF SnapshotRow
    <2>3. ASSUME NEW e \in Event, Emitted(e)', e.txn = t
          PROVE  e.lsn < lsn \/ (e.lsn = lsn /\ Says(e, pg[t]))
        <3>1. CASE \E j \in 1..Len(rows) : rows[j] = e
            BY <1>1, <2>3, <3>1 DEF SnapshotRow
        <3>2. CASE Emitted(e)
            <4>1. /\ e.lsn <= lsn
                  /\ e.op # "r" => e.lsn < Begun
                  /\ e.op = "r" /\ Begun <= e.lsn => Says(e, pg[t])
                BY <2>3, <3>2 DEF EventsBehind
            <4>2. e.lsn \in Nat
                BY DEF Event
            <4> QED BY <1>2, <4>1, <4>2
        <3> QED BY <2>3, <3>1, <3>2, SnapshotFeed
    <2>4. Newest(t, k)'
        BY <1>2, <2>2, <2>3 DEF Newest, Says
    <2> QED BY <1>2, <1>3, <2>2, <2>4 DEF FeedCovers
<1>4. CASE pg[t] = Absent
    <2>1. \A e : Emitted(e)' /\ e.txn = t => Emitted(e)
        BY <1>1, <1>4, SnapshotFeed DEF SnapshotRow, Present
    <2>2. CASE NeverEmitted(t)
        BY <1>2, <1>4, <2>1, <2>2 DEF FeedCovers, NeverEmitted
    <2>3. ASSUME NEW m \in 1..Len(feed), Newest(t, m), snapshotLen < m
          PROVE  FeedCovers(t)'
        <3>1. PICK k \in 1..Len(feed') : feed'[k] = feed[m] /\ Len(rows) < k
            <4>1. Len(rows) < Len(rows) + m - snapshotLen
                BY <1>2, <2>3 DEF SourceType
            <4> QED BY <2>3, <4>1, SnapshotFeed
        <3>2. Newest(t, k)'
            BY <1>2, <2>1, <2>3, <3>1 DEF Newest, Says
        <3> QED BY <1>2, <3>1, <3>2 DEF FeedCovers
    <2> QED BY <1>4, <2>2, <2>3 DEF FeedCovers
<1> QED BY <1>3, <1>4

(* What is said of the emitted events holds of a snapshot's rows too.      *)
LEMMA SnapshotBehind ==
    ASSUME NEW X, SourceType, TransactionOpen, EventsBehind(X),
           NEW rows, TakesSnapshot(rows)
    PROVE  TransactionOpen' /\ EventsBehind(X)'
<1>1. UNCHANGED <<pg, view, written, lsn>> /\ lsn \in Nat
    BY SourceBoundsAssumption DEF TakesSnapshot, SourceType
<1>2. TransactionOpen' /\ Begun' = Begun
    BY <1>1, SameTransaction
<1>3. ASSUME NEW e \in Event, Emitted(e)', e.txn \notin X
      PROVE  /\ e.lsn <= lsn
             /\ e.op # "r" => e.lsn < Begun
             /\ e.op = "r" => e.schema # "none" /\ (Begun <= e.lsn => Says(e, pg[e.txn]))
    <2>1. CASE Emitted(e)
        BY <1>3, <2>1 DEF EventsBehind
    <2>2. CASE \E k \in 1..Len(rows) : rows[k] = e
        <3>1. SnapshotRow(e)
            BY <2>2, SnapshotRows DEF TakesSnapshot
        <3> QED BY <1>1, <3>1 DEF SnapshotRow
    <2> QED BY <1>3, <2>1, <2>2, SnapshotFeed
<1> QED BY <1>1, <1>2, <1>3 DEF EventsBehind, Says

LEMMA EmitPublishes ==
    ASSUME SourceType, Emit
    PROVE  /\ sent + 1 \in 1..Len(feed) /\ feed[sent + 1] \in Events
           /\ feed[sent + 1] \in Event
           /\ PartitionOf[feed[sent + 1].txn] \in Partitions
           /\ Publish(PartitionOf[feed[sent + 1].txn], feed[sent + 1])
<1>1. sent + 1 \in 1..Len(feed) /\ feed \in Seq(Events)
    BY DEF Emit, SourceType
<1>2. feed[sent + 1] \in Events
    BY <1>1
<1>3. feed[sent + 1] \in Event /\ feed[sent + 1].txn \in Txns
    BY <1>2, EventsAssumption DEF Event
<1> QED BY <1>1, <1>2, <1>3, PartitionOfAssumption DEF Emit

LEMMA ConnectorKeepsType ==
    ASSUME SourceType, ~slot => feed = <<>>,
           CreateConnector \/ RestartConnector \/ Emit
    PROVE  SourceType'
<1>1. CASE CreateConnector
    <2>1. PICK rows \in Snapshots : feed' = rows /\ snapshotLen' = Len(rows)
        BY <1>1 DEF CreateConnector
    <2>2. UNCHANGED <<pg, view, written, lsn, sent>> /\ slot' = TRUE /\ sent = 0
        BY <1>1 DEF CreateConnector, SourceType
    <2>3. rows \in Seq(Events) /\ Len(rows) \in Nat
        BY <2>1, SnapshotRows
    <2> QED BY <2>1, <2>2, <2>3 DEF SourceType
<1>2. CASE RestartConnector
    <2>1. UNCHANGED <<topic, pg, view, written, lsn, slot>>
        BY <1>2 DEF RestartConnector, vars, kafka
    <2>2. CASE /\ \E flushed \in snapshotLen..sent : sent' = flushed
               /\ UNCHANGED <<feed, snapshotLen>>
        <3>1. sent' \in 0..Len(feed)
            BY <2>2 DEF SourceType
        <3> QED BY <2>1, <2>2, <3>1 DEF SourceType
    <2>3. CASE sent' = 0 /\ \E rows : TakesSnapshot(rows)
        <3>1. PICK rows : TakesSnapshot(rows)
            BY <2>3
        <3>2. snapshotLen' = Len(rows) /\ snapshotLen \in 0..Len(feed)
            BY <3>1 DEF TakesSnapshot, SourceType
        <3>3. /\ feed' \in Seq(Events)
              /\ snapshotLen' \in Nat /\ Len(feed') \in Nat /\ snapshotLen' <= Len(feed')
            BY <3>1, <3>2, SnapshotFeed
        <3> QED BY <2>1, <2>3, <3>3 DEF SourceType
    <2> QED BY <1>2, <2>1, <2>2, <2>3 DEF RestartConnector, TakesSnapshot
<1>3. CASE Emit
    <2>1. /\ sent + 1 \in 1..Len(feed)
          /\ UNCHANGED <<pg, view, written, lsn, slot, feed, snapshotLen>>
        BY <1>3, EmitPublishes DEF Emit
    <2> QED BY <1>3, <2>1 DEF Emit, SourceType
<1> QED BY <1>1, <1>2, <1>3

LEMMA CreateKeepsSync ==
    ASSUME NEW X, SourceType, SyncBut(X), CreateConnector
    PROVE  SourceType' /\ SyncBut(X)'
<1>1. PICK rows \in Snapshots : feed' = rows /\ snapshotLen' = Len(rows)
    BY DEF CreateConnector
<1>2. /\ UNCHANGED <<topic, pg, view, written, lsn, sent>> /\ ~slot /\ slot' = TRUE
      /\ feed = <<>> /\ sent = 0 /\ snapshotLen = 0
      /\ \A e \in Event : Emitted(e) => e.txn \in X
    BY DEF CreateConnector, vars, kafka, SyncBut, NothingBefore, Emitted, InFeed,
           SourceType
<1>3. rows \in Seq(Events) /\ Len(rows) \in Nat
    BY SnapshotRows
<1>4. TakesSnapshot(rows)
    <2>1. SubSeq(feed, snapshotLen + 1, Len(feed)) = <<>>
        BY <1>2
    <2>2. rows \o <<>> = rows
        BY <1>3
    <2> QED BY <1>1, <1>2, <2>1, <2>2 DEF TakesSnapshot
<1>5. SourceType'
    BY <1>2, ConnectorKeepsType
<1>6. TransactionOpen' /\ EventsBehind(X)'
    BY <1>4, SnapshotBehind DEF SyncBut
<1>7. \A t \in Txns \ X : FeedCovers(t)'
    BY <1>2, <1>4, SnapshotCovers DEF NeverEmitted, SyncBut
<1> QED BY <1>2, <1>5, <1>6, <1>7 DEF SyncBut, NothingBefore, SentDelivered

LEMMA RestartKeepsSync ==
    ASSUME NEW X, SourceType, SyncBut(X), RestartConnector
    PROVE  SourceType' /\ SyncBut(X)'
<1>1. UNCHANGED <<topic, pg, view, written, lsn, slot>> /\ slot
    BY DEF RestartConnector, vars, kafka
<1>2. CASE /\ \E flushed \in snapshotLen..sent : sent' = flushed
           /\ UNCHANGED <<feed, snapshotLen>>
    <2>1. PICK flushed \in snapshotLen..sent : sent' = flushed
        BY <1>2
    <2>2. sent' \in 0..Len(feed) /\ sent' <= sent /\ sent \in Nat
        BY <2>1 DEF SourceType
    <2>3. SourceType'
        BY <1>1, ConnectorKeepsType
    <2>4. SentDelivered'
        <3> SUFFICES ASSUME NEW k \in 1..sent' PROVE InTopic(feed[k])'
            BY <1>2 DEF SentDelivered, InTopic
        <3>1. k \in 1..sent
            BY <2>2
        <3>2. InTopic(feed[k])
            BY <3>1 DEF SentDelivered, SyncBut
        <3> QED BY <1>1, <1>2, <3>2 DEF InTopic
    <2>5. slot' => \A t \in Txns \ X : FeedCovers(t)'
        BY <1>1, <1>2, SameEmissions, SameFeedCovers DEF SyncBut
    <2>6. TransactionOpen' /\ EventsBehind(X)'
        BY <1>1, <1>2, SameTransaction, SameEmissions DEF SyncBut, EventsBehind, Says
    <2> QED BY <1>1, <2>3, <2>4, <2>5, <2>6 DEF SyncBut, NothingBefore
<1>3. CASE /\ sent' = 0
           /\ \E rows \in Snapshots :
                /\ feed' = rows \o SubSeq(feed, snapshotLen + 1, Len(feed))
                /\ snapshotLen' = Len(rows)
    <2>1. PICK rows : TakesSnapshot(rows)
        BY <1>1, <1>3 DEF TakesSnapshot
    <2>3. SourceType'
        BY <1>1, ConnectorKeepsType
    <2>4. TransactionOpen' /\ EventsBehind(X)'
        BY <2>1, SnapshotBehind DEF SyncBut
    <2>5. \A t \in Txns \ X : FeedCovers(t)'
        BY <1>1, <2>1, SnapshotCovers DEF SyncBut
    <2> QED BY <1>1, <1>3, <2>3, <2>4, <2>5
            DEF SyncBut, NothingBefore, SentDelivered
<1> QED BY <1>2, <1>3 DEF RestartConnector

(* Publishing a record makes it part of the topic and nothing else.        *)
LEMMA PublishedTopic ==
    ASSUME TypeOK, NEW p \in Partitions, NEW e \in Event, Publish(p, e), NEW x
    PROVE  InTopic(x)' <=> InTopic(x) \/ x = e
<1>1. /\ topic \in [Partitions -> Seq(Event)]
      /\ topic' = [topic EXCEPT ![p] = Append(@, e)]
    BY DEF TypeOK, Publish
<1>2. /\ topic[p] \in Seq(Event) /\ Len(topic[p]) \in Nat
      /\ topic'[p] = Append(topic[p], e)
      /\ \A q \in Partitions : q # p => topic'[q] = topic[q]
    BY <1>1
<1>3. /\ Len(topic'[p]) = Len(topic[p]) + 1
      /\ topic'[p][Len(topic[p]) + 1] = e
      /\ \A i \in 1..Len(topic[p]) : topic'[p][i] = topic[p][i]
    BY <1>2
<1>4. ASSUME InTopic(x)' PROVE InTopic(x) \/ x = e
    <2>1. PICK q \in Partitions : \E i \in 1..Len(topic'[q]) : topic'[q][i] = x
        BY <1>4 DEF InTopic
    <2>2. CASE q # p
        BY <1>2, <2>1, <2>2 DEF InTopic
    <2>3. CASE q = p
        <3>1. PICK i \in 1..Len(topic'[p]) : topic'[p][i] = x
            BY <2>1, <2>3
        <3>2. i \in 1..Len(topic[p]) \/ i = Len(topic[p]) + 1
            BY <1>2, <1>3
        <3> QED BY <1>3, <3>1, <3>2 DEF InTopic
    <2> QED BY <2>2, <2>3
<1>5. ASSUME InTopic(x) PROVE InTopic(x)'
    <2>1. PICK q \in Partitions : \E i \in 1..Len(topic[q]) : topic[q][i] = x
        BY <1>5 DEF InTopic
    <2>2. CASE q # p
        BY <1>2, <2>1, <2>2 DEF InTopic
    <2>3. CASE q = p
        <3>1. PICK i \in 1..Len(topic[p]) : topic[p][i] = x
            BY <2>1, <2>3
        <3>2. i \in 1..Len(topic'[p])
            BY <1>2, <1>3
        <3> QED BY <1>3, <3>1, <3>2 DEF InTopic
    <2> QED BY <2>2, <2>3
<1>6. InTopic(e)'
    <2>1. Len(topic[p]) + 1 \in 1..Len(topic'[p])
        BY <1>2, <1>3
    <2> QED BY <1>3, <2>1 DEF InTopic
<1> QED BY <1>4, <1>5, <1>6

LEMMA EmitKeepsSync ==
    ASSUME NEW X, TypeOK, SourceType, SyncBut(X), Emit
    PROVE  SourceType' /\ SyncBut(X)'
<1>1. /\ UNCHANGED <<pg, view, written, lsn, slot, feed, snapshotLen>>
      /\ slot /\ sent' = sent + 1
    BY DEF Emit
<1> DEFINE e == feed[sent + 1]
<1>2. /\ sent + 1 \in 1..Len(feed) /\ e \in Event /\ sent \in Nat
      /\ PartitionOf[e.txn] \in Partitions /\ Publish(PartitionOf[e.txn], e)
    BY EmitPublishes DEF SourceType
<1>3. \A x : InTopic(x)' <=> InTopic(x) \/ x = e
    BY <1>2, PublishedTopic
<1>4. \A x \in Event : Emitted(x)' <=> Emitted(x)
    BY <1>1, <1>2, <1>3 DEF Emitted, InFeed
<1>5. SourceType'
    BY <1>1, ConnectorKeepsType
<1>6. SentDelivered'
    <2> SUFFICES ASSUME NEW k \in 1..(sent + 1) PROVE InTopic(feed[k])'
        BY <1>1 DEF SentDelivered, InTopic
    <2>1. k \in 1..sent \/ k = sent + 1
        BY <1>2
    <2> QED BY <1>1, <1>3, <2>1 DEF SentDelivered, SyncBut, InTopic
<1>7. TransactionOpen' /\ EventsBehind(X)'
    BY <1>1, <1>4, SameTransaction DEF SyncBut, EventsBehind, Says
<1>8. slot' => \A t \in Txns \ X : FeedCovers(t)'
    BY <1>1, <1>4, SameFeedCovers DEF SyncBut
<1> QED BY <1>1, <1>5, <1>6, <1>7, <1>8 DEF SyncBut, NothingBefore

-----------------------------------------------------------------------------
(* The pipeline is a job whose topic the connector fills.                  *)

LEMMA JobStepSource ==
    ASSUME TypeOK, JobStep
    PROVE  Next /\ topic' = topic /\ UNCHANGED source
<1>1. Next /\ UNCHANGED source
    BY DEF JobStep, Next, Environment
<1>2. CASE ProcessBatch(Driver) \/ Failure(Driver)
    BY <1>1, <1>2, HandlerWrites, CallersAssumption
<1>3. CASE LoopStep
    BY <1>1, <1>3 DEF LoopStep, Start, PlanBatch, WrapperEmpty, WrapperRaises,
                      WrapperCall, AckBatch, kafka
<1>4. CASE (\E p \in Partitions : Expire(p)) \/ ChangeMerchants
    BY <1>1, <1>4 DEF Expire, ChangeMerchants, kafka
<1> QED BY <1>2, <1>3, <1>4 DEF JobStep, DriverStep, LoopStep

LEMMA SourceInit ==
    ASSUME PipelineInit, NEW X
    PROVE  SourceType /\ SyncBut(X)
<1>1. \A e : ~Emitted(e)
    BY DEF PipelineInit, Init, Emitted, InTopic, InFeed
<1>2. /\ pg \in [Txns -> Image \cup {Absent}] /\ view = pg /\ written = <<>>
      /\ feed = <<>> /\ Len(feed) = 0 /\ feed \in Seq(Events) /\ written \in Seq(Events)
      /\ lsn = 0 /\ slot = FALSE /\ snapshotLen = 0 /\ sent = 0
    BY LoadedTablesAssumption DEF PipelineInit
<1>3. SourceType
    <2>1. lsn \in 0..MaxChanges
        BY <1>2, SourceBoundsAssumption
    <2>3. view \in [Txns -> Image \cup {Absent}]
        BY <1>2, Zenon
    <2>4. slot \in BOOLEAN
        BY <1>2
    <2>2. snapshotLen \in 0..Len(feed) /\ sent \in 0..Len(feed)
        BY <1>2
    <2> QED BY <1>2, <2>1, <2>2, <2>3, <2>4 DEF SourceType
<1>4. TransactionOpen /\ Begun = lsn
    BY <1>2, NothingOpen
<1>5. NothingBefore(X) /\ EventsBehind(X) /\ SentDelivered
    BY <1>1, <1>2 DEF NothingBefore, EventsBehind, SentDelivered, Emitted
<1> QED BY <1>2, <1>3, <1>4, <1>5 DEF SyncBut

LEMMA QuietKeepsSync ==
    ASSUME NEW X, SourceType, SyncBut(X), topic' = topic, UNCHANGED source
    PROVE  SourceType' /\ SyncBut(X)'
<1>1. SourceType'
    BY DEF SourceType, source
<1>2. UNCHANGED <<pg, view, written, lsn, slot, feed, snapshotLen, sent>>
    BY DEF source
<1>3. slot' => \A t \in Txns \ X : FeedCovers(t)'
    BY <1>2, SameEmissions, SameFeedCovers DEF SyncBut
<1>4. TransactionOpen' /\ EventsBehind(X)'
    BY <1>2, SameTransaction, SameEmissions DEF SyncBut, EventsBehind, Says
<1>5. NothingBefore(X)' /\ SentDelivered'
    BY <1>2 DEF SyncBut, NothingBefore, SentDelivered, InTopic
<1> QED BY <1>1, <1>3, <1>4, <1>5 DEF SyncBut

(* A record of an id in X that somebody else publishes.                    *)
LEMMA StrangerKeepsSync ==
    ASSUME NEW X, TypeOK, SourceType, SyncBut(X), UNCHANGED source,
           NEW p \in Partitions, NEW x \in Event, x.txn \in X, Publish(p, x)
    PROVE  SourceType' /\ SyncBut(X)'
<1>1. UNCHANGED <<pg, view, written, lsn, slot, feed, snapshotLen, sent>>
    BY DEF source
<1>2. SourceType'
    BY <1>1 DEF SourceType
<1>3. \A e : InTopic(e)' <=> InTopic(e) \/ e = x
    BY PublishedTopic
<1>4. \A e : Emitted(e)' <=> Emitted(e) \/ e = x
    BY <1>1, <1>3 DEF Emitted, InFeed
<1>5. TransactionOpen' /\ NothingBefore(X)' /\ EventsBehind(X)' /\ SentDelivered'
    <2>1. NothingBefore(X)'
        BY <1>1, <1>3 DEF SyncBut, NothingBefore
    <2>2. TransactionOpen' /\ Begun' = Begun
        BY <1>1, SameTransaction DEF SyncBut
    <2>3. EventsBehind(X)'
        BY <1>1, <1>4, <2>2 DEF SyncBut, EventsBehind, Says
    <2>4. \A e : InTopic(e) => InTopic(e)'
        BY <1>3
    <2>5. SentDelivered'
        BY <1>1, <2>4 DEF SyncBut, SentDelivered
    <2> QED BY <2>1, <2>2, <2>3, <2>5
<1>6. ASSUME NEW t \in Txns \ X, FeedCovers(t)
      PROVE  FeedCovers(t)'
    <2>1. \A e \in Event : Emitted(e)' /\ e.txn = t => Emitted(e)
        BY <1>4
    <2>2. CASE pg[t] = Absent /\ NeverEmitted(t)
        BY <1>1, <2>1, <2>2 DEF FeedCovers, NeverEmitted
    <2>3. ASSUME NEW k \in 1..Len(feed), Newest(t, k), pg[t] = Absent => snapshotLen < k
          PROVE  FeedCovers(t)'
        <3>1. Newest(t, k)'
            BY <1>1, <2>1, <2>3 DEF Newest, Says
        <3> QED BY <1>1, <2>3, <3>1 DEF FeedCovers
    <2> QED BY <1>6, <2>2, <2>3 DEF FeedCovers
<1> QED BY <1>1, <1>2, <1>5, <1>6 DEF SyncBut

LEMMA SourceStepKeeps ==
    ASSUME TypeOK, SourceType, SourceInSync, [PipelineNext]_pipelineVars
    PROVE  SourceType' /\ SourceInSync'
<1>1. SyncBut({})
    BY DEF SourceInSync
<1>2. SourceType' /\ SyncBut({})'
    <2>1. CASE Generator
        BY <1>1, <2>1, GeneratorWrites, TransactionKeepsSync
    <2>2. CASE CreateConnector
        BY <1>1, <2>2, CreateKeepsSync
    <2>3. CASE Emit
        BY <1>1, <2>3, EmitKeepsSync
    <2>4. CASE RestartConnector
        BY <1>1, <2>4, RestartKeepsSync
    <2>5. CASE JobStep \/ UNCHANGED pipelineVars
        <3>1. topic' = topic /\ UNCHANGED source
            BY <2>5, JobStepSource DEF pipelineVars, vars, kafka
        <3> QED BY <1>1, <3>1, QuietKeepsSync
    <2> QED BY <2>1, <2>2, <2>3, <2>4, <2>5 DEF PipelineNext, SourceStep
<1> QED BY <1>2 DEF SourceInSync

LEMMA PipelineStepIsJobStep ==
    ASSUME TypeOK, SourceType, [PipelineNext]_pipelineVars
    PROVE  [Next]_vars
<1>1. CASE Generator
    BY <1>1, GeneratorWrites, TransactionLeavesJob
<1>2. CASE CreateConnector \/ RestartConnector \/ UNCHANGED pipelineVars
    BY <1>2 DEF CreateConnector, RestartConnector, pipelineVars
<1>3. CASE Emit
    BY <1>3, EmitPublishes DEF Next, Environment
<1>4. CASE JobStep
    BY <1>4, JobStepSource
<1> QED BY <1>1, <1>2, <1>3, <1>4 DEF PipelineNext, SourceStep

LEMMA SourceInvariant ==
    PipelineSpec => [](TypeOK /\ DriverPlace /\ SourceType /\ SourceInSync)
<1>1. PipelineInit => TypeOK /\ DriverPlace /\ SourceType /\ SourceInSync
    BY TypeInit, SourceInit DEF PipelineInit, SourceInSync
<1>2. /\ TypeOK /\ DriverPlace /\ SourceType /\ SourceInSync
      /\ [PipelineNext]_pipelineVars
      => (TypeOK /\ DriverPlace /\ SourceType /\ SourceInSync)'
    BY PipelineStepIsJobStep, TypeStep, SourceStepKeeps
<1> QED BY <1>1, <1>2, PTL DEF PipelineSpec

(* Postgres, the generator and the connector are an environment the job's  *)
(* specification allows: whatever is proved of the job holds in the        *)
(* pipeline.  A write, a commit, a snapshot and a kill of the connector    *)
(* are no steps of the job, and an emission is a publication.              *)
THEOREM PipelineImplementsJob == PipelineSpec => Spec
<1>1. PipelineInit => Init
    BY DEF PipelineInit
<1>2. TypeOK /\ SourceType /\ [PipelineNext]_pipelineVars => [Next]_vars
    BY PipelineStepIsJobStep
<1> QED BY <1>1, <1>2, SourceInvariant, PTL DEF PipelineSpec, Spec

(* So the guarantees of the job hold behind a real source.                 *)
COROLLARY PipelineGuarantees ==
    PipelineSpec => /\ []NoSilentLoss
                    /\ []LedgerSound
                    /\ []OneRowPerTransaction
                    /\ LsnMonotone
BY PipelineImplementsJob, NothingIsLost, LedgerIsSound, OneRowCorrect, LsnGuard, PTL

-----------------------------------------------------------------------------
(* Parity.                                                                 *)

(* The table has the row of t that Postgres has: no event the connector    *)
(* has emitted or will emit can supersede it with anything else.           *)
Current(t) ==
    /\ \A r \in RowsOf(table, t), e \in Event :
         Emitted(e) /\ e.txn = t /\ e.lsn >= r.lsn => Says(e, pg[t])
    /\ RowsOf(table, t) = {} => pg[t] = Absent /\ NeverEmitted(t)

(* A row of the table is the decoding of an event that was emitted.        *)
RowsEmitted ==
    \A r \in table : \E e \in Event :
        /\ Emitted(e) /\ e.txn = r.txn /\ e.lsn = r.lsn
        /\ r.isDelete = (e.op = "d")
        /\ r.merchant = e.merchant /\ r.status = e.status
        /\ r.wellFormed = e.wellFormed

LEMMA RowsAreEmitted ==
    ASSUME Shape, RowsSourced
    PROVE  RowsEmitted
<1> SUFFICES ASSUME NEW r \in table
             PROVE  \E e \in Event :
                        /\ Emitted(e) /\ e.txn = r.txn /\ e.lsn = r.lsn
                        /\ r.isDelete = (e.op = "d")
                        /\ r.merchant = e.merchant /\ r.status = e.status
                        /\ r.wellFormed = e.wellFormed
    BY DEF RowsEmitted
<1> DEFINE p == r.partition
           i == r.offset
           e == topic[p][i]
<1>1. r \in Row /\ Sourced(r)
    BY DEF Shape, TypeOK, RowsSourced
<1>2. p \in Partitions /\ i \in 1..Len(topic[p]) /\ r = FlatRow(p, i)
    BY <1>1 DEF Sourced, Row
<1>3. e \in Event
    BY <1>2 DEF Shape, TypeOK
<1>4. Emitted(e)
    BY <1>2 DEF Emitted, InTopic
<1>5. /\ e.txn = r.txn /\ e.lsn = r.lsn /\ r.isDelete = (e.op = "d")
      /\ r.merchant = e.merchant /\ r.status = e.status /\ r.wellFormed = e.wellFormed
    BY <1>2 DEF FlatRow
<1> QED BY <1>3, <1>4, <1>5

(* What the job's theorems say of a state.                                 *)
JobFacts ==
    /\ Shape /\ Progress /\ RowsSourced /\ AckedSettled
    /\ RowsEmitted /\ OneRowPerTransaction
    /\ TopicBounded /\ StartsAtHead

LEMMA JobFactsInvariant == Spec => []JobFacts
<1>1. /\ Shape /\ Progress /\ RowsSourced /\ AckedSettled /\ OneRowPerTransaction
      /\ TopicBounded /\ StartsAtHead
      => JobFacts
    BY RowsAreEmitted DEF JobFacts
<1> QED BY <1>1, ProgressInvariant, RowsSourcedInvariant, AckedSettledInvariant,
           OneRowCorrect, BeginningInvariant, PTL

(* The rows of an id that is current are as in Postgres.                   *)
LEMMA CurrentIsInParity ==
    ASSUME RowsEmitted, OneRowPerTransaction, NEW t \in Txns, Current(t)
    PROVE  InParity(t)
<1>1. CASE RowsOf(table, t) = {}
    BY <1>1 DEF Current, InParity, Live
<1>2. CASE RowsOf(table, t) # {}
    <2>1. PICK r \in table : r.txn = t
        BY <1>2 DEF RowsOf
    <2>2. RowsOf(table, t) = {r}
        BY <2>1 DEF RowsOf, OneRowPerTransaction, OneRowPerKey
    <2>3. PICK e \in Event : /\ Emitted(e) /\ e.txn = r.txn /\ e.lsn = r.lsn
                             /\ r.isDelete = (e.op = "d")
                             /\ r.merchant = e.merchant /\ r.status = e.status
                             /\ r.wellFormed = e.wellFormed
        BY DEF RowsEmitted
    <2>4. Says(e, pg[t])
        <3>1. e.lsn >= r.lsn
            BY <2>3 DEF Event
        <3> QED BY <2>1, <2>2, <2>3, <3>1 DEF Current
    <2>5. CASE pg[t] = Absent
        <3>1. r.isDelete
            BY <2>3, <2>4, <2>5 DEF Says
        <3>2. Live(t) = {}
            BY <2>2, <3>1 DEF Live
        <3> QED BY <2>5, <3>2 DEF InParity
    <2>6. CASE pg[t] # Absent
        <3>1. /\ ~r.isDelete
              /\ pg[t] = [merchant |-> r.merchant, status |-> r.status,
                          wellFormed |-> r.wellFormed]
            BY <2>3, <2>4, <2>6 DEF Says
        <3>2. { q \in RowsOf(table, t) : ~q.isDelete } = {r}
            BY <2>2, <3>1
        <3>3. Live(t) = {pg[t]}
            BY <3>1, <3>2 DEF Live
        <3> QED BY <2>6, <3>3 DEF InParity
    <2> QED BY <2>5, <2>6
<1> QED BY <1>1, <1>2

(* A nonempty set of numbers below a bound has a greatest one.             *)
LEMMA GreatestOf ==
    ASSUME NEW n \in Nat, NEW S, S \subseteq 0..n, S # {}
    PROVE  \E k \in S : \A j \in S : j <= k
<1> DEFINE From(k) == { j \in S : k <= j }
           Tails == { From(k) : k \in S }
<1>1. IsFiniteSet(S)
    <2>1. IsFiniteSet(0..n)
        BY FS_Interval
    <2> QED BY <2>1, FS_Subset
<1>2. Tails \subseteq FiniteSubsetsOf(S) /\ Tails # {}
    <2>1. \A k \in S : From(k) \in SUBSET S
        OBVIOUS
    <2>2. \A k \in S : From(k) \in FiniteSubsetsOf(S)
        BY <1>1, <2>1, FS_FiniteSubsetsOfFinite
    <2> HIDE DEF From
    <2> QED BY <2>2
<1>3. PICK T \in Tails : \A U \in Tails : <<U, T>> \notin StrictSubsetOrdering(S)
    BY <1>2, WFMin, FS_StrictSubsetOrderingWellFounded
<1>4. PICK k \in S : T = From(k)
    BY <1>3
<1>5. ASSUME NEW j \in S, ~(j <= k) PROVE FALSE
    <2>1. From(j) \in Tails /\ From(j) \subseteq From(k) /\ k \in From(k) /\ k \notin From(j)
        <3>1. k < j /\ \A i \in S : i \in Nat
            BY <1>5
        <3>2. k \in From(k) /\ k \notin From(j)
            BY <3>1
        <3>3. ASSUME NEW i \in From(j) PROVE i \in From(k)
            BY <3>1, <3>3
        <3> QED BY <3>2, <3>3
    <2>2. From(j) \in SUBSET S /\ From(k) \in SUBSET S /\ From(j) # From(k)
        BY <2>1
    <2> HIDE DEF From
    <2>3. <<From(j), From(k)>> \in StrictSubsetOrdering(S)
        BY <2>1, <2>2 DEF StrictSubsetOrdering
    <2> QED BY <1>3, <1>4, <2>1, <2>3
<1> QED BY <1>4, <1>5

(* The changes of an id the topic has, as places and as events.            *)
LEMMA ChangesInTopic ==
    ASSUME Shape, TopicBounded, NEW t
    PROVE  /\ \A pos \in ChangesOf(t) :
                LET e == topic[pos[1]][pos[2]]
                IN  e \in Event /\ InTopic(e) /\ e.txn = t /\ e.schema # "none"
           /\ \A e \in Event : InTopic(e) /\ e.txn = t /\ e.schema # "none" =>
                \E pos \in ChangesOf(t) : topic[pos[1]][pos[2]] = e
<1>1. ASSUME NEW pos \in ChangesOf(t)
      PROVE  LET e == topic[pos[1]][pos[2]]
             IN  e \in Event /\ InTopic(e) /\ e.txn = t /\ e.schema # "none"
    <2>1. /\ pos[1] \in Partitions /\ pos[2] \in 1..MaxRecords
          /\ pos[2] <= Len(topic[pos[1]])
          /\ topic[pos[1]][pos[2]].txn = t /\ topic[pos[1]][pos[2]].schema # "none"
        BY DEF ChangesOf
    <2>2. topic[pos[1]] \in Seq(Event) /\ Len(topic[pos[1]]) \in Nat
        BY <2>1 DEF Shape, TypeOK
    <2>3. pos[2] \in 1..Len(topic[pos[1]])
        BY <2>1, <2>2, BoundsAssumption
    <2>4. topic[pos[1]][pos[2]] \in Event
        BY <2>2, <2>3
    <2> QED BY <2>1, <2>3, <2>4 DEF InTopic
<1>2. ASSUME NEW e \in Event, InTopic(e), e.txn = t, e.schema # "none"
      PROVE  \E pos \in ChangesOf(t) : topic[pos[1]][pos[2]] = e
    <2>1. PICK p \in Partitions : \E i \in 1..Len(topic[p]) : topic[p][i] = e
        BY <1>2 DEF InTopic
    <2>2. PICK i \in 1..Len(topic[p]) : topic[p][i] = e
        BY <2>1
    <2>3. i \in 1..MaxRecords /\ i <= Len(topic[p])
        BY BoundsAssumption DEF TopicBounded, Shape, TypeOK
    <2>4. <<p, i>> \in ChangesOf(t)
        BY <1>2, <2>2, <2>3 DEF ChangesOf
    <2> QED BY <2>2, <2>4
<1> QED BY <1>1, <1>2

(* Of the changes of an id one is the newest.                              *)
LEMMA NewestExists ==
    ASSUME Shape, TopicBounded, SourceType, NEW X, EventsBehind(X),
           NEW t \in Txns \ X, ChangesOf(t) # {}
    PROVE  \E pos \in Partitions \X (1..MaxRecords) : IsNewest(pos, t)
<1> DEFINE At(pos) == topic[pos[1]][pos[2]].lsn
           S == { At(pos) : pos \in ChangesOf(t) }
<1>1. lsn \in Nat
    BY SourceBoundsAssumption DEF SourceType
<1>2. \A pos \in ChangesOf(t) : At(pos) \in 0..lsn
    <2> SUFFICES ASSUME NEW pos \in ChangesOf(t) PROVE At(pos) \in 0..lsn
        OBVIOUS
    <2>1. /\ topic[pos[1]][pos[2]] \in Event /\ InTopic(topic[pos[1]][pos[2]])
          /\ topic[pos[1]][pos[2]].txn = t
        BY ChangesInTopic
    <2> QED BY <1>1, <2>1 DEF EventsBehind, Emitted, Event
<1> HIDE DEF At
<1>3. PICK k \in S : \A j \in S : j <= k
    <2>1. S \subseteq 0..lsn /\ S # {}
        BY <1>2
    <2> HIDE DEF S
    <2> QED BY <1>1, <2>1, GreatestOf
<1>4. PICK pos \in ChangesOf(t) : k = At(pos)
    BY <1>3
<1>5. \A other \in ChangesOf(t) : At(other) <= At(pos)
    BY <1>3, <1>4
<1>6. pos \in Partitions \X (1..MaxRecords)
    BY DEF ChangesOf
<1> QED BY <1>5, <1>6 DEF IsNewest, At

(* When nothing is under way, the last change of an id was rejected or     *)
(* lost, or a snapshot overtook it, or the table has it.                   *)
LEMMA DrainedIsCurrent ==
    ASSUME NEW X, JobFacts, SourceType, SyncBut(X), StartingOffsets = "earliest",
           Drained, NEW t \in Txns \ X
    PROVE  Current(t) \/ NotApplied(t) \/ Overtaken(t)
<1> USE DEF JobFacts
<1>1. /\ FeedCovers(t) /\ sent = Len(feed) /\ WorkedOff
      /\ \A e : Emitted(e) => InTopic(e)
    BY DEF SyncBut, SentDelivered, Drained, WorkedOff, Emitted, InFeed
<1>2. CASE pg[t] = Absent /\ NeverEmitted(t)
    <2>1. RowsOf(table, t) = {}
        BY <1>2 DEF RowsEmitted, RowsOf, NeverEmitted
    <2> QED BY <1>2, <2>1 DEF Current
<1>3. ASSUME NEW k \in 1..Len(feed), Newest(t, k)
      PROVE  Current(t) \/ NotApplied(t) \/ Overtaken(t)
    <2>1. /\ feed[k] \in Event /\ InTopic(feed[k]) /\ feed[k].txn = t
          /\ feed[k].schema # "none" /\ Says(feed[k], pg[t])
        BY <1>1, <1>3, EventsAssumption
           DEF SourceType, SyncBut, SentDelivered, Newest
    <2>2. PICK here \in ChangesOf(t) : topic[here[1]][here[2]] = feed[k]
        BY <2>1, ChangesInTopic
    <2>3. PICK pos \in Partitions \X (1..MaxRecords) : IsNewest(pos, t)
        BY <2>2, NewestExists DEF SyncBut
    <2>4. ASSUME NEW other \in ChangesOf(t), IsNewest(other, t),
                 ~Says(topic[other[1]][other[2]], pg[t])
          PROVE  Overtaken(t)
        <3> DEFINE n == topic[other[1]][other[2]]
        <3>1. n \in Event /\ Emitted(n) /\ n.txn = t
            BY ChangesInTopic DEF Emitted
        <3>2. feed[k].lsn <= n.lsn
            BY <2>2, <2>4 DEF IsNewest
        <3>3. n.op = "r" /\ snapshotLen < k
            <4>1. n.lsn \in Nat /\ feed[k].lsn \in Nat
                BY <2>1, <3>1 DEF Event
            <4> QED BY <1>3, <2>4, <3>1, <3>2, <4>1 DEF Newest
        <3>4. k \in (snapshotLen + 1)..Len(feed)
            BY <3>3 DEF SourceType
        <3>5. other \in Partitions \X (1..MaxRecords)
            BY DEF ChangesOf
        <3> QED BY <2>1, <2>4, <3>2, <3>3, <3>4, <3>5 DEF Overtaken
    <2>5. ASSUME \A other \in ChangesOf(t) : IsNewest(other, t) =>
                     Says(topic[other[1]][other[2]], pg[t])
          PROVE  Current(t) \/ NotApplied(t)
        <3> DEFINE p == pos[1]
                   i == pos[2]
                   last == topic[p][i]
        <3>1. /\ p \in Partitions /\ i \in 1..MaxRecords /\ pos \in ChangesOf(t)
              /\ pos = <<p, i>>
            BY <2>3 DEF IsNewest
        <3>2. /\ last \in Event /\ InTopic(last) /\ last.txn = t
              /\ last.schema # "none" /\ last.lsn \in Nat
            BY <3>1, ChangesInTopic DEF Event
        <3>3. feed[k].lsn <= last.lsn /\ feed[k].lsn \in Nat
            BY <2>1, <2>2, <2>3 DEF IsNewest, Event
        <3>4. ASSUME NEW e \in Event, Emitted(e), e.txn = t
              PROVE  e.lsn < last.lsn \/ (e.lsn = last.lsn /\ Says(e, pg[t]))
            <4>1. e.lsn \in Nat /\ InTopic(e)
                BY <1>1, <3>4 DEF Event
            <4>2. CASE e.schema # "none"
                <5>1. PICK q \in ChangesOf(t) : topic[q[1]][q[2]] = e
                    BY <3>4, <4>1, <4>2, ChangesInTopic
                <5>2. e.lsn <= last.lsn
                    BY <2>3, <5>1 DEF IsNewest
                <5>3. CASE e.lsn = last.lsn
                    <6>1. IsNewest(q, t)
                        BY <2>3, <5>1, <5>3 DEF IsNewest
                    <6> QED BY <2>5, <5>1, <5>3, <6>1
                <5> QED BY <3>2, <4>1, <5>2, <5>3
            <4>3. CASE e.schema = "none"
                <5>1. e.op # "r"
                    BY <3>4, <4>3 DEF SyncBut, EventsBehind
                <5>2. \/ e.lsn < feed[k].lsn
                      \/ e.lsn = feed[k].lsn /\ Says(e, pg[t])
                    BY <1>3, <3>4, <5>1 DEF Newest
                <5> QED BY <3>2, <3>3, <4>1, <5>2
            <4> QED BY <4>2, <4>3
        <3>5. i \in 1..Len(topic[p])
            BY <3>1, BoundsAssumption DEF ChangesOf, Shape, TypeOK
        <3>6. Settled(p, i)
            BY <1>1, <3>1, <3>5, WorkedOffIsSettled
        <3>7. CASE FlatRow(p, i) \in dlq \/ <<p, i>> \in lost
            BY <2>3, <3>1, <3>7 DEF NotApplied
        <3>8. CASE UpToDate(table, FlatRow(p, i))
            <4>1. PICK r \in table : r.txn = t /\ r.lsn >= last.lsn
                BY <3>2, <3>8 DEF UpToDate, FlatRow
            <4>2. RowsOf(table, t) = {r} /\ r.lsn \in Nat
                BY <4>1 DEF RowsOf, OneRowPerTransaction, OneRowPerKey, Shape, TypeOK, Row
            <4>3. ASSUME NEW e \in Event, Emitted(e), e.txn = t, e.lsn >= r.lsn
                  PROVE  Says(e, pg[t])
                <5>1. e.lsn \in Nat
                    BY DEF Event
                <5> QED BY <3>2, <3>4, <4>1, <4>2, <4>3, <5>1
            <4> QED BY <4>2, <4>3 DEF Current
        <3> HIDE DEF p, i
        <3> QED BY <3>2, <3>6, <3>7, <3>8 DEF Settled, Handled
    <2> QED BY <2>4, <2>5
<1> QED BY <1>1, <1>2, <1>3 DEF FeedCovers

LEMMA DrainedInParity ==
    ASSUME JobFacts, SourceType, SourceInSync, StartingOffsets = "earliest"
    PROVE  ParityWhenDrained
<1>1. ASSUME NEW t \in Txns, Drained PROVE Current(t) \/ NotApplied(t) \/ Overtaken(t)
    BY <1>1, DrainedIsCurrent DEF SourceInSync
<1> QED BY <1>1, CurrentIsInParity DEF ParityWhenDrained, JobFacts

(* Whenever nothing is under way, each id has the same live row in         *)
(* Postgres and in the Delta table, or its last change was rejected or     *)
(* expired, or was written before and committed after a repeated snapshot: *)
(* through overlapping snapshots, re-emissions, rollbacks and crashes, for *)
(* every database, transaction size and number of changes.  The stream     *)
(* reads from the earliest offset, as it does by default.                  *)
THEOREM DrainedPipelineIsInParity ==
    ASSUME StartingOffsets = "earliest"
    PROVE  PipelineSpec => []ParityWhenDrained
<1>1. JobFacts /\ SourceType /\ SourceInSync => ParityWhenDrained
    BY DrainedInParity
<1>2. PipelineSpec => []JobFacts
    BY PipelineImplementsJob, JobFactsInvariant, PTL
<1> QED BY <1>1, <1>2, SourceInvariant, PTL
=============================================================================
