---------------------- MODULE ProjectionSnapshotsProofs ----------------------
(***************************************************************************)
(* Theorems about ProjectionSnapshots, for any set of savers, readers,     *)
(* orders and commands, any bounds and any page size.                      *)
(*                                                                         *)
(* The inductive invariant says that what a reader holds between two       *)
(* statements still fits rows that are one state of the tables: its        *)
(* transaction's view, or the committed rows, which only grow.  A snapshot *)
(* is determined by its identity, so one that was matched once is sound    *)
(* whenever it is met again.                                               *)
(***************************************************************************)
EXTENDS ProjectionSnapshots, OrderDomainProofs

----------------------------------------------------------------------------
(* Rows, the histories they hold and what is derived from them.            *)

\* The events of one order among the rows.
EventsOf(o, rows) == {r.event : r \in {s \in rows : s.event.order_id = o}}

\* Committed rows: an order is created, and then paid with the same amount;
\* positions are the order of the commits.
LegalRows(rows) ==
  /\ IsFiniteSet(rows)
  /\ \A r \in rows :
       /\ r.event.order_id \in Orders /\ r.event.sequence \in {1, 2} /\ r.event.amount \in Int
       /\ r.event.event_id \in Nat
       /\ r.global_position \in 1..Cardinality(rows)
       /\ r.event.sequence = 1 => r.event.event_type = "CREATED"
       /\ r.event.sequence = 2 =>
            /\ r.event.event_type = "PAID"
            /\ \E q \in rows : q.event.order_id = r.event.order_id /\ q.event.sequence = 1
                               /\ q.event.amount = r.event.amount
  /\ \A r, q \in rows :
       /\ r.event.order_id = q.event.order_id /\ r.event.sequence = q.event.sequence => r = q
       /\ r.global_position = q.global_position => r = q

\* The derived state after n events of the history of o.
StateAfter(o, rows, n) == DerivedState(o, History(o, rows), n)

\* Rows of projection_states: one for each order, derived from its history.
LegalStates(rows, states) ==
  /\ \A s \in states : \E v \in 1..Len(History(s.order_id, rows)) :
       s = StateAfter(s.order_id, rows, v)
  /\ \A s, t \in states : s.order_id = t.order_id => s = t

\* What a saver with this fault makes of the derived state.
SavedState(fault, s) ==
  CASE fault = "payload" -> [s EXCEPT !.total_amount = @ + 1]
    [] fault = "version" -> [s EXCEPT !.version = @ - 1]
    [] fault = "ahead"   -> [s EXCEPT !.version = @ + 1, !.status = "PAID",
                                      !.paid_amount = s.total_amount]
    [] OTHER             -> s

\* The snapshot that saver v builds of the event of r.
SnapshotOf(rows, v, r, fault) ==
  LET ahead == IF fault = "ahead" THEN 1 ELSE 0
      other == ahead * ElsewherePosition
      state == SavedState(fault, StateAfter(r.event.order_id, rows, r.event.sequence))
  IN  [snapshot_id            |-> <<v, r.global_position, fault>>,
       order_id               |-> r.event.order_id,
       source_event_id        |-> r.event.event_id + other,
       source_event_sequence  |-> r.event.sequence + ahead,
       source_global_position |-> r.global_position + other,
       state                  |-> state,
       snapshot_schema_version |-> SchemaVersion + (IF fault = "schema" THEN 1 ELSE 0),
       reducer_version        |-> ReducerVersion + (IF fault = "reducer" THEN 1 ELSE 0),
       payload_hash           |-> state]

MayBuild(v, r, fault) ==
  v \in Savers /\ fault \in Faults /\ (fault = "ahead" => r.event.sequence = 1)

\* s was built by some saver from these rows.
Built(rows, s) ==
  \E v \in Savers, r \in rows, f \in Faults : MayBuild(v, r, f) /\ s = SnapshotOf(rows, v, r, f)

\* id is that of a snapshot that can be built from these rows and is sound.
SoundId(rows, id) ==
  \E v \in Savers, r \in rows, f \in Faults :
    MayBuild(v, r, f) /\ id = <<v, r.global_position, f>> /\ Sound(SnapshotOf(rows, v, r, f), rows)

----------------------------------------------------------------------------
(* The inductive invariant.                                                *)

TablesInv == LegalRows(order_events) /\ LegalStates(order_events, projection_states)

\* An open save holds one snapshot.
SavingOk(x, rows) ==
  x = Idle \/ \E s \in x.snapshot : /\ Built(rows, s) /\ x.snapshot = {s}
                                    /\ x.step \in {"inserted", "conflicted"}

\* Nothing in the table conflicts with another row of it or with what an open
\* save has inserted, and two open saves have inserted nothing that conflicts.
SaversInv ==
  /\ saving = [v \in Savers |-> saving[v]]
  /\ \A v \in Savers : SavingOk(saving[v], order_events)
  /\ \A s \in projection_snapshots : Built(order_events, s)
  /\ \A s, t \in projection_snapshots : Conflicts(s, t) => s = t
  /\ \A v \in Savers : saving[v].step = "inserted" =>
       \A s \in saving[v].snapshot, t \in projection_snapshots : ~Conflicts(s, t)
  /\ \A v, w \in Savers : v # w /\ saving[v].step = "inserted" /\ saving[w].step = "inserted" =>
       \A s \in saving[v].snapshot, t \in saving[w].snapshot : ~Conflicts(s, t)

TrustedInv == \A id \in trusted : SoundId(order_events, id)

\* The reader's call owns a transaction.
Isolated(c) == c.isolation = "REPEATABLE READ"
OneView(x)  == Isolated(x.call)

\* The rows a reader's statements see.
RowsOf(x, rows) == IF OneView(x) THEN x.view.events ELSE rows

\* The tail loaded so far: nothing, or the second event after the first.
TailOk(s, tail, rows) ==
  LET h == History(s.order_id, rows)
  IN  tail = <<>> \/ (s.source_event_sequence = 1 /\ Len(h) = 2 /\ tail = <<h[2]>>)

\* What a validation holds as accepted history: what it read, and in one
\* transaction what that sees.
AuthorityOk(x, s, rows) ==
  /\ \E seen \in SUBSET rows : LegalRows(seen) /\ x.authority = History(x.call.order_id, seen)
  /\ OneView(x) => x.authority = History(x.call.order_id, rows)
  /\ s.source_event_sequence <= Len(x.authority)

\* What a reader holds before each of its statements, seeing these rows.
ReaderOk(x, rows) ==
  /\ x.found = {} \/ \E s \in x.found : x.found = {s} /\ Built(rows, s)
  /\ x.pc = "history" => /\ x.call.op = "validate" /\ x.tail = <<>>
                         /\ \A s \in x.found : s.order_id = x.call.order_id
  /\ x.pc = "tail" =>
       /\ x.call.op \in {"resolve", "validate"}
       /\ \E s \in x.found :
            /\ UsableBase(s, x.call.order_id) /\ TailOk(s, x.tail, rows)
            /\ x.call.op = "validate" => AuthorityOk(x, s, rows)
            /\ x.call.op = "resolve" /\ x.vouched => Sound(s, rows)
  /\ x.pc = "state" => /\ x.call.op = "replay" /\ OneView(x)
                       /\ x.found = {} /\ x.authority = History(x.call.order_id, rows)

\* A transaction's view of the tables is one they had.
ViewOk(x, rows) ==
  OneView(x) =>
    x.view.events \subseteq rows /\ LegalRows(x.view.events) /\ LegalStates(x.view.events, x.view.states)

\* A reader's record, by its fields.
Reading(pc, call, vouched, view, found, authority, tail) ==
  [pc |-> pc, call |-> call, vouched |-> vouched, view |-> view, found |-> found,
   authority |-> authority, tail |-> tail]

ReaderShape(x) ==
  \E pc, call, vouched, view, found, authority, tail :
    x = Reading(pc, call, vouched, view, found, authority, tail)

ReadersInv ==
  /\ reading = [k \in Readers |-> reading[k]]
  /\ \A k \in Readers : ReaderShape(reading[k])
  /\ \A k \in Readers : reading[k].pc # "idle" =>
       ViewOk(reading[k], order_events) /\ ReaderOk(reading[k], RowsOf(reading[k], order_events))

IInv == TablesInv /\ SaversInv /\ TrustedInv /\ ReadersInv

----------------------------------------------------------------------------
(* Histories of legal rows.                                                *)

\* The events of an order in legal rows are numbered without a gap.
LEMMA RowsContiguous ==
  ASSUME NEW o, NEW rows, LegalRows(rows)
  PROVE  \E v \in 0..2 : IsContiguous(EventsOf(o, rows), v)
<1> DEFINE S == EventsOf(o, rows)
<1>1. \A e \in S : \E r \in rows : r.event = e /\ r.event.order_id = o
  BY DEF EventsOf
<1>2. \A r \in rows : r.event.order_id = o => r.event \in S
  BY DEF EventsOf
<1> HIDE DEF S
<1>3. \A e \in S : e.sequence \in {1, 2}
  BY <1>1 DEF LegalRows
<1>4. \A e, f \in S : e.sequence = f.sequence => e = f
  BY <1>1 DEF LegalRows
<1>5. \A e \in S : e.sequence = 2 => \E f \in S : f.sequence = 1
  <2> SUFFICES ASSUME NEW e \in S, e.sequence = 2 PROVE \E f \in S : f.sequence = 1
    OBVIOUS
  <2>1. PICK r \in rows : r.event = e /\ r.event.order_id = o
    BY <1>1
  <2>2. PICK q \in rows : q.event.order_id = r.event.order_id /\ q.event.sequence = 1
    BY <2>1 DEF LegalRows
  <2> QED BY <1>2, <2>1, <2>2
<1>6. CASE S = {}
  <2>1. IsContiguous(S, 0)
    BY <1>6 DEF IsContiguous
  <2> QED BY <2>1 DEF S
<1>7. CASE S # {} /\ \A e \in S : e.sequence = 1
  <2>1. \A n \in 1..1 : n = 1
    OBVIOUS
  <2>2. IsContiguous(S, 1)
    BY <1>4, <1>7, <2>1 DEF IsContiguous
  <2> QED BY <2>2 DEF S
<1>8. CASE \E e \in S : e.sequence = 2
  <2>1. (\E f \in S : f.sequence = 1) /\ \A n \in 1..2 : n = 1 \/ n = 2
    BY <1>5, <1>8
  <2>2. IsContiguous(S, 2)
    BY <1>3, <1>4, <1>8, <2>1 DEF IsContiguous
  <2> QED BY <2>2 DEF S
<1> QED BY <1>3, <1>6, <1>7, <1>8

\* The history of an order in legal rows is legal, and its n-th event is that
\* of the row with sequence n.
LEMMA HistoryOf ==
  ASSUME NEW o, NEW rows, LegalRows(rows)
  PROVE  /\ History(o, rows) \in Seq(EventsOf(o, rows))
         /\ LegalHistory(o, History(o, rows))
         /\ Len(History(o, rows)) \in 0..2
         /\ \A r \in rows : r.event.order_id = o =>
              r.event.sequence \in 1..Len(History(o, rows))
              /\ History(o, rows)[r.event.sequence] = r.event
         /\ \A n \in 1..Len(History(o, rows)) :
              \E r \in rows : r.event = History(o, rows)[n] /\ r.event.order_id = o
                              /\ r.event.sequence = n
<1> DEFINE S == EventsOf(o, rows)
<1>1. PICK v \in 0..2 : IsContiguous(S, v)
  BY RowsContiguous
<1>2. PICK h : h = InSequenceOrder(S)
  OBVIOUS
<1>3. h = History(o, rows)
  BY <1>2 DEF History, EventsOf
<1>4. h \in Seq(S) /\ Len(h) = v /\ \A n \in 1..v : h[n] \in S /\ h[n].sequence = n
  BY <1>1, <1>2, InSequenceOrderContiguous
<1>5. ASSUME NEW n \in 1..v
      PROVE  \E r \in rows : r.event = h[n] /\ r.event.order_id = o /\ r.event.sequence = n
  BY <1>4 DEF EventsOf
<1>6. ASSUME NEW r \in rows, r.event.order_id = o
      PROVE  r.event.sequence \in 1..v /\ h[r.event.sequence] = r.event
  <2>1. r.event \in S
    BY <1>6 DEF EventsOf
  <2> HIDE DEF S
  <2> QED BY <1>1, <1>4, <2>1 DEF IsContiguous
<1>7. LegalHistory(o, h)
  <2>1. \A n \in 1..v : h[n].order_id = o /\ h[n].sequence = n
    BY <1>5
  <2>2. v # 0 => h[1].event_type = "CREATED"
    <3> SUFFICES ASSUME v # 0 PROVE h[1].event_type = "CREATED"
      OBVIOUS
    <3>1. 1 \in 1..v
      OBVIOUS
    <3>2. PICK r \in rows : r.event = h[1] /\ r.event.sequence = 1
      BY <1>5, <3>1
    <3> QED BY <3>2 DEF LegalRows
  <2>3. v = 2 => h[2].event_type = "PAID" /\ h[2].amount = h[1].amount
    <3> SUFFICES ASSUME v = 2 PROVE h[2].event_type = "PAID" /\ h[2].amount = h[1].amount
      OBVIOUS
    <3>1. PICK r \in rows : r.event = h[2] /\ r.event.order_id = o /\ r.event.sequence = 2
      BY <1>5
    <3>2. r.event.event_type = "PAID"
      BY <3>1 DEF LegalRows
    <3>3. PICK q \in rows : q.event.order_id = r.event.order_id /\ q.event.sequence = 1
                            /\ q.event.amount = r.event.amount
      BY <3>1 DEF LegalRows
    <3>4. h[1] = q.event
      BY <1>6, <3>1, <3>3
    <3> QED BY <3>1, <3>2, <3>3, <3>4
  <2> QED BY <1>4, <2>1, <2>2, <2>3 DEF LegalHistory
<1> QED BY <1>3, <1>4, <1>5, <1>6, <1>7

\* Rows that grow keep what was there: each history is a prefix of the later.
LEMMA HistoryGrows ==
  ASSUME NEW o, NEW rows, NEW more, LegalRows(rows), LegalRows(more), rows \subseteq more
  PROVE  /\ Len(History(o, rows)) <= Len(History(o, more))
         /\ \A n \in 1..Len(History(o, rows)) : History(o, rows)[n] = History(o, more)[n]
<1> DEFINE h == History(o, rows)
           g == History(o, more)
<1>1. /\ Len(h) \in 0..2
      /\ \A n \in 1..Len(h) : \E r \in rows : r.event = h[n] /\ r.event.order_id = o
                                              /\ r.event.sequence = n
  BY HistoryOf
<1>2. /\ Len(g) \in 0..2
      /\ \A r \in more : r.event.order_id = o =>
           r.event.sequence \in 1..Len(g) /\ g[r.event.sequence] = r.event
  BY HistoryOf
<1> HIDE DEF h, g
<1>3. ASSUME NEW n \in 1..Len(h) PROVE n \in 1..Len(g) /\ h[n] = g[n]
  BY <1>1, <1>2
<1>4. Len(h) <= Len(g)
  <2>1. CASE Len(h) = 0
    BY <1>2, <2>1
  <2>2. CASE Len(h) # 0
    <3>1. Len(h) \in 1..Len(h)
      BY <1>1, <2>2
    <3> QED BY <1>3, <3>1
  <2> QED BY <2>1, <2>2
<1> QED BY <1>3, <1>4 DEF h, g

\* So what was derived from the rows is still derived from the later ones.
LEMMA StateAfterGrows ==
  ASSUME NEW o, NEW rows, NEW more, LegalRows(rows), LegalRows(more), rows \subseteq more,
         NEW n \in 0..Len(History(o, rows))
  PROVE  StateAfter(o, rows, n) = StateAfter(o, more, n) /\ n \in 0..Len(History(o, more))
<1>1. /\ Len(History(o, rows)) \in 0..2 /\ Len(History(o, more)) \in 0..2
  BY HistoryOf
<1>2. PICK h, g : h = History(o, rows) /\ g = History(o, more)
  OBVIOUS
<1>3. Len(h) <= Len(g) /\ \A i \in 1..Len(h) : h[i] = g[i]
  BY <1>2, HistoryGrows
<1>4. n # 0 => h[1] = g[1]
  BY <1>1, <1>2, <1>3
<1>5. n = 2 => h[2] = g[2]
  BY <1>1, <1>2, <1>3
<1>6. DerivedState(o, h, n) = DerivedState(o, g, n)
  BY <1>4, <1>5 DEF DerivedState
<1> QED BY <1>1, <1>2, <1>3, <1>6 DEF StateAfter

\* A replay of accepted history leaves the derived state.
LEMMA ReplayedIs ==
  ASSUME NEW o, NEW rows, LegalRows(rows), NEW n \in 0..Len(History(o, rows))
  PROVE  Replayed(o, n, rows) = StateAfter(o, rows, n)
<1>1. PICK h : h = History(o, rows)
  OBVIOUS
<1>2. h \in Seq(EventsOf(o, rows)) /\ LegalHistory(o, h)
  BY <1>1, HistoryOf
<1>3. ReplayFrom(build_empty_projection_state(o), SubSeq(h, 1, n)) = DerivedState(o, h, n)
  BY <1>1, <1>2, ReplayPrefix
<1> QED BY <1>1, <1>3 DEF Replayed, StateAfter

\* The fields of a derived state.
LEMMA StateAfterIs ==
  ASSUME NEW o, NEW rows, NEW n
  PROVE  /\ StateAfter(o, rows, n).order_id = o /\ StateAfter(o, rows, n).version = n
         /\ StateAfter(o, rows, n).status
              = IF n = 0 THEN "INIT" ELSE IF n = 1 THEN "CREATED" ELSE "PAID"
         /\ n # 0 => StateAfter(o, rows, n).total_amount = History(o, rows)[1].amount
BY DEF StateAfter, DerivedState

----------------------------------------------------------------------------
(* Snapshots.                                                              *)

\* A snapshot is sound when its state is the derived one of its boundary.
LEMMA SoundIs ==
  ASSUME NEW s, NEW rows, LegalRows(rows), s.source_event_sequence \in Nat
  PROVE  Sound(s, rows) <=>
           /\ s.source_event_sequence <= Len(History(s.order_id, rows))
           /\ s.state = StateAfter(s.order_id, rows, s.source_event_sequence)
<1>1. PICK o, n : o = s.order_id /\ n = s.source_event_sequence
  OBVIOUS
<1>2. Len(History(o, rows)) \in 0..2
  BY HistoryOf
<1>3. n <= Len(History(o, rows)) => Replayed(o, n, rows) = StateAfter(o, rows, n)
  <2> SUFFICES ASSUME n <= Len(History(o, rows)) PROVE Replayed(o, n, rows) = StateAfter(o, rows, n)
    OBVIOUS
  <2>1. n \in 0..Len(History(o, rows))
    BY <1>1, <1>2
  <2> QED BY <2>1, ReplayedIs
<1> QED BY <1>1, <1>3 DEF Sound

\* It stays sound when rows are added.
LEMMA SoundGrows ==
  ASSUME NEW s, NEW rows, NEW more, LegalRows(rows), LegalRows(more), rows \subseteq more,
         s.source_event_sequence \in Nat, Sound(s, rows)
  PROVE  Sound(s, more)
<1>1. PICK o, n : o = s.order_id /\ n = s.source_event_sequence
  OBVIOUS
<1>2. n \in Nat /\ n <= Len(History(o, rows)) /\ s.state = StateAfter(o, rows, n)
  BY <1>1, SoundIs
<1>3. Len(History(o, rows)) \in 0..2 /\ Len(History(o, more)) \in 0..2
  BY HistoryOf
<1>4. n \in 0..Len(History(o, rows))
  BY <1>2, <1>3
<1>5. StateAfter(o, rows, n) = StateAfter(o, more, n) /\ n \in 0..Len(History(o, more))
  BY <1>4, StateAfterGrows
<1>6. n <= Len(History(o, more)) /\ s.state = StateAfter(o, more, n)
  BY <1>2, <1>3, <1>5
<1> QED BY <1>1, <1>6, SoundIs

\* A row of the table is in the history of its order.
LEMMA RowInHistory ==
  ASSUME NEW rows, LegalRows(rows), NEW r \in rows
  PROVE  /\ r.event.sequence \in {1, 2} /\ r.global_position \in Nat \ {0}
         /\ r.event.sequence \in 0..Len(History(r.event.order_id, rows))
         /\ r.event.sequence <= Len(History(r.event.order_id, rows))
         /\ Len(History(r.event.order_id, rows)) \in {1, 2}
         /\ History(r.event.order_id, rows)[1].amount \in Int
<1>1. PICK o : o = r.event.order_id
  OBVIOUS
<1>2. /\ r.event.sequence \in 1..Len(History(o, rows)) /\ Len(History(o, rows)) \in 0..2
      /\ \A n \in 1..Len(History(o, rows)) : \E q \in rows : q.event = History(o, rows)[n]
  BY <1>1, HistoryOf
<1>3. PICK q \in rows : q.event = History(o, rows)[1]
  <2>1. 1 \in 1..Len(History(o, rows))
    BY <1>2
  <2> QED BY <1>2, <2>1
<1>4. /\ r.event.sequence \in {1, 2} /\ q.event.amount \in Int
      /\ r.global_position \in 1..Cardinality(rows)
  BY DEF LegalRows
<1>5. r.global_position \in Nat \ {0}
  <2>1. Cardinality(rows) \in Nat
    BY FS_CardinalityType DEF LegalRows
  <2> QED BY <1>4, <2>1
<1> QED BY <1>1, <1>2, <1>3, <1>4, <1>5

\* What a saver builds is read off the derived state.
LEMMA BuiltSnapshotIs ==
  ASSUME LegalRows(order_events), NEW v, NEW r \in order_events, NEW f
  PROVE  BuiltSnapshot(v, r, f) = SnapshotOf(order_events, v, r, f)
<1>1. PICK o, n : o = r.event.order_id /\ n = r.event.sequence
  OBVIOUS
<1>2. n \in 0..Len(History(o, order_events))
  BY <1>1, RowInHistory
<1>3. Replayed(o, n, order_events) = StateAfter(o, order_events, n)
  BY <1>2, ReplayedIs
<1> QED BY <1>1, <1>3, Zenon DEF BuiltSnapshot, SnapshotOf, SavedState

\* The same snapshot would be built later.
LEMMA SnapshotOfGrows ==
  ASSUME NEW rows, NEW more, LegalRows(rows), LegalRows(more), rows \subseteq more,
         NEW v, NEW r \in rows, NEW f
  PROVE  SnapshotOf(rows, v, r, f) = SnapshotOf(more, v, r, f)
<1>1. PICK o, n : o = r.event.order_id /\ n = r.event.sequence
  OBVIOUS
<1>2. n \in 0..Len(History(o, rows))
  BY <1>1, RowInHistory
<1>3. StateAfter(o, rows, n) = StateAfter(o, more, n) /\ n \in 0..Len(History(o, more))
  BY <1>2, StateAfterGrows
<1> QED BY <1>1, <1>3, Zenon DEF SnapshotOf

\* So what was built once can be taken as built from the later rows.
LEMMA BuiltGrows ==
  ASSUME NEW rows, NEW more, LegalRows(rows), LegalRows(more), rows \subseteq more,
         NEW s, Built(rows, s)
  PROVE  Built(more, s)
<1>1. PICK v \in Savers, r \in rows, f \in Faults : MayBuild(v, r, f) /\ s = SnapshotOf(rows, v, r, f)
  BY DEF Built
<1>2. s = SnapshotOf(more, v, r, f) /\ r \in more
  BY <1>1, SnapshotOfGrows
<1> QED BY <1>1, <1>2 DEF Built

\* The fields of a snapshot of r.
Fields(rows, v, r, f, s) ==
  /\ s.snapshot_id = <<v, r.global_position, f>> /\ s.order_id = r.event.order_id
  /\ s.source_event_sequence = r.event.sequence + (IF f = "ahead" THEN 1 ELSE 0)
  /\ s.source_global_position \in Nat \ {0}
  /\ s.state = SavedState(f, StateAfter(s.order_id, rows, r.event.sequence))
  /\ s.payload_hash = s.state

\* Every snapshot of r has them.
LEMMA SnapshotFields ==
  ASSUME NEW rows, LegalRows(rows), NEW v, NEW r \in rows, NEW f, NEW s,
         s = SnapshotOf(rows, v, r, f)
  PROVE  Fields(rows, v, r, f, s)
<1>1. /\ s.snapshot_id = <<v, r.global_position, f>> /\ s.order_id = r.event.order_id
      /\ s.source_event_sequence = r.event.sequence + (IF f = "ahead" THEN 1 ELSE 0)
      /\ s.source_global_position = r.global_position + (IF f = "ahead" THEN 1 ELSE 0) * ElsewherePosition
      /\ s.state = SavedState(f, StateAfter(r.event.order_id, rows, r.event.sequence))
      /\ s.payload_hash = s.state
  BY DEF SnapshotOf
<1>2. r.global_position \in Nat \ {0}
  BY RowInHistory
<1>3. s.source_global_position \in Nat \ {0}
  <2>1. CASE f = "ahead"
    BY <1>1, <1>2, <2>1 DEF ElsewherePosition
  <2>2. CASE f # "ahead"
    BY <1>1, <1>2, <2>2 DEF ElsewherePosition
  <2> QED BY <2>1, <2>2
<1> QED BY <1>1, <1>3 DEF Fields

\* A snapshot is determined by its identity.
LEMMA BuiltUnique ==
  ASSUME NEW rows, LegalRows(rows), NEW s, NEW t, Built(rows, s), Built(rows, t),
         s.snapshot_id = t.snapshot_id
  PROVE  s = t
<1>1. PICK v \in Savers, r \in rows, f \in Faults : s = SnapshotOf(rows, v, r, f)
  BY DEF Built
<1>2. PICK w \in Savers, q \in rows, g \in Faults : t = SnapshotOf(rows, w, q, g)
  BY DEF Built
<1>3. <<v, r.global_position, f>> = <<w, q.global_position, g>>
  <2>1. Fields(rows, v, r, f, s) /\ Fields(rows, w, q, g, t)
    BY <1>1, <1>2, SnapshotFields
  <2> QED BY <2>1 DEF Fields
<1>4. v = w /\ r.global_position = q.global_position /\ f = g
  BY <1>3
<1>5. r = q
  BY <1>4 DEF LegalRows
<1> QED BY <1>1, <1>2, <1>4, <1>5

\* What the state of a snapshot that passes the readers' checks can be: the
\* derived one, one with a wrong amount, or that of an event not accepted yet.
UsableForm(s, rows) ==
  LET o == s.order_id
      n == s.source_event_sequence
  IN  \/ n <= Len(History(o, rows)) /\ s.state = StateAfter(o, rows, n)
      \/ n <= Len(History(o, rows))
         /\ s.state.total_amount = StateAfter(o, rows, n).total_amount + 1
      \/ n = 2 /\ Len(History(o, rows)) = 1

\* What every snapshot that is saved looks like.
LEMMA BuiltShape ==
  ASSUME NEW rows, LegalRows(rows), NEW s, Built(rows, s)
  PROVE  /\ s.payload_hash = s.state /\ s.state.order_id = s.order_id
         /\ s.source_event_sequence \in {1, 2} /\ s.source_global_position \in Nat \ {0}
         /\ Len(History(s.order_id, rows)) \in {1, 2}
         /\ History(s.order_id, rows)[1].amount \in Int
         /\ s.state.version = s.source_event_sequence => UsableForm(s, rows)
<1>1. PICK v \in Savers, r \in rows, f \in Faults : MayBuild(v, r, f) /\ s = SnapshotOf(rows, v, r, f)
  BY DEF Built
<1>2. PICK o, m : o = s.order_id /\ m = r.event.sequence
  OBVIOUS
<1>3. PICK d : d = StateAfter(o, rows, m)
  OBVIOUS
<1>4. /\ o = r.event.order_id /\ s.source_event_sequence = m + (IF f = "ahead" THEN 1 ELSE 0)
      /\ s.source_global_position \in Nat \ {0}
      /\ s.state = SavedState(f, d) /\ s.payload_hash = s.state
  <2>1. Fields(rows, v, r, f, s)
    BY <1>1, SnapshotFields
  <2> QED BY <1>2, <1>3, <2>1 DEF Fields
<1>5. /\ m \in {1, 2} /\ m <= Len(History(o, rows)) /\ Len(History(o, rows)) \in {1, 2}
      /\ History(o, rows)[1].amount \in Int
  BY <1>2, <1>4, RowInHistory
<1>6. PICK status, total, paid :
        d = [order_id |-> o, status |-> status, total_amount |-> total, paid_amount |-> paid,
             version |-> m]
  BY <1>3 DEF StateAfter, DerivedState
<1>7. f = "ahead" => m = 1
  BY <1>1, <1>2 DEF MayBuild
<1>8. CASE f = "payload"
  <2>1. s.state = [d EXCEPT !.total_amount = @ + 1]
    BY <1>4, <1>8, Zenon DEF SavedState
  <2>2. s.state = [order_id |-> o, status |-> status, total_amount |-> total + 1,
                   paid_amount |-> paid, version |-> m]
    BY <1>6, <2>1
  <2>3. s.source_event_sequence = m
    BY <1>4, <1>5, <1>8
  <2>4. s.state.total_amount = d.total_amount + 1
    BY <1>6, <2>2
  <2>5. UsableForm(s, rows)
    BY <1>2, <1>3, <1>5, <2>3, <2>4 DEF UsableForm
  <2> QED BY <1>2, <1>4, <1>5, <2>2, <2>3, <2>5
<1>9. CASE f = "version"
  <2>1. s.state = [d EXCEPT !.version = @ - 1]
    BY <1>4, <1>9, Zenon DEF SavedState
  <2>2. s.state.order_id = o /\ s.state.version = m - 1
    BY <1>6, <2>1
  <2>3. s.source_event_sequence = m
    BY <1>4, <1>5, <1>9
  <2> QED BY <1>2, <1>4, <1>5, <2>2, <2>3
<1>10. CASE f = "ahead"
  <2>1. s.state = [d EXCEPT !.version = @ + 1, !.status = "PAID", !.paid_amount = d.total_amount]
    BY <1>4, <1>10, Zenon DEF SavedState
  <2>2. s.state = [order_id |-> o, status |-> "PAID", total_amount |-> total,
                   paid_amount |-> total, version |-> m + 1]
    BY <1>6, <2>1
  <2>3. s.state.order_id = o /\ s.source_event_sequence = 2
    BY <1>4, <1>7, <1>10, <2>2
  <2>4. UsableForm(s, rows)
    <3>1. CASE Len(History(o, rows)) = 1
      BY <1>2, <2>3, <3>1 DEF UsableForm
    <3>2. CASE Len(History(o, rows)) = 2
      <4>1. History(o, rows)[2].amount = History(o, rows)[1].amount
        BY <3>2, HistoryOf DEF LegalHistory
      <4>2. s.state = StateAfter(o, rows, 2)
        <5>1. total = History(o, rows)[1].amount
          BY <1>3, <1>6, <1>7, <1>10 DEF StateAfter, DerivedState
        <5> QED BY <1>7, <1>10, <2>2, <4>1, <5>1 DEF StateAfter, DerivedState
      <4> QED BY <1>2, <2>3, <3>2, <4>2 DEF UsableForm
    <3> QED BY <1>5, <3>1, <3>2
  <2> QED BY <1>2, <1>4, <1>5, <2>3, <2>4
<1>11. CASE f \notin {"payload", "version", "ahead"}
  <2>1. s.state = d
    BY <1>4, <1>11, Zenon DEF SavedState
  <2>2. s.state.order_id = o
    BY <1>6, <2>1
  <2>3. s.source_event_sequence = m
    BY <1>4, <1>5, <1>11
  <2>4. UsableForm(s, rows)
    BY <1>2, <1>3, <1>5, <2>1, <2>3 DEF UsableForm
  <2> QED BY <1>2, <1>4, <1>5, <2>2, <2>3, <2>4
<1> QED BY <1>8, <1>9, <1>10, <1>11

\* The identity of a sound snapshot stays that of one.
LEMMA SoundIdGrows ==
  ASSUME NEW rows, NEW more, LegalRows(rows), LegalRows(more), rows \subseteq more,
         NEW id, SoundId(rows, id)
  PROVE  SoundId(more, id)
<1>1. PICK v \in Savers, r \in rows, f \in Faults :
        MayBuild(v, r, f) /\ id = <<v, r.global_position, f>> /\ Sound(SnapshotOf(rows, v, r, f), rows)
  BY DEF SoundId
<1>2. PICK s : s = SnapshotOf(rows, v, r, f)
  OBVIOUS
<1>3. Built(rows, s) /\ s = SnapshotOf(more, v, r, f) /\ r \in more
  BY <1>1, <1>2, SnapshotOfGrows DEF Built
<1>4. s.source_event_sequence \in Nat
  BY <1>3, BuiltShape
<1>5. Sound(s, more)
  BY <1>1, <1>2, <1>4, SoundGrows
<1> QED BY <1>1, <1>3, <1>5 DEF SoundId

\* A snapshot is sound exactly when its identity is that of a sound one.
LEMMA SoundById ==
  ASSUME NEW rows, LegalRows(rows), NEW s, Built(rows, s)
  PROVE  Sound(s, rows) <=> SoundId(rows, s.snapshot_id)
<1>1. ASSUME Sound(s, rows) PROVE SoundId(rows, s.snapshot_id)
  <2>1. PICK v \in Savers, r \in rows, f \in Faults :
          MayBuild(v, r, f) /\ s = SnapshotOf(rows, v, r, f)
    BY DEF Built
  <2>2. s.snapshot_id = <<v, r.global_position, f>>
    BY <2>1, SnapshotFields DEF Fields
  <2> QED BY <1>1, <2>1, <2>2 DEF SoundId
<1>2. ASSUME SoundId(rows, s.snapshot_id) PROVE Sound(s, rows)
  <2>1. PICK v \in Savers, r \in rows, f \in Faults :
          /\ MayBuild(v, r, f) /\ s.snapshot_id = <<v, r.global_position, f>>
          /\ Sound(SnapshotOf(rows, v, r, f), rows)
    BY <1>2 DEF SoundId
  <2>2. PICK t : t = SnapshotOf(rows, v, r, f)
    OBVIOUS
  <2>3. Built(rows, t) /\ t.snapshot_id = s.snapshot_id
    BY <2>1, <2>2, SnapshotFields DEF Built, Fields
  <2> QED BY <2>1, <2>2, <2>3, BuiltUnique
<1> QED BY <1>1, <1>2

----------------------------------------------------------------------------
(* What the readers' statements return, and what they make of it.          *)

\* At most one row in the order of its sequence.
LEMMA OrderOfOne ==
  /\ InSequenceOrder({}) = <<>>
  /\ \A e : e.sequence \in Int => InSequenceOrder({e}) = <<e>>
<1>1. InSequenceOrder({}) = <<>>
  <2>1. Cardinality({}) = 0
    BY FS_EmptySet
  <2> QED BY <2>1 DEF InSequenceOrder
<1>2. ASSUME NEW e, e.sequence \in Int PROVE InSequenceOrder({e}) = <<e>>
  <2>1. Cardinality({e}) = 1
    BY FS_Singleton
  <2>2. {f \in {e} : f.sequence <= e.sequence} = {e}
    BY <1>2
  <2>3. \A g \in {e} : Cardinality({f \in {e} : f.sequence <= g.sequence}) = 1
    BY <2>1, <2>2
  <2> DEFINE row(n) == CHOOSE g \in {e} : Cardinality({f \in {e} : f.sequence <= g.sequence}) = n
  <2>4. row(1) = e
    BY <2>3
  <2>5. InSequenceOrder({e}) = [n \in 1..1 |-> row(n)]
    BY <2>1 DEF InSequenceOrder
  <2> HIDE DEF row
  <2>6. [n \in 1..1 |-> row(n)] = <<e>>
    <3>1. \A n \in 1..1 : row(n) = e
      BY <2>4
    <3>2. [n \in 1..1 |-> row(n)] = [n \in 1..1 |-> e]
      BY <3>1
    <3> QED BY <3>2
  <2> QED BY <2>5, <2>6
<1> QED BY <1>1, <1>2

\* A page of the tail is the second event of the order, when it is after the
\* boundary, and empty otherwise.
LEMMA PageIs ==
  ASSUME SnapshotsAssumption, NEW o, NEW rows, LegalRows(rows), NEW m \in {1, 2}
  PROVE  load_after_sequence(o, m, rows)
           = IF m < Len(History(o, rows)) THEN <<History(o, rows)[2]>> ELSE <<>>
<1>1. PICK h : h = History(o, rows)
  OBVIOUS
<1>2. /\ Len(h) \in 0..2
      /\ \A r \in rows : r.event.order_id = o =>
           r.event.sequence \in 1..Len(h) /\ h[r.event.sequence] = r.event
      /\ \A n \in 1..Len(h) : \E r \in rows : r.event = h[n] /\ r.event.order_id = o
                                              /\ r.event.sequence = n
  BY <1>1, HistoryOf
<1> DEFINE S == {s \in rows : s.event.order_id = o /\ s.event.sequence > m}
           X == {r.event : r \in S}
           page(rest) == SubSeq(rest, 1, IF Len(rest) < TailLimit THEN Len(rest) ELSE TailLimit)
<1>3. load_after_sequence(o, m, rows) = page(InSequenceOrder(X))
  BY DEF load_after_sequence
<1>4. CASE m < Len(h)
  <2>1. m = 1 /\ Len(h) = 2
    BY <1>2, <1>4
  <2>2. PICK r \in rows : r.event = h[2] /\ r.event.order_id = o /\ r.event.sequence = 2
    BY <1>2, <2>1
  <2>3. r \in S
    BY <2>1, <2>2
  <2>4. \A q \in S : q.event = h[2]
    <3> SUFFICES ASSUME NEW q \in S PROVE q.event = h[2]
      OBVIOUS
    <3>1. q.event.sequence \in 1..2 /\ q.event.sequence > 1 /\ h[q.event.sequence] = q.event
      BY <1>2, <2>1
    <3>2. q.event.sequence = 2
      BY <3>1
    <3> QED BY <3>1, <3>2
  <2> HIDE DEF S
  <2>5. X = {h[2]}
    BY <2>2, <2>3, <2>4
  <2>6. InSequenceOrder(X) = <<h[2]>>
    BY <2>2, <2>5, OrderOfOne
  <2> HIDE DEF X
  <2>7. page(<<h[2]>>) = <<h[2]>>
    <3>1. PICK limit : limit = IF Len(<<h[2]>>) < TailLimit THEN Len(<<h[2]>>) ELSE TailLimit
      OBVIOUS
    <3>2. limit = 1
      BY <3>1 DEF SnapshotsAssumption
    <3>3. page(<<h[2]>>) = SubSeq(<<h[2]>>, 1, limit)
      BY <3>1
    <3>4. PICK one : one = <<h[2]>>
      OBVIOUS
    <3>5. one \in Seq({h[2]}) /\ Len(one) = 1
      BY <3>4
    <3>6. SubSeq(one, 1, Len(one)) = one
      BY <3>5
    <3> HIDE DEF page
    <3> QED BY <3>2, <3>3, <3>4, <3>5, <3>6
  <2> HIDE DEF page
  <2> QED BY <1>1, <1>3, <1>4, <2>6, <2>7
<1>5. CASE ~(m < Len(h))
  <2>1. S = {}
    BY <1>2, <1>5
  <2> HIDE DEF S
  <2>2. X = {}
    BY <2>1
  <2>3. InSequenceOrder(X) = <<>>
    BY <2>2, OrderOfOne
  <2> HIDE DEF X
  <2>4. page(<<>>) = <<>>
    <3>1. PICK limit : limit = IF Len(<<>>) < TailLimit THEN Len(<<>>) ELSE TailLimit
      OBVIOUS
    <3>2. limit = 0
      BY <3>1 DEF SnapshotsAssumption
    <3>3. page(<<>>) = SubSeq(<<>>, 1, limit)
      BY <3>1
    <3> QED BY <3>2, <3>3
  <2> HIDE DEF page
  <2> QED BY <1>1, <1>3, <1>5, <2>3, <2>4
<1> QED BY <1>4, <1>5

\* Reducing no event.
LEMMA ReplayNone ==
  ASSUME NEW b
  PROVE  /\ ReplayStates(b, <<>>) = <<b>> /\ Replays(b, <<>>) /\ ReplayFrom(b, <<>>) = b
<1>1. PICK t : t = <<>>
  OBVIOUS
<1>2. Len(t) = 0 /\ Len(t) \in 0..2
  BY <1>1
<1>3. ReplayStates(b, t) = <<b>>
  BY <1>2, ReplayStatesAre
<1>4. Replays(b, t) /\ ReplayFrom(b, t) = b
  BY <1>2, <1>3 DEF Replays, ReplayFrom
<1> QED BY <1>1, <1>3, <1>4

\* Reducing one event, which may be refused.
LEMMA ReplayOne ==
  ASSUME NEW b, NEW e
  PROVE  /\ Replays(b, <<e>>) <=> Reducible(b, e)
         /\ Len(ReplayStates(b, <<e>>)) = IF Reducible(b, e) THEN 2 ELSE 1
         /\ ReplayFrom(b, <<e>>) = IF Reducible(b, e) THEN reduce_order_event(b, e) ELSE b
<1>1. PICK t : t = <<e>>
  OBVIOUS
<1>2. Len(t) = 1 /\ t[1] = e
  BY <1>1
<1>3. PICK reach : /\ ReplayStates(b, t) = reach[Len(t)] /\ reach[0] = <<b>>
                   /\ Len(t) >= 1 => reach[1] = ReplayStep(reach[0], t[1], 1)
                   /\ Len(t) = 2 => reach[2] = ReplayStep(reach[1], t[2], 2)
  <2>1. Len(t) \in 0..2
    BY <1>2
  <2> QED BY <2>1, ReplayStatesAre
<1>4. PICK x, first : x = ReplayStates(b, t) /\ first = <<b>>
  OBVIOUS
<1>5. x = ReplayStep(first, e, 1)
  BY <1>2, <1>3, <1>4
<1>6. PICK y : y = reduce_order_event(b, e)
  OBVIOUS
<1>7. Len(first) = 1 /\ first[1] = b
  BY <1>4
<1>8. CASE Reducible(b, e)
  <2>1. PICK S, one : S = {b, y} /\ one = 1
    OBVIOUS
  <2>2. /\ one \in Nat \ {0} /\ first \in Seq(S) /\ Len(first) = one /\ first[one] = b
        /\ b \in S /\ y \in S /\ reduce_order_event(b, e) = y
    BY <1>4, <1>6, <1>7, <2>1
  <2>3. Len(x) = 2 /\ x[Len(x)] = y
    <3>1. /\ Len(ReplayStep(first, e, one)) = one + 1
          /\ ReplayStep(first, e, one)[one + 1] = y
      BY <1>8, <2>2, ReplayStepIs
    <3> QED BY <1>5, <2>1, <3>1
  <2>4. Replays(b, t) /\ ReplayFrom(b, t) = y
    BY <1>2, <1>4, <2>3 DEF Replays, ReplayFrom
  <2> QED BY <1>1, <1>4, <1>6, <1>8, <2>3, <2>4
<1>9. CASE ~Reducible(b, e)
  <2>1. x = first
    BY <1>5, <1>7, <1>9 DEF ReplayStep
  <2>2. Len(x) = 1 /\ x[Len(x)] = b
    BY <1>7, <2>1
  <2>3. ~Replays(b, t) /\ ReplayFrom(b, t) = b
    BY <1>2, <1>4, <2>2 DEF Replays, ReplayFrom
  <2> QED BY <1>1, <1>4, <1>9, <2>2, <2>3
<1> QED BY <1>8, <1>9

\* The replay of a whole accepted history.
LEMMA AuthorityIs ==
  ASSUME NEW c, NEW rows, LegalRows(rows)
  PROVE  AuthorityState(c, History(c.order_id, rows))
           = StateAfter(c.order_id, rows, Len(History(c.order_id, rows)))
<1>1. PICK o, h : o = c.order_id /\ h = History(o, rows)
  OBVIOUS
<1>2. h \in Seq(EventsOf(o, rows)) /\ LegalHistory(o, h) /\ Len(h) \in 0..2
  BY <1>1, HistoryOf
<1>3. Len(h) \in 0..Len(h)
  BY <1>2
<1>4. SubSeq(h, 1, Len(h)) = h
  BY <1>2
<1>5. ReplayFrom(build_empty_projection_state(o), SubSeq(h, 1, Len(h))) = DerivedState(o, h, Len(h))
  BY <1>2, <1>3, ReplayPrefix
<1> QED BY <1>1, <1>4, <1>5 DEF AuthorityState, StateAfter

\* What reducing the tail of a usable snapshot gives.
Reduction(s, tail, rows) ==
  LET o     == s.order_id
      n     == s.source_event_sequence
      h     == History(o, rows)
      whole == Replays(s.state, tail)
      state == ReplayFrom(s.state, tail)
  IN  /\ state.order_id = o
      /\ Sound(s, rows) => /\ whole /\ state = StateAfter(o, rows, n + Len(tail))
                           /\ n + Len(tail) <= Len(h)
      /\ whole /\ ~Sound(s, rows) => state.total_amount = h[1].amount + 1 \/ (n = 2 /\ Len(h) = 1)
      /\ tail = <<>> => whole
      /\ Len(ReplayStates(s.state, tail)) = IF whole THEN Len(tail) + 1 ELSE 1

\* A sound snapshot becomes the derived state; of one that is not, the tail
\* keeps the wrong amount or refuses the payment.
LEMMA ReductionOf ==
  ASSUME NEW rows, LegalRows(rows), NEW s, Built(rows, s), NEW o, UsableBase(s, o),
         NEW tail, TailOk(s, tail, rows)
  PROVE  Reduction(s, tail, rows)
<1>1. PICK n, h, b : n = s.source_event_sequence /\ h = History(o, rows) /\ b = s.state
  OBVIOUS
<1>2. s.order_id = o /\ b.version = n
  BY <1>1 DEF UsableBase
<1>3. /\ b.order_id = o /\ n \in {1, 2} /\ Len(h) \in {1, 2} /\ h[1].amount \in Int
      /\ UsableForm(s, rows)
  BY <1>1, <1>2, BuiltShape
<1>4. Sound(s, rows) <=> n <= Len(h) /\ b = StateAfter(o, rows, n)
  BY <1>1, <1>2, <1>3, SoundIs
<1>5. StateAfter(o, rows, n).total_amount = h[1].amount
  BY <1>1, <1>3, StateAfterIs
<1>6. Sound(s, rows) \/ b.total_amount = h[1].amount + 1 \/ (n = 2 /\ Len(h) = 1)
  BY <1>1, <1>2, <1>3, <1>4, <1>5 DEF UsableForm
<1>7. CASE tail = <<>>
  <2>1. ReplayStates(b, tail) = <<b>> /\ Replays(b, tail) /\ ReplayFrom(b, tail) = b
    BY <1>7, ReplayNone
  <2>2. Len(tail) = 0 /\ n + Len(tail) = n
    BY <1>3, <1>7
  <2>3. Len(ReplayStates(b, tail)) = 1
    BY <2>1
  <2> QED BY <1>1, <1>2, <1>3, <1>4, <1>6, <2>1, <2>2, <2>3 DEF Reduction
<1>8. CASE tail # <<>>
  <2>1. n = 1 /\ Len(h) = 2 /\ tail = <<h[2]>>
    BY <1>1, <1>2, <1>8 DEF TailOk
  <2>2. PICK e : e = h[2]
    OBVIOUS
  <2>3. Len(tail) = 1 /\ n + Len(tail) = 2
    BY <2>1
  <2>4. LegalHistory(o, h)
    BY <1>1, HistoryOf
  <2>5. e.event_type = "PAID" /\ e.amount = h[1].amount /\ e.order_id = o /\ e.sequence = 2
    BY <2>1, <2>2, <2>4 DEF LegalHistory
  <2>6. /\ Replays(b, tail) <=> Reducible(b, e)
        /\ Len(ReplayStates(b, tail)) = IF Reducible(b, e) THEN 2 ELSE 1
        /\ ReplayFrom(b, tail) = IF Reducible(b, e) THEN reduce_order_event(b, e) ELSE b
    BY <2>1, <2>2, ReplayOne
  <2>7. ReplayFrom(b, tail).order_id = o
    BY <1>3, <2>6 DEF reduce_order_event
  <2>8. ASSUME Sound(s, rows)
        PROVE  Reducible(b, e) /\ reduce_order_event(b, e) = StateAfter(o, rows, 2)
    <3>1. b = DerivedState(o, h, 1)
      BY <1>1, <1>4, <2>1, <2>8 DEF StateAfter
    <3>2. PICK k \in 0..(Len(h) - 1) : k = 1
      BY <2>1
    <3>3. /\ Reducible(DerivedState(o, h, k), h[k + 1])
          /\ reduce_order_event(DerivedState(o, h, k), h[k + 1]) = DerivedState(o, h, k + 1)
      BY <2>4, ReduceLegal
    <3>4. k + 1 = 2
      BY <3>2
    <3> QED BY <1>1, <2>2, <3>1, <3>2, <3>3, <3>4 DEF StateAfter
  <2>9. ASSUME ~Sound(s, rows) PROVE ~Reducible(b, e)
    <3>1. b.total_amount = h[1].amount + 1
      BY <1>6, <2>1, <2>9
    <3>2. e.amount # b.total_amount
      BY <1>3, <2>5, <3>1
    <3> QED BY <2>5, <3>2 DEF Reducible
  <2> QED BY <1>1, <1>2, <1>8, <2>1, <2>3, <2>6, <2>7, <2>8, <2>9 DEF Reduction
<1> QED BY <1>7, <1>8

\* A snapshot that reduces to the replay of the history is sound.
LEMMA MatchIsSound ==
  ASSUME NEW rows, LegalRows(rows), NEW s, Built(rows, s), NEW o, UsableBase(s, o),
         NEW tail, TailOk(s, tail, rows), NEW seen, LegalRows(seen), seen \subseteq rows,
         s.source_event_sequence <= Len(History(o, seen)), Replays(s.state, tail),
         ReplayFrom(s.state, tail) = StateAfter(o, seen, Len(History(o, seen)))
  PROVE  Sound(s, rows)
<1>1. PICK n, h, a : n = s.source_event_sequence /\ h = History(o, rows) /\ a = History(o, seen)
  OBVIOUS
<1>2. s.order_id = o
  BY DEF UsableBase
<1>3. n \in {1, 2} /\ Len(h) \in {1, 2} /\ h[1].amount \in Int
  BY <1>1, <1>2, BuiltShape
<1>4. Len(a) \in 0..2 /\ Len(a) <= Len(h) /\ \A i \in 1..Len(a) : a[i] = h[i]
  BY <1>1, HistoryOf, HistoryGrows
<1>5. Len(a) # 0 /\ a[1] = h[1]
  BY <1>1, <1>3, <1>4
<1>6. StateAfter(o, seen, Len(a)).total_amount = h[1].amount
  BY <1>1, <1>5, StateAfterIs
<1>7. Reduction(s, tail, rows)
  BY ReductionOf
<1> SUFFICES ASSUME ~Sound(s, rows) PROVE FALSE
  OBVIOUS
<1>8. ReplayFrom(s.state, tail).total_amount = h[1].amount + 1 \/ (n = 2 /\ Len(h) = 1)
  BY <1>1, <1>2, <1>7 DEF Reduction
<1> QED BY <1>1, <1>3, <1>4, <1>6, <1>8

----------------------------------------------------------------------------
(* Writers and the projection worker.                                      *)

\* A write transaction leaves legal rows.
LEMMA RowAdded ==
  ASSUME SnapshotsAssumption, NEW rows, LegalRows(rows), NEW c \in Commands, NEW a,
         a = Rehydrate(c.order_id, History(c.order_id, rows)), IsLegal(a, c),
         NEW row, row = [event |-> CandidateEvent(a, c, Cardinality(rows) + 1),
                         global_position |-> Cardinality(rows) + 1]
  PROVE  LegalRows(rows \cup {row})
<1>1. PICK o, h, n, e : /\ o = c.order_id /\ h = History(o, rows) /\ n = Cardinality(rows) + 1
                        /\ e = CandidateEvent(a, c, n)
  OBVIOUS
<1>2. /\ LegalHistory(o, h) /\ Len(h) \in 0..2
      /\ \A r \in rows : r.event.order_id = o =>
           r.event.sequence \in 1..Len(h) /\ h[r.event.sequence] = r.event
      /\ \A i \in 1..Len(h) : \E r \in rows : r.event = h[i] /\ r.event.order_id = o
                                              /\ r.event.sequence = i
  BY <1>1, HistoryOf
<1>3. /\ a.order_id = o /\ a.current_version = Len(h)
      /\ a.status = IF Len(h) = 0 THEN "INIT" ELSE IF Len(h) = 1 THEN "CREATED" ELSE "PAID"
      /\ Len(h) = 1 => a.total_amount = h[1].amount
  BY <1>1, <1>2, RehydrateLegal
<1>4. c.order_id \in Orders /\ c.command_type \in CommandTypes /\ c.amount \in Int
  BY DEF SnapshotsAssumption
<1>5. normalize_money(c.amount) \in Int
  BY <1>4, NormalizedIsInteger
<1>6. IF c.command_type = "create" THEN a.status = "INIT"
      ELSE a.status = "CREATED" /\ normalize_money(c.amount) = a.total_amount
  BY DEF IsLegal
<1>7. /\ e.event_id = n /\ e.order_id = a.order_id /\ e.sequence = a.current_version + 1
      /\ e.event_type = (IF c.command_type = "create" THEN "CREATED" ELSE "PAID")
      /\ e.amount = normalize_money(c.amount)
  BY <1>1 DEF CandidateEvent
<1>8. row.event = e /\ row.global_position = n
  BY <1>1
<1>9. IsFiniteSet(rows) /\ Cardinality(rows) \in Nat
  BY FS_CardinalityType DEF LegalRows
<1>10. row \notin rows
  BY <1>1, <1>8, <1>9 DEF LegalRows
<1>11. IsFiniteSet(rows \cup {row}) /\ Cardinality(rows \cup {row}) = n
  BY <1>1, <1>9, <1>10, FS_AddElement
<1>12. e.order_id = o /\ o \in Orders /\ e.amount \in Int /\ e.event_id \in Nat /\ n \in Nat /\ n >= 1
  BY <1>1, <1>3, <1>4, <1>5, <1>7, <1>9
<1>13. /\ Len(h) \in {0, 1} /\ e.sequence = Len(h) + 1
       /\ Len(h) = 0 => e.event_type = "CREATED"
       /\ Len(h) = 1 => e.event_type = "PAID" /\ e.amount = h[1].amount
  BY <1>2, <1>3, <1>6, <1>7
<1>14. /\ e.sequence \in {1, 2} /\ (e.sequence = 1 => e.event_type = "CREATED")
       /\ e.sequence = 2 => e.event_type = "PAID" /\ Len(h) = 1 /\ e.amount = h[1].amount
  <2>1. CASE Len(h) = 0
    <3>1. e.sequence = 1 /\ e.event_type = "CREATED"
      BY <1>13, <2>1
    <3> QED BY <3>1
  <2>2. CASE Len(h) = 1
    <3>1. e.sequence = 2 /\ e.event_type = "PAID" /\ e.amount = h[1].amount
      BY <1>13, <2>2
    <3> QED BY <2>2, <3>1
  <2> QED BY <1>13, <2>1, <2>2
<1>15. e.sequence = 2 => \E q \in rows : q.event.order_id = o /\ q.event.sequence = 1
                                         /\ q.event.amount = e.amount
  <2> SUFFICES ASSUME e.sequence = 2
               PROVE  \E q \in rows : q.event.order_id = o /\ q.event.sequence = 1
                                      /\ q.event.amount = e.amount
    OBVIOUS
  <2>1. PICK r \in rows : r.event = h[1] /\ r.event.order_id = o /\ r.event.sequence = 1
    BY <1>2, <1>14
  <2> QED BY <1>14, <2>1
<1>16. \A r \in rows : r.global_position \in 1..n /\ r.global_position # n
  BY <1>1, <1>9 DEF LegalRows
<1>17. \A r \in rows : ~(r.event.order_id = o /\ r.event.sequence = e.sequence)
  <2> SUFFICES ASSUME NEW r \in rows, r.event.order_id = o, r.event.sequence = e.sequence PROVE FALSE
    OBVIOUS
  <2>1. r.event.sequence \in 1..Len(h)
    BY <1>2
  <2> QED BY <1>13, <2>1
<1> DEFINE more == rows \cup {row}
<1>18. ASSUME NEW r \in more
       PROVE  /\ r.event.order_id \in Orders /\ r.event.sequence \in {1, 2} /\ r.event.amount \in Int
              /\ r.event.event_id \in Nat
              /\ r.global_position \in 1..Cardinality(more)
              /\ r.event.sequence = 1 => r.event.event_type = "CREATED"
              /\ r.event.sequence = 2 =>
                   /\ r.event.event_type = "PAID"
                   /\ \E q \in more : q.event.order_id = r.event.order_id /\ q.event.sequence = 1
                                      /\ q.event.amount = r.event.amount
  <2>1. CASE r \in rows
    <3>1. r.global_position \in 1..Cardinality(more)
      BY <1>11, <1>16, <2>1
    <3> QED BY <2>1, <3>1 DEF LegalRows
  <2>2. CASE r = row
    <3>1. r.global_position \in 1..Cardinality(more)
      BY <1>8, <1>11, <1>12, <2>2
    <3>2. r.event = e
      BY <1>8, <2>2
    <3>3. r.event.sequence = 2 => \E q \in more : q.event.order_id = r.event.order_id
                                      /\ q.event.sequence = 1 /\ q.event.amount = r.event.amount
      BY <1>12, <1>15, <3>2
    <3> HIDE DEF more
    <3> QED BY <1>12, <1>14, <3>1, <3>2, <3>3
  <2> QED BY <2>1, <2>2
<1>19. ASSUME NEW r \in more, NEW q \in more
       PROVE  /\ r.event.order_id = q.event.order_id /\ r.event.sequence = q.event.sequence => r = q
              /\ r.global_position = q.global_position => r = q
  <2>1. CASE r \in rows /\ q \in rows
    BY <2>1 DEF LegalRows
  <2>2. CASE r = row /\ q = row
    BY <2>2
  <2>3. CASE (r \in rows /\ q = row) \/ (r = row /\ q \in rows)
    BY <1>8, <1>12, <1>16, <1>17, <2>3
  <2> QED BY <2>1, <2>2, <2>3
<1> HIDE DEF more
<1>20. IsFiniteSet(more)
  BY <1>11 DEF more
<1>21. LegalRows(more)
  BY <1>18, <1>19, <1>20 DEF LegalRows
<1> QED BY <1>21 DEF more

\* Later rows of the same tables.
Grows(rows, more) == LegalRows(rows) /\ LegalRows(more) /\ rows \subseteq more

\* What was derived stays derived.
LEMMA LegalStatesGrow ==
  ASSUME NEW rows, NEW more, Grows(rows, more), NEW states, LegalStates(rows, states)
  PROVE  LegalStates(more, states)
<1>1. ASSUME NEW s \in states
      PROVE  \E v \in 1..Len(History(s.order_id, more)) : s = StateAfter(s.order_id, more, v)
  <2>1. PICK o : o = s.order_id
    OBVIOUS
  <2>2. PICK v \in 1..Len(History(o, rows)) : s = StateAfter(o, rows, v)
    BY <2>1 DEF LegalStates
  <2>3. Len(History(o, rows)) \in 0..2 /\ Len(History(o, more)) \in 0..2
    BY HistoryOf DEF Grows
  <2>4. v \in 0..Len(History(o, rows)) /\ v >= 1
    BY <2>3
  <2>5. StateAfter(o, rows, v) = StateAfter(o, more, v) /\ v \in 0..Len(History(o, more))
    BY <2>4, StateAfterGrows DEF Grows
  <2>6. v \in 1..Len(History(o, more))
    BY <2>3, <2>4, <2>5
  <2> QED BY <2>1, <2>2, <2>5, <2>6
<1> QED BY <1>1 DEF LegalStates

\* So does what an open save holds, ...
LEMMA SavingGrows ==
  ASSUME NEW rows, NEW more, Grows(rows, more), NEW x, SavingOk(x, rows)
  PROVE  SavingOk(x, more)
BY BuiltGrows DEF SavingOk, Grows

\* ... and what a reader without a transaction holds.
LEMMA ReaderGrows ==
  ASSUME NEW rows, NEW more, Grows(rows, more), NEW x, ReaderOk(x, rows),
         ~OneView(x)
  PROVE  ReaderOk(x, more)
<1>1. \A s : Built(rows, s) => Built(more, s)
  BY BuiltGrows DEF Grows
<1>2. ASSUME NEW s, Built(rows, s) PROVE s.source_event_sequence \in Nat
  <2>1. s.source_event_sequence \in {1, 2}
    BY <1>2, BuiltShape DEF Grows
  <2> QED BY <2>1
<1>3. \A s : Built(rows, s) /\ Sound(s, rows) => Sound(s, more)
  BY <1>2, SoundGrows DEF Grows
<1>4. ASSUME NEW s, TailOk(s, x.tail, rows) PROVE TailOk(s, x.tail, more)
  <2>1. PICK o : o = s.order_id
    OBVIOUS
  <2>2. PICK h, g : h = History(o, rows) /\ g = History(o, more)
    OBVIOUS
  <2>3. Len(h) <= Len(g) /\ \A i \in 1..Len(h) : h[i] = g[i]
    BY <2>2, HistoryGrows DEF Grows
  <2>4. Len(g) \in 0..2
    BY <2>2, HistoryOf DEF Grows
  <2>5. Len(h) = 2 => Len(g) = 2 /\ h[2] = g[2]
    BY <2>3, <2>4
  <2> QED BY <1>4, <2>1, <2>2, <2>5 DEF TailOk
<1>5. ASSUME NEW s, AuthorityOk(x, s, rows) PROVE AuthorityOk(x, s, more)
  <2>1. SUBSET rows \subseteq SUBSET more
    BY DEF Grows
  <2> QED BY <1>5, <2>1 DEF AuthorityOk
<1>6. x.found = {} \/ \E s \in x.found : x.found = {s} /\ Built(more, s)
  BY <1>1 DEF ReaderOk
<1>7. x.pc = "history" => /\ x.call.op = "validate" /\ x.tail = <<>>
                          /\ \A s \in x.found : s.order_id = x.call.order_id
  BY DEF ReaderOk
<1>8. x.pc # "state"
  BY DEF ReaderOk
<1>9. ASSUME x.pc = "tail"
      PROVE  /\ x.call.op \in {"resolve", "validate"}
             /\ \E s \in x.found :
                  /\ UsableBase(s, x.call.order_id) /\ TailOk(s, x.tail, more)
                  /\ x.call.op = "validate" => AuthorityOk(x, s, more)
                  /\ x.call.op = "resolve" /\ x.vouched => Sound(s, more)
  <2>1. x.call.op \in {"resolve", "validate"}
    BY <1>9 DEF ReaderOk
  <2>2. PICK s \in x.found :
           /\ UsableBase(s, x.call.order_id) /\ TailOk(s, x.tail, rows)
           /\ x.call.op = "validate" => AuthorityOk(x, s, rows)
           /\ x.call.op = "resolve" /\ x.vouched => Sound(s, rows)
    BY <1>9 DEF ReaderOk
  <2>3. Built(rows, s)
    BY <2>2 DEF ReaderOk
  <2> QED BY <1>3, <1>4, <1>5, <2>1, <2>2, <2>3
<1> QED BY <1>6, <1>7, <1>8, <1>9 DEF ReaderOk

\* Steps that leave a part of the state alone: the rows of events and states.
LEMMA TablesStay ==
  ASSUME TablesInv, UNCHANGED <<order_events, projection_states>>
  PROVE  TablesInv'
BY DEF TablesInv

\* The savers, when neither the events nor the snapshots nor their calls move.
LEMMA SaversStay ==
  ASSUME SaversInv, UNCHANGED <<order_events, projection_snapshots, saving>>
  PROVE  SaversInv'
BY Zenon DEF SaversInv

\* What is trusted.
LEMMA TrustedStay ==
  ASSUME TrustedInv, UNCHANGED <<order_events, trusted>>
  PROVE  TrustedInv'
BY DEF TrustedInv

\* The readers.
LEMMA ReadersStay ==
  ASSUME ReadersInv, UNCHANGED <<order_events, reading>>
  PROVE  ReadersInv'
BY Zenon DEF ReadersInv

\* A write transaction commits.
LEMMA AppendStep ==
  ASSUME SnapshotsAssumption, IInv, NEW c \in Commands, AppendEvent(c)
  PROVE  IInv'
<1>1. PICK rows, more : rows = order_events /\ more = order_events'
  OBVIOUS
<1>2. PICK a : a = Rehydrate(c.order_id, History(c.order_id, rows))
  OBVIOUS
<1>3. PICK row : row = [event |-> CandidateEvent(a, c, Cardinality(rows) + 1),
                        global_position |-> Cardinality(rows) + 1]
  OBVIOUS
<1>4. IsLegal(a, c) /\ more = rows \cup {row}
  BY <1>1, <1>2, <1>3 DEF AppendEvent
<1>5. UNCHANGED <<projection_states, projection_snapshots, saving, trusted, reading>>
  BY DEF AppendEvent, savers
<1>6. LegalRows(rows) /\ LegalStates(rows, projection_states)
  BY <1>1 DEF IInv, TablesInv
<1>7. LegalRows(more)
  BY <1>2, <1>3, <1>4, <1>6, RowAdded
<1>8. Grows(rows, more)
  BY <1>4, <1>6, <1>7 DEF Grows
<1>9. TablesInv'
  <2>1. LegalStates(more, projection_states)
    BY <1>6, <1>8, LegalStatesGrow
  <2> QED BY <1>1, <1>5, <1>7, <2>1 DEF TablesInv
<1>10. SaversInv'
  <2>1. \A v \in Savers : SavingOk(saving[v], more)
    BY <1>1, <1>8, SavingGrows DEF IInv, SaversInv
  <2>2. \A s \in projection_snapshots : Built(more, s)
    BY <1>1, <1>8, BuiltGrows DEF IInv, SaversInv, Grows
  <2>3. SaversInv
    BY DEF IInv
  <2> QED BY <1>1, <1>5, <2>1, <2>2, <2>3, Zenon DEF SaversInv
<1>11. TrustedInv'
  <2>1. \A id \in trusted : SoundId(more, id)
    BY <1>1, <1>8, SoundIdGrows DEF IInv, TrustedInv, Grows
  <2> QED BY <1>1, <1>5, <2>1 DEF TrustedInv
<1>12. ReadersInv'
  <2>1. ASSUME NEW k \in Readers, reading[k].pc # "idle"
        PROVE  ViewOk(reading[k], more) /\ ReaderOk(reading[k], RowsOf(reading[k], more))
    <3>1. PICK x : x = reading[k]
      OBVIOUS
    <3>2. ViewOk(x, rows) /\ ReaderOk(x, RowsOf(x, rows))
      BY <1>1, <2>1, <3>1 DEF IInv, ReadersInv
    <3>3. ViewOk(x, more)
      BY <1>8, <3>2 DEF ViewOk, Grows
    <3>4. ReaderOk(x, RowsOf(x, more))
      <4>1. CASE OneView(x)
        BY <3>2, <4>1 DEF RowsOf
      <4>2. CASE ~OneView(x)
        <5>1. ReaderOk(x, rows)
          BY <3>2, <4>2 DEF RowsOf
        <5>2. ReaderOk(x, more)
          BY <1>8, <4>2, <5>1, ReaderGrows
        <5> QED BY <4>2, <5>2 DEF RowsOf
      <4> QED BY <4>1, <4>2
    <3> QED BY <3>1, <3>3, <3>4
  <2>2. reading = [k \in Readers |-> reading[k]] /\ \A k \in Readers : ReaderShape(reading[k])
    BY DEF IInv, ReadersInv
  <2> QED BY <1>1, <1>5, <2>1, <2>2, Zenon DEF ReadersInv
<1> QED BY <1>9, <1>10, <1>11, <1>12 DEF IInv

\* The worker derives the next state of an order.
LEMMA StateAdded ==
  ASSUME NEW rows, LegalRows(rows), NEW states, LegalStates(rows, states), NEW o, NEW s,
         s = load_state(o, states), s.version < Len(History(o, rows)),
         NEW t, t = reduce_order_event(s, History(o, rows)[s.version + 1])
  PROVE  LegalStates(rows, (states \ {s}) \cup {t})
<1>1. PICK h : h = History(o, rows)
  OBVIOUS
<1>2. Len(h) \in 0..2 /\ LegalHistory(o, h)
  BY <1>1, HistoryOf
<1>3. PICK v \in 0..Len(h) : s = StateAfter(o, rows, v)
  <2>1. CASE StateOf(o, states) = {}
    <3>1. s = build_empty_projection_state(o)
      BY <2>1 DEF load_state
    <3>2. s = StateAfter(o, rows, 0)
      BY <3>1 DEF StateAfter, DerivedState, build_empty_projection_state
    <3>3. 0 \in 0..Len(h)
      BY <1>2
    <3> QED BY <3>2, <3>3
  <2>2. CASE StateOf(o, states) # {}
    <3>1. s \in states /\ s.order_id = o
      BY <2>2 DEF load_state, StateOf
    <3>2. PICK v \in 1..Len(h) : s = StateAfter(o, rows, v)
      BY <1>1, <3>1 DEF LegalStates
    <3>3. v \in 0..Len(h)
      BY <1>2
    <3> QED BY <3>2, <3>3
  <2> QED BY <2>1, <2>2
<1>4. s.version = v /\ s.order_id = o
  BY <1>3, StateAfterIs
<1>5. v \in 0..(Len(h) - 1)
  BY <1>1, <1>2, <1>4
<1>6. s = DerivedState(o, h, v)
  BY <1>1, <1>3 DEF StateAfter
<1>7. t = DerivedState(o, h, v + 1)
  <2>1. reduce_order_event(DerivedState(o, h, v), h[v + 1]) = DerivedState(o, h, v + 1)
    BY <1>2, <1>5, ReduceLegal
  <2> QED BY <1>1, <1>4, <1>6, <2>1
<1>8. PICK w \in 1..Len(h) : w = v + 1
  BY <1>2, <1>5
<1>9. t = StateAfter(o, rows, w)
  BY <1>1, <1>7, <1>8 DEF StateAfter
<1>10. t.order_id = o
  BY <1>9, StateAfterIs
<1>11. \A x \in states : x.order_id = o => x = s
  <2> SUFFICES ASSUME NEW x \in states, x.order_id = o PROVE x = s
    OBVIOUS
  <2>1. StateOf(o, states) # {}
    BY DEF StateOf
  <2>2. s \in states /\ s.order_id = o
    BY <2>1 DEF load_state, StateOf
  <2> QED BY <2>2 DEF LegalStates
<1>12. ASSUME NEW x \in (states \ {s}) \cup {t}
       PROVE  \E i \in 1..Len(History(x.order_id, rows)) : x = StateAfter(x.order_id, rows, i)
  <2>1. CASE x \in states
    BY <2>1 DEF LegalStates
  <2>2. CASE x = t
    BY <1>1, <1>8, <1>9, <1>10, <2>2
  <2> QED BY <2>1, <2>2
<1>13. ASSUME NEW x \in (states \ {s}) \cup {t}, NEW y \in (states \ {s}) \cup {t},
              x.order_id = y.order_id
       PROVE  x = y
  BY <1>10, <1>11, <1>13 DEF LegalStates
<1> QED BY <1>12, <1>13 DEF LegalStates

\* A worker transaction commits.
LEMMA ProjectStep ==
  ASSUME IInv, NEW o \in Orders, ProjectNext(o)
  PROVE  IInv'
<1>1. PICK rows, states, s :
        rows = order_events /\ states = projection_states /\ s = load_state(o, states)
  OBVIOUS
<1>2. PICK t : t = reduce_order_event(s, History(o, rows)[s.version + 1])
  OBVIOUS
<1>3. s.version < Len(History(o, rows)) /\ projection_states' = (states \ {s}) \cup {t}
  BY <1>1, <1>2 DEF ProjectNext
<1>4. UNCHANGED <<order_events, projection_snapshots, saving, trusted, reading>>
  BY DEF ProjectNext, savers
<1>5. LegalRows(rows) /\ LegalStates(rows, states)
  BY <1>1 DEF IInv, TablesInv
<1>6. LegalStates(rows, (states \ {s}) \cup {t})
  BY <1>1, <1>2, <1>3, <1>5, StateAdded
<1>7. TablesInv'
  BY <1>1, <1>3, <1>4, <1>5, <1>6 DEF TablesInv
<1> QED BY <1>4, <1>7, SaversStay, TrustedStay, ReadersStay DEF IInv

----------------------------------------------------------------------------
(* Savers.                                                                 *)

\* A conflict is one from either side, and every row conflicts with itself.
LEMMA ConflictsBoth ==
  ASSUME NEW s, NEW t
  PROVE  (Conflicts(s, t) <=> Conflicts(t, s)) /\ Conflicts(s, s)
BY DEF Conflicts

\* A saver's INSERT.
LEMMA InsertStep ==
  ASSUME IInv, NEW v \in Savers, NEW r \in order_events, NEW f \in Faults,
         f = "ahead" => r.event.sequence = 1, InsertSnapshot(v, BuiltSnapshot(v, r, f))
  PROVE  IInv' /\ UNCHANGED <<acknowledged, projection_snapshots>>
<1>1. PICK s, rows : s = BuiltSnapshot(v, r, f) /\ rows = order_events
  OBVIOUS
<1>2. LegalRows(rows)
  BY <1>1 DEF IInv, TablesInv
<1>3. Built(rows, s)
  <2>1. s = SnapshotOf(order_events, v, r, f)
    BY <1>1, <1>2, BuiltSnapshotIs
  <2> QED BY <1>1, <2>1 DEF Built, MayBuild
<1>4. PICK x : x = [step |-> IF \E t \in projection_snapshots : Conflicts(s, t) THEN "conflicted"
                             ELSE "inserted", snapshot |-> {s}]
  OBVIOUS
<1>5. /\ \A t \in Uncommitted(v) : ~Conflicts(s, t)
      /\ saving' = [saving EXCEPT ![v] = x]
      /\ UNCHANGED <<order_events, projection_states, projection_snapshots, acknowledged, trusted, reading>>
  BY <1>1, <1>4 DEF InsertSnapshot, tables
<1>6. /\ x.snapshot = {s} /\ x.step \in {"inserted", "conflicted"}
      /\ x.step = "inserted" => \A t \in projection_snapshots : ~Conflicts(s, t)
  BY <1>4
<1>7. SavingOk(x, rows)
  BY <1>3, <1>6 DEF SavingOk
<1>8. SaversInv
  BY DEF IInv
<1>9. \A w \in Savers : saving'[w] = IF w = v THEN x ELSE saving[w]
  BY <1>5, <1>8 DEF SaversInv
<1>10. saving' = [w \in Savers |-> saving'[w]]
  BY <1>5, <1>8 DEF SaversInv
<1>11. \A w \in Savers : SavingOk(saving'[w], rows)
  BY <1>1, <1>7, <1>8, <1>9 DEF SaversInv
<1>12. \A w \in Savers : saving'[w].step = "inserted" =>
         \A p \in saving'[w].snapshot, t \in projection_snapshots : ~Conflicts(p, t)
  BY <1>6, <1>8, <1>9 DEF SaversInv
<1>13. \A w \in Savers : w # v /\ saving[w].step = "inserted" =>
         \A t \in saving[w].snapshot : ~Conflicts(s, t) /\ ~Conflicts(t, s)
  <2> SUFFICES ASSUME NEW w \in Savers, w # v, saving[w].step = "inserted",
                      NEW t \in saving[w].snapshot
               PROVE  ~Conflicts(s, t) /\ ~Conflicts(t, s)
    OBVIOUS
  <2>1. t \in Uncommitted(v)
    BY DEF Uncommitted
  <2> QED BY <1>5, <2>1, ConflictsBoth
<1>14. \A u, w \in Savers :
         u # w /\ saving'[u].step = "inserted" /\ saving'[w].step = "inserted" =>
           \A p \in saving'[u].snapshot, t \in saving'[w].snapshot : ~Conflicts(p, t)
  <2> SUFFICES ASSUME NEW u \in Savers, NEW w \in Savers, u # w,
                      saving'[u].step = "inserted", saving'[w].step = "inserted",
                      NEW p \in saving'[u].snapshot, NEW t \in saving'[w].snapshot
               PROVE  ~Conflicts(p, t)
    BY Zenon
  <2>1. CASE u = v
    BY <1>6, <1>9, <1>13, <2>1
  <2>2. CASE w = v
    BY <1>6, <1>9, <1>13, <2>2
  <2>3. CASE u # v /\ w # v
    BY <1>8, <1>9, <2>3 DEF SaversInv
  <2> QED BY <2>1, <2>2, <2>3
<1>15. SaversInv'
  <2>1. /\ \A p \in projection_snapshots : Built(rows, p)
        /\ \A p, t \in projection_snapshots : Conflicts(p, t) => p = t
    BY <1>1, <1>8 DEF SaversInv
  <2>2. order_events' = rows /\ projection_snapshots' = projection_snapshots
    BY <1>1, <1>5
  <2> QED BY <1>10, <1>11, <1>12, <1>14, <2>1, <2>2, Zenon DEF SaversInv
<1> QED BY <1>5, <1>15, TablesStay, TrustedStay, ReadersStay DEF IInv

\* A saver that is done holds nothing; the others stay as they are.
LEMMA SaverIdles ==
  ASSUME SaversInv, NEW v \in Savers, saving' = [saving EXCEPT ![v] = Idle],
         UNCHANGED <<order_events, projection_snapshots>>
  PROVE  SaversInv'
<1>1. \A w \in Savers : saving'[w] = IF w = v THEN Idle ELSE saving[w]
  BY DEF SaversInv
<1>2. saving' = [w \in Savers |-> saving'[w]]
  BY DEF SaversInv
<1>3. Idle.step # "inserted" /\ SavingOk(Idle, order_events)
  BY DEF Idle, SavingOk
<1>4. \A w \in Savers : saving'[w].step = "inserted" => w # v /\ saving'[w] = saving[w]
  BY <1>1, <1>3
<1>5. \A w \in Savers : SavingOk(saving'[w], order_events)
  BY <1>1, <1>3 DEF SaversInv
<1>6. \A w \in Savers : saving'[w].step = "inserted" =>
        \A s \in saving'[w].snapshot, t \in projection_snapshots : ~Conflicts(s, t)
  BY <1>4 DEF SaversInv
<1>7. \A u, w \in Savers :
        u # w /\ saving'[u].step = "inserted" /\ saving'[w].step = "inserted" =>
          \A s \in saving'[u].snapshot, t \in saving'[w].snapshot : ~Conflicts(s, t)
  BY <1>4 DEF SaversInv
<1>8. /\ \A s \in projection_snapshots : Built(order_events, s)
      /\ \A s, t \in projection_snapshots : Conflicts(s, t) => s = t
  BY DEF SaversInv
<1> QED BY <1>2, <1>5, <1>6, <1>7, <1>8, Zenon DEF SaversInv

\* A saver commits its row.
LEMMA CommitStep ==
  ASSUME IInv, NEW v \in Savers, CommitSnapshot(v)
  PROVE  IInv'
<1>1. PICK new : new = saving[v].snapshot
  OBVIOUS
<1>2. /\ saving[v].step = "inserted" /\ projection_snapshots' = projection_snapshots \cup new
      /\ saving' = [saving EXCEPT ![v] = Idle]
      /\ UNCHANGED <<order_events, projection_states, trusted, reading>>
  BY <1>1 DEF CommitSnapshot
<1>3. SaversInv
  BY DEF IInv
<1>4. SavingOk(saving[v], order_events) /\ saving[v] # Idle
  BY <1>2, <1>3 DEF SaversInv, Idle
<1>5. PICK s : new = {s} /\ Built(order_events, s)
  BY <1>1, <1>4 DEF SavingOk
<1>6. \A t \in projection_snapshots : ~Conflicts(s, t) /\ ~Conflicts(t, s)
  BY <1>1, <1>2, <1>3, <1>5, ConflictsBoth DEF SaversInv
<1>7. \A w \in Savers : w # v /\ saving[w].step = "inserted" =>
        \A t \in saving[w].snapshot : ~Conflicts(t, s)
  BY <1>1, <1>2, <1>3, <1>5 DEF SaversInv
<1>8. \A w \in Savers : saving'[w] = IF w = v THEN Idle ELSE saving[w]
  BY <1>2, <1>3 DEF SaversInv
<1>9. saving' = [w \in Savers |-> saving'[w]]
  BY <1>2, <1>3 DEF SaversInv
<1>10. Idle.step # "inserted" /\ SavingOk(Idle, order_events)
  BY DEF Idle, SavingOk
<1>11. \A w \in Savers : saving'[w].step = "inserted" => w # v /\ saving'[w] = saving[w]
  BY <1>8, <1>10
<1> DEFINE after == projection_snapshots \cup {s}
<1>12. \A w \in Savers : SavingOk(saving'[w], order_events)
  BY <1>3, <1>8, <1>10 DEF SaversInv
<1>13. \A w \in Savers : saving'[w].step = "inserted" =>
         \A p \in saving'[w].snapshot, t \in after : ~Conflicts(p, t)
  BY <1>3, <1>7, <1>11 DEF SaversInv
<1>14. \A u, w \in Savers :
         u # w /\ saving'[u].step = "inserted" /\ saving'[w].step = "inserted" =>
           \A p \in saving'[u].snapshot, t \in saving'[w].snapshot : ~Conflicts(p, t)
  BY <1>3, <1>11 DEF SaversInv
<1>15. \A p \in after : Built(order_events, p)
  BY <1>3, <1>5 DEF SaversInv
<1>16. \A p, t \in after : Conflicts(p, t) => p = t
  BY <1>3, <1>6 DEF SaversInv
<1>17. projection_snapshots' = after /\ order_events' = order_events
  BY <1>2, <1>5
<1> HIDE DEF after
<1>18. SaversInv'
  BY <1>9, <1>12, <1>13, <1>14, <1>15, <1>16, <1>17, Zenon DEF SaversInv
<1> QED BY <1>2, <1>18, TablesStay, TrustedStay, ReadersStay DEF IInv

\* A saver's transaction dies, or it has compared its row.
LEMMA RollbackStep ==
  ASSUME IInv, NEW v \in Savers, RollbackSnapshot(v) \/ CompareSnapshot(v)
  PROVE  IInv'
<1>1. /\ saving' = [saving EXCEPT ![v] = Idle]
      /\ UNCHANGED <<order_events, projection_states, projection_snapshots, trusted, reading>>
  BY DEF RollbackSnapshot, CompareSnapshot, tables
<1> QED BY <1>1, SaverIdles, TablesStay, TrustedStay, ReadersStay DEF IInv

\* The snapshots of an order are cleared.
LEMMA ClearStep ==
  ASSUME IInv, NEW o \in Orders, clear_snapshots(o)
  PROVE  IInv'
<1>1. /\ projection_snapshots' = {s \in projection_snapshots : s.order_id # o}
      /\ UNCHANGED <<order_events, projection_states, saving, trusted, reading>>
  BY DEF clear_snapshots
<1>2. PICK after : after = {s \in projection_snapshots : s.order_id # o}
  OBVIOUS
<1>3. after \subseteq projection_snapshots
  BY <1>2
<1>4. SaversInv
  BY DEF IInv
<1>5. /\ \A s \in after : Built(order_events, s)
      /\ \A s, t \in after : Conflicts(s, t) => s = t
      /\ \A v \in Savers : saving[v].step = "inserted" =>
           \A s \in saving[v].snapshot, t \in after : ~Conflicts(s, t)
  BY <1>3, <1>4 DEF SaversInv
<1>6. SaversInv'
  BY <1>1, <1>2, <1>4, <1>5, Zenon DEF SaversInv
<1> QED BY <1>1, <1>6, TablesStay, TrustedStay, ReadersStay DEF IInv

\* A save that returned keeps its evidence.
LEMMA EvidenceStep ==
  ASSUME IInv, SavedEvidenceStays, Next
  PROVE  SavedEvidenceStays'
<1> DEFINE Same(t, s) == /\ same_source_boundary(t, s) /\ t.state = s.state
                         /\ t.reducer_version = s.reducer_version
                         /\ t.snapshot_schema_version = s.snapshot_schema_version
<1>1. \A s \in acknowledged : \E t \in projection_snapshots : Same(t, s)
  BY DEF SavedEvidenceStays
<1>2. SUFFICES \A s \in acknowledged' : \E t \in projection_snapshots' : Same(t, s)
  BY DEF SavedEvidenceStays
<1>3. \A s, t : Same(t, s) => t.order_id = s.order_id
  BY DEF same_source_boundary
<1>4. \A s : Same(s, s)
  BY DEF same_source_boundary
<1>5. ASSUME NEW v \in Savers, CommitSnapshot(v)
      PROVE  \A s \in acknowledged' : \E t \in projection_snapshots' : Same(t, s)
  <2> HIDE DEF Same
  <2>1. PICK new : new = saving[v].snapshot
    OBVIOUS
  <2>2. /\ projection_snapshots' = projection_snapshots \cup new
        /\ acknowledged' = acknowledged \cup new
    BY <1>5, <2>1 DEF CommitSnapshot
  <2> QED BY <1>1, <1>4, <2>2
<1>6. ASSUME NEW v \in Savers, CompareSnapshot(v)
      PROVE  \A s \in acknowledged' : \E t \in projection_snapshots' : Same(t, s)
  <2>1. PICK p : p = CHOOSE t \in saving[v].snapshot : TRUE
    OBVIOUS
  <2>2. /\ saving[v].step = "conflicted" /\ projection_snapshots' = projection_snapshots
        /\ \/ /\ SourceBoundaryRows(p) # {}
              /\ \A t \in SourceBoundaryRows(p) : same_snapshot_evidence(t, p)
              /\ acknowledged' = acknowledged \cup {p}
           \/ acknowledged' = acknowledged
    BY <1>6, <2>1 DEF CompareSnapshot, tables
  <2>3. ASSUME SourceBoundaryRows(p) # {},
               \A t \in SourceBoundaryRows(p) : same_snapshot_evidence(t, p)
        PROVE  \E t \in projection_snapshots : Same(t, p)
    <3>1. PICK t \in projection_snapshots : same_snapshot_evidence(t, p)
      BY <2>3 DEF SourceBoundaryRows
    <3>2. SavingOk(saving[v], order_events) /\ saving[v] # Idle
      BY <2>2 DEF IInv, SaversInv, Idle
    <3>3. Built(order_events, p)
      BY <2>1, <3>2 DEF SavingOk
    <3>4. Built(order_events, t) /\ LegalRows(order_events)
      BY DEF IInv, SaversInv, TablesInv
    <3>5. p.payload_hash = p.state
      BY <3>3, <3>4, BuiltShape
    <3>6. t.payload_hash = t.state
      BY <3>4, BuiltShape
    <3>7. Same(t, p)
      BY <3>1, <3>5, <3>6 DEF same_snapshot_evidence
    <3> QED BY <3>7
  <2> HIDE DEF Same
  <2> QED BY <1>1, <2>2, <2>3
<1>7. ASSUME NEW o \in Orders, clear_snapshots(o)
      PROVE  \A s \in acknowledged' : \E t \in projection_snapshots' : Same(t, s)
  <2> HIDE DEF Same
  <2>1. /\ projection_snapshots' = {s \in projection_snapshots : s.order_id # o}
        /\ acknowledged' = {s \in acknowledged : s.order_id # o}
    BY <1>7 DEF clear_snapshots
  <2> QED BY <1>1, <1>3, <2>1
<1>8. ASSUME UNCHANGED <<projection_snapshots, acknowledged>>
      PROVE  \A s \in acknowledged' : \E t \in projection_snapshots' : Same(t, s)
  <2> HIDE DEF Same
  <2> QED BY <1>1, <1>8
<1>9. ASSUME NEW c \in Commands, AppendEvent(c) PROVE UNCHANGED <<projection_snapshots, acknowledged>>
  BY <1>9 DEF AppendEvent, savers
<1>10. ASSUME NEW o \in Orders, ProjectNext(o) PROVE UNCHANGED <<projection_snapshots, acknowledged>>
  BY <1>10 DEF ProjectNext, savers
<1>11. ASSUME NEW v \in Savers, NEW s, InsertSnapshot(v, s)
       PROVE  UNCHANGED <<projection_snapshots, acknowledged>>
  BY <1>11 DEF InsertSnapshot, tables
<1>12. ASSUME NEW v \in Savers, RollbackSnapshot(v)
       PROVE  UNCHANGED <<projection_snapshots, acknowledged>>
  BY <1>12 DEF RollbackSnapshot, tables
<1>13. ASSUME NEW k \in Readers, NEW c, BeginResolve(k, c) \/ BeginValidate(k, c) \/ BeginReplay(k, c)
       PROVE  UNCHANGED <<projection_snapshots, acknowledged>>
  <2>1. UNCHANGED <<tables, savers>>
    BY <1>13, Zenon DEF BeginResolve, BeginValidate, BeginReplay
  <2> QED BY <2>1 DEF tables, savers
<1>14. ASSUME NEW k \in Readers, LoadHistory(k) \/ LoadTailPage(k) \/ LoadState(k)
       PROVE  UNCHANGED <<projection_snapshots, acknowledged>>
  <2>1. UNCHANGED <<tables, savers>>
    BY <1>14, Zenon DEF LoadHistory, LoadTailPage, LoadState
  <2> QED BY <2>1 DEF tables, savers
<1> HIDE DEF Same
<1> QED BY <1>5, <1>6, <1>7, <1>8, <1>9, <1>10, <1>11, <1>12, <1>13, <1>14, Zenon DEF Next

----------------------------------------------------------------------------
(* What a reader returns.                                                  *)

\* The result of a call, as Return puts it together.
ResultOf(x, status, state, auth) ==
  LET lineage == IF status \in {"INVALID_SNAPSHOT_PRECONDITION", "MISSING_SNAPSHOT"}
                 THEN {} ELSE x.found
  IN  [op |-> x.call.op, order_id |-> x.call.order_id, status |-> status,
       state |-> state, authority |-> auth,
       snapshot_id |-> IF x.call.op = "resolve" /\ status = "MISSING_SNAPSHOT"
                       THEN {x.call.trusted} ELSE {s.snapshot_id : s \in lineage},
       position |-> {s.source_global_position : s \in lineage},
       read |-> x]

\* The three properties of returned results, of one result.
TrustedResult(r, rows) ==
  r.status = "RESOLVED_FROM_SNAPSHOT" /\ r.read.vouched =>
    \A s \in r.state :
      /\ s = Replayed(r.order_id, s.version, rows)
      /\ OneView(r.read) => s.version = Len(History(r.order_id, r.read.view.events))

ObservedResult(r, rows) ==
  OneView(r.read) =>
    /\ r.status \in {"SNAPSHOT_ASSISTED_DRIFT", "INVALID_SNAPSHOT_BOUNDARY"} =>
         \A s \in r.read.found : ~Sound(s, r.read.view.events)
    /\ r.status = "MATCH" => \A s \in r.read.found : Sound(s, r.read.view.events)
    /\ r.status = "DRIFT" =>
         \A s \in r.state : s = Replayed(r.order_id, s.version, rows)
                             /\ s.version < Len(r.read.authority)

ReportableResult(r) ==
  /\ \E d \in MappedReadSideReceipts(r) :
       /\ d.outcome.ok => r.state # {}
       /\ d.correlation.identity_source = "SNAPSHOT_LINEAGE" =>
            d.correlation.snapshot_id = {s.snapshot_id : s \in r.read.found} /\ r.read.found # {}
       /\ d.subject.type = "SNAPSHOT" => d.subject.id \subseteq d.correlation.snapshot_id
  /\ r.op = "resolve" => ExecutionConstructs(r.status, TraceOf(r))

ResultOk(r, rows) == TrustedResult(r, rows) /\ ObservedResult(r, rows) /\ ReportableResult(r)

\* The fields of a result that do not depend on its snapshot.
ResultIs(x, status, state, auth, r) ==
  /\ r.op = x.call.op /\ r.order_id = x.call.order_id /\ r.status = status
  /\ r.state = state /\ r.authority = auth /\ r.read = x

\* The result names the snapshot that was found.
NamesFound(x, r) ==
  /\ r.snapshot_id = {s.snapshot_id : s \in x.found}
  /\ r.snapshot_id = {} <=> x.found = {}
  /\ r.position = {} <=> x.found = {}
  /\ \A p \in r.position : \E s \in x.found : p = s.source_global_position

\* The result names none, or only the one that was asked for.
NamesNone(x, status, r) ==
  /\ r.position = {}
  /\ r.snapshot_id = IF x.call.op = "resolve" /\ status = "MISSING_SNAPSHOT"
                     THEN {x.call.trusted} ELSE {}

\* Every result has them.
LEMMA ResultFields ==
  ASSUME NEW x, NEW status, NEW state, NEW auth, NEW r, r = ResultOf(x, status, state, auth)
  PROVE  ResultIs(x, status, state, auth, r)
BY DEF ResultOf, ResultIs

\* A result that does not say that there is no snapshot names it.
LEMMA ResultNames ==
  ASSUME NEW x, NEW status, NEW state, NEW auth, NEW r, r = ResultOf(x, status, state, auth),
         status # "INVALID_SNAPSHOT_PRECONDITION", status # "MISSING_SNAPSHOT"
  PROVE  NamesFound(x, r)
<1>1. r.snapshot_id = {s.snapshot_id : s \in x.found}
  BY DEF ResultOf
<1>2. r.position = {s.source_global_position : s \in x.found}
  BY DEF ResultOf
<1>3. ASSUME x.found = {} PROVE r.snapshot_id = {} /\ r.position = {}
  BY <1>1, <1>2, <1>3
<1>4. ASSUME x.found # {} PROVE r.snapshot_id # {} /\ r.position # {}
  <2>1. PICK s : s \in x.found
    BY <1>4
  <2>2. s.snapshot_id \in r.snapshot_id
    BY <1>1, <2>1
  <2>3. s.source_global_position \in r.position
    BY <1>2, <2>1
  <2> QED BY <2>2, <2>3
<1>5. \A p \in r.position : \E s \in x.found : p = s.source_global_position
  BY <1>2
<1> QED BY <1>1, <1>3, <1>4, <1>5 DEF NamesFound

\* The two results without a snapshot.
LEMMA ResultNamesNone ==
  ASSUME NEW x, NEW status, NEW state, NEW auth, NEW r, r = ResultOf(x, status, state, auth),
         status \in {"INVALID_SNAPSHOT_PRECONDITION", "MISSING_SNAPSHOT"}
  PROVE  NamesNone(x, status, r)
<1>1. {s.snapshot_id : s \in {}} = {}
  OBVIOUS
<1>2. {s.source_global_position : s \in {}} = {}
  OBVIOUS
<1>3. r.position = {s.source_global_position : s \in {}}
  BY DEF ResultOf
<1>4. r.snapshot_id = IF x.call.op = "resolve" /\ status = "MISSING_SNAPSHOT"
                      THEN {x.call.trusted} ELSE {s.snapshot_id : s \in {}}
  BY DEF ResultOf
<1> QED BY <1>1, <1>2, <1>3, <1>4 DEF NamesNone

\* Only a match and a resolution are ok.
LEMMA OnlyTwoAreOk ==
  ASSUME NEW status \in {"MISSING_SNAPSHOT", "MISSING_PROJECTION", "NO_ACCEPTED_HISTORY",
           "NO_ACCEPTED_HISTORY_FOR_ORDER", "INVALID_SNAPSHOT_BOUNDARY",
           "INVALID_SNAPSHOT_PRECONDITION", "INVALID_SNAPSHOT_COMPATIBILITY",
           "TAIL_REPLAY_FAILED", "DRIFT", "SNAPSHOT_ASSISTED_DRIFT"}
  PROVE  STATUS_MAPPINGS[status].ok = FALSE
BY DEF STATUS_MAPPINGS

\* A result whose shape the mapper accepts has its receipt.
LEMMA ReportableIs ==
  ASSUME NEW r, AcceptedShape(r), STATUS_MAPPINGS[r.status].ok = FALSE \/ r.state # {},
         SnapshotArtifactPresent(r) =>
           r.snapshot_id = {s.snapshot_id : s \in r.read.found} /\ r.read.found # {},
         r.op = "resolve" => ExecutionConstructs(r.status, TraceOf(r))
  PROVE  ReportableResult(r)
<1>1. PICK d : d = map_semantic_outcome_to_decision_receipt(
                     SemanticOutcome(r), EvidenceSource(r), Subject(r), Correlation(r))
  OBVIOUS
<1>2. d \in MappedReadSideReceipts(r)
  BY <1>1 DEF MappedReadSideReceipts
<1>3. d.outcome = SemanticOutcome(r) /\ d.subject = Subject(r) /\ d.correlation = Correlation(r)
  BY <1>1 DEF map_semantic_outcome_to_decision_receipt
<1>4. d.outcome.ok => r.state # {}
  BY <1>3 DEF SemanticOutcome, map_runtime_technical_status
<1>5. d.correlation.identity_source = "SNAPSHOT_LINEAGE" =>
        d.correlation.snapshot_id = {s.snapshot_id : s \in r.read.found} /\ r.read.found # {}
  <2>1. /\ Correlation(r).snapshot_id = r.snapshot_id
        /\ Correlation(r).identity_source = IF SnapshotArtifactPresent(r) THEN "SNAPSHOT_LINEAGE"
                                            ELSE "READ_SIDE_OBSERVATION"
    BY DEF Correlation
  <2> QED BY <1>3, <2>1
<1>6. d.subject.type = "SNAPSHOT" => d.subject.id \subseteq d.correlation.snapshot_id
  <2> SUFFICES ASSUME Subject(r).type = "SNAPSHOT" PROVE Subject(r).id = Correlation(r).snapshot_id
    BY <1>3
  <2>1. SubjectType(r) = "SNAPSHOT"
    BY DEF Subject
  <2>2. PICK type : type = SubjectType(r)
    OBVIOUS
  <2>3. Subject(r).id = CASE type \in {"ORDER", "PROJECTION"} -> {r.order_id}
                          [] type = "RUNTIME" -> {}
                          [] OTHER -> r.snapshot_id
    BY <2>2 DEF Subject
  <2>4. type \notin {"ORDER", "PROJECTION"} /\ type # "RUNTIME"
    BY <2>1, <2>2
  <2>5. Subject(r).id = r.snapshot_id
    BY <2>3, <2>4
  <2> QED BY <2>5 DEF Correlation
<1> QED BY <1>2, <1>4, <1>5, <1>6 DEF ReportableResult

\* The fields of a trace, and the snapshot, the tail and the progress in them.
TraceIs(r, t, snapshot, rest, reduced) ==
  /\ t.stage = CASE r.status = "INVALID_SNAPSHOT_PRECONDITION" -> "SNAPSHOT_PRECONDITION"
                 [] r.status = "MISSING_SNAPSHOT" -> "SNAPSHOT_LOOKUP"
                 [] r.status = "INVALID_SNAPSHOT_COMPATIBILITY" -> "SNAPSHOT_COMPATIBILITY"
                 [] r.status = "TAIL_EVENT_SOURCE_CONTRACT_VIOLATION" -> "TAIL_SOURCE"
                 [] r.status = "TAIL_REPLAY_FAILED" -> "TAIL_REPLAY"
                 [] OTHER -> "COMPLETED"
  /\ t.base = {s.source_event_sequence : s \in snapshot}
  /\ t.validated = IF rest = <<>> THEN {} ELSE {rest[Len(rest)].sequence}
  /\ t.replayed = IF reduced = 0 THEN {} ELSE {rest[reduced].sequence}
  /\ r.status # "TAIL_EVENT_SOURCE_CONTRACT_VIOLATION" => t.expected = {}
  /\ t.observed = IF r.status = "TAIL_REPLAY_FAILED" THEN {rest[reduced + 1]} ELSE {}

\* Every trace has them.
LEMMA TraceFields ==
  ASSUME NEW r, NEW t, t = TraceOf(r), NEW snapshot, NEW rest, NEW reduced,
         snapshot = IF r.status \in {"TAIL_REPLAY_FAILED", "RESOLVED_FROM_SNAPSHOT",
                                     "TAIL_EVENT_SOURCE_CONTRACT_VIOLATION"}
                    THEN r.read.found ELSE {},
         rest = r.read.tail,
         reduced = IF snapshot = {} THEN 0
                   ELSE Len(ReplayStates(Hydrated(Only(snapshot)), rest)) - 1
  PROVE  TraceIs(r, t, snapshot, rest, reduced)
BY Zenon DEF TraceOf, TraceIs

\* A resolution that ends before it has a base.
LEMMA EarlyTrace ==
  ASSUME NEW r, r.read.tail = <<>>,
         r.status \in {"INVALID_SNAPSHOT_PRECONDITION", "MISSING_SNAPSHOT",
                       "INVALID_SNAPSHOT_COMPATIBILITY"}
  PROVE  ExecutionConstructs(r.status, TraceOf(r))
<1>1. PICK t, rest, snapshot, reduced :
        t = TraceOf(r) /\ rest = r.read.tail /\ snapshot = {} /\ reduced = 0
  OBVIOUS
<1>2. /\ snapshot = IF r.status \in {"TAIL_REPLAY_FAILED", "RESOLVED_FROM_SNAPSHOT",
                                     "TAIL_EVENT_SOURCE_CONTRACT_VIOLATION"}
                    THEN r.read.found ELSE {}
      /\ reduced = IF snapshot = {} THEN 0
                   ELSE Len(ReplayStates(Hydrated(Only(snapshot)), rest)) - 1
  BY <1>1
<1>3. TraceIs(r, t, snapshot, rest, reduced)
  BY <1>1, <1>2, TraceFields, Zenon
<1>4. /\ t.base = {} /\ t.validated = {} /\ t.replayed = {} /\ t.expected = {} /\ t.observed = {}
  BY <1>1, <1>3 DEF TraceIs
<1>5. /\ t.stage \in RESULT_STATUS_TO_TERMINAL_STAGES[r.status]
      /\ t.stage \in PRE_SNAPSHOT_BASE_STAGES
  <2>1. CASE r.status = "INVALID_SNAPSHOT_PRECONDITION"
    <3>1. t.stage = "SNAPSHOT_PRECONDITION"
      BY <1>3, <2>1 DEF TraceIs
    <3> QED BY <2>1, <3>1 DEF RESULT_STATUS_TO_TERMINAL_STAGES, PRE_SNAPSHOT_BASE_STAGES
  <2>2. CASE r.status = "MISSING_SNAPSHOT"
    <3>1. t.stage = "SNAPSHOT_LOOKUP"
      BY <1>3, <2>2 DEF TraceIs
    <3> QED BY <2>2, <3>1 DEF RESULT_STATUS_TO_TERMINAL_STAGES, PRE_SNAPSHOT_BASE_STAGES
  <2>3. CASE r.status = "INVALID_SNAPSHOT_COMPATIBILITY"
    <3>1. t.stage = "SNAPSHOT_COMPATIBILITY"
      BY <1>3, <2>3 DEF TraceIs
    <3> QED BY <2>3, <3>1 DEF RESULT_STATUS_TO_TERMINAL_STAGES, PRE_SNAPSHOT_BASE_STAGES
  <2> QED BY <2>1, <2>2, <2>3
<1>6. /\ t.stage \in PRE_TAIL_STAGES
      /\ t.stage # "TAIL_SOURCE" /\ t.stage # "TAIL_REPLAY" /\ t.stage # "COMPLETED"
  BY <1>5 DEF PRE_TAIL_STAGES, PRE_SNAPSHOT_BASE_STAGES
<1>7. StagePresence(t)
  BY <1>4, <1>5, <1>6 DEF StagePresence
<1>8. ProgressCoherence(t)
  BY <1>4, <1>6 DEF ProgressCoherence
<1>9. TraceConstructs(t)
  BY <1>4, <1>7, <1>8 DEF TraceConstructs
<1> QED BY <1>1, <1>5, <1>9 DEF ExecutionConstructs

\* A resolution that has reduced its tail, or was refused its one event.
LEMMA TailTrace ==
  ASSUME NEW r, NEW s, NEW e, r.read.found = {s}, s.source_event_sequence \in {1, 2},
         \/ r.read.tail = <<>> /\ r.status = "RESOLVED_FROM_SNAPSHOT"
         \/ /\ r.read.tail = <<e>> /\ e.sequence = 2 /\ s.source_event_sequence = 1
            /\ r.status \in {"RESOLVED_FROM_SNAPSHOT", "TAIL_REPLAY_FAILED"},
         Len(ReplayStates(s.state, r.read.tail))
           = IF r.status = "RESOLVED_FROM_SNAPSHOT" THEN Len(r.read.tail) + 1 ELSE 1
  PROVE  ExecutionConstructs(r.status, TraceOf(r))
<1>1. PICK t, rest, snapshot, n : t = TraceOf(r) /\ rest = r.read.tail /\ snapshot = {s}
                                  /\ n = s.source_event_sequence
  OBVIOUS
<1>2. PICK reduced : reduced = IF snapshot = {} THEN 0
                               ELSE Len(ReplayStates(Hydrated(Only(snapshot)), rest)) - 1
  OBVIOUS
<1>3. r.status \in {"RESOLVED_FROM_SNAPSHOT", "TAIL_REPLAY_FAILED"}
  OBVIOUS
<1>4. snapshot = IF r.status \in {"TAIL_REPLAY_FAILED", "RESOLVED_FROM_SNAPSHOT",
                                  "TAIL_EVENT_SOURCE_CONTRACT_VIOLATION"}
                 THEN r.read.found ELSE {}
  BY <1>1, <1>3
<1>5. TraceIs(r, t, snapshot, rest, reduced)
  BY <1>1, <1>2, <1>4, TraceFields, Zenon
<1>6. t.base = {n} /\ n \in {1, 2}
  BY <1>1, <1>5 DEF TraceIs
<1>7. t.expected = {}
  BY <1>3, <1>5 DEF TraceIs
<1>8. reduced = IF r.status = "RESOLVED_FROM_SNAPSHOT" THEN Len(rest) ELSE 0
  <2>1. Only(snapshot) = s
    BY <1>1 DEF Only
  <2>2. reduced = Len(ReplayStates(s.state, rest)) - 1
    BY <1>1, <1>2, <2>1 DEF Hydrated
  <2>3. CASE rest = <<>>
    BY <1>1, <2>2, <2>3
  <2>4. CASE rest = <<e>>
    <3>1. Len(rest) = 1
      BY <2>4
    <3> QED BY <1>1, <1>3, <2>2, <3>1
  <2> QED BY <1>1, <2>3, <2>4
<1>9. CASE r.status = "RESOLVED_FROM_SNAPSHOT"
  <2>1. t.stage = "COMPLETED"
    BY <1>5, <1>9 DEF TraceIs
  <2>2. t.observed = {}
    BY <1>5, <1>9 DEF TraceIs
  <2>3. t.validated = t.replayed /\ (t.validated = {} \/ (t.validated = {2} /\ n = 1))
    <3>1. CASE rest = <<>>
      <4>1. reduced = 0
        BY <1>8, <1>9, <3>1
      <4> QED BY <1>5, <3>1, <4>1 DEF TraceIs
    <3>2. CASE rest = <<e>> /\ e.sequence = 2 /\ n = 1
      <4>1. reduced = 1 /\ Len(rest) = 1 /\ rest # <<>> /\ rest[1] = e
        BY <1>8, <1>9, <3>2
      <4> QED BY <1>5, <3>2, <4>1 DEF TraceIs
    <3> QED BY <1>1, <3>1, <3>2
  <2>4. StagePresence(t)
    BY <1>6, <1>7, <2>1, <2>2 DEF StagePresence, PRE_SNAPSHOT_BASE_STAGES, PRE_TAIL_STAGES
  <2>5. ProgressCoherence(t)
    <3>1. CASE t.validated = {}
      BY <2>1, <2>3, <3>1 DEF ProgressCoherence
    <3>2. CASE t.validated = {2} /\ n = 1
      BY <1>6, <2>1, <2>3, <3>2 DEF ProgressCoherence
    <3> QED BY <2>3, <3>1, <3>2
  <2>6. \A m \in t.base \cup t.validated \cup t.replayed \cup t.expected : m > 0
    BY <1>6, <1>7, <2>3
  <2>7. "COMPLETED" \in RESULT_STATUS_TO_TERMINAL_STAGES["RESOLVED_FROM_SNAPSHOT"]
    BY DEF RESULT_STATUS_TO_TERMINAL_STAGES
  <2> QED BY <1>1, <1>9, <2>1, <2>4, <2>5, <2>6, <2>7 DEF ExecutionConstructs, TraceConstructs
<1>10. CASE r.status = "TAIL_REPLAY_FAILED"
  <2>1. t.stage = "TAIL_REPLAY"
    BY <1>5, <1>10 DEF TraceIs
  <2>2. rest = <<e>> /\ e.sequence = 2 /\ n = 1 /\ reduced = 0
    BY <1>1, <1>8, <1>10
  <2>3. Len(rest) = 1 /\ rest # <<>> /\ rest[1] = e /\ reduced + 1 = 1
    BY <2>2
  <2>4. t.validated = {2} /\ t.replayed = {}
    BY <1>5, <2>2, <2>3 DEF TraceIs
  <2>5. t.observed = {e}
    BY <1>5, <1>10, <2>3 DEF TraceIs
  <2>6. StagePresence(t)
    BY <1>6, <1>7, <2>1, <2>4, <2>5 DEF StagePresence, PRE_SNAPSHOT_BASE_STAGES, PRE_TAIL_STAGES
  <2>7. ProgressCoherence(t)
    <3>1. {m + 1 : m \in Boundary(t.replayed, t.base)} = {2}
      BY <1>6, <2>2, <2>4 DEF Boundary
    <3>2. {x.sequence : x \in t.observed} = {2}
      BY <2>2, <2>5
    <3>3. \A x \in t.observed, v \in t.validated : x.sequence <= v
      BY <2>2, <2>4, <2>5
    <3>4. \A v \in t.validated \cup t.replayed : \A b \in t.base : v > b
      BY <1>6, <2>2, <2>4
    <3> QED BY <2>1, <2>4, <3>1, <3>2, <3>3, <3>4 DEF ProgressCoherence
  <2>8. \A m \in t.base \cup t.validated \cup t.replayed \cup t.expected : m > 0
    BY <1>6, <1>7, <2>4
  <2>9. "TAIL_REPLAY" \in RESULT_STATUS_TO_TERMINAL_STAGES["TAIL_REPLAY_FAILED"]
    BY DEF RESULT_STATUS_TO_TERMINAL_STAGES
  <2> QED BY <1>1, <1>10, <2>1, <2>6, <2>7, <2>8, <2>9 DEF ExecutionConstructs, TraceConstructs
<1> QED BY <1>3, <1>9, <1>10

\* The results of a resolution that ends before it has a base.
LEMMA EarlyResolution ==
  ASSUME NEW x, x.call.op = "resolve", x.tail = <<>>, NEW rows, NEW r, NEW status,
         \/ status \in {"INVALID_SNAPSHOT_PRECONDITION", "MISSING_SNAPSHOT"}
         \/ status = "INVALID_SNAPSHOT_COMPATIBILITY" /\ x.found # {},
         r = ResultOf(x, status, {}, {})
  PROVE  ResultOk(r, rows)
<1>1. ResultIs(x, status, {}, {}, r)
  BY ResultFields
<1>2. /\ r.op = "resolve" /\ r.order_id = x.call.order_id /\ r.status = status
      /\ r.state = {} /\ r.authority = {} /\ r.read = x
  BY <1>1 DEF ResultIs
<1>3. TrustedResult(r, rows) /\ ObservedResult(r, rows)
  BY <1>2 DEF TrustedResult, ObservedResult
<1>4. status = "INVALID_SNAPSHOT_COMPATIBILITY" => NamesFound(x, r) /\ x.found # {}
  BY ResultNames
<1>5. status # "INVALID_SNAPSHOT_COMPATIBILITY" => NamesNone(x, status, r)
  BY ResultNamesNone
<1>6. SnapshotAssistedShape(r)
  <2>1. CASE status = "INVALID_SNAPSHOT_PRECONDITION"
    BY <1>2, <1>5, <2>1 DEF SnapshotAssistedShape, NamesNone
  <2>2. CASE status = "MISSING_SNAPSHOT"
    BY <1>2, <1>5, <2>2 DEF SnapshotAssistedShape, NamesNone
  <2>3. CASE status = "INVALID_SNAPSHOT_COMPATIBILITY"
    BY <1>2, <1>4, <2>3 DEF SnapshotAssistedShape, NamesFound
  <2> QED BY <2>1, <2>2, <2>3
<1>7. AcceptedShape(r)
  BY <1>2, <1>6 DEF AcceptedShape, StatesOfThisOrder
<1>8. STATUS_MAPPINGS[r.status].ok = FALSE
  BY <1>2, OnlyTwoAreOk
<1>9. SnapshotArtifactPresent(r) =>
        r.snapshot_id = {s.snapshot_id : s \in r.read.found} /\ r.read.found # {}
  BY <1>2, <1>4 DEF SnapshotArtifactPresent, NamesFound
<1>10. ExecutionConstructs(r.status, TraceOf(r))
  BY <1>2, EarlyTrace
<1>11. ReportableResult(r)
  BY <1>7, <1>8, <1>9, <1>10, ReportableIs
<1> QED BY <1>3, <1>11 DEF ResultOk

\* The results of a resolution that has loaded its tail.  One that its caller
\* could trust is the replay of the history.
LEMMA TailResolution ==
  ASSUME NEW rows, NEW seen, Grows(seen, rows), NEW x, x.call.op = "resolve",
         OneView(x) => seen = x.view.events,
         NEW s, x.found = {s}, Built(seen, s), UsableBase(s, x.call.order_id),
         TailOk(s, x.tail, seen), x.vouched => Sound(s, seen),
         s.source_event_sequence + Len(x.tail) >= Len(History(x.call.order_id, seen)),
         NEW state, NEW status,
         \/ /\ Replays(s.state, x.tail) /\ status = "RESOLVED_FROM_SNAPSHOT"
            /\ state = {ReplayFrom(s.state, x.tail)}
         \/ ~Replays(s.state, x.tail) /\ status = "TAIL_REPLAY_FAILED" /\ state = {},
         NEW r, r = ResultOf(x, status, state, {})
  PROVE  ResultOk(r, rows)
<1>1. PICK o, n, tail, got : /\ o = x.call.order_id /\ n = s.source_event_sequence /\ tail = x.tail
                             /\ got = ReplayFrom(s.state, tail)
  OBVIOUS
<1>2. s.order_id = o
  BY <1>1 DEF UsableBase
<1>3. LegalRows(seen) /\ LegalRows(rows) /\ seen \subseteq rows
  BY DEF Grows
<1>4. n \in {1, 2} /\ s.source_global_position \in Nat \ {0}
  BY <1>1, <1>3, BuiltShape
<1>5. Reduction(s, tail, seen)
  BY <1>1, <1>3, ReductionOf
<1>6. /\ r.op = "resolve" /\ r.order_id = o /\ r.status = status
      /\ r.state = state /\ r.authority = {} /\ r.read = x
  <2>1. ResultIs(x, status, state, {}, r)
    BY ResultFields
  <2> QED BY <1>1, <2>1 DEF ResultIs
<1>7. NamesFound(x, r)
  BY ResultNames
<1>8. r.snapshot_id # {} /\ r.position # {} /\ 0 \notin r.position
  BY <1>4, <1>7 DEF NamesFound
<1>9. TrustedResult(r, rows)
  <2> SUFFICES ASSUME status = "RESOLVED_FROM_SNAPSHOT", x.vouched
               PROVE  /\ got = Replayed(o, got.version, rows)
                      /\ OneView(x) => got.version = Len(History(o, x.view.events))
    BY <1>1, <1>6 DEF TrustedResult
  <2>1. PICK m : m = n + Len(tail)
    OBVIOUS
  <2>2. got = StateAfter(o, seen, m) /\ m <= Len(History(o, seen))
    BY <1>1, <1>2, <1>5, <2>1 DEF Reduction
  <2>3. Len(History(o, seen)) \in 0..2
    BY <1>3, HistoryOf
  <2>4. Len(tail) \in {0, 1}
    BY <1>1 DEF TailOk
  <2>5. m \in 0..Len(History(o, seen)) /\ m = Len(History(o, seen))
    BY <1>1, <1>4, <2>1, <2>2, <2>3, <2>4
  <2>6. got.version = m
    BY <2>2, StateAfterIs
  <2>7. StateAfter(o, seen, m) = StateAfter(o, rows, m) /\ m \in 0..Len(History(o, rows))
    BY <1>3, <2>5, StateAfterGrows
  <2>8. Replayed(o, m, rows) = StateAfter(o, rows, m)
    BY <1>3, <2>7, ReplayedIs
  <2> QED BY <2>2, <2>5, <2>6, <2>7, <2>8
<1>10. ObservedResult(r, rows)
  BY <1>6 DEF ObservedResult
<1>11. AcceptedShape(r)
  <2>1. PositivePosition(r)
    BY <1>4, <1>8 DEF PositivePosition
  <2>2. \A p \in r.state \cup r.authority : p.order_id = r.order_id
    BY <1>1, <1>2, <1>5, <1>6 DEF Reduction
  <2>3. CASE status = "RESOLVED_FROM_SNAPSHOT"
    <3>1. r.state # {}
      BY <1>6, <2>3
    <3>2. SnapshotAssistedShape(r)
      BY <1>6, <1>8, <2>1, <2>3, <3>1 DEF SnapshotAssistedShape
    <3> QED BY <1>6, <2>2, <3>2 DEF AcceptedShape, StatesOfThisOrder
  <2>4. CASE status = "TAIL_REPLAY_FAILED"
    <3>1. r.state = {}
      BY <1>6, <2>4
    <3>2. SnapshotAssistedShape(r)
      BY <1>6, <1>8, <2>1, <2>4, <3>1 DEF SnapshotAssistedShape
    <3> QED BY <1>6, <2>2, <3>2 DEF AcceptedShape, StatesOfThisOrder
  <2> QED BY <2>3, <2>4
<1>12. STATUS_MAPPINGS[r.status].ok = FALSE \/ r.state # {}
  <2>1. CASE status = "RESOLVED_FROM_SNAPSHOT"
    BY <1>6, <2>1
  <2>2. CASE status = "TAIL_REPLAY_FAILED"
    BY <1>6, <2>2, OnlyTwoAreOk
  <2> QED BY <2>1, <2>2
<1>13. r.snapshot_id = {p.snapshot_id : p \in r.read.found} /\ r.read.found # {}
  BY <1>6, <1>7 DEF NamesFound
<1>14. ExecutionConstructs(r.status, TraceOf(r))
  <2>1. PICK e : e = History(o, seen)[2]
    OBVIOUS
  <2>2. /\ Len(ReplayStates(s.state, tail)) = IF Replays(s.state, tail) THEN Len(tail) + 1 ELSE 1
        /\ tail = <<>> => Replays(s.state, tail)
    BY <1>5 DEF Reduction
  <2>3. tail # <<>> => n = 1 /\ Len(History(o, seen)) = 2 /\ tail = <<e>>
    BY <1>1, <1>2, <2>1 DEF TailOk
  <2>4. tail # <<>> => e.sequence = 2
    <3>1. PICK h : h = History(o, seen)
      OBVIOUS
    <3>2. LegalHistory(o, h)
      BY <1>3, <3>1, HistoryOf
    <3>3. ASSUME tail # <<>> PROVE h[2].sequence = 2
      <4>1. 2 \in 1..Len(h)
        BY <2>3, <3>1, <3>3
      <4> QED BY <3>2, <4>1 DEF LegalHistory
    <3> QED BY <2>1, <3>1, <3>3
  <2>5. \/ tail = <<>> /\ r.status = "RESOLVED_FROM_SNAPSHOT"
        \/ /\ tail = <<e>> /\ e.sequence = 2 /\ n = 1
           /\ r.status \in {"RESOLVED_FROM_SNAPSHOT", "TAIL_REPLAY_FAILED"}
    BY <1>1, <1>6, <2>2, <2>3, <2>4
  <2>6. Len(ReplayStates(s.state, tail))
          = IF r.status = "RESOLVED_FROM_SNAPSHOT" THEN Len(tail) + 1 ELSE 1
    BY <1>1, <1>6, <2>2
  <2>7. r.read.tail = tail /\ r.read.found = {s}
    BY <1>1, <1>6
  <2> QED BY <1>1, <1>4, <2>5, <2>6, <2>7, TailTrace
<1>15. ReportableResult(r)
  BY <1>11, <1>12, <1>13, <1>14, ReportableIs
<1> QED BY <1>9, <1>10, <1>15 DEF ResultOk

\* The results of a snapshot validation that ends before the tail.  A bad
\* boundary is not reported of a snapshot that is sound in what was seen.
LEMMA EarlyValidation ==
  ASSUME NEW rows, NEW seen, Grows(seen, rows), NEW x, x.call.op = "validate",
         OneView(x) => seen = x.view.events,
         x.found = {} \/ \E s \in x.found : x.found = {s} /\ Built(seen, s),
         \A s \in x.found : s.order_id = x.call.order_id,
         NEW status, NEW auth, NEW a, a.order_id = x.call.order_id,
         \/ status = "NO_ACCEPTED_HISTORY_FOR_ORDER" /\ auth = {}
         \/ status = "MISSING_SNAPSHOT" /\ x.found = {} /\ auth = {a}
         \/ /\ status = "INVALID_SNAPSHOT_BOUNDARY" /\ x.found # {} /\ auth = {a}
            /\ ~SnapshotBoundaryValid(Only(x.found), x.call.order_id,
                                      Len(History(x.call.order_id, seen))),
         NEW r, r = ResultOf(x, status, {}, auth)
  PROVE  ResultOk(r, rows)
<1>1. ResultIs(x, status, {}, auth, r)
  BY ResultFields
<1>2. /\ r.op = "validate" /\ r.order_id = x.call.order_id /\ r.status = status
      /\ r.state = {} /\ r.authority = auth /\ r.read = x
  BY <1>1 DEF ResultIs
<1>3. TrustedResult(r, rows)
  BY <1>2 DEF TrustedResult
<1>4. ASSUME status = "INVALID_SNAPSHOT_BOUNDARY", NEW s \in x.found PROVE ~Sound(s, seen)
  <2>1. x.found = {s} /\ Built(seen, s)
    OBVIOUS
  <2>2. PICK o, n : o = x.call.order_id /\ n = s.source_event_sequence
    OBVIOUS
  <2>3. Only(x.found) = s
    BY <2>1 DEF Only
  <2>4. ~SnapshotBoundaryValid(s, o, Len(History(o, seen)))
    BY <1>4, <2>2, <2>3
  <2>5. s.order_id = o
    BY <2>2
  <2>6. LegalRows(seen)
    BY DEF Grows
  <2>7. n \in {1, 2} /\ s.source_global_position \in Nat \ {0}
    BY <2>1, <2>2, <2>6, BuiltShape
  <2> SUFFICES ASSUME Sound(s, seen) PROVE FALSE
    OBVIOUS
  <2>8. n <= Len(History(o, seen)) /\ s.state = StateAfter(o, seen, n)
    BY <2>2, <2>5, <2>6, <2>7, SoundIs
  <2>9. s.state.version = n /\ s.state.status \in {"CREATED", "PAID"}
    BY <2>7, <2>8, StateAfterIs
  <2>10. UsableBase(s, o)
    BY <2>2, <2>5, <2>7, <2>9 DEF UsableBase
  <2> QED BY <2>2, <2>4, <2>8, <2>10 DEF SnapshotBoundaryValid
<1>5. ObservedResult(r, rows)
  BY <1>2, <1>4 DEF ObservedResult
<1>6. StatesOfThisOrder(r)
  BY <1>2 DEF StatesOfThisOrder
<1>7. status # "MISSING_SNAPSHOT" => NamesFound(x, r)
  BY ResultNames
<1>8. status = "MISSING_SNAPSHOT" => NamesNone(x, status, r)
  BY ResultNamesNone
<1>9. SnapshotReplayShape(r)
  <2>1. CASE status = "NO_ACCEPTED_HISTORY_FOR_ORDER"
    BY <1>2, <1>7, <2>1 DEF SnapshotReplayShape, PairedLineage, NamesFound
  <2>2. CASE status = "MISSING_SNAPSHOT"
    BY <1>2, <1>8, <2>2 DEF SnapshotReplayShape, PairedLineage, NamesNone
  <2>3. CASE status = "INVALID_SNAPSHOT_BOUNDARY"
    BY <1>2, <1>7, <2>3 DEF SnapshotReplayShape, PairedLineage, NamesFound
  <2> QED BY <2>1, <2>2, <2>3
<1>10. AcceptedShape(r)
  BY <1>2, <1>6, <1>9 DEF AcceptedShape
<1>11. STATUS_MAPPINGS[r.status].ok = FALSE
  BY <1>2, OnlyTwoAreOk
<1>12. SnapshotArtifactPresent(r) =>
         r.snapshot_id = {s.snapshot_id : s \in r.read.found} /\ r.read.found # {}
  <2>1. SnapshotArtifactPresent(r) => r.snapshot_id # {}
    BY <1>2 DEF SnapshotArtifactPresent
  <2>2. CASE status = "MISSING_SNAPSHOT"
    BY <1>2, <1>8, <2>1, <2>2 DEF NamesNone
  <2>3. CASE status # "MISSING_SNAPSHOT"
    BY <1>2, <1>7, <2>1, <2>3 DEF NamesFound
  <2> QED BY <2>2, <2>3
<1>13. r.op # "resolve"
  BY <1>2
<1>14. ReportableResult(r)
  BY <1>10, <1>11, <1>12, <1>13, ReportableIs
<1> QED BY <1>3, <1>5, <1>14 DEF ResultOk

\* The comparison: what the snapshot reduces to, the replay of the history
\* that was loaded, and the verdict.
Compared(x, s, got, auth, status) ==
  /\ got = ReplayFrom(s.state, x.tail)
  /\ auth = AuthorityState(x.call, x.authority)
  /\ status = IF Replays(s.state, x.tail) /\ got = auth THEN "MATCH"
              ELSE "SNAPSHOT_ASSISTED_DRIFT"

\* The results of a snapshot validation that has loaded the tail: it matches
\* sound snapshots only, and in one transaction all of them.
LEMMA TailValidation ==
  ASSUME NEW rows, NEW seen, Grows(seen, rows), NEW x, x.call.op = "validate",
         OneView(x) => seen = x.view.events,
         NEW s, x.found = {s}, Built(seen, s), UsableBase(s, x.call.order_id),
         TailOk(s, x.tail, seen), AuthorityOk(x, s, seen),
         s.source_event_sequence + Len(x.tail) >= Len(History(x.call.order_id, seen)),
         NEW got, NEW auth, NEW status, Compared(x, s, got, auth, status),
         NEW r, r = ResultOf(x, status, {got}, {auth})
  PROVE  ResultOk(r, rows) /\ (status = "MATCH" => Sound(s, seen))
<1>1. PICK o, n, tail : o = x.call.order_id /\ n = s.source_event_sequence /\ tail = x.tail
  OBVIOUS
<1> /\ got = ReplayFrom(s.state, x.tail) /\ auth = AuthorityState(x.call, x.authority)
    /\ status = IF Replays(s.state, x.tail) /\ got = auth THEN "MATCH"
                ELSE "SNAPSHOT_ASSISTED_DRIFT"
  BY DEF Compared
<1>2. s.order_id = o
  BY <1>1 DEF UsableBase
<1>3. LegalRows(seen)
  BY DEF Grows
<1>4. n \in {1, 2} /\ s.source_global_position \in Nat \ {0}
  BY <1>1, <1>3, BuiltShape
<1>5. Reduction(s, tail, seen)
  BY <1>1, <1>3, ReductionOf
<1>6. PICK past \in SUBSET seen :
        LegalRows(past) /\ x.authority = History(o, past)
  BY <1>1 DEF AuthorityOk
<1>7. n <= Len(History(o, past)) /\ (OneView(x) => x.authority = History(o, seen))
  BY <1>1, <1>6 DEF AuthorityOk
<1>8. auth = StateAfter(o, past, Len(History(o, past)))
  BY <1>1, <1>6, AuthorityIs
<1>9. ResultIs(x, status, {got}, {auth}, r)
  BY ResultFields
<1>10. /\ r.op = "validate" /\ r.order_id = o /\ r.status = status
       /\ r.state = {got} /\ r.authority = {auth} /\ r.read = x
  BY <1>1, <1>9 DEF ResultIs
<1>11. NamesFound(x, r)
  BY ResultNames
<1>12. r.snapshot_id # {} /\ r.position # {} /\ 0 \notin r.position
  BY <1>4, <1>11 DEF NamesFound
<1>13. ASSUME status = "MATCH" PROVE Sound(s, seen)
  <2>1. Replays(s.state, x.tail) /\ ReplayFrom(s.state, x.tail) = auth
    BY <1>13
  <2> QED BY <1>1, <1>3, <1>6, <1>7, <1>8, <2>1, MatchIsSound
<1>14. ASSUME OneView(x), status = "SNAPSHOT_ASSISTED_DRIFT" PROVE ~Sound(s, seen)
  <2> SUFFICES ASSUME Sound(s, seen) PROVE FALSE
    OBVIOUS
  <2>1. PICK m, l : m = n + Len(tail) /\ l = Len(History(o, seen))
    OBVIOUS
  <2>2. Replays(s.state, tail) /\ got = StateAfter(o, seen, m) /\ m <= l
    BY <1>1, <1>2, <1>5, <2>1 DEF Reduction
  <2>3. l \in 0..2 /\ Len(tail) \in {0, 1}
    <3>1. l \in 0..2
      BY <1>3, <2>1, HistoryOf
    <3>2. Len(tail) \in {0, 1}
      BY <1>1 DEF TailOk
    <3> QED BY <3>1, <3>2
  <2>4. m = l
    BY <1>1, <1>4, <2>1, <2>2, <2>3
  <2>5. auth = StateAfter(o, seen, l)
    <3>1. x.authority = History(x.call.order_id, seen)
      BY <1>1, <1>7, <1>14
    <3>2. AuthorityState(x.call, History(x.call.order_id, seen))
            = StateAfter(x.call.order_id, seen, Len(History(x.call.order_id, seen)))
      BY <1>3, AuthorityIs
    <3> QED BY <1>1, <2>1, <3>1, <3>2
  <2> QED BY <1>1, <1>14, <2>2, <2>4, <2>5
<1>15. TrustedResult(r, rows)
  BY <1>10 DEF TrustedResult
<1>16. ObservedResult(r, rows)
  BY <1>10, <1>13, <1>14 DEF ObservedResult
<1>17. AcceptedShape(r)
  <2>1. got.order_id = o
    BY <1>1, <1>2, <1>5 DEF Reduction
  <2>2. auth.order_id = o
    BY <1>8, StateAfterIs
  <2>3. StatesOfThisOrder(r)
    BY <1>10, <2>1, <2>2 DEF StatesOfThisOrder
  <2>4. CASE status = "MATCH"
    <3>1. r.authority # {} /\ r.authority = r.state
      BY <1>10, <2>4
    <3>2. SnapshotReplayShape(r)
      BY <1>10, <1>12, <2>4, <3>1 DEF SnapshotReplayShape, PairedLineage, PositivePosition
    <3> QED BY <1>10, <2>3, <3>2 DEF AcceptedShape
  <2>5. CASE status = "SNAPSHOT_ASSISTED_DRIFT"
    <3>1. r.authority # {} /\ r.state # {}
      BY <1>10
    <3>2. SnapshotReplayShape(r)
      BY <1>10, <1>12, <2>5, <3>1 DEF SnapshotReplayShape, PairedLineage, PositivePosition
    <3> QED BY <1>10, <2>3, <3>2 DEF AcceptedShape
  <2> QED BY <2>4, <2>5
<1>18. r.state # {}
  BY <1>10
<1>19. r.snapshot_id = {p.snapshot_id : p \in r.read.found} /\ r.read.found # {}
  BY <1>10, <1>11 DEF NamesFound
<1>20. ReportableResult(r)
  <2>1. r.op # "resolve"
    BY <1>10
  <2> QED BY <1>17, <1>18, <1>19, <2>1, ReportableIs
<1> QED BY <1>13, <1>15, <1>16, <1>20 DEF ResultOk

\* The results of a replay validation: a projection that drifts is a replay of
\* the history, and behind what was seen of it.
LEMMA ReplayValidation ==
  ASSUME NEW rows, NEW seen, Grows(seen, rows), NEW x, x.call.op = "replay", x.found = {},
         NEW o, o = x.call.order_id, x.authority = History(o, seen),
         NEW states, LegalStates(seen, states), NEW persisted, persisted = StateOf(o, states),
         NEW a, a = AuthorityState(x.call, x.authority), NEW status, NEW auth,
         \/ status = "NO_ACCEPTED_HISTORY" /\ auth = {}
         \/ status = "MISSING_PROJECTION" /\ persisted = {} /\ auth = {a}
         \/ status = "DRIFT" /\ persisted \notin {{}, {a}} /\ auth = {a}
         \/ status = "MATCH" /\ persisted = {a} /\ auth = {a},
         NEW r, r = ResultOf(x, status, persisted, auth)
  PROVE  ResultOk(r, rows)
<1>1. LegalRows(seen) /\ LegalRows(rows) /\ seen \subseteq rows
  BY DEF Grows
<1>2. PICK l : l = Len(History(o, seen))
  OBVIOUS
<1>3. a = StateAfter(o, seen, l)
  BY <1>1, <1>2, AuthorityIs
<1>4. \A s \in persisted : s \in states /\ s.order_id = o
  BY DEF StateOf
<1>5. \A s, t \in persisted : s = t
  BY <1>4 DEF LegalStates
<1>6. ResultIs(x, status, persisted, auth, r)
  BY ResultFields
<1>7. /\ r.op = "replay" /\ r.order_id = o /\ r.status = status
      /\ r.state = persisted /\ r.authority = auth /\ r.read = x
  BY <1>6 DEF ResultIs
<1>8. ASSUME status = "DRIFT", NEW s \in persisted
      PROVE  s = Replayed(o, s.version, rows) /\ s.version < Len(x.authority)
  <2>1. PICK v \in 1..l : s = StateAfter(o, seen, v)
    BY <1>2, <1>4 DEF LegalStates
  <2>2. l \in 0..2
    BY <1>1, <1>2, HistoryOf
  <2>3. v # l
    <3>1. persisted = {s}
      BY <1>5
    <3>2. s # a
      BY <1>8, <3>1
    <3> QED BY <1>3, <2>1, <3>2
  <2>4. s.version = v
    BY <2>1, StateAfterIs
  <2>5. v \in 0..Len(History(o, seen))
    BY <1>2, <2>2
  <2>6. StateAfter(o, seen, v) = StateAfter(o, rows, v) /\ v \in 0..Len(History(o, rows))
    BY <1>1, <2>5, StateAfterGrows
  <2>7. Replayed(o, v, rows) = StateAfter(o, rows, v)
    BY <1>1, <2>6, ReplayedIs
  <2>8. v < l
    BY <2>2, <2>3
  <2> QED BY <1>2, <2>1, <2>4, <2>6, <2>7, <2>8
<1>9. TrustedResult(r, rows)
  BY <1>7 DEF TrustedResult
<1>10. ObservedResult(r, rows)
  BY <1>7, <1>8 DEF ObservedResult
<1>11. AcceptedShape(r)
  <2>1. a.order_id = o
    BY <1>3, StateAfterIs
  <2>2. StatesOfThisOrder(r)
    BY <1>4, <1>7, <2>1 DEF StatesOfThisOrder
  <2>3. ReplayShape(r)
    <3>1. CASE status = "NO_ACCEPTED_HISTORY"
      BY <1>7, <3>1 DEF ReplayShape
    <3>2. CASE status = "MISSING_PROJECTION"
      BY <1>7, <3>2 DEF ReplayShape
    <3>3. CASE status = "DRIFT"
      BY <1>7, <3>3 DEF ReplayShape
    <3>4. CASE status = "MATCH"
      BY <1>7, <3>4 DEF ReplayShape
    <3> QED BY <3>1, <3>2, <3>3, <3>4
  <2> QED BY <1>7, <2>2, <2>3 DEF AcceptedShape
<1>12. STATUS_MAPPINGS[r.status].ok = FALSE \/ r.state # {}
  <2>1. CASE status = "MATCH"
    BY <1>7, <2>1
  <2>2. CASE status # "MATCH"
    BY <1>7, <2>2, OnlyTwoAreOk
  <2> QED BY <2>1, <2>2
<1>13. ~SnapshotArtifactPresent(r) /\ r.op # "resolve"
  BY <1>7 DEF SnapshotArtifactPresent
<1>14. ReportableResult(r)
  BY <1>11, <1>12, <1>13, ReportableIs
<1> QED BY <1>9, <1>10, <1>14 DEF ResultOk

----------------------------------------------------------------------------
(* The readers' steps.                                                     *)

\* What the last step returned, if anything, has the three properties.
ReturnedOk == \A r \in returned : ResultOk(r, order_events)

\* A reader that has begun a call sees the tables as they are.
LEMMA BeganIs ==
  ASSUME NEW c
  PROVE  \E vouched, view :
           /\ vouched <=> c.trusted \in trusted
           /\ Isolated(c) => view = Tables
           /\ Began(c) = Reading("idle", c, vouched, view, {}, <<>>, <<>>)
<1>1. PICK view : view = IF c.isolation = "REPEATABLE READ" THEN Tables ELSE NoTables
  BY Zenon
<1>2. PICK vouched : vouched = (c.trusted \in trusted)
  BY Zenon
<1>3. Isolated(c) => view = Tables
  BY <1>1, Zenon DEF Isolated
<1>4. Began(c) = [NotReading EXCEPT !.call = c, !.vouched = vouched, !.view = view]
  BY <1>1, <1>2, Zenon DEF Began
<1>5. NotReading = Reading("idle", NoCall, FALSE, NoTables, {}, <<>>, <<>>)
  BY DEF NotReading, Reading
<1>6. Began(c) = Reading("idle", c, vouched, view, {}, <<>>, <<>>)
  BY <1>4, <1>5 DEF Reading
<1> QED BY <1>2, <1>3, <1>6, Zenon

\* The statement is done and another one follows.
LEMMA ReaderContinues ==
  ASSUME IInv, NEW k \in Readers, NEW x, Continue(k, x), UNCHANGED <<tables, savers>>,
         ReaderShape(x), ViewOk(x, order_events), ReaderOk(x, RowsOf(x, order_events))
  PROVE  IInv' /\ ReturnedOk'
<1>1. UNCHANGED <<order_events, projection_states, projection_snapshots, saving, trusted>>
  BY DEF Continue, tables, savers
<1>2. reading' = [reading EXCEPT ![k] = x] /\ returned' = {}
  BY DEF Continue
<1>3. ReadersInv
  BY DEF IInv
<1>4. reading' = [j \in Readers |-> IF j = k THEN x ELSE reading[j]]
  BY <1>2, <1>3 DEF ReadersInv
<1>5. reading' = [j \in Readers |-> reading'[j]] /\ \A j \in Readers : ReaderShape(reading'[j])
  BY <1>3, <1>4 DEF ReadersInv
<1>6. \A j \in Readers : reading'[j].pc # "idle" =>
        ViewOk(reading'[j], order_events) /\ ReaderOk(reading'[j], RowsOf(reading'[j], order_events))
  BY <1>3, <1>4 DEF ReadersInv
<1>7. ReadersInv'
  BY <1>1, <1>5, <1>6, Zenon DEF ReadersInv
<1>8. ReturnedOk'
  BY <1>2 DEF ReturnedOk
<1> QED BY <1>1, <1>7, <1>8, TablesStay, SaversStay, TrustedStay DEF IInv

\* The call returns.
LEMMA ReaderReturns ==
  ASSUME IInv, NEW k \in Readers, NEW x, NEW status, NEW state, NEW auth,
         Return(k, x, status, state, auth), UNCHANGED <<tables, savers>>,
         NEW r, r = ResultOf(x, status, state, auth), ResultOk(r, order_events),
         x.call.op = "validate" /\ status = "MATCH" =>
           \A s \in x.found : SoundId(order_events, s.snapshot_id)
  PROVE  IInv' /\ ReturnedOk'
<1>1. UNCHANGED <<order_events, projection_states, projection_snapshots, saving>>
  BY DEF tables, savers
<1>2. reading' = [reading EXCEPT ![k] = NotReading]
  BY DEF Return
<1>3. returned' = {r}
  BY Zenon DEF Return, ResultOf
<1>4. trusted' = trusted \/ (/\ x.call.op = "validate" /\ status = "MATCH"
                             /\ trusted' = trusted \cup {s.snapshot_id : s \in x.found})
  BY DEF Return
<1>5. ReadersInv
  BY DEF IInv
<1>6. PICK idle : idle = NotReading
  OBVIOUS
<1>7. idle.pc = "idle" /\ ReaderShape(idle)
  <2>1. idle = Reading("idle", NoCall, FALSE, NoTables, {}, <<>>, <<>>)
    BY <1>6 DEF NotReading, Reading
  <2>2. ReaderShape(idle)
    BY <2>1, Zenon DEF ReaderShape
  <2>3. idle.pc = "idle"
    BY <2>1 DEF Reading
  <2> QED BY <2>2, <2>3
<1>8. reading' = [j \in Readers |-> IF j = k THEN idle ELSE reading[j]]
  BY <1>2, <1>5, <1>6 DEF ReadersInv
<1>9. reading' = [j \in Readers |-> reading'[j]] /\ \A j \in Readers : ReaderShape(reading'[j])
  BY <1>5, <1>7, <1>8 DEF ReadersInv
<1>10. \A j \in Readers : reading'[j].pc # "idle" =>
         ViewOk(reading'[j], order_events) /\ ReaderOk(reading'[j], RowsOf(reading'[j], order_events))
  BY <1>5, <1>7, <1>8 DEF ReadersInv
<1>11. ReadersInv'
  BY <1>1, <1>9, <1>10, Zenon DEF ReadersInv
<1>12. TrustedInv'
  <2>1. \A id \in trusted : SoundId(order_events, id)
    BY DEF IInv, TrustedInv
  <2>2. \A id \in trusted' : SoundId(order_events, id)
    BY <1>4, <2>1
  <2> QED BY <1>1, <2>2 DEF TrustedInv
<1>13. ReturnedOk'
  BY <1>1, <1>3 DEF ReturnedOk
<1> QED BY <1>1, <1>11, <1>12, <1>13, TablesStay, SaversStay DEF IInv

\* What a reader that has just begun sees are the committed rows.
LEMMA BeganSees ==
  ASSUME IInv, NEW x, Isolated(x.call) => x.view = Tables
  PROVE  /\ ViewOk(x, order_events) /\ RowsOf(x, order_events) = order_events
         /\ OneView(x) => x.view.events = order_events
<1>1. OneView(x) => x.view.events = order_events /\ x.view.states = projection_states
  BY DEF OneView, Tables
<1>2. LegalRows(order_events) /\ LegalStates(order_events, projection_states)
  BY DEF IInv, TablesInv
<1>3. ViewOk(x, order_events)
  BY <1>1, <1>2 DEF ViewOk
<1>4. RowsOf(x, order_events) = order_events
  BY <1>1 DEF RowsOf
<1> QED BY <1>1, <1>3, <1>4

\* A resolution begins: it has no base, or a usable one.
LEMMA BeginResolveStep ==
  ASSUME IInv, NEW k \in Readers, NEW c, BeginResolve(k, c)
  PROVE  IInv' /\ ReturnedOk'
<1>1. PICK row : row = load_snapshot(c.trusted, projection_snapshots)
  OBVIOUS
<1>2. PICK vouched, view : /\ vouched <=> c.trusted \in trusted
                           /\ Isolated(c) => view = Tables
                           /\ Began(c) = Reading("idle", c, vouched, view, {}, <<>>, <<>>)
  BY BeganIs
<1>3. PICK x : x = Reading("tail", c, vouched, view, row, <<>>, <<>>)
  OBVIOUS
<1>4. [Began(c) EXCEPT !.pc = "tail", !.found = row] = x
  <2>1. PICK b : b = Began(c)
    OBVIOUS
  <2>2. b = Reading("idle", c, vouched, view, {}, <<>>, <<>>)
    BY <1>2, <2>1
  <2>3. PICK y : y = [b EXCEPT !.pc = "tail", !.found = row]
    BY Zenon
  <2>4. y = Reading("tail", c, vouched, view, row, <<>>, <<>>)
    BY <2>2, <2>3 DEF Reading
  <2> QED BY <1>3, <2>1, <2>3, <2>4, Zenon
<1>5. /\ x.pc = "tail" /\ x.call = c /\ x.view = view /\ x.found = row /\ x.authority = <<>>
      /\ x.tail = <<>>
  BY <1>3 DEF Reading
<1>6. x.vouched <=> c.trusted \in trusted
  <2>1. x.vouched = vouched
    BY <1>3 DEF Reading
  <2> QED BY <1>2, <2>1, Zenon
<1>7. c.op = "resolve" /\ UNCHANGED <<tables, savers>>
  BY DEF BeginResolve
<1>8. /\ ViewOk(x, order_events) /\ RowsOf(x, order_events) = order_events
      /\ OneView(x) => x.view.events = order_events
  <2>1. Isolated(x.call) => x.view = Tables
    BY <1>2, <1>5
  <2> QED BY <2>1, BeganSees
<1>9. row = {} \/ \E s \in row : row = {s} /\ Built(order_events, s) /\ s.snapshot_id = c.trusted
  <2>1. \A s \in row : s \in projection_snapshots /\ s.snapshot_id = c.trusted
    BY <1>1 DEF load_snapshot
  <2>2. \A s \in row : Built(order_events, s)
    BY <2>1 DEF IInv, SaversInv
  <2>3. \A s, t \in row : Conflicts(s, t)
    BY <2>1 DEF Conflicts
  <2>4. \A s, t \in row : s = t
    BY <2>1, <2>3 DEF IInv, SaversInv
  <2>5. \A s \in row : row = {s}
    BY <2>4
  <2> QED BY <2>1, <2>2, <2>5
<1>10. \/ c.trusted = NoSnapshot /\ Return(k, x, "INVALID_SNAPSHOT_PRECONDITION", {}, {})
       \/ row = {} /\ Return(k, x, "MISSING_SNAPSHOT", {}, {})
       \/ row # {} /\ Return(k, x, "INVALID_SNAPSHOT_COMPATIBILITY", {}, {})
       \/ row # {} /\ SnapshotCompatible(Only(row), c.order_id) /\ Continue(k, x)
  BY <1>1, <1>4, Zenon DEF BeginResolve
<1>11. ASSUME NEW status, Return(k, x, status, {}, {}),
              \/ status \in {"INVALID_SNAPSHOT_PRECONDITION", "MISSING_SNAPSHOT"}
              \/ status = "INVALID_SNAPSHOT_COMPATIBILITY" /\ row # {}
       PROVE  IInv' /\ ReturnedOk'
  <2>1. PICK r : r = ResultOf(x, status, {}, {})
    OBVIOUS
  <2>2. ResultOk(r, order_events)
    BY <1>5, <1>7, <1>11, <2>1, EarlyResolution
  <2>3. status # "MATCH"
    BY <1>11
  <2> QED BY <1>7, <1>11, <2>1, <2>2, <2>3, ReaderReturns
<1>12. ASSUME row # {}, SnapshotCompatible(Only(row), c.order_id), Continue(k, x)
       PROVE  IInv' /\ ReturnedOk'
  <2>1. PICK s \in row : row = {s} /\ Built(order_events, s) /\ s.snapshot_id = c.trusted
    BY <1>9, <1>12
  <2>2. Only(row) = s
    BY <2>1 DEF Only
  <2>3. UsableBase(s, c.order_id)
    BY <1>12, <2>2 DEF SnapshotCompatible
  <2>4. x.vouched => Sound(s, order_events)
    <3>1. LegalRows(order_events)
      BY DEF IInv, TablesInv
    <3>2. x.vouched => SoundId(order_events, s.snapshot_id)
      BY <1>6, <2>1 DEF IInv, TrustedInv
    <3> QED BY <2>1, <3>1, <3>2, SoundById
  <2>5. ReaderOk(x, order_events)
    BY <1>5, <1>7, <2>1, <2>3, <2>4 DEF ReaderOk, TailOk
  <2>6. ReaderShape(x)
    BY <1>3, Zenon DEF ReaderShape
  <2>7. ReaderOk(x, RowsOf(x, order_events))
    BY <1>8, <2>5
  <2> QED BY <1>7, <1>8, <1>12, <2>6, <2>7, ReaderContinues
<1>13. CASE Return(k, x, "INVALID_SNAPSHOT_PRECONDITION", {}, {})
  BY <1>11, <1>13
<1>14. CASE Return(k, x, "MISSING_SNAPSHOT", {}, {})
  BY <1>11, <1>14
<1>15. CASE row # {} /\ Return(k, x, "INVALID_SNAPSHOT_COMPATIBILITY", {}, {})
  BY <1>11, <1>15
<1> QED BY <1>10, <1>12, <1>13, <1>14, <1>15

\* A snapshot validation begins with the latest snapshot of the order, of
\* which there is one at most.
LEMMA BeginValidateStep ==
  ASSUME IInv, NEW k \in Readers, NEW c, BeginValidate(k, c)
  PROVE  IInv' /\ ReturnedOk'
<1>1. PICK row : row = load_latest_snapshot(c.order_id, projection_snapshots)
  OBVIOUS
<1>2. PICK vouched, view : /\ vouched <=> c.trusted \in trusted
                           /\ Isolated(c) => view = Tables
                           /\ Began(c) = Reading("idle", c, vouched, view, {}, <<>>, <<>>)
  BY BeganIs
<1>3. PICK x : x = Reading("history", c, vouched, view, row, <<>>, <<>>)
  OBVIOUS
<1>4. [Began(c) EXCEPT !.pc = "history", !.found = row] = x
  <2>1. PICK b : b = Began(c)
    OBVIOUS
  <2>2. b = Reading("idle", c, vouched, view, {}, <<>>, <<>>)
    BY <1>2, <2>1
  <2>3. PICK y : y = [b EXCEPT !.pc = "history", !.found = row]
    BY Zenon
  <2>4. y = Reading("history", c, vouched, view, row, <<>>, <<>>)
    BY <2>2, <2>3 DEF Reading
  <2> QED BY <1>3, <2>1, <2>3, <2>4, Zenon
<1>5. x.pc = "history" /\ x.call = c /\ x.view = view /\ x.found = row /\ x.tail = <<>>
  BY <1>3 DEF Reading
<1>6. c.op = "validate" /\ UNCHANGED <<tables, savers>>
  BY DEF BeginValidate
<1>7. Continue(k, x)
  BY <1>1, <1>4, Zenon DEF BeginValidate
<1>8. ViewOk(x, order_events) /\ RowsOf(x, order_events) = order_events
  <2>1. Isolated(x.call) => x.view = Tables
    BY <1>2, <1>5
  <2>2. /\ ViewOk(x, order_events) /\ RowsOf(x, order_events) = order_events
        /\ OneView(x) => x.view.events = order_events
    BY <2>1, BeganSees
  <2> QED BY <2>2
<1>9. \A s \in row : /\ s \in projection_snapshots /\ s.order_id = c.order_id
                     /\ \A t \in row : t.source_event_sequence <= s.source_event_sequence
  BY <1>1 DEF load_latest_snapshot
<1>10. \A s \in row : Built(order_events, s)
  BY <1>9 DEF IInv, SaversInv
<1>11. ASSUME NEW s \in row PROVE s.source_event_sequence \in Int
  <2>1. LegalRows(order_events) /\ Built(order_events, s)
    BY <1>10 DEF IInv, TablesInv
  <2>2. s.source_event_sequence \in {1, 2}
    BY <2>1, BuiltShape
  <2> QED BY <2>2
<1>12. ASSUME NEW s \in row, NEW t \in row PROVE s = t
  <2>1. s.source_event_sequence = t.source_event_sequence
    BY <1>9, <1>11
  <2>2. Conflicts(s, t)
    BY <1>9, <2>1 DEF Conflicts
  <2> QED BY <1>9, <2>2 DEF IInv, SaversInv
<1>13. row = {} \/ \E s \in row : row = {s} /\ Built(order_events, s)
  <2>1. \A s \in row : row = {s}
    BY <1>12
  <2> QED BY <1>10, <2>1
<1>14. ReaderOk(x, RowsOf(x, order_events))
  BY <1>5, <1>6, <1>8, <1>9, <1>13 DEF ReaderOk
<1>15. ReaderShape(x)
  BY <1>3, Zenon DEF ReaderShape
<1> QED BY <1>6, <1>7, <1>8, <1>14, <1>15, ReaderContinues

\* A replay validation begins with the history.
LEMMA BeginReplayStep ==
  ASSUME IInv, NEW k \in Readers, NEW c, BeginReplay(k, c)
  PROVE  IInv' /\ ReturnedOk'
<1>1. PICK events : events = History(c.order_id, order_events)
  OBVIOUS
<1>2. PICK vouched, view : /\ vouched <=> c.trusted \in trusted
                           /\ Isolated(c) => view = Tables
                           /\ Began(c) = Reading("idle", c, vouched, view, {}, <<>>, <<>>)
  BY BeganIs
<1>3. PICK x : x = Reading("state", c, vouched, view, {}, events, <<>>)
  OBVIOUS
<1>4. [Began(c) EXCEPT !.pc = "state", !.authority = events] = x
  <2>1. PICK b : b = Began(c)
    OBVIOUS
  <2>2. b = Reading("idle", c, vouched, view, {}, <<>>, <<>>)
    BY <1>2, <2>1
  <2>3. PICK y : y = [b EXCEPT !.pc = "state", !.authority = events]
    BY Zenon
  <2>4. y = Reading("state", c, vouched, view, {}, events, <<>>)
    BY <2>2, <2>3 DEF Reading
  <2> QED BY <1>3, <2>1, <2>3, <2>4, Zenon
<1>5. x.pc = "state" /\ x.call = c /\ x.view = view /\ x.found = {} /\ x.authority = events
  BY <1>3 DEF Reading
<1>6. c.op = "replay" /\ Isolated(c) /\ UNCHANGED <<tables, savers>>
  BY Zenon DEF BeginReplay, Isolated
<1>7. Continue(k, x)
  BY <1>1, <1>4, Zenon DEF BeginReplay
<1>8. ViewOk(x, order_events) /\ RowsOf(x, order_events) = order_events
  <2>1. Isolated(x.call) => x.view = Tables
    BY <1>2, <1>5
  <2>2. /\ ViewOk(x, order_events) /\ RowsOf(x, order_events) = order_events
        /\ OneView(x) => x.view.events = order_events
    BY <2>1, BeganSees
  <2> QED BY <2>2
<1>9. ReaderOk(x, RowsOf(x, order_events))
  BY <1>1, <1>5, <1>6, <1>8 DEF ReaderOk, OneView
<1>10. ReaderShape(x)
  BY <1>3, Zenon DEF ReaderShape
<1> QED BY <1>6, <1>7, <1>8, <1>9, <1>10, ReaderContinues

\* What the invariant says of a reader that is in a call.
LEMMA ReaderIs ==
  ASSUME IInv, NEW k \in Readers, reading[k].pc # "idle", NEW x, x = reading[k],
         NEW seen, seen = RowsOf(x, order_events)
  PROVE  /\ ViewOk(x, order_events) /\ ReaderOk(x, seen) /\ ReaderShape(x)
         /\ Seen(k).events = seen /\ (OneView(x) => Seen(k) = x.view /\ seen = x.view.events)
         /\ Grows(seen, order_events)
<1>1. ViewOk(x, order_events) /\ ReaderOk(x, seen) /\ ReaderShape(x)
  BY DEF IInv, ReadersInv
<1>2. Seen(k) = IF OneView(x) THEN x.view ELSE Tables
  BY Zenon DEF Seen, OneView, Isolated
<1>3. LegalRows(order_events)
  BY DEF IInv, TablesInv
<1>4. CASE OneView(x)
  <2>1. seen = x.view.events /\ Seen(k) = x.view
    BY <1>2, <1>4 DEF RowsOf
  <2>2. Grows(seen, order_events)
    BY <1>1, <1>3, <1>4, <2>1 DEF ViewOk, Grows
  <2> QED BY <1>1, <2>1, <2>2
<1>5. CASE ~OneView(x)
  <2>1. seen = order_events /\ Seen(k) = Tables
    BY <1>2, <1>5 DEF RowsOf
  <2>2. Seen(k).events = seen
    BY <2>1 DEF Tables
  <2>3. Grows(seen, order_events)
    BY <1>3, <2>1 DEF Grows
  <2> QED BY <1>1, <1>5, <2>2, <2>3
<1> QED BY <1>4, <1>5

\* The validation loads the history.
LEMMA LoadHistoryStep ==
  ASSUME IInv, NEW k \in Readers, LoadHistory(k)
  PROVE  IInv' /\ ReturnedOk'
<1>1. PICK x : x = reading[k]
  OBVIOUS
<1>2. PICK seen : seen = RowsOf(x, order_events)
  OBVIOUS
<1>3. x.pc = "history" /\ UNCHANGED <<tables, savers>>
  BY <1>1 DEF LoadHistory
<1>4. /\ ViewOk(x, order_events) /\ ReaderOk(x, seen) /\ ReaderShape(x)
      /\ Seen(k).events = seen /\ (OneView(x) => Seen(k) = x.view /\ seen = x.view.events)
      /\ Grows(seen, order_events)
  BY <1>1, <1>2, <1>3, ReaderIs
<1>5. PICK o, events, row, a : /\ o = x.call.order_id /\ events = History(o, seen)
                               /\ row = x.found /\ a = AuthorityState(x.call, events)
  OBVIOUS
<1>6. PICK pc, call, vouched, view, found, authority, tail :
        x = Reading(pc, call, vouched, view, found, authority, tail)
  BY <1>4 DEF ReaderShape
<1>7. PICK y : y = Reading("tail", call, vouched, view, found, events, tail)
  OBVIOUS
<1>8. [x EXCEPT !.pc = "tail", !.authority = events] = y
  <2>1. PICK z : z = [x EXCEPT !.pc = "tail", !.authority = events]
    BY Zenon
  <2>2. z = Reading("tail", call, vouched, view, found, events, tail)
    BY <1>6, <2>1 DEF Reading
  <2> QED BY <1>7, <2>1, <2>2, Zenon
<1>9. y.pc = "tail" /\ y.call = x.call /\ y.view = x.view /\ y.found = row
      /\ y.authority = events /\ y.tail = x.tail
  BY <1>5, <1>6, <1>7 DEF Reading
<1>10. x.call.op = "validate" /\ x.tail = <<>> /\ (\A s \in row : s.order_id = o)
       /\ (row = {} \/ \E s \in row : row = {s} /\ Built(seen, s))
  BY <1>3, <1>4, <1>5 DEF ReaderOk
<1>11. \/ events = <<>> /\ Return(k, y, "NO_ACCEPTED_HISTORY_FOR_ORDER", {}, {})
       \/ row = {} /\ Return(k, y, "MISSING_SNAPSHOT", {}, {a})
       \/ /\ row # {} /\ ~SnapshotBoundaryValid(Only(row), o, Len(events))
          /\ Return(k, y, "INVALID_SNAPSHOT_BOUNDARY", {}, {a})
       \/ row # {} /\ SnapshotBoundaryValid(Only(row), o, Len(events)) /\ Continue(k, y)
  <2>1. /\ reading[k].call = x.call /\ History(reading[k].call.order_id, Seen(k).events) = events
        /\ reading[k].found = row /\ x.call.order_id = o
    BY <1>1, <1>4, <1>5
  <2>2. [reading[k] EXCEPT !.pc = "tail", !.authority = events] = y
    BY <1>1, <1>8, Zenon
  <2> QED BY <1>5, <2>1, <2>2, Zenon DEF LoadHistory
<1>12. OneView(y) <=> OneView(x)
  BY <1>9 DEF OneView
<1>13. LegalRows(seen)
  BY <1>4 DEF Grows
<1>14. a.order_id = o
  <2>1. a = StateAfter(o, seen, Len(History(o, seen)))
    BY <1>5, <1>13, AuthorityIs
  <2> QED BY <2>1, StateAfterIs
<1>15. ASSUME NEW status, NEW auth, Return(k, y, status, {}, auth),
              \/ status = "NO_ACCEPTED_HISTORY_FOR_ORDER" /\ auth = {}
              \/ status = "MISSING_SNAPSHOT" /\ row = {} /\ auth = {a}
              \/ /\ status = "INVALID_SNAPSHOT_BOUNDARY" /\ row # {} /\ auth = {a}
                 /\ ~SnapshotBoundaryValid(Only(row), o, Len(History(o, seen)))
       PROVE  IInv' /\ ReturnedOk'
  <2>1. PICK r : r = ResultOf(y, status, {}, auth)
    OBVIOUS
  <2>2. OneView(y) => seen = y.view.events
    BY <1>4, <1>9, <1>12
  <2>3. /\ y.call.op = "validate" /\ a.order_id = y.call.order_id
        /\ y.found = {} \/ \E s \in y.found : y.found = {s} /\ Built(seen, s)
        /\ \A s \in y.found : s.order_id = y.call.order_id
    BY <1>5, <1>9, <1>10, <1>14
  <2>4. \/ status = "NO_ACCEPTED_HISTORY_FOR_ORDER" /\ auth = {}
        \/ status = "MISSING_SNAPSHOT" /\ y.found = {} /\ auth = {a}
        \/ /\ status = "INVALID_SNAPSHOT_BOUNDARY" /\ y.found # {} /\ auth = {a}
           /\ ~SnapshotBoundaryValid(Only(y.found), y.call.order_id,
                                     Len(History(y.call.order_id, seen)))
    BY <1>5, <1>9, <1>15
  <2>5. ResultOk(r, order_events)
    BY <1>4, <2>1, <2>2, <2>3, <2>4, EarlyValidation
  <2>6. status # "MATCH"
    BY <1>15
  <2> QED BY <1>3, <1>15, <2>1, <2>5, <2>6, ReaderReturns
<1>16. ASSUME row # {}, SnapshotBoundaryValid(Only(row), o, Len(events)), Continue(k, y)
       PROVE  IInv' /\ ReturnedOk'
  <2>1. PICK s \in row : row = {s} /\ Built(seen, s)
    BY <1>10, <1>16
  <2>2. Only(row) = s
    BY <2>1 DEF Only
  <2>3. UsableBase(s, o) /\ s.source_event_sequence <= Len(events)
    BY <1>16, <2>2 DEF SnapshotBoundaryValid
  <2>4. AuthorityOk(y, s, seen)
    <3>1. seen \in SUBSET seen
      OBVIOUS
    <3>2. y.authority = History(y.call.order_id, seen)
      BY <1>5, <1>9
    <3> QED BY <1>9, <1>13, <2>3, <3>1, <3>2 DEF AuthorityOk
  <2>5. ReaderOk(y, seen)
    BY <1>5, <1>9, <1>10, <2>1, <2>3, <2>4 DEF ReaderOk, TailOk
  <2>6. ReaderShape(y)
    BY <1>7, Zenon DEF ReaderShape
  <2>7. RowsOf(y, order_events) = seen
    BY <1>2, <1>9, <1>12 DEF RowsOf
  <2>8. ViewOk(y, order_events)
    BY <1>4, <1>9, <1>12 DEF ViewOk
  <2>9. ReaderOk(y, RowsOf(y, order_events))
    BY <2>5, <2>7
  <2> QED BY <1>3, <1>16, <2>6, <2>8, <2>9, ReaderContinues
<1>17. CASE Return(k, y, "NO_ACCEPTED_HISTORY_FOR_ORDER", {}, {})
  BY <1>15, <1>17
<1>18. CASE row = {} /\ Return(k, y, "MISSING_SNAPSHOT", {}, {a})
  BY <1>15, <1>18
<1>19. CASE /\ row # {} /\ ~SnapshotBoundaryValid(Only(row), o, Len(events))
            /\ Return(k, y, "INVALID_SNAPSHOT_BOUNDARY", {}, {a})
  BY <1>5, <1>15, <1>19
<1> QED BY <1>11, <1>16, <1>17, <1>18, <1>19

\* The replay validation loads the projection.
LEMMA LoadStateStep ==
  ASSUME IInv, NEW k \in Readers, LoadState(k)
  PROVE  IInv' /\ ReturnedOk'
<1>1. PICK x : x = reading[k]
  OBVIOUS
<1>2. PICK seen : seen = RowsOf(x, order_events)
  OBVIOUS
<1>3. x.pc = "state" /\ UNCHANGED <<tables, savers>>
  BY <1>1 DEF LoadState
<1>4. /\ ViewOk(x, order_events) /\ ReaderOk(x, seen) /\ ReaderShape(x)
      /\ Seen(k).events = seen /\ (OneView(x) => Seen(k) = x.view /\ seen = x.view.events)
      /\ Grows(seen, order_events)
  BY <1>1, <1>2, <1>3, ReaderIs
<1>5. x.call.op = "replay" /\ OneView(x) /\ x.found = {}
      /\ x.authority = History(x.call.order_id, seen)
  BY <1>3, <1>4 DEF ReaderOk
<1>6. PICK o, states : o = x.call.order_id /\ states = x.view.states
  OBVIOUS
<1>7. LegalStates(seen, states)
  BY <1>4, <1>5, <1>6 DEF ViewOk
<1>8. PICK persisted, a : persisted = StateOf(o, states) /\ a = AuthorityState(x.call, x.authority)
  OBVIOUS
<1>9. \/ Return(k, x, "NO_ACCEPTED_HISTORY", persisted, {})
      \/ persisted = {} /\ Return(k, x, "MISSING_PROJECTION", {}, {a})
      \/ persisted \notin {{}, {a}} /\ Return(k, x, "DRIFT", persisted, {a})
      \/ persisted = {a} /\ Return(k, x, "MATCH", persisted, {a})
  <2>1. StateOf(reading[k].call.order_id, Seen(k).states) = persisted
    BY <1>1, <1>4, <1>5, <1>6, <1>8
  <2> QED BY <1>1, <1>8, <2>1, Zenon DEF LoadState
<1>10. ASSUME NEW status, NEW auth, Return(k, x, status, persisted, auth),
              \/ status = "NO_ACCEPTED_HISTORY" /\ auth = {}
              \/ status = "MISSING_PROJECTION" /\ persisted = {} /\ auth = {a}
              \/ status = "DRIFT" /\ persisted \notin {{}, {a}} /\ auth = {a}
              \/ status = "MATCH" /\ persisted = {a} /\ auth = {a}
       PROVE  IInv' /\ ReturnedOk'
  <2>1. PICK r : r = ResultOf(x, status, persisted, auth)
    OBVIOUS
  <2>2. x.authority = History(o, seen)
    BY <1>5, <1>6
  <2>3. ResultOk(r, order_events)
    BY <1>4, <1>5, <1>6, <1>7, <1>8, <1>10, <2>1, <2>2, ReplayValidation
  <2>4. x.call.op # "validate"
    BY <1>5
  <2> QED BY <1>3, <1>10, <2>1, <2>3, <2>4, ReaderReturns
<1>11. CASE Return(k, x, "NO_ACCEPTED_HISTORY", persisted, {})
  BY <1>10, <1>11
<1>12. CASE persisted = {} /\ Return(k, x, "MISSING_PROJECTION", {}, {a})
  BY <1>10, <1>12
<1>13. CASE persisted \notin {{}, {a}} /\ Return(k, x, "DRIFT", persisted, {a})
  BY <1>10, <1>13
<1>14. CASE persisted = {a} /\ Return(k, x, "MATCH", persisted, {a})
  BY <1>10, <1>14
<1> QED BY <1>9, <1>11, <1>12, <1>13, <1>14

\* A match is of a snapshot that is sound in all that is committed.
LEMMA MatchedId ==
  ASSUME NEW rows, NEW seen, Grows(seen, rows), NEW s, Built(seen, s), Sound(s, seen)
  PROVE  SoundId(rows, s.snapshot_id)
<1>1. LegalRows(seen) /\ LegalRows(rows) /\ seen \subseteq rows
  BY DEF Grows
<1>2. SoundId(seen, s.snapshot_id)
  BY <1>1, SoundById
<1> QED BY <1>1, <1>2, SoundIdGrows

\* The resolution or the validation loads a page of the tail: its one event,
\* or none, and then what it has is reduced.  The page is always contiguous.
LEMMA LoadTailPageStep ==
  ASSUME SnapshotsAssumption, IInv, NEW k \in Readers, LoadTailPage(k)
  PROVE  IInv' /\ ReturnedOk'
<1>1. PICK x : x = reading[k]
  OBVIOUS
<1>2. PICK seen : seen = RowsOf(x, order_events)
  OBVIOUS
<1>3. x.pc = "tail" /\ UNCHANGED <<tables, savers>>
  BY <1>1 DEF LoadTailPage
<1>4. /\ ViewOk(x, order_events) /\ ReaderOk(x, seen) /\ ReaderShape(x)
      /\ Seen(k).events = seen /\ (OneView(x) => Seen(k) = x.view /\ seen = x.view.events)
      /\ Grows(seen, order_events)
  BY <1>1, <1>2, <1>3, ReaderIs
<1>5. LegalRows(seen)
  BY <1>4 DEF Grows
<1>6. PICK s \in x.found :
        /\ UsableBase(s, x.call.order_id) /\ TailOk(s, x.tail, seen)
        /\ x.call.op = "validate" => AuthorityOk(x, s, seen)
        /\ x.call.op = "resolve" /\ x.vouched => Sound(s, seen)
  BY <1>3, <1>4 DEF ReaderOk
<1>7. /\ x.found = {s} /\ Built(seen, s)
      /\ x.call.op \in {"resolve", "validate"}
  BY <1>3, <1>4, <1>6 DEF ReaderOk
<1>8. PICK o, n, h, tail : /\ o = x.call.order_id /\ n = s.source_event_sequence
                           /\ h = History(o, seen) /\ tail = x.tail
  OBVIOUS
<1>9. s.order_id = o
  BY <1>6, <1>8 DEF UsableBase
<1>10. n \in {1, 2}
  BY <1>5, <1>7, <1>8, BuiltShape
<1>11. Len(h) \in 0..2 /\ LegalHistory(o, h)
  BY <1>5, <1>8, HistoryOf
<1>12. tail = <<>> \/ (n = 1 /\ Len(h) = 2 /\ tail = <<h[2]>>)
  BY <1>6, <1>8, <1>9 DEF TailOk
<1>13. PICK m : m = n + Len(tail)
  OBVIOUS
<1>14. m \in {1, 2} /\ (m = 1 => n = 1 /\ tail = <<>>)
  <2>1. CASE tail = <<>>
    BY <1>10, <1>13, <2>1
  <2>2. CASE n = 1 /\ tail = <<h[2]>>
    <3>1. Len(tail) = 1
      BY <2>2
    <3> QED BY <1>13, <2>2, <3>1
  <2> QED BY <1>12, <2>1, <2>2
<1>15. PICK page : page = load_after_sequence(o, m, seen)
  OBVIOUS
<1>16. page = IF m < Len(h) THEN <<h[2]>> ELSE <<>>
  BY <1>5, <1>8, <1>14, <1>15, PageIs
<1>17. m < Len(h) => m = 1 /\ Len(h) = 2
  <2>1. Len(h) \in 0..2 /\ m \in {1, 2}
    BY <1>11, <1>14
  <2>2. PICK l \in 0..2 : l = Len(h)
    BY <2>1
  <2>3. m < l => m = 1 /\ l = 2
    BY <2>1
  <2> QED BY <2>2, <2>3
<1>18. Contiguous(o, m, page)
  <2>1. CASE m < Len(h)
    <3>1. page = <<h[2]>> /\ m = 1 /\ Len(h) = 2
      BY <1>16, <1>17, <2>1
    <3>2. 2 \in 1..Len(h)
      BY <3>1
    <3>3. h[2].order_id = o /\ h[2].sequence = 2
      BY <1>11, <3>2 DEF LegalHistory
    <3>4. Len(page) = 1 /\ page[1] = h[2]
      BY <3>1
    <3>5. ASSUME NEW i \in 1..Len(page) PROVE page[i].order_id = o /\ page[i].sequence = m + i
      <4>1. i = 1
        BY <3>4
      <4> QED BY <3>1, <3>3, <3>4, <4>1
    <3> QED BY <3>5 DEF Contiguous
  <2>2. CASE ~(m < Len(h))
    <3>1. page = <<>>
      BY <1>16, <2>2
    <3>2. 1..Len(page) = {}
      BY <3>1
    <3> QED BY <3>2 DEF Contiguous
  <2> QED BY <2>1, <2>2
<1>19. Only(x.found) = s
  BY <1>7 DEF Only
<1>20. \/ page # <<>> /\ Continue(k, [x EXCEPT !.tail = @ \o page])
       \/ page = <<>> /\ Reduced(k, x)
  <2>1. Only(reading[k].found).source_event_sequence + Len(reading[k].tail) = m
    BY <1>1, <1>8, <1>13, <1>19
  <2>2. load_after_sequence(reading[k].call.order_id, m, Seen(k).events) = page
    BY <1>1, <1>4, <1>8, <1>15
  <2>3. Contiguous(reading[k].call.order_id, m, page)
    BY <1>1, <1>8, <1>18
  <2> QED BY <1>1, <2>1, <2>2, <2>3, Zenon DEF LoadTailPage
<1>21. ASSUME page # <<>>, Continue(k, [x EXCEPT !.tail = @ \o page])
       PROVE  IInv' /\ ReturnedOk'
  <2>1. page = <<h[2]>> /\ m = 1 /\ n = 1 /\ tail = <<>> /\ Len(h) = 2
    BY <1>14, <1>16, <1>17, <1>21
  <2>2. PICK pc, call, vouched, view, found, authority, old :
          x = Reading(pc, call, vouched, view, found, authority, old)
    BY <1>4 DEF ReaderShape
  <2>3. PICK y : y = Reading(pc, call, vouched, view, found, authority, page)
    OBVIOUS
  <2>4. x.tail = old
    BY <2>2 DEF Reading
  <2>5. old \o page = page
    <3>1. PICK e : e = h[2]
      OBVIOUS
    <3>2. old = <<>> /\ page = <<e>>
      BY <1>8, <2>1, <2>4, <3>1
    <3>3. <<>> \o <<e>> = <<e>>
      OBVIOUS
    <3> QED BY <3>2, <3>3, Zenon
  <2>6. [x EXCEPT !.tail = @ \o page] = y
    <3>1. PICK z : z = [x EXCEPT !.tail = page]
      BY Zenon
    <3>2. z = Reading(pc, call, vouched, view, found, authority, page)
      BY <2>2, <3>1 DEF Reading
    <3>3. x.tail \o page = page
      BY <2>4, <2>5
    <3> QED BY <2>3, <3>1, <3>2, <3>3, Zenon
  <2>7. /\ y.pc = x.pc /\ y.call = x.call /\ y.view = x.view /\ y.found = x.found
        /\ y.authority = x.authority /\ y.tail = page
    BY <2>2, <2>3 DEF Reading
  <2>8. y.vouched = x.vouched
    BY <2>2, <2>3 DEF Reading
  <2>9. OneView(y) <=> OneView(x)
    BY <2>7 DEF OneView
  <2>10. RowsOf(y, order_events) = seen
    BY <1>2, <2>7, <2>9 DEF RowsOf
  <2>11. ViewOk(y, order_events)
    BY <1>4, <2>7, <2>9 DEF ViewOk
  <2>12. TailOk(s, y.tail, seen)
    BY <1>8, <1>9, <2>1, <2>7 DEF TailOk
  <2>13. y.call.op = "validate" => AuthorityOk(y, s, seen)
    BY <1>6, <2>7, <2>9 DEF AuthorityOk
  <2>14. y.call.op = "resolve" /\ y.vouched => Sound(s, seen)
    BY <1>6, <2>7, <2>8, Zenon
  <2>15. ReaderOk(y, seen)
    <3>1. y.found = {s} /\ s \in y.found /\ y.pc = "tail"
      BY <1>3, <1>7, <2>7
    <3>2. UsableBase(s, y.call.order_id) /\ y.call.op \in {"resolve", "validate"}
      BY <1>6, <1>7, <2>7
    <3> QED BY <1>7, <2>12, <2>13, <2>14, <3>1, <3>2 DEF ReaderOk
  <2>16. ReaderShape(y)
    BY <2>3, Zenon DEF ReaderShape
  <2>17. ReaderOk(y, RowsOf(y, order_events))
    BY <2>10, <2>15
  <2>18. Continue(k, y)
    BY <1>21, <2>6, Zenon
  <2> QED BY <1>3, <2>11, <2>16, <2>17, <2>18, ReaderContinues
<1>22. ASSUME page = <<>>, Reduced(k, x) PROVE IInv' /\ ReturnedOk'
  <2>1. ~(m < Len(h))
    <3> SUFFICES ASSUME m < Len(h) PROVE FALSE
      OBVIOUS
    <3>1. page = <<h[2]>>
      BY <1>16
    <3> QED BY <1>22, <3>1
  <2>2. s.source_event_sequence + Len(x.tail) >= Len(History(x.call.order_id, seen))
    BY <1>8, <1>11, <1>13, <1>14, <2>1
  <2>3. PICK got, whole, auth : /\ got = ReplayFrom(s.state, x.tail)
                                /\ whole = Replays(s.state, x.tail)
                                /\ auth = AuthorityState(x.call, x.authority)
    BY Zenon
  <2>4. \/ x.call.op = "resolve" /\ whole /\ Return(k, x, "RESOLVED_FROM_SNAPSHOT", {got}, {})
        \/ x.call.op = "resolve" /\ ~whole /\ Return(k, x, "TAIL_REPLAY_FAILED", {}, {})
        \/ /\ x.call.op = "validate" /\ whole /\ got = auth
           /\ Return(k, x, "MATCH", {got}, {auth})
        \/ /\ x.call.op = "validate" /\ ~(whole /\ got = auth)
           /\ Return(k, x, "SNAPSHOT_ASSISTED_DRIFT", {got}, {auth})
    BY <1>19, <1>22, <2>3, Zenon DEF Reduced, Hydrated, SameState
  <2>5. whole <=> Replays(s.state, x.tail)
    BY <2>3, Zenon
  <2>6. ASSUME NEW status, NEW state, Return(k, x, status, state, {}), x.call.op = "resolve",
               \/ /\ Replays(s.state, x.tail) /\ status = "RESOLVED_FROM_SNAPSHOT"
                  /\ state = {ReplayFrom(s.state, x.tail)}
               \/ ~Replays(s.state, x.tail) /\ status = "TAIL_REPLAY_FAILED" /\ state = {}
        PROVE  IInv' /\ ReturnedOk'
    <3>1. PICK r : r = ResultOf(x, status, state, {})
      OBVIOUS
    <3>2. x.vouched => Sound(s, seen)
      BY <1>6, <2>6
    <3>3. OneView(x) => seen = x.view.events
      BY <1>4
    <3>4. ResultOk(r, order_events)
      BY <1>4, <1>6, <1>7, <2>2, <2>6, <3>1, <3>2, <3>3, TailResolution
    <3>5. x.call.op # "validate"
      BY <2>6
    <3> QED BY <1>3, <2>6, <3>1, <3>4, <3>5, ReaderReturns
  <2>7. ASSUME NEW status, Return(k, x, status, {got}, {auth}), x.call.op = "validate",
               Compared(x, s, got, auth, status)
        PROVE  IInv' /\ ReturnedOk'
    <3>1. PICK r : r = ResultOf(x, status, {got}, {auth})
      OBVIOUS
    <3>3. OneView(x) => seen = x.view.events
      BY <1>4
    <3>4. AuthorityOk(x, s, seen)
      BY <1>6, <2>7
    <3>5. ResultOk(r, order_events) /\ (status = "MATCH" => Sound(s, seen))
      <4>1. /\ Grows(seen, order_events) /\ x.found = {s} /\ Built(seen, s)
            /\ UsableBase(s, x.call.order_id) /\ TailOk(s, x.tail, seen)
        BY <1>4, <1>6, <1>7
      <4> QED BY <2>2, <2>7, <3>1, <3>3, <3>4, <4>1, TailValidation
    <3>6. status = "MATCH" => SoundId(order_events, s.snapshot_id)
      BY <1>4, <1>7, <3>5, MatchedId
    <3>7. x.call.op = "validate" /\ status = "MATCH" =>
            \A p \in x.found : SoundId(order_events, p.snapshot_id)
      BY <1>7, <3>6
    <3> QED BY <1>3, <2>7, <3>1, <3>5, <3>7, ReaderReturns
  <2>8. CASE x.call.op = "resolve" /\ whole /\ Return(k, x, "RESOLVED_FROM_SNAPSHOT", {got}, {})
    <3>1. Replays(s.state, x.tail) /\ got = ReplayFrom(s.state, x.tail)
      BY <2>3, <2>8, Zenon
    <3> QED BY <2>6, <2>8, <3>1
  <2>9. CASE x.call.op = "resolve" /\ ~whole /\ Return(k, x, "TAIL_REPLAY_FAILED", {}, {})
    <3>1. ~Replays(s.state, x.tail)
      BY <2>3, <2>9, Zenon
    <3> QED BY <2>6, <2>9, <3>1
  <2>10. CASE /\ x.call.op = "validate" /\ whole /\ got = auth
              /\ Return(k, x, "MATCH", {got}, {auth})
    <3>1. Compared(x, s, got, auth, "MATCH")
      BY <2>3, <2>10, Zenon DEF Compared
    <3> QED BY <2>7, <2>10, <3>1
  <2>11. CASE /\ x.call.op = "validate" /\ ~(whole /\ got = auth)
              /\ Return(k, x, "SNAPSHOT_ASSISTED_DRIFT", {got}, {auth})
    <3>1. Compared(x, s, got, auth, "SNAPSHOT_ASSISTED_DRIFT")
      BY <2>3, <2>11, Zenon DEF Compared
    <3> QED BY <2>7, <2>11, <3>1
  <2> QED BY <2>4, <2>8, <2>9, <2>10, <2>11, Zenon
<1> QED BY <1>20, <1>21, <1>22

----------------------------------------------------------------------------
(* The theorems.                                                           *)

\* The invariant and what the last step returned hold initially, ...
LEMMA InitHolds == Init => IInv /\ ReturnedOk /\ SavedEvidenceStays
<1> SUFFICES ASSUME Init PROVE IInv /\ ReturnedOk /\ SavedEvidenceStays
  OBVIOUS
<1>1. /\ order_events = {} /\ projection_states = {} /\ projection_snapshots = {}
      /\ saving = [v \in Savers |-> Idle] /\ acknowledged = {} /\ trusted = {}
      /\ reading = [k \in Readers |-> NotReading] /\ returned = {}
  BY DEF Init
<1>2. TablesInv
  <2>1. IsFiniteSet({}) /\ Cardinality({}) = 0
    BY FS_EmptySet
  <2>2. LegalRows({})
    BY <2>1 DEF LegalRows
  <2>3. LegalStates({}, {})
    BY DEF LegalStates
  <2> QED BY <1>1, <2>2, <2>3 DEF TablesInv
<1>3. SaversInv
  <2>1. \A v \in Savers : saving[v] = Idle /\ saving[v].step # "inserted"
    BY <1>1 DEF Idle
  <2>2. saving = [v \in Savers |-> saving[v]]
    BY <1>1
  <2> QED BY <1>1, <2>1, <2>2 DEF SaversInv, SavingOk
<1>4. TrustedInv
  BY <1>1 DEF TrustedInv
<1>5. ReadersInv
  <2>1. PICK idle : idle = NotReading
    OBVIOUS
  <2>2. idle = Reading("idle", NoCall, FALSE, NoTables, {}, <<>>, <<>>)
    BY <2>1 DEF NotReading, Reading
  <2>3. ReaderShape(idle)
    BY <2>2, Zenon DEF ReaderShape
  <2>4. idle.pc = "idle"
    BY <2>2 DEF Reading
  <2>5. reading = [k \in Readers |-> idle]
    BY <1>1, <2>1
  <2> QED BY <2>3, <2>4, <2>5 DEF ReadersInv
<1> QED BY <1>1, <1>2, <1>3, <1>4, <1>5 DEF IInv, ReturnedOk, SavedEvidenceStays

\* ... and after every step.
LEMMA StepHolds ==
  ASSUME SnapshotsAssumption, IInv, ReturnedOk, SavedEvidenceStays, [Next]_vars
  PROVE  IInv' /\ ReturnedOk' /\ SavedEvidenceStays'
<1>1. CASE UNCHANGED vars
  <2>1. /\ UNCHANGED <<order_events, projection_states, projection_snapshots, saving>>
        /\ UNCHANGED <<acknowledged, trusted, reading, returned>>
    BY <1>1 DEF vars, tables, savers
  <2>2. IInv'
    BY <2>1, TablesStay, SaversStay, TrustedStay, ReadersStay DEF IInv
  <2>3. ReturnedOk' /\ SavedEvidenceStays'
    BY <2>1, Zenon DEF ReturnedOk, SavedEvidenceStays
  <2> QED BY <2>2, <2>3
<1>2. CASE Next
  <2>1. returned' = {} => ReturnedOk'
    BY DEF ReturnedOk
  <2>2. ASSUME NEW c \in Commands, AppendEvent(c) PROVE IInv' /\ ReturnedOk'
    BY <2>1, <2>2, AppendStep DEF AppendEvent
  <2>3. ASSUME NEW o \in Orders, ProjectNext(o) PROVE IInv' /\ ReturnedOk'
    BY <2>1, <2>3, ProjectStep DEF ProjectNext
  <2>4. ASSUME NEW o \in Orders, clear_snapshots(o) PROVE IInv' /\ ReturnedOk'
    BY <2>1, <2>4, ClearStep DEF clear_snapshots
  <2>5. ASSUME NEW v \in Savers, NEW r \in order_events, NEW f \in Faults,
               f = "ahead" => r.event.sequence = 1, InsertSnapshot(v, BuiltSnapshot(v, r, f))
        PROVE  IInv' /\ ReturnedOk'
    <3>1. returned' = {}
      BY <2>5 DEF InsertSnapshot
    <3>2. IInv' /\ UNCHANGED <<acknowledged, projection_snapshots>>
      BY <2>5, InsertStep
    <3> QED BY <2>1, <3>1, <3>2
  <2>6. ASSUME NEW v \in Savers, CommitSnapshot(v) PROVE IInv' /\ ReturnedOk'
    BY <2>1, <2>6, CommitStep DEF CommitSnapshot
  <2>7. ASSUME NEW v \in Savers, RollbackSnapshot(v) \/ CompareSnapshot(v)
        PROVE  IInv' /\ ReturnedOk'
    <3>1. returned' = {}
      BY <2>7 DEF RollbackSnapshot, CompareSnapshot
    <3> QED BY <2>1, <2>7, <3>1, RollbackStep
  <2>8. ASSUME NEW k \in Readers, NEW c \in Calls,
               BeginResolve(k, c) \/ BeginValidate(k, c) \/ BeginReplay(k, c)
        PROVE  IInv' /\ ReturnedOk'
    BY <2>8, BeginResolveStep, BeginValidateStep, BeginReplayStep
  <2>9. ASSUME NEW k \in Readers, LoadHistory(k) \/ LoadTailPage(k) \/ LoadState(k)
        PROVE  IInv' /\ ReturnedOk'
    BY <2>9, LoadHistoryStep, LoadTailPageStep, LoadStateStep
  <2>10. IInv' /\ ReturnedOk'
    BY <1>2, <2>2, <2>3, <2>4, <2>5, <2>6, <2>7, <2>8, <2>9, Zenon DEF Next
  <2> QED BY <1>2, <2>10, EvidenceStep
<1> QED BY <1>1, <1>2

\* The invariant holds in every reachable state.
THEOREM InvariantHolds == Spec => [](IInv /\ ReturnedOk /\ SavedEvidenceStays)
<1>1. Init => IInv /\ ReturnedOk /\ SavedEvidenceStays
  BY InitHolds
<1>2. IInv /\ ReturnedOk /\ SavedEvidenceStays /\ [Next]_vars
        => (IInv /\ ReturnedOk /\ SavedEvidenceStays)'
  BY SnapshotsAssumption, StepHolds
<1> QED BY <1>1, <1>2, PTL DEF Spec

\* A save that returned left its evidence behind until the snapshots of its
\* order are cleared, whatever another saver, a rollback or a clear does
\* between the INSERT of save_snapshot and its comparison.
THEOREM EvidenceOfSaves == Spec => []SavedEvidenceStays
<1> QED BY InvariantHolds, PTL

\* A resolution from a snapshot that a validation has matched by the time the
\* resolution begins returns the replay of accepted history, and of all that
\* its transaction saw when it owns one.
THEOREM TrustedResolutions == Spec => []TrustedResolutionIsReplay
<1>1. ReturnedOk => TrustedResolutionIsReplay
  BY Zenon DEF ReturnedOk, ResultOk, TrustedResult, TrustedResolutionIsReplay, OneView, Isolated
<1> QED BY <1>1, InvariantHolds, PTL

\* A verdict of the observation boundary is about the one state of the
\* database that its transaction saw: a match of a snapshot that is sound
\* there, a drift or a bad boundary of one that is not, a drifting projection
\* behind the history.
THEOREM ObservedVerdicts == Spec => []ObservedVerdictsAreReal
<1>1. ReturnedOk => ObservedVerdictsAreReal
  BY Zenon DEF ReturnedOk, ResultOk, ObservedResult, ObservedVerdictsAreReal, OneView, Isolated
<1> QED BY <1>1, InvariantHolds, PTL

\* No result of the resolver or of the two validators is refused by the shape
\* checks of the receipt mapper or by the trace contract, and the receipt
\* names only what was loaded.
THEOREM ResultsAreReportable == Spec => []EveryResultIsReportable
<1>1. ReturnedOk => EveryResultIsReportable
  BY Zenon DEF ReturnedOk, ResultOk, ReportableResult, EveryResultIsReportable
<1> QED BY <1>1, InvariantHolds, PTL
=============================================================================
