---------------------- MODULE PostgresProjectionProofs ----------------------
(***************************************************************************)
(* Theorems about PostgresProjection, for any number of workers, orders    *)
(* and commands and any bounds.                                            *)
(*                                                                         *)
(* The inductive invariant says what the open transactions hold: a writer  *)
(* the one event its order may continue with, a worker a committed event   *)
(* and, once it has reduced it, the replay up to that event - which stays  *)
(* the replay while the history grows behind it.  Two workers never have   *)
(* the state row of one order written at the same time.                    *)
(***************************************************************************)
EXTENDS PostgresProjection, OrderDomainProofs, WellFoundedInduction

\* An order is created, then paid with the amount it was created with.
LegalLife(S) ==
  /\ \A e \in S : e.sequence = 1 => e.event_type = "CREATED"
  /\ \A e \in S : e.sequence = 2 => e.event_type = "PAID"
  /\ \A e, f \in S : e.sequence = 1 /\ f.sequence = 2 => f.amount = e.amount

\* The whole life of an order so far, v events long.
IsLife(S, v) == v \in 0..2 /\ IsContiguous(S, v) /\ LegalLife(S)

EventAt(S, n) == CHOOSE e \in S : e.sequence = n

\* The derived state after the first n events of a life.
StateAfter(o, S, n) ==
  [order_id     |-> o,
   status       |-> IF n = 0 THEN "INIT" ELSE IF n = 1 THEN "CREATED" ELSE "PAID",
   total_amount |-> IF n = 0 THEN 0 ELSE EventAt(S, 1).amount,
   paid_amount  |-> IF n = 2 THEN EventAt(S, 2).amount ELSE 0,
   version      |-> n]

RowOK(r) ==
  /\ r.event.order_id \in Orders /\ r.event.event_type \in EventTypes
  /\ r.event.amount \in Int /\ r.event.sequence \in Nat /\ r.global_position \in Nat

\* The committed rows are lives; an open write transaction holds the next event
\* of one, and no other transaction is open on that order.
StreamsInv ==
  /\ position_seq \in Nat
  /\ \A r \in order_events \cup uncommitted : RowOK(r)
  /\ \A o \in Orders : \E v \in 0..2 : IsLife(Stream(o), v)
  /\ \A r \in uncommitted : \E v \in 0..1 :
       /\ IsLife(Stream(r.event.order_id), v) /\ r.event.sequence = v + 1
       /\ IsLife(Stream(r.event.order_id) \cup {r.event}, v + 1)
  /\ \A r, s \in uncommitted : r.event.order_id = s.event.order_id => r = s

\* The state row and the progress row of an order agree with one committed event.
DerivedInv ==
  \A o \in Orders :
    \/ ProgressOf(o) = {} /\ StateOf(o) = {}
    \/ \E r \in order_events :
         /\ r.event.order_id = o /\ ProgressOf(o) = {ProgressRow(r)}
         /\ StateOf(o) = {StateAfter(o, Stream(o), r.event.sequence)}

Holding(k, r) ==
  /\ record[k] = {r}
  /\ pc[k] \in {"save_state", "advance", "commit"} =>
       next_state[k] = {StateAfter(r.event.order_id, Stream(r.event.order_id), r.event.sequence)}
  /\ pc[k] = "commit" => r.event.sequence = LastSequence(r.event.order_id) + 1

WorkersInv ==
  /\ pc \in [Workers -> {"idle", "load_state", "save_state", "advance", "commit"}]
  /\ DOMAIN record = Workers /\ DOMAIN next_state = Workers
  /\ \A k \in Workers : pc[k] # "idle" => \E r \in order_events : Holding(k, r)

\* Nobody else has written the state row that an open transaction has written.
RowLocks ==
  \A j, k \in Workers :
    pc[j] \in {"advance", "commit"} /\ pc[k] \in {"advance", "commit"} /\ j # k
      => EventOf(j).order_id # EventOf(k).order_id

IInv == StreamsInv /\ DerivedInv /\ WorkersInv /\ RowLocks
----------------------------------------------------------------------------
(* Lives and their replay.                                                 *)

\* The n-th event of a life is its only event with sequence n.
LEMMA EventAtIs ==
  ASSUME NEW S, NEW v, IsLife(S, v), NEW e \in S
  PROVE  EventAt(S, e.sequence) = e
<1>1. EventAt(S, e.sequence) \in S /\ EventAt(S, e.sequence).sequence = e.sequence
  BY DEF EventAt
<1> QED BY <1>1 DEF IsLife, IsContiguous

\* A life has an n-th event for every n up to its length.
LEMMA EventAtIn ==
  ASSUME NEW S, NEW v, IsLife(S, v), NEW n \in 1..v
  PROVE  EventAt(S, n) \in S /\ EventAt(S, n).sequence = n
<1>1. \E e \in S : e.sequence = n
  BY DEF IsLife, IsContiguous
<1> QED BY <1>1 DEF EventAt

\* A stream has one length.
LEMMA OneLength ==
  ASSUME NEW S, NEW v, NEW w, IsLife(S, v), IsLife(S, w)
  PROVE  v = w
<1>1. v \in Nat /\ w \in Nat /\ IsContiguous(S, v) /\ IsContiguous(S, w)
  BY DEF IsLife
<1> QED BY <1>1, ContiguousCardinality

\* What an aggregate replay of the first n events of a history leaves.
ReplayOf(o, h, n) ==
  LET a == Rehydrate(o, SubSeq(h, 1, n))
  IN  [order_id |-> o, status |-> a.status, total_amount |-> a.total_amount,
       paid_amount |-> a.paid_amount, version |-> a.current_version]

\* Replaying the first n events of a life gives StateAfter.
LEMMA ReplayOfLife ==
  ASSUME NEW o, NEW S, NEW v, IsLife(S, v), NEW n \in 0..v
  PROVE  ReplayOf(o, InSequenceOrder(S), n) = StateAfter(o, S, n)
<1> DEFINE h == InSequenceOrder(S)
           p == SubSeq(h, 1, n)
<1>1. v \in Nat /\ v <= 2 /\ n \in 0..2 /\ IsContiguous(S, v) /\ LegalLife(S)
  BY DEF IsLife
<1>2. /\ h \in Seq(S) /\ Len(h) = v
      /\ \A m \in 1..v : h[m] \in S /\ h[m].sequence = m
  BY <1>1, InSequenceOrderContiguous
<1>3. \A m \in 1..v : h[m] = EventAt(S, m)
  BY <1>2, EventAtIs
<1> HIDE DEF h
<1>4. Len(p) = n /\ \A m \in 1..n : p[m] = EventAt(S, m)
  BY <1>1, <1>2, <1>3
<1>5. \A m \in 1..v : EventAt(S, m) \in S /\ EventAt(S, m).sequence = m
  BY EventAtIn
<1> HIDE DEF p
<1>6. ReplayOf(o, h, n) =
        [order_id |-> o,
         status |-> IF n = 0 THEN "INIT" ELSE StatusAfter(p[n].event_type),
         total_amount |-> LastAmount(p, "CREATED"), paid_amount |-> LastAmount(p, "PAID"),
         version |-> IF n = 0 THEN 0 ELSE p[n].sequence]
  BY <1>1, <1>4 DEF ReplayOf, Rehydrate, p
<1>7. CASE n = 0
  <2>1. LastAmount(p, "CREATED") = 0 /\ LastAmount(p, "PAID") = 0
    BY <1>4, <1>7, LastAmountNone
  <2> QED BY <1>6, <1>7, <2>1 DEF StateAfter, h
<1>8. CASE n = 1
  <2>1. p[1] = EventAt(S, 1) /\ p[1].sequence = 1 /\ p[1].event_type = "CREATED"
    BY <1>1, <1>4, <1>5, <1>8 DEF LegalLife
  <2>2. LastAmount(p, "CREATED") = p[1].amount
    <3>1. Len(p) \in Nat /\ 1 \in 1..Len(p) /\ \A m \in 1..Len(p) : m <= 1
      BY <1>4, <1>8
    <3> QED BY <2>1, <3>1, LastAmountIs
  <2>3. LastAmount(p, "PAID") = 0
    <3>1. \A m \in 1..Len(p) : p[m].event_type # "PAID"
      BY <1>4, <1>8, <2>1
    <3> QED BY <3>1, LastAmountNone
  <2> QED BY <1>6, <1>8, <2>1, <2>2, <2>3 DEF StateAfter, StatusAfter, h
<1>9. CASE n = 2
  <2>1. /\ p[1] = EventAt(S, 1) /\ p[1].sequence = 1 /\ p[1].event_type = "CREATED"
        /\ p[2] = EventAt(S, 2) /\ p[2].sequence = 2 /\ p[2].event_type = "PAID"
    BY <1>1, <1>4, <1>5, <1>9 DEF LegalLife
  <2>2. LastAmount(p, "CREATED") = p[1].amount
    <3>1. /\ Len(p) \in Nat /\ 1 \in 1..Len(p)
          /\ \A m \in 1..Len(p) : p[m].event_type = "CREATED" => m <= 1
      BY <1>4, <1>9, <2>1
    <3> QED BY <2>1, <3>1, LastAmountIs
  <2>3. LastAmount(p, "PAID") = p[2].amount
    <3>1. Len(p) \in Nat /\ 2 \in 1..Len(p) /\ \A m \in 1..Len(p) : m <= 2
      BY <1>4, <1>9
    <3> QED BY <2>1, <3>1, LastAmountIs
  <2> QED BY <1>6, <1>9, <2>1, <2>2, <2>3 DEF StateAfter, StatusAfter, h
<1> QED BY <1>1, <1>7, <1>8, <1>9 DEF h

\* What was derived from a life is what is derived from a longer one.
LEMMA StateAfterGrows ==
  ASSUME NEW o, NEW S, NEW v, IsLife(S, v), NEW T, NEW w, IsLife(T, w), S \subseteq T,
         NEW n \in 0..v
  PROVE  StateAfter(o, T, n) = StateAfter(o, S, n)
<1>1. ASSUME NEW m \in 1..v PROVE EventAt(T, m) = EventAt(S, m)
  <2>1. EventAt(S, m) \in S /\ EventAt(S, m).sequence = m
    BY EventAtIn
  <2>2. EventAt(T, EventAt(S, m).sequence) = EventAt(S, m)
    BY <2>1, EventAtIs
  <2> QED BY <2>1, <2>2
<1>2. v \in 0..2 /\ n \in 0..2 /\ (n # 0 => 1 \in 1..v) /\ (n = 2 => 2 \in 1..v)
  BY DEF IsLife
<1>3. n # 0 => EventAt(T, 1) = EventAt(S, 1)
  BY <1>1, <1>2
<1>4. n = 2 => EventAt(T, 2) = EventAt(S, 2)
  BY <1>1, <1>2
<1> QED BY <1>3, <1>4 DEF StateAfter

\* Reducing the state after n events with an event of the life that fits gives
\* the state after that event.
LEMMA ReduceInLife ==
  ASSUME NEW o, NEW S, NEW v, IsLife(S, v), NEW e \in S, NEW n \in 0..v,
         Reducible(StateAfter(o, S, n), e)
  PROVE  /\ e.sequence = n + 1
         /\ reduce_order_event(StateAfter(o, S, n), e) = StateAfter(o, S, e.sequence)
<1>1. e.sequence = n + 1
  BY DEF Reducible, StateAfter
<1>2. v \in 0..2 /\ e.sequence \in 1..v /\ (e.sequence = 1 \/ e.sequence = 2) /\ LegalLife(S)
  BY DEF IsLife, IsContiguous
<1>3. EventAt(S, e.sequence) = e
  BY EventAtIs
<1>4. CASE e.sequence = 1
  <2>1. n = 0 /\ e.event_type = "CREATED" /\ EventAt(S, 1) = e
    BY <1>1, <1>2, <1>3, <1>4 DEF LegalLife
  <2> QED BY <1>1, <1>4, <2>1 DEF StateAfter, reduce_order_event, StatusAfter
<1>5. CASE e.sequence = 2
  <2>1. n = 1 /\ e.event_type = "PAID" /\ EventAt(S, 2) = e
    BY <1>1, <1>2, <1>3, <1>5 DEF LegalLife
  <2> QED BY <1>1, <1>5, <2>1 DEF StateAfter, reduce_order_event, StatusAfter
<1> QED BY <1>2, <1>4, <1>5

----------------------------------------------------------------------------
(* What the invariant says of a state.                                     *)

\* A committed row is an event of a life.
LEMMA CommittedRow ==
  ASSUME StreamsInv, NEW r \in order_events
  PROVE  /\ r.event.order_id \in Orders /\ r.event \in Stream(r.event.order_id)
         /\ \A v : IsLife(Stream(r.event.order_id), v) => r.event.sequence \in 1..v
<1>1. r.event.order_id \in Orders
  BY DEF StreamsInv, RowOK
<1>2. r.event \in Stream(r.event.order_id)
  BY DEF Stream
<1> QED BY <1>1, <1>2 DEF IsLife, IsContiguous

\* The derived state of an order is the state after its durable progress, which
\* is no longer than the accepted history.
LEMMA DerivedIs ==
  ASSUME StreamsInv, DerivedInv, NEW o \in Orders, NEW v, IsLife(Stream(o), v)
  PROVE  /\ LastSequence(o) \in 0..v
         /\ load_state(o) = StateAfter(o, Stream(o), LastSequence(o))
<1>1. CASE ProgressOf(o) = {} /\ StateOf(o) = {}
  <2>1. LastSequence(o) = 0 /\ load_state(o) = build_empty_projection_state(o)
    BY <1>1 DEF LastSequence, load_state
  <2> QED BY <2>1 DEF build_empty_projection_state, StateAfter, IsLife
<1>2. ASSUME NEW r \in order_events, r.event.order_id = o, ProgressOf(o) = {ProgressRow(r)},
             StateOf(o) = {StateAfter(o, Stream(o), r.event.sequence)}
      PROVE  /\ LastSequence(o) \in 0..v
             /\ load_state(o) = StateAfter(o, Stream(o), LastSequence(o))
  <2>1. LastSequence(o) = ProgressRow(r).last_sequence
    BY <1>2 DEF LastSequence
  <2>2. ProgressRow(r).last_sequence = r.event.sequence
    BY DEF ProgressRow
  <2>3. load_state(o) = StateAfter(o, Stream(o), r.event.sequence)
    BY <1>2 DEF load_state
  <2>4. r.event.sequence \in 1..v
    BY <1>2, CommittedRow
  <2> QED BY <2>1, <2>2, <2>3, <2>4 DEF IsLife
<1> QED BY <1>1, <1>2 DEF DerivedInv

\* A worker that is not idle holds one committed row.
LEMMA HeldRecord ==
  ASSUME WorkersInv, NEW k \in Workers, pc[k] # "idle"
  PROVE  /\ RecordOf(k) \in order_events /\ Holding(k, RecordOf(k))
         /\ EventOf(k) = RecordOf(k).event
<1>1. PICK r \in order_events : Holding(k, r)
  BY DEF WorkersInv
<1>2. RecordOf(k) = r
  BY <1>1 DEF Holding, RecordOf
<1> QED BY <1>1, <1>2 DEF EventOf
----------------------------------------------------------------------------
(* Writers.                                                                *)

\* An INSERT adds the one event its order may continue with.
LEMMA InsertStreams ==
  ASSUME StreamsInv, NEW c \in Commands, InsertRow(c)
  PROVE  StreamsInv'
<1> DEFINE o == c.order_id
           a == Rehydrate(o, History(o))
           e == CandidateEvent(a, c, position_seq + 1)
           q == [event |-> e, global_position |-> position_seq + 1]
<1>0. o \in Orders /\ c.command_type \in CommandTypes /\ c.amount \in Int
  BY ProjectionAssumption
<1>1. PICK v \in 0..2 : IsLife(Stream(o), v)
  BY <1>0 DEF StreamsInv
<1>2. /\ IsLegal(a, c) /\ \A r \in uncommitted : r.event.order_id # o
      /\ uncommitted' = uncommitted \cup {q} /\ order_events' = order_events
      /\ position_seq' = position_seq + 1
  BY DEF InsertRow
<1>3. \A f \in Stream(o) : f.event_type \in EventTypes /\ f.order_id = o
  BY DEF StreamsInv, RowOK, Stream
<1>4. v \in Nat /\ IsContiguous(Stream(o), v) /\ LegalLife(Stream(o))
  BY <1>1 DEF IsLife
<1>5. /\ e.order_id = o /\ e.sequence = v + 1 /\ e.amount = normalize_money(c.amount)
      /\ v = 0 => e.event_type = "CREATED"
      /\ v # 0 => \E f \in Stream(o) : f.sequence = v /\ f.event_type = "CREATED"
                                       /\ e.event_type = "PAID" /\ e.amount = f.amount
  BY <1>0, <1>2, <1>3, <1>4, LegalCandidate DEF History
<1>6. e.amount \in Int
  BY <1>0, <1>5, NormalizedIsInteger
<1>7. q.event = e /\ q.global_position = position_seq + 1
  OBVIOUS
<1> HIDE DEF e, q
<1>8. v \in 0..1
  <2>1. ASSUME v = 2 PROVE FALSE
    <3>1. PICK f \in Stream(o) : f.sequence = 2 /\ f.event_type = "CREATED"
      BY <1>5, <2>1
    <3> QED BY <3>1, <1>4 DEF LegalLife
  <2> QED BY <2>1
<1>9. RowOK(q)
  <2>1. e.event_type \in EventTypes
    BY <1>5 DEF EventTypes
  <2>2. e.sequence \in Nat /\ position_seq + 1 \in Nat
    BY <1>5, <1>8 DEF StreamsInv
  <2> QED BY <1>0, <1>5, <1>6, <1>7, <2>1, <2>2 DEF RowOK
<1>10. IsLife(Stream(o) \cup {e}, v + 1)
  <2>1. IsContiguous(Stream(o) \cup {e}, v + 1)
    BY <1>4, <1>5, InSequenceOrderGrows
  <2>2. LegalLife(Stream(o) \cup {e})
    <3>1. CASE v = 0
      <4>1. \A f \in Stream(o) : FALSE
        BY <1>4, <3>1 DEF IsContiguous
      <4> QED BY <1>5, <3>1, <4>1 DEF LegalLife
    <3>2. CASE v = 1
      <4>1. PICK f \in Stream(o) : f.sequence = 1 /\ e.event_type = "PAID" /\ e.amount = f.amount
        BY <1>5, <3>2
      <4>2. \A g \in Stream(o) : g = f
        BY <1>4, <3>2, <4>1 DEF IsContiguous
      <4>3. e.sequence = 2
        BY <1>5, <3>2
      <4> QED BY <1>4, <4>1, <4>2, <4>3 DEF LegalLife
    <3> QED BY <1>8, <3>1, <3>2
  <2> QED BY <1>8, <2>1, <2>2 DEF IsLife
<1>11. \A x : Stream(x)' = Stream(x)
  BY <1>2 DEF Stream
<1>12. position_seq' \in Nat
  BY <1>2 DEF StreamsInv
<1>13. \A r \in order_events' \cup uncommitted' : RowOK(r)'
  BY <1>2, <1>9 DEF StreamsInv, RowOK
<1>14. \A x \in Orders : \E w \in 0..2 : IsLife(Stream(x)', w)
  BY <1>11 DEF StreamsInv
<1>15. \A r \in uncommitted' : \E w \in 0..1 :
         /\ IsLife(Stream(r.event.order_id)', w) /\ r.event.sequence = w + 1
         /\ IsLife(Stream(r.event.order_id)' \cup {r.event}, w + 1)
  <2> SUFFICES ASSUME NEW r \in uncommitted'
               PROVE  \E w \in 0..1 :
                        /\ IsLife(Stream(r.event.order_id), w) /\ r.event.sequence = w + 1
                        /\ IsLife(Stream(r.event.order_id) \cup {r.event}, w + 1)
    BY <1>11
  <2>1. CASE r \in uncommitted
    BY <2>1 DEF StreamsInv
  <2>2. CASE r = q
    BY <2>2, <1>1, <1>5, <1>7, <1>8, <1>10
  <2> QED BY <1>2, <2>1, <2>2
<1>16. \A r, s \in uncommitted' : r.event.order_id = s.event.order_id => r = s
  BY <1>2, <1>5, <1>7 DEF StreamsInv
<1> QED BY <1>12, <1>13, <1>14, <1>15, <1>16 DEF StreamsInv

\* A commit makes the event the last one of its order.
LEMMA CommitStreams ==
  ASSUME StreamsInv, NEW r \in uncommitted, CommitRow(r)
  PROVE  /\ StreamsInv'
         /\ order_events \subseteq order_events'
         /\ \A o \in Orders : Stream(o) \subseteq Stream(o)'
<1> DEFINE o == r.event.order_id
<1>1. /\ order_events' = order_events \cup {r} /\ uncommitted' = uncommitted \ {r}
      /\ position_seq' = position_seq
  BY DEF CommitRow
<1>2. Stream(o)' = Stream(o) \cup {r.event} /\ \A x : x # o => Stream(x)' = Stream(x)
  BY <1>1 DEF Stream
<1>3. PICK v \in 0..1 : IsLife(Stream(o), v) /\ IsLife(Stream(o) \cup {r.event}, v + 1)
  BY DEF StreamsInv
<1>4. \A x \in Orders : \E w \in 0..2 : IsLife(Stream(x)', w)
  <2> SUFFICES ASSUME NEW x \in Orders PROVE \E w \in 0..2 : IsLife(Stream(x)', w)
    OBVIOUS
  <2>1. CASE x = o
    <3>1. Stream(x)' = Stream(o) \cup {r.event}
      BY <1>2, <2>1
    <3>2. IsLife(Stream(x)', v + 1)
      BY <1>3, <3>1
    <3> QED BY <3>2
  <2>2. CASE x # o
    BY <1>2, <2>2 DEF StreamsInv
  <2> QED BY <2>1, <2>2
<1>5. \A s \in uncommitted' : s.event.order_id # o
  BY <1>1 DEF StreamsInv
<1>6. \A s \in uncommitted' : \E w \in 0..1 :
         /\ IsLife(Stream(s.event.order_id)', w) /\ s.event.sequence = w + 1
         /\ IsLife(Stream(s.event.order_id)' \cup {s.event}, w + 1)
  BY <1>1, <1>2, <1>5 DEF StreamsInv
<1>7. \A s \in order_events' \cup uncommitted' : RowOK(s)'
  BY <1>1 DEF StreamsInv, RowOK
<1>8. StreamsInv'
  BY <1>1, <1>4, <1>6, <1>7 DEF StreamsInv
<1> QED BY <1>1, <1>2, <1>8

\* Steps that leave the committed rows alone and open no write transaction.
LEMMA StreamsStay ==
  ASSUME StreamsInv, order_events' = order_events, uncommitted' \subseteq uncommitted,
         position_seq' = position_seq
  PROVE  StreamsInv' /\ \A o : Stream(o)' = Stream(o)
<1>1. \A o : Stream(o)' = Stream(o)
  BY DEF Stream
<1>2. \A r \in order_events' \cup uncommitted' : RowOK(r)'
  BY DEF StreamsInv, RowOK
<1>3. \A o \in Orders : \E w \in 0..2 : IsLife(Stream(o)', w)
  BY <1>1 DEF StreamsInv
<1>4. \A s \in uncommitted' : \E w \in 0..1 :
         /\ IsLife(Stream(s.event.order_id)', w) /\ s.event.sequence = w + 1
         /\ IsLife(Stream(s.event.order_id)' \cup {s.event}, w + 1)
  BY <1>1 DEF StreamsInv
<1> QED BY <1>1, <1>2, <1>3, <1>4 DEF StreamsInv

\* What was derived from a committed event stays derived from it as history
\* grows.
LEMMA DerivedStays ==
  ASSUME StreamsInv, StreamsInv', order_events \subseteq order_events',
         \A o \in Orders : Stream(o) \subseteq Stream(o)', NEW r \in order_events
  PROVE  StateAfter(r.event.order_id, Stream(r.event.order_id), r.event.sequence)'
           = StateAfter(r.event.order_id, Stream(r.event.order_id), r.event.sequence)
<1> DEFINE o == r.event.order_id
<1>1. o \in Orders
  BY CommittedRow
<1>2. PICK v \in 0..2 : IsLife(Stream(o), v)
  BY <1>1 DEF StreamsInv
<1>3. PICK w \in 0..2 : IsLife(Stream(o)', w)
  BY <1>1 DEF StreamsInv
<1>4. r.event.sequence \in 0..v
  BY <1>2, CommittedRow
<1>5. Stream(o) \subseteq Stream(o)'
  BY <1>1
<1> QED BY <1>2, <1>3, <1>4, <1>5, StateAfterGrows

\* A writer's step leaves what the workers have done and are doing in order.
LEMMA WriterKeeps ==
  ASSUME IInv, StreamsInv', order_events \subseteq order_events',
         \A o \in Orders : Stream(o) \subseteq Stream(o)',
         UNCHANGED <<derived, locals>>
  PROVE  IInv'
<1>1. /\ projection_states' = projection_states
      /\ projection_order_progress' = projection_order_progress
      /\ pc' = pc /\ record' = record /\ next_state' = next_state
  BY DEF derived, locals
<1>2. \A o : /\ ProgressOf(o)' = ProgressOf(o) /\ StateOf(o)' = StateOf(o)
             /\ LastSequence(o)' = LastSequence(o)
  BY <1>1 DEF ProgressOf, StateOf, LastSequence
<1>3. \A r \in order_events :
        StateAfter(r.event.order_id, Stream(r.event.order_id), r.event.sequence)'
          = StateAfter(r.event.order_id, Stream(r.event.order_id), r.event.sequence)
  BY DerivedStays DEF IInv
<1>4. DerivedInv'
  <2> SUFFICES ASSUME NEW o \in Orders
               PROVE  \/ ProgressOf(o)' = {} /\ StateOf(o)' = {}
                      \/ \E r \in order_events' :
                           /\ r.event.order_id = o /\ ProgressOf(o)' = {ProgressRow(r)}
                           /\ StateOf(o)' = {StateAfter(o, Stream(o)', r.event.sequence)}
    BY DEF DerivedInv, ProgressRow
  <2>1. CASE ProgressOf(o) = {} /\ StateOf(o) = {}
    BY <1>2, <2>1
  <2>2. ASSUME NEW r \in order_events, r.event.order_id = o, ProgressOf(o) = {ProgressRow(r)},
               StateOf(o) = {StateAfter(o, Stream(o), r.event.sequence)}
        PROVE  /\ r \in order_events' /\ ProgressOf(o)' = {ProgressRow(r)}
               /\ StateOf(o)' = {StateAfter(o, Stream(o)', r.event.sequence)}
    BY <1>2, <1>3, <2>2
  <2> QED BY <2>1, <2>2 DEF IInv, DerivedInv
<1>5. ASSUME NEW k \in Workers, NEW r \in order_events, Holding(k, r)
      PROVE  Holding(k, r)'
  BY <1>1, <1>2, <1>3, <1>5 DEF Holding
<1>6. WorkersInv'
  BY <1>1, <1>5 DEF IInv, WorkersInv
<1>7. RowLocks'
  BY <1>1 DEF IInv, RowLocks, EventOf, RecordOf
<1> QED BY <1>4, <1>6, <1>7 DEF IInv

\* The writers preserve the invariant.
LEMMA WriterOK ==
  ASSUME IInv, WriterStep
  PROVE  IInv'
<1>1. ASSUME NEW c \in Commands, InsertRow(c) PROVE IInv'
  <2>1. order_events' = order_events /\ UNCHANGED <<derived, locals>>
    BY <1>1 DEF InsertRow
  <2>2. \A o : Stream(o)' = Stream(o)
    BY <2>1 DEF Stream
  <2> QED BY <1>1, <2>1, <2>2, InsertStreams, WriterKeeps DEF IInv
<1>2. ASSUME NEW r \in uncommitted, CommitRow(r) PROVE IInv'
  <2>1. UNCHANGED <<derived, locals>>
    BY <1>2 DEF CommitRow
  <2> QED BY <1>2, <2>1, CommitStreams, WriterKeeps DEF IInv
<1>3. ASSUME NEW r \in uncommitted, RollbackRow(r) PROVE IInv'
  <2>1. /\ order_events' = order_events /\ uncommitted' \subseteq uncommitted
        /\ position_seq' = position_seq /\ UNCHANGED <<derived, locals>>
    BY <1>3 DEF RollbackRow
  <2> QED BY <2>1, StreamsStay, WriterKeeps DEF IInv
<1> QED BY <1>1, <1>2, <1>3 DEF WriterStep

----------------------------------------------------------------------------
(* Workers.                                                                *)

\* A step of k changes the locals of no other worker.
OthersKeep(k) ==
  /\ pc' \in [Workers -> {"idle", "load_state", "save_state", "advance", "commit"}]
  /\ DOMAIN record' = Workers /\ DOMAIN next_state' = Workers
  /\ \A j \in Workers \ {k} :
       pc'[j] = pc[j] /\ record'[j] = record[j] /\ next_state'[j] = next_state[j]

\* The end of a transaction leaves the worker idle and the others alone.
LEMMA FinishKeeps ==
  ASSUME WorkersInv, NEW k \in Workers, NEW answer, Finish(k, answer)
  PROVE  OthersKeep(k) /\ pc'[k] = "idle"
BY DEF WorkersInv, Finish, OthersKeep

\* A step that publishes nothing preserves the invariant when it leaves its own
\* worker with what its control point calls for.
LEMMA WorkerKeeps ==
  ASSUME IInv, NEW k \in Workers, UNCHANGED <<writers, derived>>, OthersKeep(k),
         pc'[k] # "idle" => \E r \in order_events : Holding(k, r)',
         pc'[k] \in {"advance", "commit"} =>
           \A j \in Workers \ {k} : pc[j] \in {"advance", "commit"}
             => EventOf(j).order_id # EventOf(k)'.order_id
  PROVE  IInv'
<1>1. /\ order_events' = order_events /\ uncommitted' = uncommitted
      /\ position_seq' = position_seq
      /\ projection_states' = projection_states
      /\ projection_order_progress' = projection_order_progress
  BY DEF writers, derived
<1>2. StreamsInv' /\ \A o : Stream(o)' = Stream(o)
  BY <1>1, StreamsStay DEF IInv
<1>3. \A o : /\ ProgressOf(o)' = ProgressOf(o) /\ StateOf(o)' = StateOf(o)
             /\ LastSequence(o)' = LastSequence(o)
  BY <1>1 DEF ProgressOf, StateOf, LastSequence
<1>4. DerivedInv'
  BY <1>1, <1>2, <1>3 DEF IInv, DerivedInv, ProgressRow
<1>5. ASSUME NEW j \in Workers \ {k}, NEW r \in order_events, Holding(j, r)
      PROVE  Holding(j, r)'
  BY <1>2, <1>3, <1>5 DEF Holding, OthersKeep
<1>6. WorkersInv'
  <2>1. ASSUME NEW j \in Workers, pc'[j] # "idle"
        PROVE  \E r \in order_events' : Holding(j, r)'
    <3>1. CASE j = k
      BY <1>1, <2>1, <3>1
    <3>2. CASE j # k
      <4>1. PICK r \in order_events : Holding(j, r)
        BY <2>1, <3>2 DEF IInv, WorkersInv, OthersKeep
      <4> QED BY <1>1, <1>5, <3>2, <4>1
    <3> QED BY <3>1, <3>2
  <2> QED BY <2>1 DEF WorkersInv, OthersKeep
<1>7. \A j \in Workers \ {k} : EventOf(j)' = EventOf(j)
  BY DEF EventOf, RecordOf, OthersKeep
<1>8. RowLocks'
  <2> SUFFICES ASSUME NEW i \in Workers, NEW j \in Workers, i # j,
                      pc'[i] \in {"advance", "commit"}, pc'[j] \in {"advance", "commit"}
               PROVE  EventOf(i)'.order_id # EventOf(j)'.order_id
    BY DEF RowLocks
  <2>1. CASE i = k
    BY <1>7, <2>1 DEF OthersKeep
  <2>2. CASE j = k
    BY <1>7, <2>2 DEF OthersKeep
  <2>3. CASE i # k /\ j # k
    BY <1>7, <2>3 DEF OthersKeep, IInv, RowLocks
  <2> QED BY <2>1, <2>2, <2>3
<1> QED BY <1>2, <1>4, <1>6, <1>8 DEF IInv

\* A transaction that ends without a commit.
LEMMA FinishOK ==
  ASSUME IInv, NEW k \in Workers, NEW answer, Finish(k, answer), UNCHANGED <<writers, derived>>
  PROVE  IInv'
<1>1. OthersKeep(k) /\ pc'[k] = "idle"
  BY FinishKeeps DEF IInv
<1> QED BY <1>1, WorkerKeeps

\* load_eligible finds a committed row.
LEMMA LoadEligibleOK ==
  ASSUME IInv, NEW k \in Workers, LoadEligible(k)
  PROVE  IInv'
<1>1. UNCHANGED <<writers, derived>>
  BY DEF LoadEligible
<1>2. CASE Finish(k, "no_event")
  BY <1>1, <1>2, FinishOK
<1>3. ASSUME NEW r \in load_eligible, record' = [record EXCEPT ![k] = {r}],
             pc' = [pc EXCEPT ![k] = "load_state"], UNCHANGED <<next_state, reported>>
      PROVE  IInv'
  <2>1. OthersKeep(k) /\ pc'[k] = "load_state" /\ record'[k] = {r}
    BY <1>3 DEF IInv, WorkersInv, OthersKeep
  <2>2. r \in order_events
    BY <1>3 DEF load_eligible
  <2>3. Holding(k, r)'
    BY <2>1 DEF Holding
  <2> QED BY <1>1, <2>1, <2>2, <2>3, WorkerKeeps
<1> QED BY <1>2, <1>3 DEF LoadEligible

\* The reduction gives the replay up to the event, or raises.
LEMMA LoadStateOK ==
  ASSUME IInv, NEW k \in Workers, LoadState(k)
  PROVE  IInv'
<1>1. pc[k] = "load_state" /\ UNCHANGED <<writers, derived>>
  BY DEF LoadState
<1>2. PICK r \in order_events : Holding(k, r) /\ EventOf(k) = r.event
  BY <1>1, HeldRecord DEF IInv
<1> DEFINE o == r.event.order_id
           s == load_state(o)
<1>3. CASE Finish(k, "reducer_error")
  BY <1>1, <1>3, FinishOK
<1>4. CASE /\ Reducible(s, r.event)
           /\ next_state' = [next_state EXCEPT ![k] = {reduce_order_event(s, r.event)}]
           /\ pc' = [pc EXCEPT ![k] = "save_state"]
           /\ record' = record
  <2>1. o \in Orders /\ r.event \in Stream(o)
    BY <1>2, CommittedRow DEF IInv
  <2>2. PICK v \in 0..2 : IsLife(Stream(o), v)
    BY <2>1 DEF IInv, StreamsInv
  <2>3. LastSequence(o) \in 0..v /\ s = StateAfter(o, Stream(o), LastSequence(o))
    BY <2>1, <2>2, DerivedIs DEF IInv
  <2>4. reduce_order_event(s, r.event) = StateAfter(o, Stream(o), r.event.sequence)
    BY <1>4, <2>1, <2>2, <2>3, ReduceInLife
  <2> HIDE DEF s
  <2>5. /\ OthersKeep(k) /\ pc'[k] = "save_state" /\ record'[k] = record[k]
        /\ next_state'[k] = {StateAfter(o, Stream(o), r.event.sequence)}
    BY <1>4, <2>4 DEF IInv, WorkersInv, OthersKeep
  <2>6. Stream(o)' = Stream(o)
    BY <1>1 DEF Stream, writers
  <2>7. Holding(k, r)'
    BY <1>2, <2>5, <2>6 DEF Holding
  <2> QED BY <1>1, <1>2, <2>5, <2>7, WorkerKeeps
<1> QED BY <1>2, <1>3, <1>4 DEF LoadState

\* save_state writes the row only when nobody else has.
LEMMA SaveStateOK ==
  ASSUME IInv, NEW k \in Workers, SaveState(k)
  PROVE  IInv'
<1>1. /\ pc[k] = "save_state" /\ Writing(EventOf(k).order_id) = {}
      /\ pc' = [pc EXCEPT ![k] = "advance"] /\ record' = record /\ next_state' = next_state
      /\ UNCHANGED <<writers, derived>>
  BY DEF SaveState
<1>2. PICK r \in order_events : Holding(k, r) /\ EventOf(k) = r.event
  BY <1>1, HeldRecord DEF IInv
<1>3. OthersKeep(k) /\ pc'[k] = "advance"
  BY <1>1 DEF IInv, WorkersInv, OthersKeep
<1>4. EventOf(k)' = EventOf(k) /\ \A o : Stream(o)' = Stream(o)
  BY <1>1 DEF EventOf, RecordOf, Stream, writers
<1>5. Holding(k, r)'
  BY <1>1, <1>2, <1>3, <1>4 DEF Holding
<1>6. \A j \in Workers \ {k} : pc[j] \in {"advance", "commit"}
        => EventOf(j).order_id # EventOf(k)'.order_id
  BY <1>1, <1>4 DEF Writing
<1> QED BY <1>1, <1>2, <1>3, <1>5, <1>6, WorkerKeeps

\* advance_progress goes on only from exactly one before the event.
LEMMA AdvanceProgressOK ==
  ASSUME IInv, NEW k \in Workers, AdvanceProgress(k)
  PROVE  IInv'
<1>1. pc[k] = "advance" /\ UNCHANGED <<writers, derived>>
  BY DEF AdvanceProgress
<1>2. PICK r \in order_events : Holding(k, r) /\ EventOf(k) = r.event
  BY <1>1, HeldRecord DEF IInv
<1>3. CASE Finish(k, "progress_conflict")
  BY <1>1, <1>3, FinishOK
<1>4. CASE /\ EventOf(k).sequence = LastSequence(EventOf(k).order_id) + 1
           /\ pc' = [pc EXCEPT ![k] = "commit"] /\ record' = record /\ next_state' = next_state
  <2>1. OthersKeep(k) /\ pc'[k] = "commit"
    BY <1>4 DEF IInv, WorkersInv, OthersKeep
  <2>2. /\ EventOf(k)' = EventOf(k)
        /\ \A o : Stream(o)' = Stream(o) /\ LastSequence(o)' = LastSequence(o)
    BY <1>1, <1>4 DEF EventOf, RecordOf, Stream, writers, derived, LastSequence, ProgressOf
  <2>3. Holding(k, r)'
    BY <1>1, <1>2, <1>4, <2>1, <2>2 DEF Holding
  <2>4. \A j \in Workers \ {k} : pc[j] \in {"advance", "commit"}
          => EventOf(j).order_id # EventOf(k)'.order_id
    BY <1>1, <2>2 DEF IInv, RowLocks
  <2> QED BY <1>1, <1>2, <2>1, <2>3, <2>4, WorkerKeeps
<1> QED BY <1>3, <1>4 DEF AdvanceProgress

\* A publication replaces the two rows of one order by the rows for the event
\* after its durable progress, and touches no other order.
LEMMA PublishIs ==
  ASSUME IInv, NEW k \in Workers, pc[k] = "commit", Publish(k), UNCHANGED writers
  PROVE  \E r \in order_events : \E o \in Orders :
           /\ r.event.order_id = o /\ EventOf(k).order_id = o
           /\ ProgressOf(o)' = {ProgressRow(r)}
           /\ StateOf(o)' = {StateAfter(o, Stream(o), r.event.sequence)}
           /\ LastSequence(o)' = LastSequence(o) + 1
           /\ \A x : x # o => /\ ProgressOf(x)' = ProgressOf(x) /\ StateOf(x)' = StateOf(x)
                              /\ LastSequence(x)' = LastSequence(x)
<1>1. PICK r \in order_events : r = RecordOf(k) /\ Holding(k, r) /\ EventOf(k) = r.event
  BY HeldRecord DEF IInv
<1>2. PICK o \in Orders : o = r.event.order_id
  BY CommittedRow DEF IInv
<1> DEFINE n == r.event.sequence
           pr == ProgressRow(r)
<1>3. PICK st : st = StateAfter(o, Stream(o), n)
  OBVIOUS
<1>4. next_state[k] = {st} /\ n = LastSequence(o) + 1
  BY <1>1, <1>2, <1>3 DEF Holding
<1>5. st.order_id = o /\ pr.order_id = o /\ pr.last_sequence = n
  BY <1>2, <1>3 DEF StateAfter, ProgressRow
<1>6. /\ projection_states' = (projection_states \ StateOf(o)) \cup {st}
      /\ projection_order_progress' = (projection_order_progress \ ProgressOf(o)) \cup {pr}
  BY <1>1, <1>2, <1>4 DEF Publish
<1> HIDE DEF pr
<1>7. StateOf(o)' = {st} /\ ProgressOf(o)' = {pr}
  BY <1>5, <1>6 DEF StateOf, ProgressOf
<1>8. \A x : x # o => StateOf(x)' = StateOf(x) /\ ProgressOf(x)' = ProgressOf(x)
  BY <1>5, <1>6 DEF StateOf, ProgressOf
<1>9. ASSUME NEW x, x # o PROVE LastSequence(x)' = LastSequence(x)
  <2>1. ProgressOf(x)' = ProgressOf(x)
    BY <1>8, <1>9
  <2> DEFINE last(P) == IF P = {} THEN 0 ELSE (CHOOSE p \in P : TRUE).last_sequence
  <2>2. LastSequence(x) = last(ProgressOf(x)) /\ LastSequence(x)' = last(ProgressOf(x)')
    BY DEF LastSequence
  <2> HIDE DEF last
  <2> QED BY <2>1, <2>2
<1>10. LastSequence(o)' = n
  BY <1>5, <1>7 DEF LastSequence
<1> QED BY <1>1, <1>2, <1>3, <1>4, <1>7, <1>8, <1>9, <1>10 DEF pr

\* A publication at the end of a transaction preserves the invariant.
LEMMA PublishOK ==
  ASSUME IInv, NEW k \in Workers, pc[k] = "commit", Publish(k), UNCHANGED writers,
         NEW answer, Finish(k, answer)
  PROVE  IInv'
<1>1. PICK r \in order_events, o \in Orders :
        /\ r.event.order_id = o /\ EventOf(k).order_id = o
        /\ ProgressOf(o)' = {ProgressRow(r)}
        /\ StateOf(o)' = {StateAfter(o, Stream(o), r.event.sequence)}
        /\ \A x : x # o => /\ ProgressOf(x)' = ProgressOf(x) /\ StateOf(x)' = StateOf(x)
                           /\ LastSequence(x)' = LastSequence(x)
  BY PublishIs
<1>2. /\ order_events' = order_events /\ uncommitted' = uncommitted
      /\ position_seq' = position_seq
  BY DEF writers
<1>3. StreamsInv' /\ \A x : Stream(x)' = Stream(x)
  BY <1>2, StreamsStay DEF IInv
<1>4. DerivedInv'
  <2> SUFFICES ASSUME NEW x \in Orders
               PROVE  \/ ProgressOf(x)' = {} /\ StateOf(x)' = {}
                      \/ \E q \in order_events :
                           /\ q.event.order_id = x /\ ProgressOf(x)' = {ProgressRow(q)}
                           /\ StateOf(x)' = {StateAfter(x, Stream(x), q.event.sequence)}
    BY <1>2, <1>3 DEF DerivedInv, ProgressRow
  <2>1. CASE x = o
    BY <1>1, <2>1
  <2>2. CASE x # o
    BY <1>1, <2>2 DEF IInv, DerivedInv
  <2> QED BY <2>1, <2>2
<1>5. OthersKeep(k) /\ pc'[k] = "idle"
  BY FinishKeeps DEF IInv
<1>6. ASSUME NEW j \in Workers \ {k}, pc[j] # "idle"
      PROVE  \E q \in order_events' : Holding(j, q)'
  <2>1. PICK q \in order_events : Holding(j, q) /\ EventOf(j) = q.event
    BY <1>6, HeldRecord DEF IInv
  <2>2. pc[j] = "commit" => q.event.order_id # o
    BY <1>1, <2>1 DEF IInv, RowLocks
  <2>3. Holding(j, q)'
    BY <1>1, <1>3, <1>5, <2>1, <2>2 DEF Holding, OthersKeep
  <2> QED BY <1>2, <2>1, <2>3
<1>7. WorkersInv'
  <2>1. ASSUME NEW j \in Workers, pc'[j] # "idle" PROVE \E q \in order_events' : Holding(j, q)'
    <3>1. j \in Workers \ {k} /\ pc[j] # "idle"
      BY <1>5, <2>1 DEF OthersKeep
    <3> QED BY <1>6, <3>1
  <2> QED BY <1>5, <2>1 DEF WorkersInv, OthersKeep
<1>8. RowLocks'
  <2>1. \A j \in Workers \ {k} : EventOf(j)' = EventOf(j)
    BY <1>5 DEF EventOf, RecordOf, OthersKeep
  <2> QED BY <1>5, <2>1 DEF IInv, RowLocks, OthersKeep
<1> QED BY <1>3, <1>4, <1>7, <1>8 DEF IInv

----------------------------------------------------------------------------
(* The theorems.                                                           *)

\* Every step of a writer or a worker preserves the inductive invariant.
THEOREM NextIInv == IInv /\ [Next]_vars => IInv'
<1> SUFFICES ASSUME IInv, [Next]_vars PROVE IInv'
  OBVIOUS
<1>1. CASE WriterStep
  BY <1>1, WriterOK
<1>2. ASSUME NEW k \in Workers, LoadEligible(k) PROVE IInv'
  BY <1>2, LoadEligibleOK
<1>3. ASSUME NEW k \in Workers, LoadState(k) PROVE IInv'
  BY <1>3, LoadStateOK
<1>4. ASSUME NEW k \in Workers, SaveState(k) PROVE IInv'
  BY <1>4, SaveStateOK
<1>5. ASSUME NEW k \in Workers, AdvanceProgress(k) PROVE IInv'
  BY <1>5, AdvanceProgressOK
<1>6. ASSUME NEW k \in Workers, Commit(k) PROVE IInv'
  <2>1. pc[k] = "commit" /\ Publish(k) /\ Finish(k, "applied") /\ UNCHANGED writers
    BY <1>6 DEF Commit
  <2> QED BY <2>1, PublishOK
<1>7. ASSUME NEW k \in Workers, CommitUnacknowledged(k) PROVE IInv'
  <2>1. pc[k] = "commit" /\ Publish(k) /\ Finish(k, "failed") /\ UNCHANGED writers
    BY <1>7 DEF CommitUnacknowledged
  <2> QED BY <2>1, PublishOK
<1>8. ASSUME NEW k \in Workers, Fail(k) PROVE IInv'
  <2>1. Finish(k, "failed") /\ UNCHANGED <<writers, derived>>
    BY <1>8 DEF Fail
  <2> QED BY <2>1, FinishOK
<1>9. CASE UNCHANGED vars
  <2>1. /\ order_events' = order_events /\ uncommitted' = uncommitted
        /\ position_seq' = position_seq /\ UNCHANGED <<derived, locals>>
    BY <1>9 DEF vars, writers
  <2> QED BY <2>1, StreamsStay, WriterKeeps DEF IInv
<1> QED BY <1>1, <1>2, <1>3, <1>4, <1>5, <1>6, <1>7, <1>8, <1>9 DEF Next, WorkerStep

\* The inductive invariant holds throughout every behaviour of writers and
\* workers, whatever they are and however often they fail.
THEOREM Invariance == Spec => []IInv
<1>1. Init => IInv
  <2> SUFFICES ASSUME Init PROVE IInv
    OBVIOUS
  <2>1. \A o : Stream(o) = {} /\ ProgressOf(o) = {} /\ StateOf(o) = {}
    BY DEF Init, Stream, ProgressOf, StateOf
  <2>2. IsLife({}, 0)
    BY DEF IsLife, IsContiguous, LegalLife
  <2>3. StreamsInv
    BY <2>1, <2>2 DEF Init, StreamsInv
  <2>4. DerivedInv
    BY <2>1 DEF DerivedInv
  <2>5. WorkersInv /\ RowLocks
    BY DEF Init, WorkersInv, RowLocks
  <2> QED BY <2>3, <2>4, <2>5 DEF IInv
<1> QED BY <1>1, NextIInv, PTL DEF Spec

\* The derived state of every order is at every moment the replay of its first
\* n accepted events, n being its durable progress.
THEOREM DerivedStateIsReplay == Spec => []StateIsReplayOfProgress
<1>1. IInv => StateIsReplayOfProgress
  <2> SUFFICES ASSUME IInv, NEW o \in Orders
               PROVE  /\ LastSequence(o) <= Len(History(o))
                      /\ load_state(o) = ReplayedState(o, LastSequence(o))
                      /\ StateOf(o) = {} <=> ProgressOf(o) = {}
                      /\ \A p \in ProgressOf(o) : \E r \in order_events :
                           /\ p = ProgressRow(r) /\ r.event.sequence = LastSequence(o)
                           /\ r.event.order_id = o
    BY DEF StateIsReplayOfProgress
  <2>1. PICK v \in 0..2 : IsLife(Stream(o), v)
    BY DEF IInv, StreamsInv
  <2>2. LastSequence(o) \in 0..v /\ load_state(o) = StateAfter(o, Stream(o), LastSequence(o))
    BY <2>1, DerivedIs DEF IInv
  <2>3. Len(History(o)) = v
    BY <2>1, InSequenceOrderContiguous DEF IsLife, History
  <2>4. ReplayOf(o, InSequenceOrder(Stream(o)), LastSequence(o))
          = StateAfter(o, Stream(o), LastSequence(o))
    BY <2>1, <2>2, ReplayOfLife
  <2>5. ReplayedState(o, LastSequence(o)) = StateAfter(o, Stream(o), LastSequence(o))
    BY <2>4 DEF ReplayedState, ReplayOf, History
  <2>6. StateOf(o) = {} <=> ProgressOf(o) = {}
    BY DEF IInv, DerivedInv
  <2>7. ASSUME NEW p \in ProgressOf(o)
        PROVE  \E r \in order_events : /\ p = ProgressRow(r)
                 /\ r.event.sequence = LastSequence(o) /\ r.event.order_id = o
    <3>1. PICK r \in order_events : r.event.order_id = o /\ ProgressOf(o) = {ProgressRow(r)}
      BY <2>7 DEF IInv, DerivedInv
    <3>2. LastSequence(o) = r.event.sequence
      BY <3>1 DEF LastSequence, ProgressRow
    <3> QED BY <3>1, <3>2
  <2> QED BY <2>2, <2>3, <2>5, <2>6, <2>7
<1> QED BY <1>1, Invariance, PTL

\* Among committed rows that qualify one has the lowest global position.
LEMMA LowestPosition ==
  ASSUME NEW R, R # {}, \A r \in R : r.global_position \in Nat
  PROVE  \E r \in R : \A s \in R : r.global_position <= s.global_position
<1> DEFINE P == {r.global_position : r \in R}
           L == OpToRel(<, Nat)
<1>1. P \subseteq Nat /\ P # {}
  OBVIOUS
<1>2. IsWellFoundedOn(L, Nat)
  BY NatLessThanWellFounded
<1>3. \A x, y \in Nat : x < y => <<x, y>> \in L
  BY DEF OpToRel
<1> HIDE DEF L
<1>4. PICK m \in P : \A y \in P : ~(<<y, m>> \in L)
  BY <1>1, <1>2, WFMin
<1>5. ASSUME NEW y \in P PROVE m <= y
  <2>1. m \in Nat /\ y \in Nat
    BY <1>1
  <2>2. ~(y < m)
    BY <1>3, <1>4, <2>1
  <2> HIDE DEF P
  <2> QED BY <2>1, <2>2
<1> QED BY <1>4, <1>5

\* When load_eligible finds nothing, the progress of every order is the length
\* of its history.
LEMMA NothingEligible ==
  ASSUME IInv, load_eligible = {}, NEW o \in Orders
  PROVE  LastSequence(o) = Len(History(o))
<1>1. PICK v \in 0..2 : IsLife(Stream(o), v)
  BY DEF IInv, StreamsInv
<1>2. LastSequence(o) \in 0..v
  BY <1>1, DerivedIs DEF IInv
<1>3. Len(History(o)) = v
  BY <1>1, InSequenceOrderContiguous DEF IsLife, History
<1>4. ASSUME LastSequence(o) < v PROVE FALSE
  <2> DEFINE n == LastSequence(o) + 1
             E == {r \in order_events : Eligible(r)}
  <2>1. n \in 1..v
    BY <1>2, <1>4
  <2>2. EventAt(Stream(o), n) \in Stream(o) /\ EventAt(Stream(o), n).sequence = n
    BY <1>1, <2>1, EventAtIn
  <2>3. PICK r \in order_events : r.event.order_id = o /\ r.event.sequence = n
    BY <2>2 DEF Stream
  <2>4. r \in E
    BY <2>3 DEF Eligible
  <2>5. \A s \in E : s.global_position \in Nat
    BY DEF IInv, StreamsInv, RowOK
  <2>6. PICK q \in E : \A s \in E : q.global_position <= s.global_position
    BY <2>4, <2>5, LowestPosition
  <2>7. q \in load_eligible
    BY <2>6 DEF load_eligible
  <2> QED BY <2>7
<1> QED BY <1>1, <1>2, <1>3, <1>4

\* no_event is the truth when it is returned: the derived state of every order
\* is then the replay of its whole committed history.
THEOREM NoEventIsTrue == Spec => NoEventMeansCaughtUp
<1> DEFINE Truth == \A k \in Workers :
                      LoadEligible(k) /\ reported'[k] = "no_event" /\ pc'[k] = "idle"
                        => \A o \in Orders : load_state(o) = ReplayedState(o, Len(History(o)))
<1>1. ASSUME IInv PROVE Truth
  <2> SUFFICES ASSUME NEW k \in Workers, LoadEligible(k), pc'[k] = "idle", NEW o \in Orders
               PROVE  load_state(o) = ReplayedState(o, Len(History(o)))
    OBVIOUS
  <2>1. load_eligible = {}
    <3>1. pc' # [pc EXCEPT ![k] = "load_state"]
      BY <1>1 DEF IInv, WorkersInv
    <3> QED BY <3>1 DEF LoadEligible
  <2>2. LastSequence(o) = Len(History(o))
    BY <1>1, <2>1, NothingEligible
  <2>3. PICK v \in 0..2 : IsLife(Stream(o), v)
    BY <1>1 DEF IInv, StreamsInv
  <2>4. LastSequence(o) \in 0..v /\ load_state(o) = StateAfter(o, Stream(o), LastSequence(o))
    BY <1>1, <2>3, DerivedIs DEF IInv
  <2>5. ReplayOf(o, InSequenceOrder(Stream(o)), LastSequence(o))
          = StateAfter(o, Stream(o), LastSequence(o))
    BY <2>3, <2>4, ReplayOfLife
  <2>6. ReplayedState(o, LastSequence(o)) = StateAfter(o, Stream(o), LastSequence(o))
    BY <2>5 DEF ReplayedState, ReplayOf, History
  <2> QED BY <2>2, <2>4, <2>6
<1>2. IInv => [Truth]_vars
  BY <1>1
<1>3. []IInv => [][Truth]_vars
  BY <1>2, PTL
<1> QED BY <1>3, Invariance, PTL DEF NoEventMeansCaughtUp

\* The durable progress of an order never goes back and never skips an event.
ProgressNeverSkips ==
  [][\A o \in Orders : LastSequence(o)' \in {LastSequence(o), LastSequence(o) + 1}]_vars

\* Competing workers, lost commit acknowledgements and failures cannot take
\* the durable progress of an order back or past an event it has not applied:
\* each publication advances it by exactly one.
THEOREM ProgressIsStepwise == Spec => ProgressNeverSkips
<1> DEFINE Stepwise == \A o \in Orders : LastSequence(o)' \in {LastSequence(o), LastSequence(o) + 1}
<1>1. ASSUME IInv, [Next]_vars PROVE [Stepwise]_vars
  <2>1. CASE UNCHANGED derived
    BY <2>1 DEF derived, LastSequence, ProgressOf
  <2>2. ASSUME NEW k \in Workers, pc[k] = "commit", Publish(k), UNCHANGED writers
        PROVE  Stepwise
    BY <1>1, <2>2, PublishIs
  <2>3. \/ UNCHANGED derived
        \/ \E k \in Workers : pc[k] = "commit" /\ Publish(k) /\ UNCHANGED writers
    BY <1>1, Zenon DEF Next, vars, WriterStep, InsertRow, CommitRow, RollbackRow, WorkerStep,
       LoadEligible, LoadState, SaveState, AdvanceProgress, Commit, CommitUnacknowledged, Fail
  <2> QED BY <2>1, <2>2, <2>3
<1> QED BY <1>1, Invariance, PTL DEF Spec, ProgressNeverSkips

=============================================================================
