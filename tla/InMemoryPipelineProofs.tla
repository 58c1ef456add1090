----------------------- MODULE InMemoryPipelineProofs -----------------------
(***************************************************************************)
(* Theorems about InMemoryPipeline, for any set of callers, orders and     *)
(* commands, under either validator.                                       *)
(*                                                                         *)
(* The inductive invariant has two halves.  What holds of every order is   *)
(* what a lock-free EventStore.append still gives: candidates answer their *)
(* commands, and the feed of the worker holds the events of each order in  *)
(* the order of their sequences.  What holds of an order as long as no two *)
(* appends of it overlap is the rest: its list is never replaced and is a  *)
(* legal history that holds all its accepted events, because the candidate *)
(* of each handler was legal on some prefix of it and append admits it     *)
(* only if that prefix is the whole list, which nobody else is changing.   *)
(***************************************************************************)
EXTENDS InMemoryPipeline, OrderDomainProofs

EventIds == Callers \X Nat

EventRecord ==
  [event_id : EventIds, request_id : {c.request_id : c \in Commands}, order_id : Orders,
   sequence : Nat, event_type : EventTypes, amount : Int,
   proof : [prev_status : OrderStatuses, prev_version : Nat,
            prev_event_id : EventIds \cup {NoEvent}]]

HandlerRecord ==
  [pc : {"rest", "decide", "append", "create", "check", "push", "record"},
   command : SUBSET Commands, candidate : SUBSET EventRecord, list : Nat]

----------------------------------------------------------------------------
(* Streams and the candidates built on them.                               *)

\* The list an entry has now; a missing entry reads as an empty one.
Current(lists) == IF lists = <<>> THEN <<>> ELSE lists[Len(lists)]

\* e is the candidate of c on the history h.
BuiltOn(h, c, e) ==
  LET a == Rehydrate(c.order_id, h)
  IN  IsLegal(a, c) /\ e = CandidateEvent(a, c, e.event_id)

\* e was built on what h was earlier.
BuiltBefore(h, c, e) == \E m \in 0..Len(h) : BuiltOn(SubSeq(h, 1, m), c, e)

\* Each event of h is the candidate of a command on the events before it.
LegalLife(o, h) ==
  \A n \in 1..Len(h) : \E c \in Commands :
    c.order_id = o /\ BuiltOn(SubSeq(h, 1, n - 1), c, h[n])

\* An order is created by its first event and paid by its second, and this is
\* so of a candidate whatever list it ends up in.
Shaped(e) ==
  /\ e.sequence = (IF e.event_type = "CREATED" THEN 1 ELSE 2)
  /\ e.proof.prev_version = e.sequence - 1

\* e was accepted; the creation of o was accepted.
InFeed(feed, e) == \E n \in 1..Len(feed) : feed[n] = e
Opened(feed, o) == \E n \in 1..Len(feed) : feed[n].order_id = o /\ feed[n].sequence = 1

\* The prefixes of a stream, before and after it grows.
LEMMA PrefixOfAppend ==
  ASSUME NEW T, NEW h \in Seq(T), NEW e \in T
  PROVE  /\ Append(h, e) \in Seq(T) /\ Len(Append(h, e)) = Len(h) + 1
         /\ Append(h, e)[Len(h) + 1] = e /\ \A n \in 1..Len(h) : Append(h, e)[n] = h[n]
         /\ SubSeq(h, 1, Len(h)) = h
         /\ \A m \in 0..Len(h) : SubSeq(Append(h, e), 1, m) = SubSeq(h, 1, m)
<1>1. /\ Append(h, e) \in Seq(T) /\ Len(Append(h, e)) = Len(h) + 1
      /\ Append(h, e)[Len(h) + 1] = e /\ \A n \in 1..Len(h) : Append(h, e)[n] = h[n]
  OBVIOUS
<1>2. SubSeq(h, 1, Len(h)) = h
  OBVIOUS
<1>3. ASSUME NEW m \in 0..Len(h)
      PROVE  SubSeq(Append(h, e), 1, m) = SubSeq(h, 1, m)
  <2> DEFINE g == Append(h, e)
  <2> HIDE DEF g
  <2>1. g \in Seq(T) /\ Len(g) = Len(h) + 1 /\ \A n \in 1..Len(h) : g[n] = h[n]
    BY <1>1 DEF g
  <2>2. /\ SubSeq(g, 1, m) \in Seq(T) /\ Len(SubSeq(g, 1, m)) = m
        /\ \A i \in 1..m : SubSeq(g, 1, m)[i] = g[i]
    BY <2>1
  <2>3. /\ SubSeq(h, 1, m) \in Seq(T) /\ Len(SubSeq(h, 1, m)) = m
        /\ \A i \in 1..m : SubSeq(h, 1, m)[i] = h[i]
    OBVIOUS
  <2> QED BY <2>1, <2>2, <2>3, SeqEqual DEF g
<1> QED BY <1>1, <1>2, <1>3

\* A prefix of a legal history is one.
LEMMA LegalPrefix ==
  ASSUME NEW o, NEW T, NEW h \in Seq(T), LegalHistory(o, h), NEW m \in 0..Len(h)
  PROVE  SubSeq(h, 1, m) \in Seq(T) /\ Len(SubSeq(h, 1, m)) = m /\ LegalHistory(o, SubSeq(h, 1, m))
<1> DEFINE g == SubSeq(h, 1, m)
<1>1. g \in Seq(T) /\ Len(g) = m /\ \A i \in 1..m : g[i] = h[i]
  OBVIOUS
<1> HIDE DEF g
<1> QED BY <1>1 DEF LegalHistory, g

\* The sequence of a candidate is the next of the legal history it was built on.
LEMMA BuiltIs ==
  ASSUME PipelineAssumption, NEW h \in Seq(EventRecord), NEW c \in Commands,
         LegalHistory(c.order_id, h), NEW e \in EventRecord, BuiltOn(h, c, e)
  PROVE  /\ e.sequence = Len(h) + 1 /\ e.proof.prev_version = Len(h)
         /\ LegalHistory(c.order_id, Append(h, e))
<1>1. c.command_type \in CommandTypes
  BY DEF PipelineAssumption
<1> QED BY <1>1, LegalGrows DEF BuiltOn

\* A candidate answers its command and has the shape of its type, if it was
\* built on any history that can be rehydrated and whose events have theirs.
LEMMA CandidateIs ==
  ASSUME PipelineAssumption, NEW h \in Seq(EventRecord), NEW c \in Commands,
         Rehydratable(c.order_id, h), \A k \in 1..Len(h) : Shaped(h[k]),
         NEW e, e.event_id \in EventIds, BuiltOn(h, c, e)
  PROVE  /\ e \in EventRecord /\ Answers(c, e) /\ Shaped(e)
         /\ e.sequence = 2 => 1 \in 1..Len(h) /\ h[1].sequence = 1 /\ h[1].order_id = c.order_id
<1>1. PICK a, n : a = Rehydrate(c.order_id, h) /\ n = Len(h)
  OBVIOUS
<1>2. e = CandidateEvent(a, c, e.event_id) /\ IsLegal(a, c)
  BY <1>1 DEF BuiltOn
<1>3. /\ a.order_id = c.order_id
      /\ a.current_version = IF n = 0 THEN 0 ELSE h[n].sequence
      /\ a.status = IF n = 0 THEN "INIT" ELSE StatusAfter(h[n].event_type)
      /\ a.last_event_id = IF n = 0 THEN NoEvent ELSE h[n].event_id
  BY <1>1 DEF Rehydrate
<1>4. n \in Nat /\ (n # 0 => n \in 1..Len(h) /\ h[n] \in EventRecord /\ Shaped(h[n]))
  BY <1>1
<1>5. /\ c.order_id \in Orders /\ c.command_type \in CommandTypes /\ c.amount \in Int
      /\ c.request_id \in {d.request_id : d \in Commands}
  BY DEF PipelineAssumption
<1>6. normalize_money(c.amount) \in Int
  BY <1>5, NormalizedIsInteger
<1>7. /\ a.status \in OrderStatuses /\ a.current_version \in Nat
      /\ a.last_event_id \in EventIds \cup {NoEvent}
  BY <1>3, <1>4 DEF EventRecord, OrderStatuses, StatusAfter
<1>8. e \in EventRecord
  <2>1. [prev_status |-> a.status, prev_version |-> a.current_version, prev_event_id |-> a.last_event_id]
          \in [prev_status : OrderStatuses, prev_version : Nat, prev_event_id : EventIds \cup {NoEvent}]
    BY <1>7
  <2>2. a.order_id \in Orders /\ a.current_version + 1 \in Nat
    BY <1>3, <1>5, <1>7
  <2>3. e = CandidateEvent(a, c, e.event_id)
    BY <1>2
  <2> QED BY <1>5, <1>6, <2>1, <2>2, <2>3 DEF CandidateEvent, EventRecord, EventTypes
<1>9. Answers(c, e)
  BY <1>2, <1>3 DEF CandidateEvent, Answers
<1>10. /\ e.sequence = a.current_version + 1 /\ e.proof.prev_version = a.current_version
       /\ e.event_type = (IF c.command_type = "create" THEN "CREATED" ELSE "PAID")
  BY <1>2 DEF CandidateEvent
<1>11. CASE c.command_type = "create"
  <2>1. a.status = "INIT"
    BY <1>2, <1>11 DEF IsLegal
  <2>2. n = 0
    BY <1>3, <2>1 DEF StatusAfter
  <2>3. e.sequence = 1 /\ e.proof.prev_version = 0 /\ e.event_type = "CREATED"
    BY <1>3, <1>10, <1>11, <2>2
  <2> QED BY <1>8, <1>9, <2>3 DEF Shaped
<1>12. CASE c.command_type # "create"
  <2>1. a.status = "CREATED"
    BY <1>2, <1>12 DEF IsLegal
  <2>2. n # 0 /\ h[n].event_type = "CREATED"
    BY <1>3, <2>1 DEF StatusAfter
  <2>3. h[n].sequence = 1
    BY <1>4, <2>2 DEF Shaped
  <2>4. e.sequence = 2 /\ e.proof.prev_version = 1 /\ e.event_type = "PAID"
    BY <1>3, <1>10, <1>12, <2>2, <2>3
  <2>5. 1 \in 1..Len(h)
    BY <1>1, <1>4, <2>2
  <2>6. h[1].sequence = 1 /\ h[1].order_id = c.order_id
    BY <2>5 DEF Rehydratable
  <2> QED BY <1>8, <1>9, <2>4, <2>5, <2>6 DEF Shaped
<1> QED BY <1>11, <1>12

\* What was built on a stream or lives in it still does after it grows.
LEMMA StreamGrows ==
  ASSUME NEW T, NEW h \in Seq(T), NEW e \in T
  PROVE  /\ \A c, x : BuiltBefore(h, c, x) => BuiltBefore(Append(h, e), c, x)
         /\ \A o : LegalLife(o, h) /\ (\E c \in Commands : c.order_id = o /\ BuiltOn(h, c, e))
                     => LegalLife(o, Append(h, e))
<1> DEFINE g == Append(h, e)
<1>1. /\ g \in Seq(T) /\ Len(g) = Len(h) + 1 /\ g[Len(h) + 1] = e
      /\ \A n \in 1..Len(h) : g[n] = h[n]
      /\ SubSeq(h, 1, Len(h)) = h /\ \A m \in 0..Len(h) : SubSeq(g, 1, m) = SubSeq(h, 1, m)
  BY PrefixOfAppend
<1> HIDE DEF g
<1>2. ASSUME NEW c, NEW x, BuiltBefore(h, c, x) PROVE BuiltBefore(g, c, x)
  <2>1. PICK m \in 0..Len(h) : BuiltOn(SubSeq(h, 1, m), c, x)
    BY <1>2 DEF BuiltBefore
  <2>2. m \in 0..Len(g) /\ SubSeq(g, 1, m) = SubSeq(h, 1, m)
    BY <1>1
  <2>3. BuiltOn(SubSeq(g, 1, m), c, x)
    BY <2>1, <2>2
  <2> QED BY <2>2, <2>3 DEF BuiltBefore
<1>3. ASSUME NEW o, LegalLife(o, h), NEW d \in Commands, d.order_id = o, BuiltOn(h, d, e)
      PROVE  LegalLife(o, g)
  <2> SUFFICES ASSUME NEW n \in 1..Len(g)
               PROVE  \E c \in Commands : c.order_id = o /\ BuiltOn(SubSeq(g, 1, n - 1), c, g[n])
    BY DEF LegalLife
  <2>1. CASE n \in 1..Len(h)
    <3>1. g[n] = h[n] /\ SubSeq(g, 1, n - 1) = SubSeq(h, 1, n - 1)
      BY <1>1, <2>1
    <3> QED BY <1>3, <2>1, <3>1 DEF LegalLife
  <2>2. CASE n = Len(h) + 1
    <3>1. g[n] = e /\ n - 1 = Len(h) /\ SubSeq(g, 1, n - 1) = h
      BY <1>1, <2>2
    <3> QED BY <1>3, <3>1
  <2> QED BY <1>1, <2>1, <2>2
<1> QED BY <1>2, <1>3 DEF g

\* The one member of a singleton.
LEMMA TheIs == \A x : The({x}) = x
BY DEF The

\* A member of a set that has one.
LEMMA TheIsMember == ASSUME NEW S, S # {} PROVE The(S) \in S
BY DEF The

\* The current list of an entry is one of its lists, if it has any.
LEMMA CurrentIs ==
  ASSUME NEW T, NEW lists \in Seq(Seq(T))
  PROVE  /\ Current(lists) \in Seq(T)
         /\ lists = <<>> => Current(lists) = <<>>
         /\ lists # <<>> => /\ Len(lists) \in 1..Len(lists)
                            /\ Current(lists) = lists[Len(lists)]
<1>1. CASE lists = <<>>
  BY <1>1 DEF Current
<1>2. CASE lists # <<>>
  <2>1. Len(lists) \in 1..Len(lists)
    BY <1>2
  <2>2. lists[Len(lists)] \in Seq(T)
    BY <2>1
  <2> QED BY <1>2, <2>1, <2>2 DEF Current
<1> QED BY <1>1, <1>2

----------------------------------------------------------------------------
(* The inductive invariant.                                                *)

TypeInv ==
  /\ events_by_order_id \in [Orders -> Seq(Seq(EventRecord))]
  /\ accepted \in Seq(EventRecord)
  /\ handler \in [Callers -> HandlerRecord]

\* Every list of an order, replaced or not, holds accepted events of the order.
ListOk(h, feed, o) ==
  \A k \in 1..Len(h) : h[k].order_id = o /\ Shaped(h[k]) /\ InFeed(feed, h[k])

ListsInv ==
  \A o \in Orders : \A i \in 1..Len(events_by_order_id[o]) :
    ListOk(events_by_order_id[o][i], accepted, o)

\* What a handler holds at each of its control points, whatever the others do.
HandlerOk(x, str, feed) ==
  x.pc # "rest" =>
    \E c \in Commands :
      /\ x.command = {c}
      /\ x.pc # "decide" =>
           \E e \in x.candidate :
             /\ x.candidate = {e} /\ Answers(c, e) /\ Shaped(e)
             /\ e.sequence = 2 => Opened(feed, c.order_id)
             /\ x.pc \in {"check", "push"} => x.list \in 1..Len(str[c.order_id])
             /\ x.pc = "record" => InFeed(feed, e)

HandlersInv == \A p \in Callers : HandlerOk(handler[p], events_by_order_id, accepted)

\* A record names a command and an event that it got accepted.
RecordsInv ==
  \A i \in records_by_request_id :
    /\ i.signature \in Commands
    /\ Answers(i.signature, i.accepted_event) /\ InFeed(accepted, i.accepted_event)

\* The feed holds the events of one order in the order of their sequences.
FeedOrderInv ==
  \A n \in 1..Len(accepted) : \A k \in 1..(accepted[n].sequence - 1) :
    \E m \in 1..(n - 1) :
      accepted[m].order_id = accepted[n].order_id /\ accepted[m].sequence = k

\* What the last step returned.
ReturnedInv ==
  \A r \in returned :
    LET c == r.command
    IN  /\ r.verdict \in {"ACCEPTED", "REPLAY"} =>
             \E e \in r.event : Answers(c, e) /\ InFeed(accepted, e)
        /\ r.verdict = "CONFLICT" =>
             \E n \in 1..Len(accepted), d \in Commands :
               accepted[n].request_id = c.request_id /\ d # c /\ d.request_id = c.request_id
        /\ r.verdict = "STALE_WRITE" =>
             \E n \in 1..Len(accepted) : accepted[n].order_id = c.order_id

\* The list of an order is a legal history and holds what was accepted for it.
Intact(h, feed, o) ==
  /\ LegalHistory(o, h) /\ LegalLife(o, h)
  /\ \A n \in 1..Len(feed) :
       feed[n].order_id = o => feed[n].sequence \in 1..Len(h) /\ h[feed[n].sequence] = feed[n]

IntactInv ==
  \A o \in Orders \ overlapped :
    Len(events_by_order_id[o]) <= 1 /\ Intact(Current(events_by_order_id[o]), accepted, o)

\* A handler is between the first line of append and the last.
InsideOf(x, o) ==
  x.pc \in {"create", "check", "push"} /\ The(x.candidate).order_id = o

AloneInv ==
  \A o \in Orders \ overlapped : \A p, q \in Callers :
    InsideOf(handler[p], o) /\ InsideOf(handler[q], o) => p = q

\* What a handler knows of an order that nobody else is inside the append of.
KnowsList(x, lists, c, e) ==
  /\ BuiltBefore(Current(lists), c, e)
  /\ x.pc = "create" => lists = <<>>
  /\ x.pc \in {"check", "push"} => x.list = Len(lists)
  /\ x.pc = "push" => Len(Current(lists)) = e.proof.prev_version

HandlerKnows(x, str, over) ==
  x.pc \in {"append", "create", "check", "push"} =>
    \A c \in x.command, e \in x.candidate :
      c.order_id \notin over => KnowsList(x, str[c.order_id], c, e)

KnowledgeInv == \A p \in Callers : HandlerKnows(handler[p], events_by_order_id, overlapped)

\* The lists, the feed and the handlers.
HistoryInv ==
  /\ TypeInv /\ ListsInv /\ HandlersInv /\ FeedOrderInv
  /\ IntactInv /\ AloneInv /\ KnowledgeInv

RegistryInv == HistoryInv /\ RecordsInv /\ ReturnedInv

\* The version of the state the worker would load for an order.
LoadedVersion(o) == load_or_init_state(o).version

\* Each state is derived from a prefix of its history, if that is intact.
StatesInv ==
  \A s \in states :
    /\ s.order_id \in Orders /\ s.version \in Nat
    /\ s.order_id \notin overlapped =>
         \E v \in 0..Len(Stream(s.order_id)) :
           s = DerivedState(s.order_id, Stream(s.order_id), v)

\* The checkpoint covers only records that are in their states, and a record
\* whose checkpoint is outstanding is the next one and is in its state.
CheckpointInv ==
  /\ offset \in -1..(Len(accepted) - 1)
  /\ cleared \in BOOLEAN
  /\ unsaved # {} => /\ unsaved = {offset + 1} /\ offset + 1 < Len(accepted)
                     /\ accepted[offset + 2].sequence <= LoadedVersion(accepted[offset + 2].order_id)
  /\ ~cleared => \A n \in 1..(offset + 1) :
                   accepted[n].sequence <= LoadedVersion(accepted[n].order_id)

IInv == RegistryInv /\ StatesInv /\ CheckpointInv

----------------------------------------------------------------------------
(* The steps of the registry.                                              *)

\* The types of what the steps read.
LEMMA Types ==
  ASSUME HistoryInv
  PROVE  /\ events_by_order_id \in [Orders -> Seq(Seq(EventRecord))]
         /\ accepted \in Seq(EventRecord) /\ Len(accepted) \in Nat
         /\ handler \in [Callers -> HandlerRecord]
BY DEF HistoryInv, TypeInv

\* What was accepted stays in a feed that grows, and a handler that stays
\* while lists and feed grow holds what it held.
LEMMA HandlerKept ==
  ASSUME PipelineAssumption, NEW str, NEW after, NEW feed, NEW fed,
         \A q \in Orders : /\ Len(str[q]) \in Nat /\ Len(after[q]) \in Nat
                           /\ Len(str[q]) <= Len(after[q]),
         Len(feed) \in Nat, Len(fed) \in Nat, Len(feed) <= Len(fed),
         \A n \in 1..Len(feed) : fed[n] = feed[n]
  PROVE  /\ \A e : InFeed(feed, e) => InFeed(fed, e)
         /\ \A o : Opened(feed, o) => Opened(fed, o)
         /\ \A y : HandlerOk(y, str, feed) => HandlerOk(y, after, fed)
<1>1. \A n \in 1..Len(feed) : n \in 1..Len(fed) /\ fed[n] = feed[n]
  OBVIOUS
<1>2. \A e : InFeed(feed, e) => InFeed(fed, e)
  BY <1>1 DEF InFeed
<1>3. \A o : Opened(feed, o) => Opened(fed, o)
  BY <1>1 DEF Opened
<1>4. ASSUME NEW y, HandlerOk(y, str, feed) PROVE HandlerOk(y, after, fed)
  <2>1. CASE y.pc = "rest"
    BY <2>1 DEF HandlerOk
  <2>2. CASE y.pc # "rest"
    <3>1. PICK c \in Commands :
            /\ y.command = {c}
            /\ y.pc # "decide" =>
                 \E e \in y.candidate :
                   /\ y.candidate = {e} /\ Answers(c, e) /\ Shaped(e)
                   /\ e.sequence = 2 => Opened(feed, c.order_id)
                   /\ y.pc \in {"check", "push"} => y.list \in 1..Len(str[c.order_id])
                   /\ y.pc = "record" => InFeed(feed, e)
      BY <1>4, <2>2 DEF HandlerOk
    <3>2. c.order_id \in Orders
      BY DEF PipelineAssumption
    <3>3. y.list \in 1..Len(str[c.order_id]) => y.list \in 1..Len(after[c.order_id])
      BY <3>2
    <3> QED BY <1>2, <1>3, <3>1, <3>3 DEF HandlerOk
  <2> QED BY <2>1, <2>2
<1> QED BY <1>2, <1>3, <1>4

\* A handler that moves while the lists and the feed stay.
LEMMA HandlerMoves ==
  ASSUME HistoryInv, NEW p \in Callers, NEW x \in HandlerRecord,
         handler' = [handler EXCEPT ![p] = x], UNCHANGED <<events_by_order_id, accepted>>,
         overlapped \subseteq overlapped', HandlerOk(x, events_by_order_id, accepted),
         HandlerKnows(x, events_by_order_id, overlapped'),
         \A o \in Orders \ overlapped' : \A q \in Callers \ {p} :
           ~(InsideOf(x, o) /\ InsideOf(handler[q], o))
  PROVE  HistoryInv'
<1>1. PICK str, over : str = events_by_order_id /\ over = overlapped'
  OBVIOUS
<1>2. \A q \in Callers : handler'[q] = IF q = p THEN x ELSE handler[q]
  BY Types
<1>3. TypeInv'
  BY Types DEF TypeInv
<1>4. ListsInv'
  BY DEF HistoryInv, ListsInv
<1>5. HandlersInv'
  <2>1. ASSUME NEW q \in Callers PROVE HandlerOk(handler'[q], events_by_order_id, accepted)
    <3>1. CASE q = p
      BY <1>2, <3>1
    <3>2. CASE q # p
      BY <1>2, <3>2 DEF HistoryInv, HandlersInv
    <3> QED BY <3>1, <3>2
  <2> QED BY <2>1 DEF HandlersInv
<1>6. FeedOrderInv'
  BY DEF HistoryInv, FeedOrderInv
<1>7. IntactInv'
  <2>1. \A o \in Orders \ over :
          Len(events_by_order_id[o]) <= 1 /\ Intact(Current(events_by_order_id[o]), accepted, o)
    BY <1>1 DEF HistoryInv, IntactInv
  <2> QED BY <1>1, <2>1 DEF IntactInv
<1>8. AloneInv'
  <2> SUFFICES ASSUME NEW o \in Orders \ over, NEW q \in Callers, NEW r \in Callers,
                      InsideOf(handler'[q], o), InsideOf(handler'[r], o)
               PROVE  q = r
    BY <1>1 DEF AloneInv
  <2>1. CASE q # p /\ r # p
    <3>1. InsideOf(handler[q], o) /\ InsideOf(handler[r], o) /\ o \notin overlapped
      BY <1>1, <1>2, <2>1
    <3> QED BY <3>1 DEF HistoryInv, AloneInv
  <2>2. CASE q = p /\ r # p
    BY <1>1, <1>2, <2>2
  <2>3. CASE q # p /\ r = p
    BY <1>1, <1>2, <2>3
  <2> QED BY <2>1, <2>2, <2>3
<1>9. KnowledgeInv'
  <2>1. ASSUME NEW q \in Callers PROVE HandlerKnows(handler'[q], str, over)
    <3>1. CASE q = p
      BY <1>1, <1>2, <3>1
    <3>2. CASE q # p
      <4>1. HandlerKnows(handler[q], str, overlapped)
        BY <1>1 DEF HistoryInv, KnowledgeInv
      <4>2. HandlerKnows(handler[q], str, over)
        BY <1>1, <4>1 DEF HandlerKnows
      <4> QED BY <1>2, <3>2, <4>2
    <3> QED BY <3>1, <3>2
  <2> QED BY <1>1, <2>1 DEF KnowledgeInv
<1> QED BY <1>3, <1>4, <1>5, <1>6, <1>7, <1>8, <1>9 DEF HistoryInv

\* A handler at rest holds nothing.
LEMMA RestingOk ==
  /\ Resting \in HandlerRecord /\ \A str, feed : HandlerOk(Resting, str, feed)
  /\ \A str, over : HandlerKnows(Resting, str, over)
  /\ \A o : ~InsideOf(Resting, o)
BY DEF Resting, HandlerRecord, HandlerOk, HandlerKnows, InsideOf

\* A handler that answers while the lists stay, and says what is so.
LEMMA HandlerAnswers ==
  ASSUME HistoryInv, NEW p \in Callers, NEW c, NEW verdict, NEW event,
         Answer(p, c, verdict, event), UNCHANGED <<events_by_order_id, accepted, overlapped>>,
         verdict \in {"ACCEPTED", "REPLAY"} =>
           \E e \in event : Answers(c, e) /\ InFeed(accepted, e),
         verdict = "CONFLICT" =>
           \E n \in 1..Len(accepted), d \in Commands :
             accepted[n].request_id = c.request_id /\ d # c /\ d.request_id = c.request_id,
         verdict = "STALE_WRITE" =>
           \E n \in 1..Len(accepted) : accepted[n].order_id = c.order_id
  PROVE  HistoryInv' /\ ReturnedInv'
<1>1. /\ handler' = [handler EXCEPT ![p] = Resting]
      /\ returned' = {[verdict |-> verdict, command |-> c, event |-> event]}
  BY DEF Answer
<1>2. HistoryInv'
  BY <1>1, RestingOk, HandlerMoves
<1>3. ReturnedInv'
  <2>1. ASSUME NEW r, r = [verdict |-> verdict, command |-> c, event |-> event]
        PROVE  /\ r.verdict \in {"ACCEPTED", "REPLAY"} =>
                    \E e \in r.event : Answers(r.command, e) /\ InFeed(accepted, e)
               /\ r.verdict = "CONFLICT" =>
                    \E n \in 1..Len(accepted), d \in Commands :
                      /\ accepted[n].request_id = r.command.request_id
                      /\ d # r.command /\ d.request_id = r.command.request_id
               /\ r.verdict = "STALE_WRITE" =>
                    \E n \in 1..Len(accepted) : accepted[n].order_id = r.command.order_id
    <3>1. r.verdict = verdict /\ r.command = c /\ r.event = event
      BY <2>1
    <3> QED BY <3>1
  <2> QED BY <1>1, <2>1 DEF ReturnedInv
<1> QED BY <1>2, <1>3

\* A handler that goes on tells nobody anything.
LEMMA HandlerContinues ==
  ASSUME HistoryInv, NEW p \in Callers, NEW x \in HandlerRecord, Continue(p, x),
         UNCHANGED <<events_by_order_id, accepted>>,
         overlapped \subseteq overlapped', HandlerOk(x, events_by_order_id, accepted),
         HandlerKnows(x, events_by_order_id, overlapped'),
         \A o \in Orders \ overlapped' : \A q \in Callers \ {p} :
           ~(InsideOf(x, o) /\ InsideOf(handler[q], o))
  PROVE  HistoryInv' /\ ReturnedInv'
<1>1. handler' = [handler EXCEPT ![p] = x] /\ returned' = {}
  BY DEF Continue
<1>2. HistoryInv'
  BY <1>1, HandlerMoves
<1> QED BY <1>1, <1>2 DEF ReturnedInv

\* The records of an unchanged feed.
LEMMA RecordsStay ==
  ASSUME RecordsInv, UNCHANGED <<accepted, records_by_request_id>>
  PROVE  RecordsInv'
BY DEF RecordsInv

\* _check_idempotency answers from a record or lets the handler go on.
LEMMA HandleStep ==
  ASSUME PipelineAssumption, RegistryInv, NEW p \in Callers, NEW c \in Commands, handle(p, c)
  PROVE  RegistryInv'
<1> DEFINE existing == {i \in records_by_request_id : i.signature.request_id = c.request_id}
           x == [Resting EXCEPT !.pc = "decide", !.command = {c},
                                !.list = Len(events_by_order_id[c.order_id])]
<1>1. /\ check(c).verdict = IF existing = {} THEN "MISS"
                            ELSE IF The(existing).signature = c THEN "REPLAY" ELSE "CONFLICT"
      /\ check(c).event = {i.accepted_event : i \in existing}
  BY DEF check
<1>2. UNCHANGED <<mode, events_by_order_id, records_by_request_id, accepted, overlapped>>
  BY DEF handle
<1>3. /\ \/ check(c).verdict = "MISS" /\ Continue(p, x)
         \/ check(c).verdict = "REPLAY" /\ Answer(p, c, "REPLAY", check(c).event)
         \/ check(c).verdict = "CONFLICT" /\ Answer(p, c, "CONFLICT", {})
  BY DEF handle
<1>4. existing # {} => /\ The(existing) \in records_by_request_id
                       /\ The(existing).signature.request_id = c.request_id
                       /\ The(existing).accepted_event \in {i.accepted_event : i \in existing}
  BY TheIsMember
<1>5. PICK j : j = The(existing)
  OBVIOUS
<1>6. /\ x.pc = "decide" /\ x.command = {c} /\ x \in HandlerRecord
  <2>1. c.order_id \in Orders /\ HistoryInv
    BY DEF PipelineAssumption, RegistryInv
  <2>2. events_by_order_id[c.order_id] \in Seq(Seq(EventRecord))
    BY <2>1, Types
  <2>3. Len(events_by_order_id[c.order_id]) \in Nat
    BY <2>2
  <2> QED BY <2>3 DEF Resting, HandlerRecord
<1> HIDE DEF existing, x
<1>7. HistoryInv
  BY DEF RegistryInv
<1>8. HistoryInv' /\ ReturnedInv'
  <2>1. CASE Continue(p, x)
    <3>1. /\ HandlerOk(x, events_by_order_id, accepted)
          /\ HandlerKnows(x, events_by_order_id, overlapped')
          /\ \A o : ~InsideOf(x, o)
      BY <1>6 DEF HandlerOk, HandlerKnows, InsideOf
    <3> QED BY <1>2, <1>6, <1>7, <2>1, <3>1, HandlerContinues
  <2>2. CASE check(c).verdict = "REPLAY" /\ Answer(p, c, "REPLAY", check(c).event)
    <3>1. existing # {} /\ j.signature = c
      BY <1>1, <1>5, <2>2
    <3>2. j \in records_by_request_id /\ j.accepted_event \in check(c).event
      BY <1>1, <1>4, <1>5, <3>1
    <3>3. Answers(c, j.accepted_event) /\ InFeed(accepted, j.accepted_event)
      BY <3>1, <3>2 DEF RegistryInv, RecordsInv
    <3>4. PICK event : event = check(c).event
      OBVIOUS
    <3> QED BY <1>2, <1>7, <2>2, <3>2, <3>3, <3>4, HandlerAnswers
  <2>3. CASE check(c).verdict = "CONFLICT" /\ Answer(p, c, "CONFLICT", {})
    <3>1. existing # {} /\ j.signature # c
      BY <1>1, <1>5, <2>3
    <3>2. j \in records_by_request_id /\ j.signature.request_id = c.request_id
      BY <1>4, <1>5, <3>1
    <3>3. /\ j.signature \in Commands
          /\ Answers(j.signature, j.accepted_event) /\ InFeed(accepted, j.accepted_event)
      BY <3>2 DEF RegistryInv, RecordsInv
    <3>4. PICK n \in 1..Len(accepted) : accepted[n] = j.accepted_event
      BY <3>3 DEF InFeed
    <3>5. accepted[n].request_id = c.request_id
      BY <3>2, <3>3, <3>4 DEF Answers
    <3>6. \E m \in 1..Len(accepted), d \in Commands :
            accepted[m].request_id = c.request_id /\ d # c /\ d.request_id = c.request_id
      BY <3>1, <3>2, <3>3, <3>5
    <3> QED BY <1>2, <1>7, <2>3, <3>6, HandlerAnswers
  <2> QED BY <1>3, <2>1, <2>2, <2>3
<1> QED BY <1>2, <1>8, RecordsStay DEF RegistryInv

\* A handler past its first call has one command, and past its second one
\* candidate.
LEMMA HandlerCommand ==
  ASSUME PipelineAssumption, HistoryInv, NEW p \in Callers, handler[p].pc # "rest"
  PROVE  \E c \in Commands :
           /\ handler[p].command = {c} /\ The(handler[p].command) = c /\ c.order_id \in Orders
           /\ handler[p].pc # "decide" =>
                \E e \in EventRecord :
                  /\ handler[p].candidate = {e} /\ The(handler[p].candidate) = e
                  /\ Answers(c, e) /\ Shaped(e) /\ e.order_id = c.order_id
                  /\ e.sequence = 2 => Opened(accepted, c.order_id)
                  /\ handler[p].pc \in {"check", "push"} =>
                       handler[p].list \in 1..Len(events_by_order_id[c.order_id])
                  /\ handler[p].pc = "record" => InFeed(accepted, e)
<1>1. HandlerOk(handler[p], events_by_order_id, accepted) /\ handler[p] \in HandlerRecord
  BY Types DEF HistoryInv, HandlersInv
<1>2. handler[p].candidate \subseteq EventRecord
  BY <1>1 DEF HandlerRecord
<1>3. PICK c \in Commands :
        /\ handler[p].command = {c}
        /\ handler[p].pc # "decide" =>
             \E e \in handler[p].candidate :
               /\ handler[p].candidate = {e} /\ Answers(c, e) /\ Shaped(e)
               /\ e.sequence = 2 => Opened(accepted, c.order_id)
               /\ handler[p].pc \in {"check", "push"} =>
                    handler[p].list \in 1..Len(events_by_order_id[c.order_id])
               /\ handler[p].pc = "record" => InFeed(accepted, e)
  BY <1>1 DEF HandlerOk
<1>4. The(handler[p].command) = c /\ c.order_id \in Orders
  BY <1>3, TheIs DEF PipelineAssumption
<1>5. ASSUME handler[p].pc # "decide"
      PROVE  \E e \in EventRecord :
               /\ handler[p].candidate = {e} /\ The(handler[p].candidate) = e
               /\ Answers(c, e) /\ Shaped(e) /\ e.order_id = c.order_id
               /\ e.sequence = 2 => Opened(accepted, c.order_id)
               /\ handler[p].pc \in {"check", "push"} =>
                    handler[p].list \in 1..Len(events_by_order_id[c.order_id])
               /\ handler[p].pc = "record" => InFeed(accepted, e)
  <2>1. PICK e \in handler[p].candidate :
               /\ handler[p].candidate = {e} /\ Answers(c, e) /\ Shaped(e)
               /\ e.sequence = 2 => Opened(accepted, c.order_id)
               /\ handler[p].pc \in {"check", "push"} =>
                    handler[p].list \in 1..Len(events_by_order_id[c.order_id])
               /\ handler[p].pc = "record" => InFeed(accepted, e)
    BY <1>3, <1>5
  <2>2. e \in EventRecord /\ The(handler[p].candidate) = e
    BY <1>2, <2>1, TheIs
  <2>3. e.order_id = c.order_id
    BY <2>1 DEF Answers
  <2> QED BY <2>1, <2>2, <2>3
<1> QED BY <1>3, <1>4, <1>5

\* The stream that a handler reads, and what is in it.
LEMMA ReadStream ==
  ASSUME HistoryInv, NEW o \in Orders
  PROVE  /\ Stream(o) = Current(events_by_order_id[o]) /\ Stream(o) \in Seq(EventRecord)
         /\ ListOk(Stream(o), accepted, o)
<1>1. events_by_order_id[o] \in Seq(Seq(EventRecord))
  BY Types
<1>2. Stream(o) = Current(events_by_order_id[o])
  BY DEF Stream, Current
<1>3. Current(events_by_order_id[o]) \in Seq(EventRecord)
  BY <1>1, CurrentIs
<1>4. ListOk(Current(events_by_order_id[o]), accepted, o)
  <2>1. CASE events_by_order_id[o] = <<>>
    <3>1. Current(events_by_order_id[o]) = <<>>
      BY <2>1 DEF Current
    <3>2. 1..Len(<<>>) = {}
      OBVIOUS
    <3> QED BY <3>1, <3>2 DEF ListOk
  <2>2. CASE events_by_order_id[o] # <<>>
    BY <1>1, <2>2, CurrentIs DEF HistoryInv, ListsInv
  <2> QED BY <2>1, <2>2
<1> QED BY <1>2, <1>3, <1>4

\* The candidate of a handler is built on a list that it found and copied.
LEMMA DecideStep ==
  ASSUME PipelineAssumption, RegistryInv, NEW p \in Callers, Decide(p)
  PROVE  RegistryInv'
<1>1. handler[p].pc = "decide" /\ HistoryInv
  BY DEF Decide, RegistryInv
<1>2. PICK c \in Commands : /\ handler[p].command = {c} /\ The(handler[p].command) = c
                            /\ c.order_id \in Orders
  BY <1>1, HandlerCommand
<1>3. PICK lists : lists = events_by_order_id[c.order_id]
  OBVIOUS
<1>4. UNCHANGED <<mode, events_by_order_id, records_by_request_id, accepted, overlapped>>
  BY DEF Decide
<1>5. PICK i, h, a, e :
        /\ i \in handler[p].list..Len(lists)
        /\ h = (IF i = 0 THEN <<>> ELSE lists[i])
        /\ a = Rehydrate(c.order_id, h) /\ e = CandidateEvent(a, c, NewEventId(p))
        /\ \/ Answer(p, c, "RAISED", {}) \/ Answer(p, c, "BLOCKED", {})
           \/ /\ Rehydratable(c.order_id, h) /\ IsLegal(a, c)
              /\ Continue(p, [handler[p] EXCEPT !.pc = "append", !.candidate = {e}, !.list = 0])
  BY <1>2, <1>3 DEF Decide
<1>6. /\ lists \in Seq(Seq(EventRecord)) /\ Len(lists) \in Nat
      /\ Len(accepted) \in Nat /\ handler[p] \in HandlerRecord /\ i \in 0..Len(lists)
  <2>1. lists \in Seq(Seq(EventRecord)) /\ Len(accepted) \in Nat /\ handler[p] \in HandlerRecord
    BY <1>1, <1>2, <1>3, Types
  <2>2. Len(lists) \in Nat /\ handler[p].list \in Nat
    BY <2>1 DEF HandlerRecord
  <2> QED BY <1>5, <2>1, <2>2
<1>7. h \in Seq(EventRecord) /\ ListOk(h, accepted, c.order_id)
  <2>1. CASE i = 0
    <3>1. h = <<>> /\ <<>> \in Seq(EventRecord) /\ 1..Len(<<>>) = {}
      BY <1>5, <2>1
    <3> QED BY <3>1 DEF ListOk
  <2>2. CASE i # 0
    <3>1. i \in 1..Len(lists) /\ h = lists[i]
      BY <1>5, <1>6, <2>2
    <3> QED BY <1>1, <1>2, <1>3, <1>6, <3>1 DEF HistoryInv, ListsInv
  <2> QED BY <2>1, <2>2
<1>8. ASSUME c.order_id \notin overlapped
      PROVE  h = <<>> \/ h = Current(lists)
  <2>1. Len(lists) <= 1
    BY <1>1, <1>2, <1>3, <1>8 DEF HistoryInv, IntactInv
  <2>2. i = 0 \/ (i = Len(lists) /\ lists # <<>>)
    BY <1>6, <2>1
  <2> QED BY <1>5, <1>6, <2>2, CurrentIs
<1>9. HistoryInv' /\ ReturnedInv'
  <2>1. CASE Answer(p, c, "RAISED", {})
    BY <1>1, <1>4, <2>1, HandlerAnswers
  <2>2. CASE Answer(p, c, "BLOCKED", {})
    BY <1>1, <1>4, <2>2, HandlerAnswers
  <2>3. CASE /\ Rehydratable(c.order_id, h) /\ IsLegal(a, c)
             /\ Continue(p, [handler[p] EXCEPT !.pc = "append", !.candidate = {e}, !.list = 0])
    <3>1. e.event_id = NewEventId(p) /\ NewEventId(p) \in EventIds
      BY <1>5, <1>6 DEF CandidateEvent, NewEventId, EventIds
    <3>2. BuiltOn(h, c, e) /\ e.event_id \in EventIds
      BY <1>5, <2>3, <3>1 DEF BuiltOn
    <3>3. /\ e \in EventRecord /\ Answers(c, e) /\ Shaped(e)
          /\ e.sequence = 2 => 1 \in 1..Len(h) /\ h[1].sequence = 1 /\ h[1].order_id = c.order_id
      BY <1>7, <2>3, <3>2, CandidateIs DEF ListOk
    <3>4. ASSUME e.sequence = 2 PROVE Opened(accepted, c.order_id)
      <4>1. 1 \in 1..Len(h) /\ h[1].sequence = 1 /\ h[1].order_id = c.order_id
        BY <3>3, <3>4
      <4>2. InFeed(accepted, h[1])
        BY <1>7, <4>1 DEF ListOk
      <4> QED BY <4>1, <4>2 DEF InFeed, Opened
    <3>5. ASSUME c.order_id \notin overlapped PROVE BuiltBefore(Current(lists), c, e)
      <4>1. SubSeq(h, 1, Len(h)) = h /\ Len(h) \in Nat
        BY <1>7, <3>3, PrefixOfAppend
      <4>2. PICK g : g = Current(lists)
        OBVIOUS
      <4>3. CASE h = <<>>
        <5>1. g \in Seq(EventRecord)
          BY <1>6, <4>2, CurrentIs
        <5>2. SubSeq(g, 1, 0) = h /\ 0 \in 0..Len(g)
          BY <4>3, <5>1
        <5>3. BuiltOn(SubSeq(g, 1, 0), c, e)
          BY <3>2, <5>2
        <5>4. BuiltBefore(g, c, e)
          BY <5>2, <5>3 DEF BuiltBefore
        <5> QED BY <4>2, <5>4
      <4>4. CASE h = g
        <5>1. Len(g) \in 0..Len(g) /\ SubSeq(g, 1, Len(g)) = h
          BY <4>1, <4>4
        <5>2. BuiltOn(SubSeq(g, 1, Len(g)), c, e)
          BY <3>2, <5>1
        <5>3. BuiltBefore(g, c, e)
          BY <5>1, <5>2 DEF BuiltBefore
        <5> QED BY <4>2, <5>3
      <4> QED BY <1>8, <3>5, <4>2, <4>3, <4>4
    <3>7. PICK x : x = [handler[p] EXCEPT !.pc = "append", !.candidate = {e}, !.list = 0]
      OBVIOUS
    <3>8. x.pc = "append" /\ x.command = {c} /\ x.candidate = {e} /\ x \in HandlerRecord
      BY <1>2, <1>6, <3>3, <3>7 DEF HandlerRecord
    <3>9. HandlerOk(x, events_by_order_id, accepted)
      BY <3>3, <3>4, <3>8 DEF HandlerOk
    <3>10. HandlerKnows(x, events_by_order_id, overlapped')
      BY <1>3, <1>4, <3>5, <3>8 DEF HandlerKnows, KnowsList
    <3>11. \A o : ~InsideOf(x, o)
      BY <3>8 DEF InsideOf
    <3> QED BY <1>1, <1>4, <2>3, <3>7, <3>8, <3>9, <3>10, <3>11, HandlerContinues
  <2> QED BY <1>5, <2>1, <2>2, <2>3
<1> QED BY <1>4, <1>9, RecordsStay DEF RegistryInv

\* A recorded request was accepted.
LEMMA RecordStep ==
  ASSUME PipelineAssumption, RegistryInv, NEW p \in Callers, record(p)
  PROVE  RegistryInv'
<1>1. handler[p].pc = "record" /\ HistoryInv
  BY DEF record, RegistryInv
<1>2. PICK c \in Commands, e \in EventRecord :
        /\ The(handler[p].command) = c
        /\ handler[p].candidate = {e} /\ The(handler[p].candidate) = e
        /\ Answers(c, e) /\ InFeed(accepted, e)
  BY <1>1, HandlerCommand
<1>3. /\ UNCHANGED <<mode, events_by_order_id, accepted, overlapped>>
      /\ records_by_request_id' = Recorded(c, e)
      /\ Answer(p, c, "ACCEPTED", {e})
  BY <1>2 DEF record
<1>4. HistoryInv' /\ ReturnedInv'
  BY <1>1, <1>2, <1>3, HandlerAnswers
<1>5. RecordsInv'
  <2> SUFFICES ASSUME NEW i \in records_by_request_id'
               PROVE  /\ i.signature \in Commands
                      /\ Answers(i.signature, i.accepted_event)
                      /\ InFeed(accepted, i.accepted_event)
    BY <1>3 DEF RecordsInv
  <2>1. i \in records_by_request_id \/ i = [signature |-> c, accepted_event |-> e]
    BY <1>3 DEF Recorded
  <2>2. CASE i \in records_by_request_id
    BY <2>2 DEF RegistryInv, RecordsInv
  <2>3. CASE i = [signature |-> c, accepted_event |-> e]
    <3>1. i.signature = c /\ i.accepted_event = e
      BY <2>3
    <3> QED BY <1>2, <3>1
  <2> QED BY <2>1, <2>2, <2>3
<1> QED BY <1>3, <1>4, <1>5 DEF RegistryInv

\* A handler enters append, where another may be.
LEMMA LookUpStep ==
  ASSUME PipelineAssumption, HistoryInv, NEW p \in Callers, LookUp(p)
  PROVE  HistoryInv' /\ ReturnedInv'
<1>1. handler[p].pc = "append"
  BY DEF LookUp
<1>2. PICK c \in Commands, e \in EventRecord :
        /\ handler[p].command = {c} /\ c.order_id \in Orders
        /\ handler[p].candidate = {e} /\ The(handler[p].candidate) = e
        /\ Answers(c, e) /\ Shaped(e) /\ e.order_id = c.order_id
        /\ e.sequence = 2 => Opened(accepted, c.order_id)
  BY <1>1, HandlerCommand
<1>3. PICK o, lists : o = e.order_id /\ lists = events_by_order_id[o]
  OBVIOUS
<1>4. /\ \/ /\ lists # <<>>
            /\ Continue(p, [handler[p] EXCEPT !.pc = "check", !.list = Len(lists)])
         \/ lists = <<>> /\ Continue(p, [handler[p] EXCEPT !.pc = "create"])
      /\ overlapped' = overlapped \cup {y \in {o} : \E q \in Callers : Inside(q, y)}
      /\ UNCHANGED <<events_by_order_id, accepted>>
  BY <1>2, <1>3 DEF LookUp
<1>5. lists \in Seq(Seq(EventRecord)) /\ handler[p] \in HandlerRecord /\ Len(lists) \in Nat
  BY <1>2, <1>3, Types
<1>6. overlapped \subseteq overlapped'
      /\ (o \notin overlapped' => \A q \in Callers : ~InsideOf(handler[q], o))
  BY <1>4 DEF Inside, InsideOf
<1>7. o \notin overlapped' => BuiltBefore(Current(lists), c, e)
  <2>1. HandlerKnows(handler[p], events_by_order_id, overlapped)
    BY DEF HistoryInv, KnowledgeInv
  <2> QED BY <1>1, <1>2, <1>3, <1>6, <2>1 DEF HandlerKnows, KnowsList
<1>8. ASSUME NEW x, Continue(p, x), x \in HandlerRecord,
             x.command = {c}, x.candidate = {e}, x.pc \in {"create", "check"},
             x.pc = "check" => lists # <<>> /\ x.list = Len(lists),
             x.pc = "create" => lists = <<>>
      PROVE  HistoryInv' /\ ReturnedInv'
  <2>1. HandlerOk(x, events_by_order_id, accepted)
    <3>1. x.pc = "check" => x.list \in 1..Len(events_by_order_id[c.order_id])
      BY <1>2, <1>3, <1>5, <1>8
    <3> QED BY <1>2, <1>8, <3>1 DEF HandlerOk
  <2>2. HandlerKnows(x, events_by_order_id, overlapped')
    BY <1>2, <1>3, <1>7, <1>8 DEF HandlerKnows, KnowsList
  <2>3. \A y : InsideOf(x, y) => y = o
    BY <1>3, <1>8, TheIs DEF InsideOf
  <2>4. \A y \in Orders \ overlapped' : \A q \in Callers \ {p} :
          ~(InsideOf(x, y) /\ InsideOf(handler[q], y))
    BY <1>6, <2>3
  <2> QED BY <1>4, <1>6, <1>8, <2>1, <2>2, <2>4, HandlerContinues
<1>9. CASE /\ lists # <<>>
           /\ Continue(p, [handler[p] EXCEPT !.pc = "check", !.list = Len(lists)])
  <2>1. PICK x : x = [handler[p] EXCEPT !.pc = "check", !.list = Len(lists)]
    OBVIOUS
  <2>2. /\ x \in HandlerRecord /\ x.command = {c} /\ x.candidate = {e} /\ x.pc = "check"
        /\ x.list = Len(lists)
    BY <1>2, <1>5, <2>1 DEF HandlerRecord
  <2> QED BY <1>8, <1>9, <2>1, <2>2
<1>10. CASE lists = <<>> /\ Continue(p, [handler[p] EXCEPT !.pc = "create"])
  <2>1. PICK x : x = [handler[p] EXCEPT !.pc = "create"]
    OBVIOUS
  <2>2. x \in HandlerRecord /\ x.command = {c} /\ x.candidate = {e} /\ x.pc = "create"
    BY <1>2, <1>5, <2>1 DEF HandlerRecord
  <2> QED BY <1>8, <1>10, <2>1, <2>2
<1> QED BY <1>4, <1>9, <1>10

\* The version check: what it admits of an order that nobody else is appending
\* to was built on the whole stream, and what it refuses had a rival.
LEMMA CheckStep ==
  ASSUME PipelineAssumption, HistoryInv, NEW p \in Callers, CheckVersion(p)
  PROVE  HistoryInv' /\ ReturnedInv'
<1>1. handler[p].pc = "check"
  BY DEF CheckVersion
<1>2. PICK c \in Commands, e \in EventRecord :
        /\ handler[p].command = {c} /\ The(handler[p].command) = c /\ c.order_id \in Orders
        /\ handler[p].candidate = {e} /\ The(handler[p].candidate) = e
        /\ Answers(c, e) /\ Shaped(e) /\ e.order_id = c.order_id
        /\ e.sequence = 2 => Opened(accepted, c.order_id)
        /\ handler[p].list \in 1..Len(events_by_order_id[c.order_id])
  BY <1>1, HandlerCommand
<1>3. PICK o, lists, i : o = e.order_id /\ lists = events_by_order_id[o] /\ i = handler[p].list
  OBVIOUS
<1>4. /\ \/ /\ AppendAdmits(lists[i], e)
            /\ Continue(p, [handler[p] EXCEPT !.pc = "push"])
         \/ ~AppendAdmits(lists[i], e) /\ Answer(p, c, "STALE_WRITE", {})
      /\ UNCHANGED <<events_by_order_id, accepted, overlapped>>
  BY <1>2, <1>3 DEF CheckVersion
<1>5. /\ lists \in Seq(Seq(EventRecord)) /\ handler[p] \in HandlerRecord
      /\ i \in 1..Len(lists) /\ lists[i] \in Seq(EventRecord)
  BY <1>2, <1>3, Types
<1>6. CASE AppendAdmits(lists[i], e) /\ Continue(p, [handler[p] EXCEPT !.pc = "push"])
  <2>1. PICK x : x = [handler[p] EXCEPT !.pc = "push"]
    OBVIOUS
  <2>2. /\ x \in HandlerRecord /\ x.command = {c} /\ x.candidate = {e} /\ x.pc = "push"
        /\ x.list = i
    BY <1>2, <1>3, <1>5, <2>1 DEF HandlerRecord
  <2>3. HandlerOk(x, events_by_order_id, accepted)
    BY <1>2, <1>3, <2>2 DEF HandlerOk
  <2>4. ASSUME o \notin overlapped PROVE KnowsList(x, lists, c, e)
    <3>1. KnowsList(handler[p], lists, c, e)
      BY <1>1, <1>2, <1>3, <2>4 DEF HistoryInv, KnowledgeInv, HandlerKnows
    <3>2. BuiltBefore(Current(lists), c, e) /\ i = Len(lists)
      BY <1>1, <1>3, <3>1 DEF KnowsList
    <3>3. Current(lists) = lists[i]
      BY <1>5, <3>2, CurrentIs
    <3>4. Len(Current(lists)) = e.proof.prev_version
      BY <1>6, <3>3 DEF AppendAdmits
    <3> QED BY <2>2, <3>2, <3>4 DEF KnowsList
  <2>5. HandlerKnows(x, events_by_order_id, overlapped)
    BY <1>2, <1>3, <2>2, <2>4 DEF HandlerKnows
  <2>6. \A y : InsideOf(x, y) => y = o /\ InsideOf(handler[p], y)
    BY <1>1, <1>2, <1>3, <2>2, TheIs DEF InsideOf
  <2>7. \A y \in Orders \ overlapped : \A q \in Callers \ {p} :
          ~(InsideOf(x, y) /\ InsideOf(handler[q], y))
    BY <2>6 DEF HistoryInv, AloneInv
  <2> QED BY <1>4, <1>6, <2>1, <2>2, <2>3, <2>5, <2>7, HandlerContinues
<1>7. CASE ~AppendAdmits(lists[i], e) /\ Answer(p, c, "STALE_WRITE", {})
  <2>1. \E n \in 1..Len(accepted) : accepted[n].order_id = c.order_id
    <3>1. CASE e.sequence = 2
      BY <1>2, <3>1 DEF Opened
    <3>2. CASE e.sequence # 2
      <4>1. e.sequence = 1 /\ e.proof.prev_version = 0
        BY <1>2, <3>2 DEF Shaped
      <4>2. Len(lists[i]) # 0 /\ Len(lists[i]) \in Nat
        BY <1>5, <1>7, <4>1 DEF AppendAdmits
      <4>3. 1 \in 1..Len(lists[i])
        BY <4>2
      <4>4. lists[i][1].order_id = o /\ InFeed(accepted, lists[i][1])
        <5>1. ListOk(lists[i], accepted, o)
          BY <1>2, <1>3, <1>5 DEF HistoryInv, ListsInv
        <5> QED BY <4>3, <5>1 DEF ListOk
      <4> QED BY <1>2, <1>3, <4>4 DEF InFeed
    <3> QED BY <3>1, <3>2
  <2> QED BY <1>4, <1>7, <2>1, HandlerAnswers
<1> QED BY <1>4, <1>6, <1>7

\* One entry changes by a handler that is inside append.
LEMMA EntryChanges ==
  ASSUME PipelineAssumption, HistoryInv, NEW p \in Callers, NEW x \in HandlerRecord,
         handler' = [handler EXCEPT ![p] = x], UNCHANGED overlapped,
         NEW o \in Orders, NEW lists \in Seq(Seq(EventRecord)),
         Len(events_by_order_id[o]) <= Len(lists),
         events_by_order_id' = [events_by_order_id EXCEPT ![o] = lists],
         accepted' \in Seq(EventRecord), Len(accepted) <= Len(accepted'),
         \A n \in 1..Len(accepted) : accepted'[n] = accepted[n],
         \A n \in 1..Len(accepted') : accepted'[n].order_id # o => n \in 1..Len(accepted),
         FeedOrderInv', InsideOf(handler[p], o), \A q : InsideOf(x, q) => q = o,
         HandlerOk(x, events_by_order_id', accepted'),
         HandlerKnows(x, events_by_order_id', overlapped),
         \A i \in 1..Len(lists) : ListOk(lists[i], accepted', o),
         o \notin overlapped => Len(lists) <= 1 /\ Intact(Current(lists), accepted', o),
         o \notin overlapped => \A c, e : BuiltBefore(Current(events_by_order_id[o]), c, e)
                                            => BuiltBefore(Current(lists), c, e)
  PROVE  HistoryInv'
<1>1. PICK str, after, feed, fed : /\ str = events_by_order_id /\ after = events_by_order_id'
                                   /\ feed = accepted /\ fed = accepted'
  OBVIOUS
<1>2. /\ str \in [Orders -> Seq(Seq(EventRecord))] /\ feed \in Seq(EventRecord)
      /\ handler \in [Callers -> HandlerRecord]
  BY <1>1, Types
<1>3. /\ after \in [Orders -> Seq(Seq(EventRecord))]
      /\ after[o] = lists /\ \A q \in Orders \ {o} : after[q] = str[q]
  BY <1>1, <1>2
<1>4. \A q \in Orders : /\ Len(str[q]) \in Nat /\ Len(after[q]) \in Nat
                        /\ Len(str[q]) <= Len(after[q])
  <2>1. ASSUME NEW q \in Orders
        PROVE  Len(str[q]) \in Nat /\ Len(after[q]) \in Nat /\ Len(str[q]) <= Len(after[q])
    <3>1. str[q] \in Seq(Seq(EventRecord)) /\ after[q] \in Seq(Seq(EventRecord))
      BY <1>2, <1>3
    <3>2. Len(str[q]) \in Nat /\ Len(after[q]) \in Nat
      BY <3>1
    <3>3. CASE q = o
      BY <1>1, <1>3, <3>2, <3>3
    <3>4. CASE q # o
      BY <1>3, <3>2, <3>4
    <3> QED BY <3>2, <3>3, <3>4
  <2> QED BY <2>1
<1>5. Len(feed) \in Nat /\ Len(fed) \in Nat /\ Len(feed) <= Len(fed)
      /\ \A n \in 1..Len(feed) : fed[n] = feed[n]
  BY <1>1, <1>2
<1>6. /\ \A e : InFeed(feed, e) => InFeed(fed, e)
      /\ \A y : HandlerOk(y, str, feed) => HandlerOk(y, after, fed)
  BY <1>4, <1>5, HandlerKept
<1>7. \A q \in Callers : handler'[q] = IF q = p THEN x ELSE handler[q]
  BY <1>2
<1>8. TypeInv'
  BY <1>1, <1>2, <1>3 DEF TypeInv
<1>9. ListsInv'
  <2> SUFFICES ASSUME NEW q \in Orders, NEW i \in 1..Len(after[q])
               PROVE  ListOk(after[q][i], fed, q)
    BY <1>1 DEF ListsInv
  <2>1. CASE q = o
    BY <1>1, <1>3, <2>1
  <2>2. CASE q # o
    <3>1. ListOk(str[q][i], feed, q) /\ after[q] = str[q]
      BY <1>1, <1>3, <2>2 DEF HistoryInv, ListsInv
    <3> QED BY <1>6, <3>1 DEF ListOk
  <2> QED BY <2>1, <2>2
<1>10. HandlersInv'
  <2>1. ASSUME NEW q \in Callers PROVE HandlerOk(handler'[q], after, fed)
    <3>1. CASE q = p
      BY <1>1, <1>7, <3>1
    <3>2. CASE q # p
      <4>1. HandlerOk(handler[q], str, feed)
        BY <1>1 DEF HistoryInv, HandlersInv
      <4> QED BY <1>6, <1>7, <3>2, <4>1
    <3> QED BY <3>1, <3>2
  <2> QED BY <1>1, <2>1 DEF HandlersInv
<1>11. IntactInv'
  <2> SUFFICES ASSUME NEW q \in Orders \ overlapped
               PROVE  Len(after[q]) <= 1 /\ Intact(Current(after[q]), fed, q)
    BY <1>1 DEF IntactInv
  <2>1. CASE q = o
    BY <1>1, <1>3, <2>1
  <2>2. CASE q # o
    <3>1. PICK h : h = Current(str[q])
      OBVIOUS
    <3>2. Intact(h, feed, q) /\ Current(after[q]) = h /\ Len(after[q]) <= 1
      BY <1>1, <1>3, <2>2, <3>1 DEF HistoryInv, IntactInv
    <3>3. ASSUME NEW n \in 1..Len(fed), fed[n].order_id = q
          PROVE  n \in 1..Len(feed) /\ fed[n] = feed[n]
      BY <1>1, <1>5, <2>2, <3>3
    <3> QED BY <3>2, <3>3 DEF Intact
  <2> QED BY <2>1, <2>2
<1>12. AloneInv'
  <2> SUFFICES ASSUME NEW y \in Orders \ overlapped, NEW q \in Callers, NEW r \in Callers,
                      InsideOf(handler'[q], y), InsideOf(handler'[r], y)
               PROVE  q = r
    BY DEF AloneInv
  <2>1. ASSUME NEW s \in Callers, InsideOf(handler'[s], y) PROVE InsideOf(handler[s], y)
    <3>1. CASE s = p
      BY <1>7, <2>1, <3>1
    <3>2. CASE s # p
      BY <1>7, <2>1, <3>2
    <3> QED BY <3>1, <3>2
  <2> QED BY <2>1 DEF HistoryInv, AloneInv
<1>13. KnowledgeInv'
  <2>1. ASSUME NEW r \in Callers PROVE HandlerKnows(handler'[r], after, overlapped)
    <3>1. CASE r = p
      BY <1>1, <1>7, <3>1
    <3>2. CASE r # p
      <4> SUFFICES ASSUME handler[r].pc \in {"append", "create", "check", "push"},
                          NEW c \in handler[r].command, NEW e \in handler[r].candidate,
                          c.order_id \notin overlapped
                   PROVE  KnowsList(handler[r], after[c.order_id], c, e)
        BY <1>7, <3>2 DEF HandlerKnows
      <4>1. /\ c.order_id \in Orders /\ The(handler[r].candidate) = e
            /\ e.order_id = c.order_id
        <5>1. PICK d \in Commands, f \in EventRecord :
                /\ handler[r].command = {d} /\ d.order_id \in Orders
                /\ handler[r].candidate = {f} /\ The(handler[r].candidate) = f
                /\ f.order_id = d.order_id
          BY HandlerCommand
        <5> QED BY <5>1
      <4>2. KnowsList(handler[r], str[c.order_id], c, e)
        BY <1>1 DEF HistoryInv, KnowledgeInv, HandlerKnows
      <4>3. CASE c.order_id # o
        BY <1>3, <4>1, <4>2, <4>3
      <4>4. CASE c.order_id = o
        <5>1. ~InsideOf(handler[r], o)
          BY <3>2, <4>4 DEF HistoryInv, AloneInv
        <5>2. handler[r].pc \notin {"create", "check", "push"}
          BY <4>1, <4>4, <5>1 DEF InsideOf
        <5>3. BuiltBefore(Current(after[o]), c, e)
          BY <1>1, <1>3, <4>2, <4>4 DEF KnowsList
        <5> QED BY <4>4, <5>2, <5>3 DEF KnowsList
      <4> QED BY <4>3, <4>4
    <3> QED BY <3>1, <3>2
  <2> QED BY <1>1, <2>1 DEF KnowledgeInv
<1> QED BY <1>8, <1>9, <1>10, <1>11, <1>12, <1>13 DEF HistoryInv

\* A new list in the place of whatever the entry has by now: of an order that
\* nobody else is appending to it has none.
LEMMA CreateStep ==
  ASSUME PipelineAssumption, HistoryInv, NEW p \in Callers, CreateStream(p)
  PROVE  HistoryInv' /\ ReturnedInv'
<1>1. handler[p].pc = "create"
  BY DEF CreateStream
<1>2. PICK c \in Commands, e \in EventRecord :
        /\ handler[p].command = {c} /\ c.order_id \in Orders
        /\ handler[p].candidate = {e} /\ The(handler[p].candidate) = e
        /\ Answers(c, e) /\ Shaped(e) /\ e.order_id = c.order_id
        /\ e.sequence = 2 => Opened(accepted, c.order_id)
  BY <1>1, HandlerCommand
<1>3. PICK o, before, lists : /\ o = e.order_id /\ before = events_by_order_id[o]
                              /\ lists = Append(before, <<>>)
  OBVIOUS
<1>4. PICK x : x = [handler[p] EXCEPT !.pc = "check", !.list = Len(before) + 1]
  OBVIOUS
<1>5. /\ events_by_order_id' = [events_by_order_id EXCEPT ![o] = lists]
      /\ handler' = [handler EXCEPT ![p] = x] /\ returned' = {}
      /\ UNCHANGED <<accepted, overlapped>>
  BY <1>2, <1>3, <1>4 DEF CreateStream, Continue
<1>6. /\ before \in Seq(Seq(EventRecord)) /\ handler[p] \in HandlerRecord
      /\ events_by_order_id \in [Orders -> Seq(Seq(EventRecord))]
      /\ accepted \in Seq(EventRecord) /\ o \in Orders
  BY <1>2, <1>3, Types
<1>7. /\ lists \in Seq(Seq(EventRecord)) /\ Len(lists) = Len(before) + 1 /\ Len(before) \in Nat
      /\ lists[Len(before) + 1] = <<>> /\ \A i \in 1..Len(before) : lists[i] = before[i]
  <2>1. <<>> \in Seq(EventRecord)
    OBVIOUS
  <2> QED BY <1>3, <1>6, <2>1
<1>8. /\ x \in HandlerRecord /\ x.command = {c} /\ x.candidate = {e} /\ x.pc = "check"
      /\ x.list = Len(lists)
  <2>1. /\ x.command = {c} /\ x.candidate = {e} /\ x.pc = "check" /\ x.list = Len(before) + 1
    BY <1>2, <1>4, <1>6 DEF HandlerRecord
  <2>2. Len(before) + 1 \in Nat
    BY <1>7
  <2>3. x \in HandlerRecord
    BY <1>4, <1>6, <2>2 DEF HandlerRecord
  <2> QED BY <1>7, <2>1, <2>3
<1>9. Current(lists) = <<>> /\ events_by_order_id'[o] = lists
  <2>1. lists # <<>>
    BY <1>7
  <2> QED BY <1>5, <1>6, <1>7, <2>1, CurrentIs
<1>10. HandlerOk(x, events_by_order_id', accepted')
  <2>1. x.list \in 1..Len(lists)
    BY <1>7, <1>8
  <2> QED BY <1>2, <1>3, <1>5, <1>8, <1>9, <2>1 DEF HandlerOk
<1>11. InsideOf(handler[p], o) /\ \A q : InsideOf(x, q) => q = o
  BY <1>1, <1>2, <1>3, <1>8, TheIs DEF InsideOf
<1>12. \A i \in 1..Len(lists) : ListOk(lists[i], accepted', o)
  <2> SUFFICES ASSUME NEW i \in 1..Len(lists) PROVE ListOk(lists[i], accepted, o)
    BY <1>5
  <2>1. CASE i = Len(before) + 1
    <3>1. lists[i] = <<>> /\ 1..Len(<<>>) = {}
      BY <1>7, <2>1
    <3> QED BY <3>1 DEF ListOk
  <2>2. CASE i # Len(before) + 1
    <3>1. i \in 1..Len(before) /\ lists[i] = before[i]
      BY <1>7, <2>2
    <3> QED BY <1>3, <1>6, <3>1 DEF HistoryInv, ListsInv
  <2> QED BY <2>1, <2>2
<1>13. ASSUME o \notin overlapped
       PROVE  before = <<>> /\ Current(before) = <<>> /\ BuiltBefore(Current(before), c, e)
  <2>1. KnowsList(handler[p], before, c, e)
    BY <1>1, <1>2, <1>3, <1>13 DEF HistoryInv, KnowledgeInv, HandlerKnows
  <2> QED BY <1>1, <2>1 DEF KnowsList, Current
<1>14. HandlerKnows(x, events_by_order_id', overlapped)
  <2>1. ASSUME o \notin overlapped PROVE KnowsList(x, lists, c, e)
    BY <1>8, <1>9, <1>13, <2>1 DEF KnowsList
  <2> QED BY <1>2, <1>3, <1>8, <1>9, <2>1 DEF HandlerKnows
<1>15. o \notin overlapped => Len(lists) <= 1 /\ Intact(Current(lists), accepted', o)
  <2>1. o \notin overlapped => Intact(Current(before), accepted, o)
    BY <1>3, <1>6 DEF HistoryInv, IntactInv
  <2>2. o \notin overlapped => Len(lists) <= 1
    BY <1>7, <1>13
  <2> QED BY <1>5, <1>9, <1>13, <2>1, <2>2
<1>16. o \notin overlapped => \A d, f : BuiltBefore(Current(events_by_order_id[o]), d, f)
                                          => BuiltBefore(Current(lists), d, f)
  BY <1>3, <1>9, <1>13
<1>17. FeedOrderInv'
  BY <1>5 DEF HistoryInv, FeedOrderInv
<1>18. /\ Len(events_by_order_id[o]) <= Len(lists)
       /\ accepted' \in Seq(EventRecord) /\ Len(accepted) <= Len(accepted')
       /\ \A n \in 1..Len(accepted) : accepted'[n] = accepted[n]
       /\ \A n \in 1..Len(accepted') : accepted'[n].order_id # o => n \in 1..Len(accepted)
  <2>1. Len(accepted) \in Nat
    BY <1>6
  <2> QED BY <1>3, <1>5, <1>6, <1>7, <2>1
<1>19. HistoryInv'
  BY <1>5, <1>6, <1>7, <1>8, <1>10, <1>11, <1>12, <1>14, <1>15, <1>16, <1>17, <1>18, EntryChanges
<1> QED BY <1>5, <1>19 DEF ReturnedInv

\* The candidate goes to the list that was looked up: the current one, which
\* it was built on, if nobody else is appending to the order.
LEMMA PushStep ==
  ASSUME PipelineAssumption, HistoryInv, NEW p \in Callers, Push(p)
  PROVE  /\ HistoryInv' /\ ReturnedInv' /\ Len(accepted) <= Len(accepted')
         /\ \A n \in 1..Len(accepted) : accepted'[n] = accepted[n]
<1>1. handler[p].pc = "push"
  BY DEF Push
<1>2. PICK c \in Commands, e \in EventRecord :
        /\ handler[p].command = {c} /\ c.order_id \in Orders
        /\ handler[p].candidate = {e} /\ The(handler[p].candidate) = e
        /\ Answers(c, e) /\ Shaped(e) /\ e.order_id = c.order_id
        /\ e.sequence = 2 => Opened(accepted, c.order_id)
        /\ handler[p].list \in 1..Len(events_by_order_id[c.order_id])
  BY <1>1, HandlerCommand
<1>3. PICK o, before, i, feed, fed :
        /\ o = e.order_id /\ before = events_by_order_id[o] /\ i = handler[p].list
        /\ feed = accepted /\ fed = accepted'
  OBVIOUS
<1>4. PICK h, g, lists, x :
        /\ h = before[i] /\ g = Append(h, e) /\ lists = [before EXCEPT ![i] = g]
        /\ x = [handler[p] EXCEPT !.pc = "record", !.list = 0]
  OBVIOUS
<1>5. /\ before \in Seq(Seq(EventRecord)) /\ handler[p] \in HandlerRecord
      /\ events_by_order_id \in [Orders -> Seq(Seq(EventRecord))]
      /\ feed \in Seq(EventRecord) /\ Len(feed) \in Nat
      /\ o \in Orders /\ i \in 1..Len(before) /\ h \in Seq(EventRecord)
  BY <1>2, <1>3, <1>4, Types
<1>6. /\ events_by_order_id' = [events_by_order_id EXCEPT ![o] = lists]
      /\ fed = Append(feed, e) /\ handler' = [handler EXCEPT ![p] = x] /\ returned' = {}
      /\ UNCHANGED overlapped
  BY <1>2, <1>3, <1>4, <1>5 DEF Push, Continue
<1>7. /\ g \in Seq(EventRecord) /\ Len(g) = Len(h) + 1 /\ g[Len(h) + 1] = e
      /\ \A k \in 1..Len(h) : g[k] = h[k]
  BY <1>4, <1>5, PrefixOfAppend
<1>8. /\ lists \in Seq(Seq(EventRecord)) /\ Len(lists) = Len(before) /\ Len(before) \in Nat
      /\ lists[i] = g /\ \A j \in 1..Len(before) : j # i => lists[j] = before[j]
  BY <1>4, <1>5, <1>7
<1>9. /\ fed \in Seq(EventRecord) /\ Len(fed) = Len(feed) + 1 /\ fed[Len(feed) + 1] = e
      /\ \A n \in 1..Len(feed) : fed[n] = feed[n]
  BY <1>5, <1>6, PrefixOfAppend
<1>10. /\ x \in HandlerRecord /\ x.command = {c} /\ x.candidate = {e} /\ x.pc = "record"
  BY <1>2, <1>4, <1>5 DEF HandlerRecord
<1>11. InFeed(fed, e) /\ \A f : InFeed(feed, f) => InFeed(fed, f)
  <2>1. Len(feed) + 1 \in 1..Len(fed) /\ \A n \in 1..Len(feed) : n \in 1..Len(fed)
    BY <1>5, <1>9
  <2> QED BY <1>9, <2>1 DEF InFeed
<1>12. HandlerOk(x, events_by_order_id', accepted')
  <2>1. e.sequence = 2 => Opened(fed, c.order_id)
    <3>1. \A n \in 1..Len(feed) : n \in 1..Len(fed) /\ fed[n] = feed[n]
      BY <1>5, <1>9
    <3> QED BY <1>2, <1>3, <3>1 DEF Opened
  <2> QED BY <1>2, <1>3, <1>10, <1>11, <2>1 DEF HandlerOk
<1>13. /\ InsideOf(handler[p], o) /\ \A q : InsideOf(x, q) => q = o
       /\ HandlerKnows(x, events_by_order_id', overlapped)
  BY <1>1, <1>2, <1>3, <1>10, TheIs DEF InsideOf, HandlerKnows
<1>14. \A j \in 1..Len(lists) : ListOk(lists[j], accepted', o)
  <2> SUFFICES ASSUME NEW j \in 1..Len(lists) PROVE ListOk(lists[j], fed, o)
    BY <1>3
  <2>1. j \in 1..Len(before) /\ ListOk(before[j], feed, o)
    BY <1>3, <1>5, <1>8 DEF HistoryInv, ListsInv
  <2>2. CASE j # i
    BY <1>8, <1>11, <2>1, <2>2 DEF ListOk
  <2>3. CASE j = i
    <3> SUFFICES ASSUME NEW k \in 1..Len(g)
                 PROVE  g[k].order_id = o /\ Shaped(g[k]) /\ InFeed(fed, g[k])
      BY <1>8, <2>3 DEF ListOk
    <3>1. CASE k = Len(h) + 1
      BY <1>2, <1>3, <1>7, <1>11, <3>1
    <3>2. CASE k # Len(h) + 1
      <4>1. k \in 1..Len(h)
        BY <1>5, <1>7, <3>2
      <4> QED BY <1>4, <1>7, <1>11, <2>1, <2>3, <4>1 DEF ListOk
    <3> QED BY <3>1, <3>2
  <2> QED BY <2>2, <2>3
<1>15. FeedOrderInv'
  <2> SUFFICES ASSUME NEW n \in 1..Len(fed), NEW k \in 1..(fed[n].sequence - 1)
               PROVE  \E m \in 1..(n - 1) : /\ fed[m].order_id = fed[n].order_id
                                            /\ fed[m].sequence = k
    BY <1>3 DEF FeedOrderInv
  <2>1. CASE n = Len(feed) + 1
    <3>1. fed[n] = e
      BY <1>9, <2>1
    <3>2. e.sequence = 2 /\ k = 1
      BY <1>2, <3>1 DEF Shaped
    <3>3. PICK m \in 1..Len(feed) : feed[m].order_id = c.order_id /\ feed[m].sequence = 1
      BY <1>2, <1>3, <3>2 DEF Opened
    <3>4. m \in 1..(n - 1) /\ fed[m] = feed[m]
      BY <1>5, <1>9, <2>1
    <3> QED BY <1>2, <3>1, <3>2, <3>3, <3>4
  <2>2. CASE n # Len(feed) + 1
    <3>1. n \in 1..Len(feed) /\ fed[n] = feed[n]
      BY <1>5, <1>9, <2>2
    <3>2. PICK m \in 1..(n - 1) : feed[m].order_id = feed[n].order_id /\ feed[m].sequence = k
      BY <1>3, <3>1 DEF HistoryInv, FeedOrderInv
    <3>3. fed[m] = feed[m]
      BY <1>5, <1>9, <3>1
    <3> QED BY <3>1, <3>2, <3>3
  <2> QED BY <2>1, <2>2
<1>16. ASSUME o \notin overlapped
       PROVE  /\ Current(before) = h /\ Current(lists) = g
              /\ Intact(g, fed, o)
  <2>1. KnowsList(handler[p], before, c, e)
    BY <1>1, <1>2, <1>3, <1>16 DEF HistoryInv, KnowledgeInv, HandlerKnows
  <2>2. /\ BuiltBefore(Current(before), c, e) /\ i = Len(before)
        /\ Len(Current(before)) = e.proof.prev_version
    BY <1>1, <1>3, <2>1 DEF KnowsList
  <2>3. Current(before) = h
    BY <1>4, <1>5, <2>2, CurrentIs
  <2>4. Current(lists) = g
    <3>1. lists # <<>>
      BY <1>5, <1>8
    <3> QED BY <1>8, <2>2, <3>1, CurrentIs
  <2>5. LegalHistory(o, h) /\ LegalLife(o, h)
        /\ \A n \in 1..Len(feed) :
             feed[n].order_id = o => feed[n].sequence \in 1..Len(h) /\ h[feed[n].sequence] = feed[n]
    BY <1>3, <1>5, <1>16, <2>3 DEF HistoryInv, IntactInv, Intact
  <2>6. BuiltOn(h, c, e) /\ e.sequence = Len(h) + 1 /\ LegalHistory(o, g)
    <3>1. PICK m \in 0..Len(h) : BuiltOn(SubSeq(h, 1, m), c, e)
      BY <2>2, <2>3 DEF BuiltBefore
    <3>2. PICK f : f = SubSeq(h, 1, m)
      OBVIOUS
    <3>3. f \in Seq(EventRecord) /\ Len(f) = m /\ LegalHistory(c.order_id, f)
      BY <1>2, <1>3, <1>5, <2>5, <3>2, LegalPrefix
    <3>4. e.sequence = Len(f) + 1 /\ e.proof.prev_version = Len(f)
      BY <3>1, <3>2, <3>3, BuiltIs
    <3>5. m = Len(h)
      BY <2>2, <2>3, <3>3, <3>4
    <3>6. f = h
      BY <1>5, <3>2, <3>5, PrefixOfAppend
    <3>7. BuiltOn(h, c, e) /\ LegalHistory(c.order_id, h) /\ o = c.order_id
      BY <1>2, <1>3, <2>5, <3>1, <3>2, <3>6
    <3>8. e.sequence = Len(h) + 1 /\ LegalHistory(c.order_id, Append(h, e))
      BY <1>5, <3>7, BuiltIs
    <3> QED BY <1>4, <3>7, <3>8
  <2>7. LegalLife(o, g)
    BY <1>2, <1>3, <1>4, <1>5, <2>5, <2>6, StreamGrows
  <2>8. ASSUME NEW n \in 1..Len(fed), fed[n].order_id = o
        PROVE  fed[n].sequence \in 1..Len(g) /\ g[fed[n].sequence] = fed[n]
    <3>1. CASE n = Len(feed) + 1
      BY <1>5, <1>7, <1>9, <2>6, <3>1
    <3>2. CASE n # Len(feed) + 1
      <4>1. n \in 1..Len(feed) /\ fed[n] = feed[n]
        BY <1>5, <1>9, <3>2
      <4>2. fed[n].sequence \in 1..Len(h) /\ h[fed[n].sequence] = fed[n]
        BY <2>5, <2>8, <4>1
      <4> QED BY <1>5, <1>7, <4>2
    <3> QED BY <3>1, <3>2
  <2> QED BY <2>3, <2>4, <2>6, <2>7, <2>8 DEF Intact
<1>17. o \notin overlapped => \A d, f : BuiltBefore(Current(events_by_order_id[o]), d, f)
                                          => BuiltBefore(Current(lists), d, f)
  <2>1. \A d, f : BuiltBefore(h, d, f) => BuiltBefore(g, d, f)
    BY <1>4, <1>5, StreamGrows
  <2> QED BY <1>3, <1>16, <2>1
<1>18. /\ Len(events_by_order_id[o]) <= Len(lists)
       /\ accepted' \in Seq(EventRecord) /\ Len(accepted) <= Len(accepted')
       /\ \A n \in 1..Len(accepted) : accepted'[n] = accepted[n]
       /\ \A n \in 1..Len(accepted') : accepted'[n].order_id # o => n \in 1..Len(accepted)
  <2>1. ASSUME NEW n \in 1..Len(fed), fed[n].order_id # o PROVE n \in 1..Len(feed)
    <3>1. n # Len(feed) + 1
      BY <1>3, <1>9, <2>1
    <3> QED BY <1>5, <1>9, <3>1
  <2>2. Len(feed) <= Len(fed)
    BY <1>5, <1>9
  <2> QED BY <1>3, <1>8, <1>9, <2>1, <2>2
<1>19. o \notin overlapped => Len(lists) <= 1 /\ Intact(Current(lists), accepted', o)
  <2>1. o \notin overlapped => Len(before) <= 1
    BY <1>3, <1>5 DEF HistoryInv, IntactInv
  <2> QED BY <1>3, <1>8, <1>16, <2>1
<1>20. HistoryInv'
  BY <1>5, <1>6, <1>8, <1>10, <1>12, <1>13, <1>14, <1>15, <1>17, <1>18, <1>19, EntryChanges
<1> QED BY <1>6, <1>18, <1>20 DEF ReturnedInv

\* What becomes of an order and of the feed: the feed only grows, and so does
\* the stream of an order of which no two appends overlap.
Grown ==
  /\ \A q \in Orders \ overlapped' :
       /\ q \notin overlapped /\ Len(Stream(q)) <= Len(Stream(q)')
       /\ \A k \in 1..Len(Stream(q)) : Stream(q)'[k] = Stream(q)[k]
  /\ Len(accepted) <= Len(accepted')
  /\ \A n \in 1..Len(accepted) : accepted'[n] = accepted[n]

\* A stream that holds all that was accepted of its order grows with the feed.
LEMMA GrownFollows ==
  ASSUME HistoryInv, HistoryInv', overlapped \subseteq overlapped',
         Len(accepted) <= Len(accepted'), \A n \in 1..Len(accepted) : accepted'[n] = accepted[n]
  PROVE  Grown
<1>1. PICK feed, fed : feed = accepted /\ fed = accepted'
  OBVIOUS
<1>2. Len(feed) \in Nat /\ Len(fed) \in Nat /\ \A n \in 1..Len(feed) : n \in 1..Len(fed) /\ fed[n] = feed[n]
  BY <1>1 DEF HistoryInv, TypeInv
<1>3. ASSUME NEW q \in Orders \ overlapped'
      PROVE  /\ q \notin overlapped /\ Len(Stream(q)) <= Len(Stream(q)')
             /\ \A k \in 1..Len(Stream(q)) : Stream(q)'[k] = Stream(q)[k]
  <2>1. PICK h, g : h = Stream(q) /\ g = Stream(q)'
    OBVIOUS
  <2>2. h \in Seq(EventRecord) /\ h = Current(events_by_order_id[q]) /\ ListOk(h, feed, q)
    BY <1>1, <2>1, ReadStream
  <2>3. /\ g = Current(events_by_order_id[q])'
        /\ Current(events_by_order_id[q])' \in Seq(EventRecord)
    <3>1. events_by_order_id'[q] \in Seq(Seq(EventRecord))
      BY DEF HistoryInv, TypeInv
    <3> QED BY <2>1, <3>1, CurrentIs DEF Stream, Current
  <2>4. LegalHistory(q, h)
    BY <2>2 DEF HistoryInv, IntactInv, Intact
  <2>5. \A n \in 1..Len(fed) :
          fed[n].order_id = q => fed[n].sequence \in 1..Len(g) /\ g[fed[n].sequence] = fed[n]
    BY <1>1, <2>3 DEF HistoryInv, IntactInv, Intact
  <2>6. ASSUME NEW k \in 1..Len(h) PROVE k \in 1..Len(g) /\ g[k] = h[k]
    <3>1. h[k].order_id = q /\ h[k].sequence = k /\ InFeed(feed, h[k])
      BY <2>2, <2>4 DEF ListOk, LegalHistory
    <3>2. PICK n \in 1..Len(feed) : feed[n] = h[k]
      BY <3>1 DEF InFeed
    <3> QED BY <1>2, <2>5, <3>1, <3>2
  <2>7. Len(h) <= Len(g)
    <3>1. Len(h) \in Nat /\ Len(g) \in Nat
      BY <2>2, <2>3
    <3> QED BY <2>6, <3>1
  <2> QED BY <2>1, <2>6, <2>7
<1> QED BY <1>1, <1>2, <1>3 DEF Grown

\* Each step of append, for the records too.
LEMMA AppendStep ==
  ASSUME PipelineAssumption, RegistryInv, NEW p \in Callers, append_if_admitted(p)
  PROVE  RegistryInv' /\ Grown
<1>1. HistoryInv /\ RecordsInv /\ UNCHANGED records_by_request_id
  BY DEF RegistryInv, append_if_admitted
<1>2. LookUp(p) \/ CreateStream(p) \/ CheckVersion(p) \/ Push(p)
  BY DEF append_if_admitted
<1>3. HistoryInv' /\ ReturnedInv'
  BY <1>1, <1>2, LookUpStep, CreateStep, CheckStep, PushStep
<1>4. overlapped \subseteq overlapped'
  BY <1>2 DEF LookUp, CreateStream, CheckVersion, Push
<1>5. Len(accepted) <= Len(accepted') /\ \A n \in 1..Len(accepted) : accepted'[n] = accepted[n]
  <2>1. CASE Push(p)
    BY <1>1, <2>1, PushStep
  <2>2. CASE ~Push(p)
    <3>1. UNCHANGED accepted
      BY <1>2, <2>2 DEF LookUp, CreateStream, CheckVersion
    <3> QED BY <1>1, <3>1, Types
  <2> QED BY <2>1, <2>2
<1>6. RecordsInv'
  <2>1. ASSUME NEW f, InFeed(accepted, f) PROVE InFeed(accepted', f)
    <3>1. Len(accepted) \in Nat /\ Len(accepted') \in Nat
      BY <1>1, <1>3, Types DEF HistoryInv, TypeInv
    <3>2. PICK n \in 1..Len(accepted) : accepted[n] = f
      BY <2>1 DEF InFeed
    <3>3. n \in 1..Len(accepted') /\ accepted'[n] = f
      BY <1>5, <3>1, <3>2
    <3> QED BY <3>3 DEF InFeed
  <2> QED BY <1>1, <2>1 DEF RecordsInv
<1> QED BY <1>1, <1>3, <1>4, <1>5, <1>6, GrownFollows DEF RegistryInv

----------------------------------------------------------------------------
(* The steps of the worker.                                                *)

\* load_or_init_state on a given set of saved states.
LoadFrom(S, o) ==
  LET saved == {s \in S : s.order_id = o}
  IN  IF saved = {} THEN build_empty_projection_state(o) ELSE The(saved)

\* A state that is saved is the one loaded, and the others stay.
LEMMA SavedIsLoaded ==
  ASSUME NEW S, NEW s, NEW after, after = {t \in S : t.order_id # s.order_id} \cup {s}
  PROVE  /\ LoadFrom(after, s.order_id) = s
         /\ \A q : q # s.order_id => LoadFrom(after, q) = LoadFrom(S, q)
<1>1. {t \in after : t.order_id = s.order_id} = {s}
  OBVIOUS
<1>2. LoadFrom(after, s.order_id) = s
  BY <1>1, TheIs DEF LoadFrom
<1>3. ASSUME NEW q, q # s.order_id PROVE LoadFrom(after, q) = LoadFrom(S, q)
  <2>1. {t \in after : t.order_id = q} = {t \in S : t.order_id = q}
    BY <1>3
  <2> QED BY <2>1 DEF LoadFrom
<1> QED BY <1>2, <1>3

\* What the worker loads: derived from a prefix of the stream, if that is intact.
LEMMA LoadedIs ==
  ASSUME HistoryInv, StatesInv, NEW o \in Orders
  PROVE  /\ LoadedVersion(o) = LoadFrom(states, o).version
         /\ LoadFrom(states, o).order_id = o /\ LoadFrom(states, o).version \in Nat
         /\ o \notin overlapped =>
              /\ LoadFrom(states, o).version \in 0..Len(Stream(o))
              /\ LoadFrom(states, o)
                   = DerivedState(o, Stream(o), LoadFrom(states, o).version)
<1>1. PICK s : s = LoadFrom(states, o)
  OBVIOUS
<1>2. LoadedVersion(o) = s.version
  BY <1>1 DEF LoadedVersion, load_or_init_state, LoadFrom
<1>3. PICK h : h = Stream(o)
  OBVIOUS
<1>4. Len(h) \in Nat
  BY <1>3, ReadStream
<1>5. CASE {t \in states : t.order_id = o} = {}
  <2>1. s = build_empty_projection_state(o)
    BY <1>1, <1>5 DEF LoadFrom
  <2>2. s.order_id = o /\ s.version = 0 /\ s = DerivedState(o, h, 0)
    BY <2>1 DEF build_empty_projection_state, DerivedState
  <2> QED BY <1>1, <1>2, <1>3, <1>4, <2>2
<1>6. CASE {t \in states : t.order_id = o} # {}
  <2>1. s \in {t \in states : t.order_id = o}
    BY <1>1, <1>6, TheIsMember DEF LoadFrom
  <2>2. s.order_id = o /\ s.version \in Nat
    BY <2>1 DEF StatesInv
  <2>3. ASSUME o \notin overlapped
        PROVE  s.version \in 0..Len(h) /\ s = DerivedState(o, h, s.version)
    <3>1. PICK v \in 0..Len(h) : s = DerivedState(o, h, v)
      BY <1>3, <2>1, <2>2, <2>3 DEF StatesInv
    <3>2. s.version = v
      BY <3>1 DEF DerivedState
    <3> QED BY <3>1, <3>2
  <2> QED BY <1>1, <1>2, <1>3, <2>2, <2>3
<1> QED BY <1>5, <1>6

\* A record of the feed: an event, at its sequence in its stream if that is intact.
LEMMA FedEvent ==
  ASSUME HistoryInv, NEW n \in 1..Len(accepted)
  PROVE  /\ accepted[n] \in EventRecord /\ accepted[n].order_id \in Orders
         /\ accepted[n].sequence \in Nat
         /\ accepted[n].order_id \notin overlapped =>
              /\ LegalHistory(accepted[n].order_id, Stream(accepted[n].order_id))
              /\ accepted[n].sequence \in 1..Len(Stream(accepted[n].order_id))
              /\ Stream(accepted[n].order_id)[accepted[n].sequence] = accepted[n]
<1>1. accepted[n] \in EventRecord
  BY Types
<1>2. accepted[n].order_id \in Orders /\ accepted[n].sequence \in Nat
  BY <1>1 DEF EventRecord
<1>3. PICK o : o = accepted[n].order_id
  OBVIOUS
<1>4. Stream(o) = Current(events_by_order_id[o])
  BY <1>2, <1>3, ReadStream
<1>5. o \notin overlapped => Intact(Stream(o), accepted, o)
  BY <1>2, <1>3, <1>4 DEF HistoryInv, IntactInv
<1> QED BY <1>1, <1>2, <1>3, <1>5 DEF Intact

\* How a record is judged; only of an order whose appends overlapped does the
\* reducer refuse one.
LEMMA VerdictIs ==
  ASSUME HistoryInv, StatesInv, CheckpointInv, NEW n \in 0..(Len(accepted) - 1)
  PROVE  LET e == accepted[n + 1]
             v == LoadedVersion(e.order_id)
         IN  /\ v \in Nat /\ e.sequence \in Nat
             /\ n <= offset => Verdict(n) = "skipped_already_consumed"
             /\ n > offset /\ e.sequence <= v => Verdict(n) = "skipped_already_projected"
             /\ n > offset /\ e.sequence = v + 1 =>
                  /\ Verdict(n) \in {"applied", "refused"}
                  /\ e.order_id \notin overlapped => Verdict(n) = "applied"
             /\ n > offset /\ e.sequence > v + 1 => Verdict(n) = "gap"
<1>1. PICK e, s : e = accepted[n + 1] /\ s = load_or_init_state(e.order_id)
  OBVIOUS
<1>2. n + 1 \in 1..Len(accepted) /\ Len(accepted) \in Nat
  BY Types
<1>3. e.order_id \in Orders /\ e.sequence \in Nat
  BY <1>1, <1>2, FedEvent
<1>4. s = LoadFrom(states, e.order_id)
  BY <1>1 DEF load_or_init_state, LoadFrom
<1>5. LoadedVersion(e.order_id) = s.version /\ s.version \in Nat
  BY <1>3, <1>4, LoadedIs
<1>6. offset \in Int
  BY <1>2 DEF CheckpointInv
<1>7. Verdict(n) =
        CASE n <= offset -> "skipped_already_consumed"
          [] n > offset /\ e.sequence <= s.version -> "skipped_already_projected"
          [] n > offset /\ e.sequence = s.version + 1 ->
               IF Reducible(s, e) THEN "applied" ELSE "refused"
          [] OTHER -> "gap"
  BY <1>1 DEF Verdict
<1>8. ASSUME e.order_id \notin overlapped, e.sequence = s.version + 1 PROVE Reducible(s, e)
  <2>1. PICK h, o : o = e.order_id /\ h = Stream(o)
    OBVIOUS
  <2>2. LegalHistory(o, h) /\ e.sequence \in 1..Len(h) /\ h[e.sequence] = e
    BY <1>1, <1>2, <1>8, <2>1, FedEvent
  <2>3. s = DerivedState(o, h, s.version)
    BY <1>3, <1>4, <1>8, <2>1, LoadedIs
  <2>4. s.version \in 0..(Len(h) - 1) /\ h[s.version + 1] = e
    BY <1>3, <1>5, <1>8, <2>2
  <2>5. PICK v : v = s.version
    OBVIOUS
  <2>6. Reducible(DerivedState(o, h, v), h[v + 1])
    BY <2>2, <2>4, <2>5, ReduceLegal
  <2> QED BY <2>3, <2>4, <2>5, <2>6
<1>9. CASE n <= offset
  BY <1>1, <1>3, <1>5, <1>6, <1>7, <1>9
<1>10. CASE n > offset /\ e.sequence <= s.version
  BY <1>1, <1>3, <1>5, <1>6, <1>7, <1>10
<1>11. CASE n > offset /\ e.sequence = s.version + 1
  BY <1>1, <1>3, <1>5, <1>6, <1>7, <1>8, <1>11
<1>12. CASE n > offset /\ e.sequence > s.version + 1
  BY <1>1, <1>3, <1>5, <1>6, <1>7, <1>12
<1> QED BY <1>3, <1>5, <1>6, <1>9, <1>10, <1>11, <1>12

\* What the worker knows survives the growth of the streams and of the feed.
LEMMA WorkerStays ==
  ASSUME IInv, Grown, UNCHANGED worker, HistoryInv'
  PROVE  StatesInv' /\ CheckpointInv'
<1>1. UNCHANGED <<states, offset, unsaved, cleared>>
  BY DEF worker
<1>2. PICK feed, fed, over : feed = accepted /\ fed = accepted' /\ over = overlapped'
  OBVIOUS
<1>3. Len(feed) <= Len(fed) /\ \A n \in 1..Len(feed) : fed[n] = feed[n]
  BY <1>2 DEF Grown
<1>4. feed \in Seq(EventRecord)
  BY <1>2 DEF IInv, RegistryInv, HistoryInv, TypeInv
<1>5. fed \in Seq(EventRecord)
  BY <1>2 DEF HistoryInv, TypeInv
<1>6. StatesInv'
  <2> SUFFICES ASSUME NEW s \in states
               PROVE  /\ s.order_id \in Orders /\ s.version \in Nat
                      /\ s.order_id \notin over =>
                           \E v \in 0..Len(Stream(s.order_id)') :
                             s = DerivedState(s.order_id, Stream(s.order_id)', v)
    BY <1>1, <1>2 DEF StatesInv
  <2>1. PICK q : q = s.order_id
    OBVIOUS
  <2>2. q \in Orders /\ s.version \in Nat
    BY <2>1 DEF IInv, StatesInv
  <2>3. ASSUME q \notin over
        PROVE  \E v \in 0..Len(Stream(q)') : s = DerivedState(q, Stream(q)', v)
    <3>1. PICK h, g : h = Stream(q) /\ g = Stream(q)'
      OBVIOUS
    <3>2. q \notin overlapped /\ Len(h) <= Len(g) /\ \A k \in 1..Len(h) : g[k] = h[k]
      BY <1>2, <2>2, <2>3, <3>1 DEF Grown
    <3>3. Len(h) \in Nat /\ Len(g) \in Nat
      <4>1. Stream(q)' \in Seq(EventRecord)
        <5>1. events_by_order_id'[q] \in Seq(Seq(EventRecord))
          BY <2>2 DEF HistoryInv, TypeInv
        <5> QED BY <5>1, CurrentIs DEF Stream, Current
      <4>2. Stream(q) \in Seq(EventRecord)
        BY <2>2, ReadStream DEF IInv, RegistryInv
      <4> QED BY <3>1, <4>1, <4>2
    <3>4. PICK v \in 0..Len(h) : s = DerivedState(q, h, v)
      BY <2>1, <3>1, <3>2 DEF IInv, StatesInv
    <3>5. v \in 0..Len(g) /\ DerivedState(q, g, v) = DerivedState(q, h, v)
      <4>1. v # 0 => g[1] = h[1]
        BY <3>2, <3>3
      <4>2. v = 2 => g[2] = h[2]
        BY <3>2, <3>3
      <4>3. v \in 0..Len(g)
        BY <3>2, <3>3
      <4> QED BY <4>1, <4>2, <4>3 DEF DerivedState
    <3> QED BY <3>1, <3>4, <3>5
  <2> QED BY <2>1, <2>2, <2>3
<1>7. \A q : LoadedVersion(q)' = LoadedVersion(q)
  BY <1>1 DEF LoadedVersion, load_or_init_state
<1>8. CheckpointInv'
  <2>1. offset \in -1..(Len(feed) - 1) /\ cleared \in BOOLEAN
    BY <1>2 DEF IInv, CheckpointInv
  <2>2. offset \in -1..(Len(fed) - 1)
    BY <1>3, <1>4, <1>5, <2>1
  <2>3. PICK k, q : k = offset + 2 /\ q = feed[k].order_id
    OBVIOUS
  <2>4. ASSUME unsaved # {}
        PROVE  /\ unsaved = {offset + 1} /\ offset + 1 < Len(fed)
               /\ fed[k].order_id = q /\ fed[k].sequence <= LoadedVersion(q)'
    <3>1. /\ unsaved = {offset + 1} /\ offset + 1 < Len(feed)
          /\ feed[k].sequence <= LoadedVersion(q)
      BY <1>2, <2>3, <2>4 DEF IInv, CheckpointInv
    <3>2. offset + 1 < Len(fed) /\ fed[k] = feed[k]
      BY <1>3, <1>4, <1>5, <2>1, <2>3, <3>1
    <3>3. LoadedVersion(q)' = LoadedVersion(q)
      BY <1>7
    <3> QED BY <2>3, <3>1, <3>2, <3>3
  <2>5. ASSUME ~cleared, NEW n \in 1..(offset + 1)
        PROVE  fed[n].sequence <= LoadedVersion(fed[n].order_id)'
    <3>1. feed[n].sequence <= LoadedVersion(feed[n].order_id)
      BY <1>2, <2>5 DEF IInv, CheckpointInv
    <3>2. fed[n] = feed[n]
      BY <1>3, <1>4, <2>1
    <3> QED BY <1>7, <3>1, <3>2
  <2>6. unsaved' # {} =>
          /\ unsaved' = {offset' + 1} /\ offset' + 1 < Len(accepted')
          /\ accepted'[offset' + 2].sequence <= LoadedVersion(accepted[offset + 2].order_id)'
    BY <1>1, <1>2, <2>3, <2>4
  <2>7. ~cleared' => \A n \in 1..(offset' + 1) :
                       accepted'[n].sequence <= LoadedVersion(accepted[n].order_id)'
    BY <1>1, <1>2, <2>5
  <2> QED BY <1>1, <1>2, <2>2, <2>1, <2>6, <2>7 DEF CheckpointInv
<1> QED BY <1>6, <1>8

\* A step of the worker leaves the registry alone and returns nothing.
LEMMA RegistryStays ==
  ASSUME RegistryInv, UNCHANGED registry, returned' = {}
  PROVE  RegistryInv'
<1>1. UNCHANGED <<events_by_order_id, records_by_request_id, handler, accepted, overlapped>>
  BY DEF registry
<1>2. HistoryInv'
  <2>1. TypeInv' /\ ListsInv' /\ HandlersInv' /\ FeedOrderInv'
    BY <1>1 DEF RegistryInv, HistoryInv, TypeInv, ListsInv, HandlersInv, FeedOrderInv
  <2>2. IntactInv' /\ AloneInv' /\ KnowledgeInv'
    BY <1>1 DEF RegistryInv, HistoryInv, IntactInv, AloneInv, KnowledgeInv
  <2> QED BY <2>1, <2>2 DEF HistoryInv
<1>3. ReturnedInv' /\ RecordsInv'
  BY <1>1, RecordsStay DEF RegistryInv, ReturnedInv
<1> QED BY <1>2, <1>3 DEF RegistryInv

\* States that stay with the streams they are derived from.
LEMMA StatesStay ==
  ASSUME StatesInv, UNCHANGED <<states, events_by_order_id, overlapped>>
  PROVE  StatesInv' /\ \A o : LoadedVersion(o)' = LoadedVersion(o)
<1>1. StatesInv'
  BY DEF StatesInv, Stream
<1>2. \A o : LoadedVersion(o)' = LoadedVersion(o)
  BY DEF LoadedVersion, load_or_init_state
<1> QED BY <1>1, <1>2

\* Only the next record is judged new, and what is applied is the next event of
\* its order.
LEMMA ProcessStep ==
  ASSUME IInv, NEW n \in 0..Len(accepted), process_record(n)
  PROVE  IInv'
<1>1. RegistryInv /\ StatesInv /\ CheckpointInv
  BY DEF IInv
<1>2. UNCHANGED registry /\ UNCHANGED <<deaths, clears, cleared>> /\ returned' = {}
  BY DEF process_record
<1>3. UNCHANGED <<events_by_order_id, accepted, overlapped>>
  BY <1>2 DEF registry
<1>4. RegistryInv'
  BY <1>1, <1>2, RegistryStays
<1>5. PICK feed, at : feed = accepted /\ at = offset
  OBVIOUS
<1>6. /\ feed \in Seq(EventRecord) /\ Len(feed) \in Nat /\ at \in -1..(Len(feed) - 1)
      /\ cleared \in BOOLEAN
  BY <1>1, <1>5 DEF RegistryInv, HistoryInv, TypeInv, CheckpointInv
<1>7. /\ unsaved = {} /\ n < Len(feed) /\ n <= at + 1 /\ n \in 0..(Len(feed) - 1)
      /\ n + 1 \in 1..Len(feed)
  BY <1>5, <1>6 DEF process_record
<1>8. PICK e, o, v : e = feed[n + 1] /\ o = e.order_id /\ v = LoadedVersion(o)
  OBVIOUS
<1>9. /\ e \in EventRecord /\ o \in Orders /\ HistoryInv
      /\ o \notin overlapped => /\ LegalHistory(o, Stream(o))
                              /\ e.sequence \in 1..Len(Stream(o)) /\ Stream(o)[e.sequence] = e
  BY <1>1, <1>5, <1>7, <1>8, FedEvent DEF RegistryInv
<1>10. /\ v \in Nat /\ e.sequence \in Nat
       /\ n <= at => Verdict(n) = "skipped_already_consumed"
       /\ n > at /\ e.sequence <= v => Verdict(n) = "skipped_already_projected"
       /\ n > at /\ e.sequence = v + 1 => Verdict(n) \in {"applied", "refused"}
       /\ n > at /\ e.sequence > v + 1 => Verdict(n) = "gap"
  BY <1>1, <1>5, <1>7, <1>8, <1>9, VerdictIs
<1>11. ~cleared => \A k \in 1..(at + 1) : feed[k].sequence <= LoadedVersion(feed[k].order_id)
  BY <1>1, <1>5 DEF CheckpointInv
<1>12. CASE /\ Verdict(n) = "skipped_already_projected" /\ offset' = n
            /\ UNCHANGED <<states, unsaved>>
  <2>1. n = at + 1 /\ e.sequence <= v
    BY <1>6, <1>7, <1>10, <1>12
  <2>2. StatesInv' /\ \A q : LoadedVersion(q)' = LoadedVersion(q)
    BY <1>1, <1>3, <1>12, StatesStay
  <2>3. ASSUME ~cleared, NEW k \in 1..(n + 1)
        PROVE  feed[k].sequence <= LoadedVersion(feed[k].order_id)'
    <3>1. feed[k].sequence <= LoadedVersion(feed[k].order_id)
      <4>1. CASE k = n + 1
        BY <1>8, <2>1, <4>1
      <4>2. CASE k # n + 1
        BY <1>6, <1>11, <2>1, <2>3, <4>2
      <4> QED BY <4>1, <4>2
    <3>2. LoadedVersion(feed[k].order_id)' = LoadedVersion(feed[k].order_id)
      BY <2>2
    <3> QED BY <3>1, <3>2
  <2>4. ~cleared' => \A k \in 1..(offset' + 1) :
                       accepted'[k].sequence <= LoadedVersion(accepted[k].order_id)'
    BY <1>2, <1>3, <1>5, <1>12, <2>3
  <2>5. unsaved' = {} /\ offset' \in -1..(Len(accepted') - 1) /\ cleared' \in BOOLEAN
    BY <1>2, <1>3, <1>5, <1>6, <1>7, <1>12
  <2>6. CheckpointInv'
    BY <2>4, <2>5 DEF CheckpointInv
  <2> QED BY <1>4, <2>2, <2>6 DEF IInv
<1>13. CASE /\ Verdict(n) = "applied"
            /\ save_state(reduce_order_event(load_or_init_state(accepted[n + 1].order_id),
                                             accepted[n + 1]))
            /\ unsaved' = {n} /\ UNCHANGED offset
  <2>1. n = at + 1 /\ e.sequence = v + 1
    BY <1>6, <1>7, <1>10, <1>13
  <2>2. PICK s : s = reduce_order_event(LoadFrom(states, o), e)
    OBVIOUS
  <2>3. load_or_init_state(o) = LoadFrom(states, o)
    BY DEF load_or_init_state, LoadFrom
  <2>4. /\ LoadFrom(states, o).order_id = o /\ LoadFrom(states, o).version = v
        /\ o \notin overlapped => /\ v \in 0..Len(Stream(o))
                                /\ LoadFrom(states, o) = DerivedState(o, Stream(o), v)
    BY <1>1, <1>8, <1>9, LoadedIs
  <2>5. s.order_id = o /\ s.version = v + 1
    BY <2>1, <2>2, <2>4 DEF reduce_order_event
  <2>6. ASSUME o \notin overlapped
        PROVE  v + 1 \in 0..Len(Stream(o)) /\ s = DerivedState(o, Stream(o), v + 1)
    <3>1. PICK h : h = Stream(o)
      OBVIOUS
    <3>2. LegalHistory(o, h) /\ v \in 0..(Len(h) - 1) /\ h[v + 1] = e /\ v + 1 \in 0..Len(h)
      BY <1>9, <1>10, <2>1, <2>6, <3>1
    <3>3. LoadFrom(states, o) = DerivedState(o, h, v)
      BY <2>4, <2>6, <3>1
    <3>4. reduce_order_event(DerivedState(o, h, v), h[v + 1]) = DerivedState(o, h, v + 1)
      BY <3>2, ReduceLegal
    <3> QED BY <2>2, <3>1, <3>2, <3>3, <3>4
  <2>10. states' = {t \in states : t.order_id # s.order_id} \cup {s}
    BY <1>5, <1>8, <1>13, <2>2, <2>3 DEF save_state
  <2>11. LoadFrom(states', o) = s /\ \A q : q # o => LoadFrom(states', q) = LoadFrom(states, q)
    BY <2>5, <2>10, SavedIsLoaded
  <2>12. StatesInv'
    <3>1. \A q : Stream(q)' = Stream(q)
      BY <1>3 DEF Stream
    <3> SUFFICES ASSUME NEW t \in states'
                 PROVE  /\ t.order_id \in Orders /\ t.version \in Nat
                        /\ t.order_id \notin overlapped =>
                             \E w \in 0..Len(Stream(t.order_id)) :
                               t = DerivedState(t.order_id, Stream(t.order_id), w)
      BY <1>3, <3>1 DEF StatesInv
    <3>2. CASE t \in states
      BY <1>1, <3>2 DEF StatesInv
    <3>3. CASE t = s
      BY <1>9, <1>10, <2>5, <2>6, <3>3
    <3> QED BY <2>10, <3>2, <3>3
  <2>13. \A q : LoadedVersion(q)' = LoadFrom(states', q).version
    BY DEF LoadedVersion, load_or_init_state, LoadFrom
  <2>14. \A q : LoadedVersion(q) = LoadFrom(states, q).version
    BY DEF LoadedVersion, load_or_init_state, LoadFrom
  <2>15. ASSUME NEW q, q # o PROVE LoadedVersion(q)' = LoadedVersion(q)
    BY <2>11, <2>13, <2>14, <2>15
  <2>16. LoadedVersion(o)' = v + 1
    BY <2>5, <2>11, <2>13
  <2>17. ASSUME ~cleared, NEW k \in 1..(at + 1), NEW q, q = feed[k].order_id
         PROVE  feed[k].sequence <= LoadedVersion(q)'
    <3>1. feed[k].sequence <= LoadedVersion(q)
      BY <1>11, <2>17
    <3>2. CASE q # o
      BY <2>15, <3>1, <3>2
    <3>3. CASE q = o
      <4>1. k \in 1..Len(feed)
        BY <1>6
      <4>2. feed[k] \in EventRecord
        BY <1>6, <4>1
      <4>3. feed[k].sequence \in Nat
        BY <4>2 DEF EventRecord
      <4>4. feed[k].sequence <= v
        BY <1>8, <3>1, <3>3
      <4>5. feed[k].sequence <= v + 1
        BY <1>10, <4>3, <4>4
      <4> QED BY <2>16, <3>3, <4>5
    <3> QED BY <3>2, <3>3
  <2>18. ~cleared' => \A j \in 1..(offset' + 1) :
                        accepted'[j].sequence <= LoadedVersion(accepted[j].order_id)'
    BY <1>2, <1>3, <1>5, <1>13, <2>17
  <2>19. accepted'[offset' + 2].order_id = o /\ accepted'[offset' + 2] = e
    BY <1>3, <1>5, <1>6, <1>8, <1>13, <2>1
  <2>20. /\ unsaved' = {offset' + 1} /\ offset' + 1 < Len(accepted')
         /\ accepted'[offset' + 2].sequence <= LoadedVersion(accepted[offset + 2].order_id)'
    <3>1. e.sequence <= LoadedVersion(o)'
      BY <1>10, <2>1, <2>16
    <3>2. unsaved' = {offset' + 1} /\ offset' + 1 < Len(accepted')
      BY <1>3, <1>5, <1>6, <1>7, <1>13, <2>1
    <3>3. accepted'[offset' + 2].sequence <= LoadedVersion(accepted[offset + 2].order_id)'
      BY <2>19, <3>1
    <3> QED BY <3>2, <3>3
  <2>21. offset' \in -1..(Len(accepted') - 1) /\ cleared' \in BOOLEAN
    BY <1>2, <1>3, <1>5, <1>6, <1>13
  <2>22. CheckpointInv'
    BY <2>18, <2>20, <2>21 DEF CheckpointInv
  <2> QED BY <1>4, <2>12, <2>22 DEF IInv
<1>14. CASE UNCHANGED <<states, offset, unsaved>>
  <2>1. UNCHANGED worker
    BY <1>2, <1>14 DEF worker
  <2>2. HistoryInv /\ HistoryInv'
    BY <1>1, <1>4 DEF RegistryInv
  <2>3. Grown
    <3>1. Len(accepted) <= Len(accepted') /\ overlapped \subseteq overlapped'
      BY <1>3, <1>5, <1>6
    <3> QED BY <1>3, <2>2, <3>1, GrownFollows
  <2> QED BY <1>4, <2>1, <2>2, <2>3, WorkerStays DEF IInv
<1> QED BY <1>12, <1>13, <1>14 DEF process_record

\* The checkpoint moves on to a record whose state is saved.
LEMMA SaveOffsetStep == ASSUME IInv, save_offset PROVE IInv'
<1>1. RegistryInv /\ StatesInv /\ CheckpointInv
  BY DEF IInv
<1>2. /\ UNCHANGED registry /\ UNCHANGED <<states, cleared>> /\ returned' = {}
      /\ unsaved # {} /\ unsaved' = {} /\ offset' = The(unsaved)
  BY DEF save_offset
<1>3. UNCHANGED <<events_by_order_id, accepted, overlapped>>
  BY <1>2 DEF registry
<1>4. RegistryInv'
  BY <1>1, <1>2, RegistryStays
<1>5. StatesInv' /\ \A q : LoadedVersion(q)' = LoadedVersion(q)
  BY <1>1, <1>2, <1>3, StatesStay
<1>6. PICK feed, at : feed = accepted /\ at = offset
  OBVIOUS
<1>7. /\ at \in -1..(Len(feed) - 1) /\ Len(feed) \in Nat /\ cleared \in BOOLEAN
      /\ unsaved = {at + 1} /\ at + 1 < Len(feed)
      /\ feed[at + 2].sequence <= LoadedVersion(feed[at + 2].order_id)
      /\ ~cleared => \A k \in 1..(at + 1) : feed[k].sequence <= LoadedVersion(feed[k].order_id)
  BY <1>1, <1>2, <1>6 DEF RegistryInv, HistoryInv, TypeInv, CheckpointInv
<1>8. offset' = at + 1
  BY <1>2, <1>7, TheIs
<1>9. ASSUME ~cleared, NEW k \in 1..(at + 2)
      PROVE  feed[k].sequence <= LoadedVersion(feed[k].order_id)'
  <2>1. feed[k].sequence <= LoadedVersion(feed[k].order_id)
    <3>1. CASE k = at + 2
      BY <1>7, <3>1
    <3>2. CASE k # at + 2
      BY <1>7, <1>9, <3>2
    <3> QED BY <3>1, <3>2
  <2>2. LoadedVersion(feed[k].order_id)' = LoadedVersion(feed[k].order_id)
    BY <1>5
  <2> QED BY <2>1, <2>2
<1>10. /\ offset' \in -1..(Len(accepted') - 1) /\ cleared' \in BOOLEAN
       /\ 1..(offset' + 1) = 1..(at + 2)
  BY <1>2, <1>3, <1>6, <1>7, <1>8
<1>11. ~cleared' => \A k \in 1..(offset' + 1) :
                      accepted'[k].sequence <= LoadedVersion(accepted[k].order_id)'
  BY <1>2, <1>3, <1>6, <1>9, <1>10
<1>12. CheckpointInv'
  BY <1>2, <1>10, <1>11 DEF CheckpointInv
<1> QED BY <1>4, <1>5, <1>12 DEF IInv

\* A worker that dies between its two writes loses only the checkpoint.
LEMMA DiesStep == ASSUME IInv, WorkerDies PROVE IInv'
<1>1. RegistryInv /\ StatesInv /\ CheckpointInv
  BY DEF IInv
<1>2. /\ UNCHANGED registry /\ UNCHANGED <<states, offset, cleared>> /\ returned' = {}
      /\ unsaved' = {}
  BY DEF WorkerDies
<1>3. UNCHANGED <<events_by_order_id, accepted, overlapped>>
  BY <1>2 DEF registry
<1>4. RegistryInv'
  BY <1>1, <1>2, RegistryStays
<1>5. StatesInv' /\ \A q : LoadedVersion(q)' = LoadedVersion(q)
  BY <1>1, <1>2, <1>3, StatesStay
<1>6. PICK feed, at : feed = accepted /\ at = offset
  OBVIOUS
<1>7. ASSUME ~cleared, NEW k \in 1..(at + 1)
      PROVE  feed[k].sequence <= LoadedVersion(feed[k].order_id)'
  <2>1. feed[k].sequence <= LoadedVersion(feed[k].order_id)
    BY <1>1, <1>6, <1>7 DEF CheckpointInv
  <2>2. LoadedVersion(feed[k].order_id)' = LoadedVersion(feed[k].order_id)
    BY <1>5
  <2> QED BY <2>1, <2>2
<1>8. ~cleared' => \A k \in 1..(offset' + 1) :
                     accepted'[k].sequence <= LoadedVersion(accepted[k].order_id)'
  BY <1>2, <1>3, <1>6, <1>7
<1>9. offset' \in -1..(Len(accepted') - 1) /\ cleared' \in BOOLEAN
  BY <1>1, <1>2, <1>3 DEF CheckpointInv
<1>10. CheckpointInv'
  BY <1>2, <1>8, <1>9 DEF CheckpointInv
<1> QED BY <1>4, <1>5, <1>10 DEF IInv

\* Cleared states are behind their checkpoint, unless there is none.
LEMMA ClearStatesStep == ASSUME IInv, ClearProjectionStore PROVE IInv'
<1>1. RegistryInv /\ CheckpointInv
  BY DEF IInv
<1>2. /\ UNCHANGED registry /\ UNCHANGED <<offset, unsaved>> /\ returned' = {}
      /\ unsaved = {} /\ states' = {} /\ cleared' = (offset >= 0)
  BY DEF ClearProjectionStore
<1>3. UNCHANGED <<events_by_order_id, accepted, overlapped>>
  BY <1>2 DEF registry
<1>4. RegistryInv'
  BY <1>1, <1>2, RegistryStays
<1>5. StatesInv'
  BY <1>2 DEF StatesInv
<1>6. /\ offset' \in -1..(Len(accepted') - 1) /\ cleared' \in BOOLEAN
      /\ ~cleared' => 1..(offset' + 1) = {}
  <2>1. Len(accepted) \in Nat /\ offset \in -1..(Len(accepted) - 1)
    BY <1>1 DEF RegistryInv, HistoryInv, TypeInv, CheckpointInv
  <2>2. offset' \in -1..(Len(accepted') - 1)
    BY <1>2, <1>3, <2>1
  <2>3. cleared' \in BOOLEAN
    BY <1>2
  <2>4. ASSUME ~cleared' PROVE 1..(offset' + 1) = {}
    <3>1. ~(offset >= 0)
      BY <1>2, <2>4
    <3>2. offset' = -1
      BY <1>2, <2>1, <3>1
    <3> QED BY <3>2
  <2> QED BY <2>2, <2>3, <2>4
<1>7. CheckpointInv'
  BY <1>2, <1>6 DEF CheckpointInv
<1> QED BY <1>4, <1>5, <1>7 DEF IInv

\* A cleared checkpoint covers nothing.
LEMMA ClearCheckpointStep == ASSUME IInv, ClearCheckpointStore PROVE IInv'
<1>1. RegistryInv /\ StatesInv /\ CheckpointInv
  BY DEF IInv
<1>2. /\ UNCHANGED registry /\ UNCHANGED <<states, unsaved>> /\ returned' = {}
      /\ unsaved = {} /\ offset' = -1 /\ cleared' = FALSE
  BY DEF ClearCheckpointStore
<1>3. UNCHANGED <<events_by_order_id, accepted, overlapped>>
  BY <1>2 DEF registry
<1>4. RegistryInv'
  BY <1>1, <1>2, RegistryStays
<1>5. StatesInv'
  BY <1>1, <1>2, <1>3, StatesStay
<1>6. offset' \in -1..(Len(accepted') - 1) /\ 1..(offset' + 1) = {}
  <2>1. Len(accepted) \in Nat
    BY <1>1 DEF RegistryInv, HistoryInv, TypeInv
  <2> QED BY <1>2, <1>3, <2>1
<1>7. CheckpointInv'
  BY <1>2, <1>6 DEF CheckpointInv
<1> QED BY <1>4, <1>5, <1>7 DEF IInv

----------------------------------------------------------------------------
(* The theorems.                                                           *)

\* Nothing has happened yet.
LEMMA InitHolds == ASSUME Init PROVE IInv
<1>1. /\ events_by_order_id = [o \in Orders |-> <<>>] /\ accepted = <<>> /\ overlapped = {}
      /\ handler = [p \in Callers |-> Resting]
  BY DEF Init
<1>2. TypeInv
  <2>1. /\ <<>> \in Seq(Seq(EventRecord)) /\ <<>> \in Seq(EventRecord)
    OBVIOUS
  <2> QED BY <1>1, <2>1, RestingOk DEF TypeInv
<1>3. \A o \in Orders : events_by_order_id[o] = <<>> /\ Current(events_by_order_id[o]) = <<>>
  BY <1>1 DEF Current
<1>4. \A p \in Callers : handler[p] = Resting
  BY <1>1
<1>5. ListsInv /\ IntactInv
  <2>1. \A o \in Orders : /\ 1..Len(events_by_order_id[o]) = {} /\ Len(events_by_order_id[o]) <= 1
    BY <1>3
  <2>2. \A o : Intact(<<>>, <<>>, o)
    BY DEF Intact, LegalHistory, LegalLife
  <2> QED BY <1>1, <1>3, <2>1, <2>2 DEF ListsInv, IntactInv
<1>6. HandlersInv /\ AloneInv /\ KnowledgeInv
  BY <1>4, RestingOk DEF HandlersInv, AloneInv, KnowledgeInv
<1>7. FeedOrderInv
  BY <1>1 DEF FeedOrderInv
<1>8. RecordsInv /\ ReturnedInv /\ StatesInv
  BY DEF Init, RecordsInv, ReturnedInv, StatesInv
<1>9. CheckpointInv
  <2>1. /\ offset = -1 /\ Len(accepted) = 0 /\ unsaved = {} /\ cleared = FALSE
    BY DEF Init
  <2>2. offset \in -1..(Len(accepted) - 1) /\ 1..(offset + 1) = {}
    BY <2>1
  <2> QED BY <2>1, <2>2 DEF CheckpointInv
<1> QED BY <1>2, <1>5, <1>6, <1>7, <1>8, <1>9 DEF IInv, RegistryInv, HistoryInv

\* Every step of a handler and of the worker keeps the invariant.
LEMMA StepHolds == ASSUME PipelineAssumption, IInv, [Next]_vars PROVE IInv'
<1>1. RegistryInv
  BY DEF IInv
<1>2. ASSUME RegistryInv', UNCHANGED worker, UNCHANGED <<accepted, overlapped>>
      PROVE  IInv'
  <2>1. HistoryInv /\ HistoryInv'
    BY <1>1, <1>2 DEF RegistryInv
  <2>2. Len(accepted) <= Len(accepted') /\ overlapped \subseteq overlapped'
    BY <1>2, <2>1, Types
  <2>3. Grown
    BY <1>2, <2>1, <2>2, GrownFollows
  <2> QED BY <1>2, <2>1, <2>3, WorkerStays DEF IInv
<1>3. ASSUME NEW p \in Callers, NEW c \in Commands, handle(p, c) PROVE IInv'
  <2>1. UNCHANGED worker /\ UNCHANGED <<accepted, overlapped>>
    BY <1>3 DEF handle
  <2> QED BY <1>1, <1>2, <1>3, <2>1, HandleStep
<1>4. ASSUME NEW p \in Callers, Decide(p) PROVE IInv'
  <2>1. UNCHANGED worker /\ UNCHANGED <<accepted, overlapped>>
    BY <1>4 DEF Decide
  <2> QED BY <1>1, <1>2, <1>4, <2>1, DecideStep
<1>5. ASSUME NEW p \in Callers, append_if_admitted(p) PROVE IInv'
  <2>1. UNCHANGED worker
    BY <1>5 DEF append_if_admitted
  <2>2. RegistryInv' /\ Grown
    BY <1>1, <1>5, AppendStep
  <2>3. HistoryInv'
    BY <2>2 DEF RegistryInv
  <2> QED BY <2>1, <2>2, <2>3, WorkerStays DEF IInv
<1>6. ASSUME NEW p \in Callers, record(p) PROVE IInv'
  <2>1. UNCHANGED worker /\ UNCHANGED <<accepted, overlapped>>
    BY <1>6 DEF record
  <2> QED BY <1>1, <1>2, <1>6, <2>1, RecordStep
<1>7. CASE UNCHANGED vars
  <2>1. UNCHANGED <<registry, returned, worker>>
    BY <1>7 DEF vars
  <2>2. /\ UNCHANGED <<events_by_order_id, records_by_request_id, handler, accepted, overlapped>>
        /\ UNCHANGED returned
    BY <2>1 DEF registry
  <2>3. HistoryInv'
    <3>1. TypeInv' /\ ListsInv' /\ HandlersInv' /\ FeedOrderInv'
      BY <1>1, <2>2 DEF RegistryInv, HistoryInv, TypeInv, ListsInv, HandlersInv, FeedOrderInv
    <3>2. IntactInv' /\ AloneInv' /\ KnowledgeInv'
      BY <1>1, <2>2 DEF RegistryInv, HistoryInv, IntactInv, AloneInv, KnowledgeInv
    <3> QED BY <3>1, <3>2 DEF HistoryInv
  <2>4. ReturnedInv' /\ RecordsInv'
    BY <1>1, <2>2, RecordsStay DEF RegistryInv, ReturnedInv
  <2> QED BY <1>2, <2>1, <2>2, <2>3, <2>4 DEF RegistryInv
<1> QED BY <1>3, <1>4, <1>5, <1>6, <1>7, ProcessStep, SaveOffsetStep, DiesStep,
           ClearStatesStep, ClearCheckpointStep, Zenon DEF Next

\* The invariant means that answers are facts, and that histories whose appends
\* did not overlap are legal and hold what was answered.
LEMMA FactsFollow == ASSUME IInv PROVE AnswersAreFacts
<1>1. HistoryInv /\ RecordsInv /\ ReturnedInv
  BY DEF IInv, RegistryInv
<1>2. ASSUME NEW o \in Orders \ overlapped
      PROVE  Intact(Stream(o), accepted, o)
  BY <1>1, ReadStream DEF HistoryInv, IntactInv
<1>3. ASSUME NEW o \in Orders \ overlapped PROVE HistoryIsLegal(o)
  <2> SUFFICES ASSUME NEW n \in 1..Len(Stream(o)), NEW e, e = Stream(o)[n],
                      NEW a, a = Rehydrate(o, SubSeq(Stream(o), 1, n - 1))
               PROVE  \E c \in Commands :
                        c.order_id = o /\ IsLegal(a, c) /\ e = CandidateEvent(a, c, e.event_id)
    BY DEF HistoryIsLegal
  <2>1. LegalLife(o, Stream(o))
    BY <1>2 DEF Intact
  <2>2. PICK c \in Commands : c.order_id = o /\ BuiltOn(SubSeq(Stream(o), 1, n - 1), c, e)
    BY <2>1 DEF LegalLife
  <2>3. IsLegal(a, c) /\ e = CandidateEvent(a, c, e.event_id)
    BY <2>2 DEF BuiltOn
  <2> QED BY <2>2, <2>3
<1>4. ASSUME NEW e, NEW c, Answers(c, e), InFeed(accepted, e), c.order_id \notin overlapped
      PROVE  \E n \in 1..Len(Stream(c.order_id)) : Stream(c.order_id)[n] = e
  <2>1. PICK n \in 1..Len(accepted) : accepted[n] = e
    BY <1>4 DEF InFeed
  <2>2. e.order_id = c.order_id
    BY <1>4 DEF Answers
  <2>3. c.order_id \in Orders
    BY <1>1, <2>1, <2>2, FedEvent
  <2>4. Intact(Stream(c.order_id), accepted, c.order_id)
    BY <1>2, <1>4, <2>3
  <2>5. e.sequence \in 1..Len(Stream(c.order_id)) /\ Stream(c.order_id)[e.sequence] = e
    BY <2>1, <2>2, <2>4 DEF Intact
  <2> QED BY <2>5
<1>5. ASSUME NEW r \in returned, NEW c, c = r.command
      PROVE  /\ r.verdict \in {"ACCEPTED", "REPLAY"} =>
                  \E e \in r.event :
                    /\ Answers(c, e) /\ \E n \in 1..Len(accepted) : accepted[n] = e
                    /\ c.order_id \notin overlapped =>
                         \E n \in 1..Len(Stream(c.order_id)) : Stream(c.order_id)[n] = e
             /\ r.verdict = "CONFLICT" =>
                  \E n \in 1..Len(accepted), d \in Commands :
                    accepted[n].request_id = c.request_id /\ d # c /\ d.request_id = c.request_id
             /\ r.verdict = "STALE_WRITE" =>
                  \E n \in 1..Len(accepted) : accepted[n].order_id = c.order_id
  <2>1. /\ r.verdict \in {"ACCEPTED", "REPLAY"} =>
             \E e \in r.event : Answers(c, e) /\ InFeed(accepted, e)
        /\ r.verdict = "CONFLICT" =>
             \E n \in 1..Len(accepted), d \in Commands :
               accepted[n].request_id = c.request_id /\ d # c /\ d.request_id = c.request_id
        /\ r.verdict = "STALE_WRITE" =>
             \E n \in 1..Len(accepted) : accepted[n].order_id = c.order_id
    BY <1>1, <1>5, Zenon DEF ReturnedInv
  <2>2. ASSUME r.verdict \in {"ACCEPTED", "REPLAY"}
        PROVE  \E e \in r.event :
                 /\ Answers(c, e) /\ \E n \in 1..Len(accepted) : accepted[n] = e
                 /\ c.order_id \notin overlapped =>
                      \E n \in 1..Len(Stream(c.order_id)) : Stream(c.order_id)[n] = e
    <3>1. PICK e \in r.event : Answers(c, e) /\ InFeed(accepted, e)
      BY <2>1, <2>2
    <3>2. \E n \in 1..Len(accepted) : accepted[n] = e
      BY <3>1 DEF InFeed
    <3>3. c.order_id \notin overlapped =>
            \E n \in 1..Len(Stream(c.order_id)) : Stream(c.order_id)[n] = e
      BY <1>4, <3>1
    <3> QED BY <3>1, <3>2, <3>3, Zenon
  <2> QED BY <2>1, <2>2, Zenon
<1> QED BY <1>3, <1>5, ZenonT(40) DEF AnswersAreFacts

\* The invariant means that no record is skipped and every state is a replay.
LEMMA NothingSkippedFollows == ASSUME IInv PROVE NothingSkipped
<1>1. RegistryInv /\ StatesInv /\ CheckpointInv /\ HistoryInv
  BY DEF IInv, RegistryInv
<1>2. /\ accepted \in Seq(EventRecord) /\ Len(accepted) \in Nat
      /\ offset \in -1..(Len(accepted) - 1)
  BY <1>1 DEF HistoryInv, TypeInv, CheckpointInv
<1>3. ASSUME ~cleared, NEW n \in 0..(Len(accepted) - 1), n <= offset
      PROVE  accepted[n + 1].sequence <= load_or_init_state(accepted[n + 1].order_id).version
  <2>1. n + 1 \in 1..(offset + 1)
    BY <1>2, <1>3
  <2> QED BY <1>1, <1>3, <2>1 DEF CheckpointInv, LoadedVersion
<1>4. ASSUME ~cleared, NEW n \in 0..(Len(accepted) - 1), n = offset + 1
      PROVE  /\ Verdict(n) # "gap"
             /\ Verdict(n) = "refused" => accepted[n + 1].order_id \in overlapped
  <2>1. PICK e, v : e = accepted[n + 1] /\ v = LoadedVersion(e.order_id)
    OBVIOUS
  <2>2. /\ v \in Nat /\ e.sequence \in Nat
        /\ n > offset /\ e.sequence <= v => Verdict(n) = "skipped_already_projected"
        /\ n > offset /\ e.sequence = v + 1 =>
             /\ Verdict(n) \in {"applied", "refused"}
             /\ e.order_id \notin overlapped => Verdict(n) = "applied"
    BY <1>1, <2>1, VerdictIs
  <2>3. e.sequence <= v + 1
    <3>1. CASE e.sequence <= 1
      BY <2>2, <3>1
    <3>2. CASE e.sequence > 1
      <4>1. PICK k \in 1..(e.sequence - 1) : k = e.sequence - 1
        BY <2>2, <3>2
      <4>2. PICK i : i = n + 1
        OBVIOUS
      <4>3. i \in 1..Len(accepted) /\ accepted[i] = e /\ i - 1 = offset + 1
        BY <1>2, <1>4, <2>1, <4>2
      <4>4. PICK j \in 1..(i - 1) : accepted[j].order_id = e.order_id /\ accepted[j].sequence = k
        BY <1>1, <4>3 DEF HistoryInv, FeedOrderInv
      <4>5. accepted[j].sequence <= LoadedVersion(accepted[j].order_id)
        BY <1>1, <1>4, <4>3, <4>4 DEF CheckpointInv
      <4>6. k <= v
        BY <2>1, <4>4, <4>5
      <4> QED BY <2>2, <4>1, <4>6
    <3> QED BY <2>2, <3>1, <3>2
  <2>4. n > offset /\ (e.sequence <= v \/ e.sequence = v + 1)
    BY <1>2, <1>4, <2>2, <2>3
  <2> QED BY <2>1, <2>2, <2>4
<1>5. ASSUME NEW s \in states, s.order_id \notin overlapped
      PROVE  s = ReplayFrom(build_empty_projection_state(s.order_id),
                            SubSeq(Stream(s.order_id), 1, s.version))
  <2>1. PICK o, h : o = s.order_id /\ h = Stream(o)
    OBVIOUS
  <2>2. o \in Orders /\ \E v \in 0..Len(h) : s = DerivedState(o, h, v)
    BY <1>1, <1>5, <2>1 DEF StatesInv
  <2>3. PICK v \in 0..Len(h) : s = DerivedState(o, h, v)
    BY <2>2
  <2>4. s.version = v
    BY <2>3 DEF DerivedState
  <2>5. h \in Seq(EventRecord) /\ LegalHistory(o, h)
    <3>1. h \in Seq(EventRecord) /\ h = Current(events_by_order_id[o])
      BY <1>1, <2>1, <2>2, ReadStream
    <3> QED BY <1>1, <1>5, <2>1, <2>2, <3>1 DEF HistoryInv, IntactInv, Intact
  <2>6. ReplayFrom(build_empty_projection_state(o), SubSeq(h, 1, v)) = DerivedState(o, h, v)
    BY <2>5, ReplayPrefix
  <2> QED BY <2>1, <2>3, <2>4, <2>6
<1> QED BY <1>3, <1>4, <1>5 DEF NothingSkipped

\* IInv is an invariant of every behaviour of the in-memory pipeline: handlers
\* that interleave inside EventStore.append included.
THEOREM PipelineInvariance == Spec => []IInv
<1>1. PipelineAssumption /\ IInv /\ [Next]_vars => IInv'
  BY StepHolds
<1> QED BY InitHolds, <1>1, PipelineAssumption, PTL DEF Spec

\* Every answer of handle_create and handle_pay is about an event that
\* EventStore.append really took, however the handlers interleave, inside append
\* too.  As long as no two appends of an order overlap there, its history is
\* legal and holds those events, whatever happened between the load of the
\* stream and append: then the version check is enough, under either validator.
\* The lock-free append gives no more, see the run of AcceptedEventsStay.
THEOREM AnswersHold == Spec => []AnswersAreFacts
BY PipelineInvariance, FactsFollow, PTL

\* ProjectionWorker.process_record skips no record, for any redelivery and any
\* death between the two writes, and of an order whose appends did not overlap
\* it refuses none and saves only replays of prefixes.
THEOREM NoRecordIsSkipped == Spec => []NothingSkipped
BY PipelineInvariance, NothingSkippedFollows, PTL
=============================================================================
