-------------------------- MODULE InMemoryPipeline --------------------------
(***************************************************************************)
(* The in-memory baseline: OrderRegistry over EventStore,                  *)
(* IdempotencyProvider and OptimisticVersionGate, and the ProjectionWorker *)
(* that is fed the accepted events with their offsets.                     *)
(*                                                                         *)
(* Neither the registry nor the stores hold a lock.  Handlers of several   *)
(* callers interleave between their calls on the stores and inside         *)
(* EventStore.append, which looks its list up, puts a new one in its place *)
(* if there is none, compares its length and appends to it, and load finds *)
(* a list before it copies it.  The other store calls are one access of a  *)
(* dictionary each.  The worker saves the state and the checkpoint in two  *)
(* calls and may die between them; the stores outlive it.                  *)
(***************************************************************************)
EXTENDS ProjectionReducer

CONSTANTS
  Callers,      \* callers of handle_create and handle_pay
  Orders,
  Commands,     \* the requests they make; the amount is the raw Decimal
  Modes,        \* ValidationMode: which validator the dispatcher selects
  MaxAccepted,  \* bound: no call begins once this many events have been accepted
  MaxDeaths,    \* bound: deaths of the worker
  MaxClears     \* bound: calls of the projection store's clear()

ASSUME PipelineAssumption ==
  /\ Modes \subseteq {"FullProof", "NoOp"}
  /\ MaxAccepted \in Nat /\ MaxDeaths \in Nat /\ MaxClears \in Nat
  /\ \A c \in Commands : c.order_id \in Orders /\ c.command_type \in CommandTypes
                         /\ c.amount \in Int

VARIABLES
  mode,                   \* chosen by build_transactional_runtime
  events_by_order_id,     \* EventStore: the lists that the entry of an order has had,
                          \* the last being the one it has
  records_by_request_id,  \* IdempotencyProvider
  handler,                \* what each caller's handler has done
  returned,               \* what the last step returned or raised, at most one
  accepted,               \* the events in the order they were appended
  overlapped,             \* history: orders in whose append two handlers have been at once
  states, offset,         \* projection store and checkpoint of the worker
  unsaved,                \* offsets whose state is saved and whose checkpoint is not
  deaths, clears,
  cleared                 \* states were cleared and the checkpoint was not yet

registry == <<mode, events_by_order_id, records_by_request_id, handler, accepted, overlapped>>
worker   == <<states, offset, unsaved, deaths, clears, cleared>>
vars     == <<registry, returned, worker>>

----------------------------------------------------------------------------
(* handle_create and handle_pay.                                           *)

Resting == [pc |-> "rest", command |-> {}, candidate |-> {}, list |-> 0]

\* The list that the entry has now.
Stream(o) ==
  LET lists == events_by_order_id[o] IN IF lists = <<>> THEN <<>> ELSE lists[Len(lists)]

\* The handler returns a verdict, or goes on; no other step returns anything.
Answer(p, c, verdict, event) ==
  /\ returned' = {[verdict |-> verdict, command |-> c, event |-> event]}
  /\ handler' = [handler EXCEPT ![p] = Resting]

Continue(p, h) == returned' = {} /\ handler' = [handler EXCEPT ![p] = h]

The(S) == CHOOSE x \in S : TRUE

\* A mistake: a known request_id is a replay, whatever it asks for.
CheckByRequestId(c) ==
  LET existing == {i \in records_by_request_id : i.signature.request_id = c.request_id}
  IN  [verdict |-> IF existing = {} THEN "MISS" ELSE "REPLAY",
       event   |-> {i.accepted_event : i \in existing}]

\* IdempotencyProvider.check, by RequestSignature: the raw amount, not the
\* canonical one.
check(c) ==
  LET existing == {i \in records_by_request_id : i.signature.request_id = c.request_id}
  IN  [verdict |-> IF existing = {} THEN "MISS"
                   ELSE IF The(existing).signature = c THEN "REPLAY" ELSE "CONFLICT",
       event   |-> {i.accepted_event : i \in existing}]

\* A call begins with _check_idempotency.  From here on the handler may find
\* any list that its order has had since.
handle(p, c) ==
  LET d == check(c)
  IN  /\ handler[p].pc = "rest" /\ Len(accepted) < MaxAccepted
      /\ \/ /\ d.verdict = "MISS"
            /\ Continue(p, [Resting EXCEPT !.pc = "decide", !.command = {c},
                                           !.list = Len(events_by_order_id[c.order_id])])
         \/ d.verdict = "REPLAY" /\ Answer(p, c, "REPLAY", d.event)
         \/ d.verdict = "CONFLICT" /\ Answer(p, c, "CONFLICT", {})
      /\ UNCHANGED <<mode, events_by_order_id, records_by_request_id, accepted, overlapped, worker>>

\* The identity of a new event; uuid4 in the code, a count here.
NewEventId(p) == <<p, Len(accepted)>>

\* store.load, the replay into a new aggregate, create or pay, and the
\* validation runtime: everything that reads the stream only once.  load finds
\* the list of the entry first and copies it then.  The replay raises at an
\* event out of sequence.
Decide(p) ==
  LET c     == The(handler[p].command)
      lists == events_by_order_id[c.order_id]
  IN  /\ handler[p].pc = "decide"
      /\ \E i \in handler[p].list..Len(lists) :
           LET history == IF i = 0 THEN <<>> ELSE lists[i]
               a       == Rehydrate(c.order_id, history)
               e       == CandidateEvent(a, c, NewEventId(p))
           IN  \/ /\ ~(Rehydratable(c.order_id, history) /\ IsLegal(a, c))
                  /\ Answer(p, c, "RAISED", {})
               \/ /\ Rehydratable(c.order_id, history) /\ IsLegal(a, c)
                  /\ \E allowed \in AllowedDecisions(mode, e, ValidationContext(a, history)) :
                       \/ ~allowed /\ Answer(p, c, "BLOCKED", {})
                       \/ /\ allowed
                          /\ Continue(p, [handler[p] EXCEPT !.pc = "append", !.candidate = {e},
                                                            !.list = 0])
      /\ UNCHANGED <<mode, events_by_order_id, records_by_request_id, accepted, overlapped, worker>>

\* EventStore.append raises ValueError unless this holds.  The expected
\* version is the aggregate's, which the proof of the candidate carries.
AppendAdmits(stream, e) ==
  /\ Len(stream) = e.proof.prev_version
  /\ e.sequence = e.proof.prev_version + 1

\* The handler q is between the first line of append and the last.
Inside(q, o) ==
  handler[q].pc \in {"create", "check", "push"} /\ The(handler[q].candidate).order_id = o

\* if order_id in self.events_by_order_id: event_stream = ...
LookUp(p) ==
  LET o     == The(handler[p].candidate).order_id
      lists == events_by_order_id[o]
  IN  /\ handler[p].pc = "append"
      /\ \/ /\ lists # <<>>
            /\ Continue(p, [handler[p] EXCEPT !.pc = "check", !.list = Len(lists)])
         \/ lists = <<>> /\ Continue(p, [handler[p] EXCEPT !.pc = "create"])
      /\ overlapped' = overlapped \cup {x \in {o} : \E q \in Callers : Inside(q, x)}
      /\ UNCHANGED <<events_by_order_id, accepted>>

\* else: event_stream = []; self.events_by_order_id[order_id] = event_stream
CreateStream(p) ==
  LET o == The(handler[p].candidate).order_id
  IN  /\ handler[p].pc = "create"
      /\ events_by_order_id' = [events_by_order_id EXCEPT ![o] = Append(@, <<>>)]
      /\ Continue(p, [handler[p] EXCEPT !.pc = "check", !.list = Len(events_by_order_id[o]) + 1])
      /\ UNCHANGED <<accepted, overlapped>>

\* The two gates; OptimisticVersionGate turns the ValueError into STALE_WRITE.
CheckVersion(p) ==
  LET e      == The(handler[p].candidate)
      stream == events_by_order_id[e.order_id][handler[p].list]
  IN  /\ handler[p].pc = "check"
      /\ \/ AppendAdmits(stream, e) /\ Continue(p, [handler[p] EXCEPT !.pc = "push"])
         \/ ~AppendAdmits(stream, e) /\ Answer(p, The(handler[p].command), "STALE_WRITE", {})
      /\ UNCHANGED <<events_by_order_id, accepted, overlapped>>

\* event_stream.append(candidate_event), on the list that was looked up.
Push(p) ==
  LET e == The(handler[p].candidate)
  IN  /\ handler[p].pc = "push"
      /\ events_by_order_id' = [events_by_order_id EXCEPT
                                   ![e.order_id][handler[p].list] = Append(@, e)]
      /\ accepted' = Append(accepted, e)
      /\ Continue(p, [handler[p] EXCEPT !.pc = "record", !.list = 0])
      /\ UNCHANGED overlapped

\* OptimisticVersionGate.append_if_admitted
append_if_admitted(p) ==
  /\ LookUp(p) \/ CreateStream(p) \/ CheckVersion(p) \/ Push(p)
  /\ UNCHANGED <<mode, records_by_request_id, worker>>

\* records_by_request_id[request_id] = ...
Recorded(c, e) ==
  {i \in records_by_request_id : i.signature.request_id # c.request_id}
    \cup {[signature |-> c, accepted_event |-> e]}

\* aggregate.apply on the local object, and IdempotencyProvider.record.
record(p) ==
  /\ handler[p].pc = "record"
  /\ records_by_request_id' = Recorded(The(handler[p].command), The(handler[p].candidate))
  /\ Answer(p, The(handler[p].command), "ACCEPTED", handler[p].candidate)
  /\ UNCHANGED <<mode, events_by_order_id, accepted, overlapped, worker>>

----------------------------------------------------------------------------
(* ProjectionWorker.process_record.                                        *)

load_or_init_state(o) ==
  LET saved == {s \in states : s.order_id = o}
  IN  IF saved = {} THEN build_empty_projection_state(o) ELSE The(saved)

save_state(s) == states' = {t \in states : t.order_id # s.order_id} \cup {s}

\* A mistake: the next sequence is taken for one already projected.
VerdictOffByOne(n) ==
  LET e == accepted[n + 1]
      s == load_or_init_state(e.order_id)
  IN  CASE n <= offset -> "skipped_already_consumed"
        [] n > offset /\ e.sequence <= s.version + 1 /\ s.version > 0 -> "skipped_already_projected"
        [] n > offset /\ e.sequence = s.version + 1 /\ s.version = 0 ->
             IF Reducible(s, e) THEN "applied" ELSE "refused"
        [] OTHER -> "gap"

\* A mistake: every sequence but the next is a gap.
VerdictRefusesRedelivery(n) ==
  LET e == accepted[n + 1]
      s == load_or_init_state(e.order_id)
  IN  CASE n <= offset -> "skipped_already_consumed"
        [] n > offset /\ e.sequence = s.version + 1 ->
             IF Reducible(s, e) THEN "applied" ELSE "refused"
        [] OTHER -> "gap"

\* How process_record judges the record at offset n.
Verdict(n) ==
  LET e == accepted[n + 1]
      s == load_or_init_state(e.order_id)
  IN  CASE n <= offset -> "skipped_already_consumed"
        [] n > offset /\ e.sequence <= s.version -> "skipped_already_projected"
        [] n > offset /\ e.sequence = s.version + 1 ->
             IF Reducible(s, e) THEN "applied" ELSE "refused"
        [] OTHER -> "gap"

\* A caller replays records in order; one it delivers is at most one past the
\* checkpoint.  The reads and the first write are one step: nobody else
\* writes these stores.  A consumed record is skipped; at a gap the worker
\* raises, and at a record it refuses the reducer: these change nothing.
process_record(n) ==
  /\ unsaved = {} /\ n < Len(accepted) /\ n <= offset + 1
  /\ \/ /\ Verdict(n) = "skipped_already_projected"
        /\ offset' = n
        /\ UNCHANGED <<states, unsaved>>
     \/ /\ Verdict(n) = "applied"
        /\ save_state(reduce_order_event(load_or_init_state(accepted[n + 1].order_id),
                                         accepted[n + 1]))
        /\ unsaved' = {n}
        /\ UNCHANGED offset
     \/ /\ Verdict(n) \in {"skipped_already_consumed", "gap", "refused"}
        /\ UNCHANGED <<states, offset, unsaved>>
  /\ returned' = {}
  /\ UNCHANGED <<registry, deaths, clears, cleared>>

save_offset ==
  /\ unsaved # {}
  /\ offset' = The(unsaved)
  /\ unsaved' = {}
  /\ returned' = {}
  /\ UNCHANGED <<registry, states, deaths, clears, cleared>>

\* The worker dies between its two writes, and another takes over.
WorkerDies ==
  /\ unsaved # {} /\ deaths < MaxDeaths
  /\ unsaved' = {} /\ deaths' = deaths + 1
  /\ returned' = {}
  /\ UNCHANGED <<registry, states, offset, clears, cleared>>

\* clear() of the two stores, which a rebuild calls one after the other.
ClearProjectionStore ==
  /\ unsaved = {} /\ states # {} /\ clears < MaxClears
  /\ states' = {} /\ clears' = clears + 1 /\ cleared' = (offset >= 0)
  /\ returned' = {}
  /\ UNCHANGED <<registry, offset, unsaved, deaths>>

ClearCheckpointStore ==
  /\ unsaved = {} /\ offset >= 0 /\ clears < MaxClears
  /\ offset' = -1 /\ clears' = clears + 1 /\ cleared' = FALSE
  /\ returned' = {}
  /\ UNCHANGED <<registry, states, unsaved, deaths>>

----------------------------------------------------------------------------
Init ==
  /\ mode \in Modes
  /\ events_by_order_id = [o \in Orders |-> <<>>]   \* no entry
  /\ records_by_request_id = {}
  /\ handler = [p \in Callers |-> Resting]
  /\ returned = {}
  /\ accepted = <<>> /\ overlapped = {}
  /\ states = {} /\ offset = -1 /\ unsaved = {}
  /\ deaths = 0 /\ clears = 0 /\ cleared = FALSE

Next ==
  \/ \E p \in Callers :
       \/ \E c \in Commands : handle(p, c)
       \/ Decide(p) \/ append_if_admitted(p) \/ record(p)
  \/ \E n \in 0..Len(accepted) : process_record(n)
  \/ save_offset \/ WorkerDies \/ ClearProjectionStore \/ ClearCheckpointStore

Spec == Init /\ [][Next]_vars

\* Whoever runs the worker goes on offering it the first record past its
\* checkpoint, and a call that has begun ends unless the worker dies.
FairSpec ==
  /\ Spec
  /\ WF_vars(process_record(offset + 1)) /\ WF_vars(save_offset)

----------------------------------------------------------------------------
(* Properties.                                                             *)

\* Each event is the candidate of a command that was legal on the events before it.
HistoryIsLegal(o) ==
  \A n \in 1..Len(Stream(o)) :
    LET e == Stream(o)[n]
        a == Rehydrate(o, SubSeq(Stream(o), 1, n - 1))
    IN  \E c \in Commands :
          c.order_id = o /\ IsLegal(a, c) /\ e = CandidateEvent(a, c, e.event_id)

\* e is what c asked for.
Answers(c, e) ==
  /\ e.order_id = c.order_id /\ e.request_id = c.request_id
  /\ e.event_type = (IF c.command_type = "create" THEN "CREATED" ELSE "PAID")
  /\ e.amount = normalize_money(c.amount)

\* What a caller is told is so: an accepted or replayed event was appended and
\* is what the caller's own command asked for, a conflict names a request_id
\* that another payload really used, and a handler that was refused for
\* staleness had a rival.  And while no two appends of an order overlap, its
\* history is worth being told about: it is legal and holds every event that a
\* caller was given, however the handlers interleave between reading the stream
\* and appending to it, and with validation switched off.  (Appends that do
\* overlap break this, see AcceptedEventsStay.  Two handlers that race with
\* one request_id may each be accepted, for different payloads.)
AnswersAreFacts ==
  /\ \A o \in Orders \ overlapped : HistoryIsLegal(o)
  /\ \A r \in returned :
       LET c == r.command
       IN  /\ r.verdict \in {"ACCEPTED", "REPLAY"} =>
                \E e \in r.event :
                  /\ Answers(c, e) /\ \E n \in 1..Len(accepted) : accepted[n] = e
                  /\ c.order_id \notin overlapped =>
                       \E n \in 1..Len(Stream(c.order_id)) : Stream(c.order_id)[n] = e
           /\ r.verdict = "CONFLICT" =>
                \E n \in 1..Len(accepted), d \in Commands :
                  accepted[n].request_id = c.request_id /\ d # c /\ d.request_id = c.request_id
           /\ r.verdict = "STALE_WRITE" =>
                \E n \in 1..Len(accepted) : accepted[n].order_id = c.order_id

\* What EventStore.append is documented to protect: before sequence N is
\* appended its stream holds exactly N - 1 accepted events, so an appended event
\* stays at its sequence.  Two handlers inside append at once break it.
AcceptedEventsStay ==
  \A n \in 1..Len(accepted) :
    LET e == accepted[n]
    IN  e.sequence \in 1..Len(Stream(e.order_id)) /\ Stream(e.order_id)[e.sequence] = e

\* No record is lost: while nobody has cleared the states alone, every record
\* at or below the checkpoint is in the state of its order, or an event of the
\* same sequence is; the next record is no gap and is refused only if appends of
\* its order overlapped.  And a state is otherwise the replay of a prefix of
\* its history - whenever the worker dies between its two writes and whatever
\* is redelivered.
NothingSkipped ==
  /\ ~cleared =>
       \A n \in 0..Len(accepted) - 1 :
         LET e == accepted[n + 1]
         IN  /\ n <= offset => e.sequence <= load_or_init_state(e.order_id).version
             /\ n = offset + 1 => /\ Verdict(n) # "gap"
                                  /\ Verdict(n) = "refused" => e.order_id \in overlapped
  /\ \A s \in states : s.order_id \notin overlapped =>
       s = ReplayFrom(build_empty_projection_state(s.order_id),
                      SubSeq(Stream(s.order_id), 1, s.version))

AllProjected ==
  \A o \in Orders \ overlapped : load_or_init_state(o).version = Len(Stream(o))

\* The record after the checkpoint is one that the reducer raises at.
Blocked == offset + 1 < Len(accepted) /\ Verdict(offset + 1) = "refused"

\* The worker catches up with accepted history after any number of deaths and
\* after a rebuild; only states cleared without the checkpoint stay behind, and
\* what comes after a record that the reducer refuses for good.
ProjectionCatchesUp == <>[](AllProjected \/ cleared \/ Blocked)
=============================================================================
