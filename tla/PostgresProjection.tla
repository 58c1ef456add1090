------------------------- MODULE PostgresProjection -------------------------
(***************************************************************************)
(* PostgresProjectionWorker: process_next applies one committed event to   *)
(* projection_states and advances projection_order_progress, both in one   *)
(* transaction of several statements.  The supported topology is one       *)
(* worker; nothing prevents a second, so Workers is a set.                 *)
(*                                                                         *)
(* The write side is here only what a reader of order_events can see of    *)
(* it: a transaction takes a global_position when it inserts, and commits  *)
(* (or rolls back) in any order relative to other transactions.            *)
(***************************************************************************)
EXTENDS ProjectionReducer

CONSTANTS
  Workers,      \* processes that call process_next
  Orders,
  Commands,     \* the commands writers execute
  MaxPosition,  \* bound on the global positions taken
  MaxFailures   \* bound on failing worker transactions

ASSUME ProjectionAssumption ==
  /\ MaxPosition \in Nat /\ MaxFailures \in Nat /\ NoEvent \notin Nat
  /\ \A c \in Commands : c.order_id \in Orders /\ c.command_type \in CommandTypes
                         /\ c.amount \in Int

VARIABLES
  order_events,               \* committed rows
  uncommitted,                \* rows of open write transactions
  position_seq,               \* order_events_global_position_seq
  projection_states,          \* committed rows: OrderState by order
  projection_order_progress,  \* committed rows: last event applied by order
  pc,                         \* next statement of each worker's transaction
  record,                     \* the event process_next found, at most one row
  next_state,                 \* the reduced state, at most one
  reported,                   \* what process_next last returned or raised
  failures

writers == <<order_events, uncommitted, position_seq>>
derived == <<projection_states, projection_order_progress>>
locals  == <<pc, record, next_state>>
vars    == <<writers, derived, locals, reported, failures>>

----------------------------------------------------------------------------
(* The write side as the projection sees it.                               *)

Stream(o) == {r.event : r \in {s \in order_events : s.event.order_id = o}}
History(o) == InSequenceOrder(Stream(o))

\* An INSERT takes a global position, which also names its event here; rivals
\* for a stream position wait.
InsertRow(c) ==
  LET a == Rehydrate(c.order_id, History(c.order_id))
  IN  /\ position_seq < MaxPosition
      /\ IsLegal(a, c)
      /\ \A r \in uncommitted : r.event.order_id # c.order_id
      /\ position_seq' = position_seq + 1
      /\ uncommitted' = uncommitted \cup
           {[event |-> CandidateEvent(a, c, position_seq + 1),
            global_position |-> position_seq + 1]}
      /\ UNCHANGED <<order_events, derived, locals, reported, failures>>

CommitRow(r) ==
  /\ order_events' = order_events \cup {r}
  /\ uncommitted' = uncommitted \ {r}
  /\ UNCHANGED <<position_seq, derived, locals, reported, failures>>

RollbackRow(r) ==
  /\ uncommitted' = uncommitted \ {r}
  /\ UNCHANGED <<order_events, position_seq, derived, locals, reported, failures>>

----------------------------------------------------------------------------
(* The rows the worker reads.                                              *)

ProgressOf(o) == {p \in projection_order_progress : p.order_id = o}
StateOf(o)    == {s \in projection_states : s.order_id = o}

\* COALESCE(progress.last_sequence, 0)
LastSequence(o) == IF ProgressOf(o) = {} THEN 0
                   ELSE (CHOOSE p \in ProgressOf(o) : TRUE).last_sequence

\* PostgresProjectionStore.load_state, an absent row standing for the empty
\* state.
load_state(o) == IF StateOf(o) = {} THEN build_empty_projection_state(o)
                 ELSE CHOOSE s \in StateOf(o) : TRUE

\* A mistake: progress is one cursor over global positions.
EligibleAfterCursor(r) ==
  \A p \in projection_order_progress : p.last_global_position < r.global_position

\* The WHERE clause of load_eligible: exactly next within its own order.
Eligible(r) == r.event.sequence = LastSequence(r.event.order_id) + 1

\* ORDER BY global_position LIMIT 1
load_eligible ==
  {r \in order_events : Eligible(r) /\ \A s \in order_events :
                          Eligible(s) => r.global_position <= s.global_position}

RecordOf(k) == CHOOSE r \in record[k] : TRUE
EventOf(k)  == RecordOf(k).event

----------------------------------------------------------------------------
(* process_next, one action per statement.                                 *)

\* The transaction of k ends; its locals die with it.
Finish(k, answer) ==
  /\ pc' = [pc EXCEPT ![k] = "idle"]
  /\ record' = [record EXCEPT ![k] = {}]
  /\ next_state' = [next_state EXCEPT ![k] = {}]
  /\ reported' = [reported EXCEPT ![k] = answer]

LoadEligible(k) ==
  /\ pc[k] = "idle"
  /\ \/ /\ load_eligible = {}
        /\ Finish(k, "no_event")
     \/ \E r \in load_eligible :
          /\ record' = [record EXCEPT ![k] = {r}]
          /\ pc' = [pc EXCEPT ![k] = "load_state"]
          /\ UNCHANGED <<next_state, reported>>
  /\ UNCHANGED <<writers, derived, failures>>

\* load_state and the reduction.
LoadState(k) ==
  LET s == load_state(EventOf(k).order_id)
  IN  /\ pc[k] = "load_state"
      /\ \/ /\ Reducible(s, EventOf(k))
            /\ next_state' = [next_state EXCEPT ![k] = {reduce_order_event(s, EventOf(k))}]
            /\ pc' = [pc EXCEPT ![k] = "save_state"]
            /\ UNCHANGED <<record, reported>>
         \/ /\ ~Reducible(s, EventOf(k))
            /\ Finish(k, "reducer_error")
      /\ UNCHANGED <<writers, derived, failures>>

\* Workers whose open transaction has written the state row of order o.
Writing(o) == {k \in Workers : pc[k] \in {"advance", "commit"} /\ EventOf(k).order_id = o}

\* save_state: the upsert waits while another transaction holds the row.
SaveState(k) ==
  /\ pc[k] = "save_state"
  /\ Writing(EventOf(k).order_id) = {}
  /\ pc' = [pc EXCEPT ![k] = "advance"]
  /\ UNCHANGED <<writers, derived, record, next_state, reported, failures>>

\* advance_progress: exactly one beyond the durable progress, or a
\* ProjectionProgressConflictError that rolls the transaction back.
AdvanceProgress(k) ==
  /\ pc[k] = "advance"
  /\ \/ /\ RecordOf(k) \in order_events
        /\ EventOf(k).sequence = LastSequence(EventOf(k).order_id) + 1
        /\ pc' = [pc EXCEPT ![k] = "commit"]
        /\ UNCHANGED <<record, next_state, reported>>
     \/ /\ ~(/\ RecordOf(k) \in order_events
             /\ EventOf(k).sequence = LastSequence(EventOf(k).order_id) + 1)
        /\ Finish(k, "progress_conflict")
  /\ UNCHANGED <<writers, derived, failures>>

ProgressRow(r) ==
  [order_id |-> r.event.order_id, last_sequence |-> r.event.sequence,
   last_event_id |-> r.event.event_id, last_global_position |-> r.global_position]

\* A mistake: progress is committed and the state write is lost.
PublishProgressOnly(k) ==
  LET o == EventOf(k).order_id
  IN  /\ projection_order_progress' =
           (projection_order_progress \ ProgressOf(o)) \cup {ProgressRow(RecordOf(k))}
      /\ UNCHANGED projection_states

\* The state row and the progress row become visible together.
Publish(k) ==
  LET o == EventOf(k).order_id
  IN  /\ projection_states' = (projection_states \ StateOf(o)) \cup next_state[k]
      /\ projection_order_progress' =
           (projection_order_progress \ ProgressOf(o)) \cup {ProgressRow(RecordOf(k))}

Commit(k) ==
  /\ pc[k] = "commit"
  /\ Publish(k)
  /\ Finish(k, "applied")
  /\ UNCHANGED <<writers, failures>>

\* The commit took effect but the worker only sees an exception.
CommitUnacknowledged(k) ==
  /\ pc[k] = "commit" /\ failures < MaxFailures
  /\ failures' = failures + 1
  /\ Publish(k)
  /\ Finish(k, "failed")
  /\ UNCHANGED writers

\* A statement fails or the worker dies: everything it wrote is rolled back.
Fail(k) ==
  /\ pc[k] # "idle" /\ failures < MaxFailures
  /\ failures' = failures + 1
  /\ Finish(k, "failed")
  /\ UNCHANGED <<writers, derived>>

----------------------------------------------------------------------------
Init ==
  /\ order_events = {} /\ uncommitted = {} /\ position_seq = 0
  /\ projection_states = {} /\ projection_order_progress = {}
  /\ pc = [k \in Workers |-> "idle"]
  /\ record = [k \in Workers |-> {}]
  /\ next_state = [k \in Workers |-> {}]
  /\ reported = [k \in Workers |-> "none"]
  /\ failures = 0

WriterStep ==
  \/ \E c \in Commands : InsertRow(c)
  \/ \E r \in uncommitted : CommitRow(r) \/ RollbackRow(r)

WorkerStep(k) ==
  LoadEligible(k) \/ LoadState(k) \/ SaveState(k) \/ AdvanceProgress(k) \/ Commit(k)

Next ==
  \/ WriterStep
  \/ \E k \in Workers : WorkerStep(k) \/ CommitUnacknowledged(k) \/ Fail(k)

Spec == Init /\ [][Next]_vars

\* process_next is called again and again, and each call runs to its end.
\* Writers promise nothing.
FairSpec == Spec /\ \A k \in Workers : WF_vars(WorkerStep(k))

----------------------------------------------------------------------------
(* Properties.                                                             *)

\* The state an aggregate replay of the first n events of an order leaves.
ReplayedState(o, n) ==
  LET a == Rehydrate(o, SubSeq(History(o), 1, n))
  IN  [order_id |-> o, status |-> a.status, total_amount |-> a.total_amount,
       paid_amount |-> a.paid_amount, version |-> a.current_version]

\* The derived state of an order is at every moment the replay of the first n
\* accepted events of that order, where n is its durable progress, and the
\* progress row names the n-th accepted event - with workers failing half-way,
\* losing a commit acknowledgement or competing for the same event.
StateIsReplayOfProgress ==
  \A o \in Orders :
    LET n == LastSequence(o)
    IN  /\ n <= Len(History(o))
        /\ load_state(o) = ReplayedState(o, n)
        /\ StateOf(o) = {} <=> ProgressOf(o) = {}
        /\ \A p \in ProgressOf(o) : \E r \in order_events :
             p = ProgressRow(r) /\ r.event.sequence = n /\ r.event.order_id = o

\* no_event is the truth at the moment it is returned: every event committed
\* so far is in the derived state - although events become visible in another
\* order than the one of their global positions.
NoEventMeansCaughtUp ==
  [][\A k \in Workers : LoadEligible(k) /\ reported'[k] = "no_event" /\ pc'[k] = "idle"
       => \A o \in Orders : load_state(o) = ReplayedState(o, Len(History(o)))]_vars

\* Every committed event is eventually projected, also the one whose
\* transaction took a low global position and committed late.
EveryEventProjected ==
  \A o \in Orders : \A n \in 1..2 :
    Len(History(o)) >= n ~> LastSequence(o) >= n
=============================================================================
