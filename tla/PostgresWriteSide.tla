------------------------- MODULE PostgresWriteSide -------------------------
(***************************************************************************)
(* PostgresTransactionalWriteSide: concurrent create/pay invocations, each *)
(* on a connection of its own, against one PostgreSQL database.            *)
(*                                                                         *)
(* A step is one SQL statement together with the local computation that    *)
(* follows it up to the next statement.  PostgreSQL is modelled from how   *)
(* the stores use it at READ COMMITTED: a statement sees the rows          *)
(* committed when it starts and the transaction's own rows, an INSERT of a *)
(* key that another open transaction has inserted waits for that           *)
(* transaction to end, nextval is never rolled back, and a transaction     *)
(* advisory lock is released by commit and rollback.                       *)
(*                                                                         *)
(* An invocation runs once; a retry is another invocation that chooses the *)
(* same command.  The identity of an invocation stands for the UUID of the *)
(* one candidate event it may build.                                       *)
(***************************************************************************)
EXTENDS OrderDomain

CONSTANTS
  Invocations,  \* calls of create_order / pay_order and their variants
  Requests,     \* request_id values
  Orders,       \* order_id values
  Amounts,      \* raw amounts callers pass, in thousandths
  Commands,     \* the commands a caller may issue
  Configs,      \* the write-side configurations in use at the same time
  StreamKey     \* hashtext(order_id), the advisory lock key of a stream

Placements == {"PRE_TRANSACTION", "IN_TRANSACTION"}
Gates      == {"optimistic", "pessimistic"}
Validators == {"FullProof", "NoOp", "Substitute"}

CommandRecord ==
  [request_id : Requests, command_type : CommandTypes, order_id : Orders, amount : Amounts]

ASSUME ConstantsAssumption ==
  /\ NoEvent \notin Invocations
  /\ Amounts \subseteq Int
  /\ Commands \subseteq CommandRecord
  /\ Configs \subseteq [placement : Placements, gate : Gates, validator : Validators]

VARIABLES
  order_events,         \* committed rows of order_events
  idempotency_records,  \* committed rows of idempotency_records
  position_seq,         \* last value of order_events_global_position_seq
  locked,               \* invocations whose transaction holds its stream lock
  inserted,             \* uncommitted order_events rows of each transaction
  recorded,             \* uncommitted idempotency rows of each transaction
  position,             \* global_position taken by an INSERT that had to wait
  pc,                   \* the statement each invocation executes next
  command, config,      \* what each invocation was called with
  candidate,            \* the candidate event, a set of at most one event
  checkpoints,          \* the trace collector of the invocation
  result                \* what the invocation returned or raised

database  == <<order_events, idempotency_records, position_seq>>
transaction == <<locked, inserted, recorded>>
call      == <<command, config>>
vars      == <<database, transaction, position, pc, call, candidate, checkpoints, result>>

----------------------------------------------------------------------------
(* What the statements read.                                               *)

Stream(o) == {r.event : r \in {s \in order_events : s.event.order_id = o}}

\* PostgresEventStore.load
load(o) == InSequenceOrder(Stream(o))

\* PostgresEventStore._current_version: COALESCE(MAX(sequence), 0)
current_version(o) == Max({0} \cup {e.sequence : e \in Stream(o)})

\* PostgresIdempotencyStore._load_record
RecordOf(c) == {r \in idempotency_records : r.request_id = c.request_id}

\* A mistake: a known request_id is a replay, whatever its payload.
VerdictIgnoresPayload(c) == IF RecordOf(c) = {} THEN "MISS" ELSE "REPLAY"

\* PostgresIdempotencyStore.check
IdempotencyVerdict(c) ==
  IF RecordOf(c) = {} THEN "MISS"
  ELSE IF \E r \in RecordOf(c) : r.semantic_fingerprint = semantic_fingerprint(c)
       THEN "REPLAY" ELSE "CONFLICT"

----------------------------------------------------------------------------
(* How an invocation proceeds and ends.                                    *)

Result(outcome, event, verdict, mismatch) ==
  [outcome |-> outcome, accepted_event |-> event,
   verdict |-> verdict, version_mismatch |-> mismatch]

NoResult == Result("none", NoEvent, "none", <<>>)
Outcome(outcome, event) == Result(outcome, event, "none", <<>>)
AdmissionRejected(verdict, mismatch) ==
  Result("ADMISSION_REJECTED", NoEvent, verdict, mismatch)

\* _record_checkpoint
RecordCheckpoints(w, reached) ==
  checkpoints' = [checkpoints EXCEPT ![w] = @ \o reached]

Goto(w, next) == pc' = [pc EXCEPT ![w] = next] /\ UNCHANGED result

\* A mistake: the connection is left with its transaction open.
TransactionLeftOpen(w) == locked' = locked \ {w} /\ UNCHANGED <<inserted, recorded>>

\* The transaction of w ends, by commit or by rollback.
EndTransaction(w) ==
  /\ locked'   = locked \ {w}
  /\ inserted' = [inserted EXCEPT ![w] = {}]
  /\ recorded' = [recorded EXCEPT ![w] = {}]

\* rollback, then the result is returned.
RollbackAndReturn(w, r) ==
  /\ EndTransaction(w)
  /\ pc'     = [pc EXCEPT ![w] = "done"]
  /\ result' = [result EXCEPT ![w] = r]

\* An exception leaves the unit of work, which rolls back.
Raise(w) == RollbackAndReturn(w, Outcome("RAISED", NoEvent))

TheCandidate(w) == CHOOSE e \in candidate[w] : TRUE

----------------------------------------------------------------------------
(* One action per statement.                                               *)

\* create_order / pay_order: the call is dispatched by validation placement.
Begin(w) ==
  /\ pc[w] = "new"
  /\ \E c \in Commands, k \in Configs :
       /\ command' = [command EXCEPT ![w] = {c}]
       /\ config'  = [config EXCEPT ![w] = {k}]
       /\ IF k.placement = "IN_TRANSACTION"
          THEN Goto(w, "check") /\ RecordCheckpoints(w, <<"BUSINESS_UOW_REACHED">>)
          ELSE Goto(w, "preliminary") /\ UNCHANGED checkpoints
  /\ UNCHANGED <<database, transaction, position, candidate>>

CommandOf(w) == CHOOSE c \in command[w] : TRUE
ConfigOf(w)  == CHOOSE k \in config[w] : TRUE
IsPre(w)     == ConfigOf(w).placement = "PRE_TRANSACTION"

\* Both idempotency checks: a miss continues, anything else is returned.
CheckIdempotency(w, next) ==
  LET verdict == IdempotencyVerdict(CommandOf(w))
  IN  \/ /\ verdict = "MISS"
         /\ Goto(w, next)
         /\ UNCHANGED transaction
      \/ /\ verdict = "REPLAY"
         /\ \E r \in RecordOf(CommandOf(w)) :
              RollbackAndReturn(w, Outcome("REPLAY", r.accepted_event_id))
      \/ /\ verdict = "CONFLICT"
         /\ RollbackAndReturn(w, Outcome("CONFLICT", NoEvent))

\* The preliminary check of PRE_TRANSACTION, outside the write transaction.
PreliminaryCheck(w) ==
  /\ pc[w] = "preliminary"
  /\ RecordCheckpoints(w, <<"PRELIMINARY_IDEMPOTENCY_CHECK_RETURNED">>)
  /\ CheckIdempotency(w, "load")
  /\ UNCHANGED <<database, position, call, candidate>>

\* The accepted history is loaded; the aggregate is rehydrated from it, the
\* candidate is built and validated against that same history.
Load(w) ==
  LET c       == CommandOf(w)
      history == load(c.order_id)
      a       == Rehydrate(c.order_id, history)
      e       == CandidateEvent(a, c, w)
  IN
  /\ pc[w] = "load"
  /\ UNCHANGED <<database, position, call>>
  /\ \/ /\ ~(Rehydratable(c.order_id, history) /\ IsLegal(a, c))
        /\ RecordCheckpoints(w, <<"ACCEPTED_HISTORY_OBSERVED">>)
        /\ Raise(w)
        /\ UNCHANGED candidate
     \/ /\ Rehydratable(c.order_id, history) /\ IsLegal(a, c)
        /\ candidate' = [candidate EXCEPT ![w] = {e}]
        /\ \E allow \in AllowedDecisions(ConfigOf(w).validator, e,
                                         ValidationContext(a, history)) :
             LET seen == <<"ACCEPTED_HISTORY_OBSERVED", "VALIDATION_RETURNED">>
             IN  \/ /\ ~allow
                    /\ RecordCheckpoints(w, seen)
                    /\ RollbackAndReturn(w, Outcome("VALIDATION_BLOCKED", NoEvent))
                 \/ /\ allow /\ IsPre(w)
                    /\ RecordCheckpoints(w, seen \o <<"BUSINESS_UOW_REACHED">>)
                    /\ Goto(w, "check")
                    /\ UNCHANGED transaction
                 \/ /\ allow /\ ~IsPre(w)
                    /\ RecordCheckpoints(w, seen)
                    /\ Goto(w, "version")
                    /\ UNCHANGED transaction

\* The authoritative check, the first statement of the write transaction.
AuthoritativeCheck(w) ==
  /\ pc[w] = "check"
  /\ RecordCheckpoints(w, <<"AUTHORITATIVE_IDEMPOTENCY_CHECK_RETURNED">>)
  /\ CheckIdempotency(w, "prepare")
  /\ UNCHANGED <<database, position, call, candidate>>

\* A mistake: no lock is taken.
LockNeverBusy(w) == FALSE

\* Another transaction holds the advisory lock that w asks for.
LockBusy(w) ==
  \E x \in locked \ {w} :
    StreamKey[CommandOf(x).order_id] = StreamKey[CommandOf(w).order_id]

\* A mistake: a rejection returns before the checkpoint is recorded.
PrepareStreamUntraced(w) ==
  /\ pc[w] = "prepare"
  /\ \/ /\ ConfigOf(w).gate = "pessimistic" /\ LockBusy(w)
        /\ RollbackAndReturn(w, AdmissionRejected("LOCK_TIMEOUT", <<>>))
        /\ UNCHANGED checkpoints
     \/ /\ ~(ConfigOf(w).gate = "pessimistic" /\ LockBusy(w))
        /\ RecordCheckpoints(w, <<"CONCURRENCY_PREPARATION_RETURNED">>)
        /\ locked' = IF ConfigOf(w).gate = "pessimistic" THEN locked \cup {w} ELSE locked
        /\ Goto(w, IF IsPre(w) THEN "version" ELSE "load")
        /\ UNCHANGED <<inserted, recorded>>
  /\ UNCHANGED <<database, position, call, candidate>>

\* prepare_stream: nothing for the optimistic gate, pg_try_advisory_xact_lock
\* for the pessimistic one.
PrepareStream(w) ==
  /\ pc[w] = "prepare"
  /\ RecordCheckpoints(w, <<"CONCURRENCY_PREPARATION_RETURNED">>)
  /\ \/ /\ ConfigOf(w).gate = "pessimistic" /\ LockBusy(w)
        /\ RollbackAndReturn(w, AdmissionRejected("LOCK_TIMEOUT", <<>>))
     \/ /\ ~(ConfigOf(w).gate = "pessimistic" /\ LockBusy(w))
        /\ locked' = IF ConfigOf(w).gate = "pessimistic" THEN locked \cup {w} ELSE locked
        /\ Goto(w, IF IsPre(w) THEN "version" ELSE "load")
        /\ UNCHANGED <<inserted, recorded>>
  /\ UNCHANGED <<database, position, call, candidate>>

\* PostgresEventStore.append, first statement: SELECT COALESCE(MAX(sequence), 0)
\* and the two comparisons with it.
AppendVersionCheck(w) ==
  LET e        == TheCandidate(w)
      expected == e.proof.prev_version
      observed == current_version(e.order_id)
      stale    == observed # expected \/ e.sequence # expected + 1
  IN
  /\ pc[w] = "version"
  /\ \/ /\ stale
        /\ RecordCheckpoints(w, <<"APPEND_ADMISSION_RETURNED">>)
        /\ RollbackAndReturn(w, AdmissionRejected("STALE_WRITE",
                 IF observed # expected THEN <<expected, observed>> ELSE <<>>))
     \/ /\ ~stale
        /\ Goto(w, "insert")
        /\ UNCHANGED <<transaction, checkpoints>>
  /\ UNCHANGED <<database, position, call, candidate>>

\* uq_order_events_order_id_sequence
SamePosition(e, f) == e.order_id = f.order_id /\ e.sequence = f.sequence

\* Open transactions that have inserted the stream position w wants.
PositionRivals(w) ==
  {x \in Invocations \ {w} : \E r \in inserted[x] : SamePosition(r.event, TheCandidate(w))}

\* A mistake: order_events without its unique stream position.
FinishInsertUnconstrained(w, p) ==
  /\ PositionRivals(w) = {}
  /\ RecordCheckpoints(w, <<"APPEND_ADMISSION_RETURNED">>)
  /\ inserted' = [inserted EXCEPT ![w] = {[event |-> TheCandidate(w), global_position |-> p]}]
  /\ Goto(w, "record")
  /\ UNCHANGED <<locked, recorded>>

\* The INSERT of w meets no open rival and comes to its end.
FinishInsert(w, p) ==
  LET e == TheCandidate(w)
  IN  /\ PositionRivals(w) = {}
      /\ RecordCheckpoints(w, <<"APPEND_ADMISSION_RETURNED">>)
      /\ \/ /\ \E r \in order_events : SamePosition(r.event, e)
            /\ RollbackAndReturn(w, AdmissionRejected("STALE_WRITE", <<>>))
         \/ /\ ~\E r \in order_events : SamePosition(r.event, e)
            /\ inserted' = [inserted EXCEPT ![w] = {[event |-> e, global_position |-> p]}]
            /\ Goto(w, "record")
            /\ UNCHANGED <<locked, recorded>>

\* append, second statement: the INSERT takes a global position and, when no
\* open transaction holds its stream position, ends at once.
InsertEvent(w) ==
  /\ pc[w] = "insert"
  /\ position_seq' = position_seq + 1
  /\ FinishInsert(w, position_seq + 1)
  /\ UNCHANGED <<order_events, idempotency_records, position, call, candidate>>

\* The INSERT has taken its global position and waits for an open rival.
InsertWaits(w) ==
  /\ pc[w] = "insert"
  /\ PositionRivals(w) # {}
  /\ position_seq' = position_seq + 1
  /\ position' = [position EXCEPT ![w] = position_seq + 1]
  /\ Goto(w, "waiting")
  /\ UNCHANGED <<order_events, idempotency_records, transaction, call, candidate, checkpoints>>

\* The rival ended and the waiting INSERT comes to its end.
InsertResumes(w) ==
  /\ pc[w] = "waiting"
  /\ FinishInsert(w, position[w])
  /\ UNCHANGED <<database, position, call, candidate>>

\* LockNotAvailable: the server gave up waiting (a lock_timeout in force).
InsertLockTimeout(w) ==
  /\ pc[w] = "waiting"
  /\ RecordCheckpoints(w, <<"APPEND_ADMISSION_RETURNED">>)
  /\ RollbackAndReturn(w, AdmissionRejected("LOCK_TIMEOUT", <<>>))
  /\ UNCHANGED <<database, position, call, candidate>>

\* Open transactions that have recorded the request_id w wants to record.
RequestRivals(w) ==
  {x \in Invocations \ {w} : \E r \in recorded[x] : r.request_id = CommandOf(w).request_id}

\* A mistake: idempotency_records without its primary key.
RecordIdempotencyUnconstrained(w) ==
  /\ pc[w] = "record"
  /\ recorded' = [recorded EXCEPT ![w] = {IdempotencyRow(CommandOf(w), TheCandidate(w))}]
  /\ RecordCheckpoints(w, <<"IDEMPOTENCY_PERSISTENCE_RETURNED">>)
  /\ Goto(w, "commit")
  /\ UNCHANGED <<locked, inserted, database, position, call, candidate>>

\* PostgresIdempotencyStore.record; a duplicate request_id is a UniqueViolation
\* that nothing on the way out of the unit of work catches.
RecordIdempotency(w) ==
  /\ pc[w] = "record"
  /\ RequestRivals(w) = {}
  /\ \/ /\ RecordOf(CommandOf(w)) # {}
        /\ Raise(w)
        /\ UNCHANGED checkpoints
     \/ /\ RecordOf(CommandOf(w)) = {}
        /\ recorded' = [recorded EXCEPT ![w] = {IdempotencyRow(CommandOf(w), TheCandidate(w))}]
        /\ RecordCheckpoints(w, <<"IDEMPOTENCY_PERSISTENCE_RETURNED">>)
        /\ Goto(w, "commit")
        /\ UNCHANGED <<locked, inserted>>
  /\ UNCHANGED <<database, position, call, candidate>>

\* A mistake: the idempotency record is not part of the transaction.
PublishEventOnly(w) ==
  /\ order_events' = order_events \cup inserted[w]
  /\ EndTransaction(w)
  /\ pc' = [pc EXCEPT ![w] = "done"]
  /\ UNCHANGED idempotency_records

\* The rows of w become accepted history.
Publish(w) ==
  /\ order_events' = order_events \cup inserted[w]
  /\ idempotency_records' = idempotency_records \cup recorded[w]
  /\ EndTransaction(w)
  /\ pc' = [pc EXCEPT ![w] = "done"]

\* The unit of work is left normally: commit, and the prepared result is
\* delivered.
Commit(w) ==
  /\ pc[w] = "commit"
  /\ Publish(w)
  /\ result' = [result EXCEPT ![w] = Outcome("ACCEPTED", TheCandidate(w).event_id)]
  /\ UNCHANGED <<position_seq, position, call, candidate, checkpoints>>

\* The commit took effect but its acknowledgement was lost: commit() raises.
CommitUnacknowledged(w) ==
  /\ pc[w] = "commit"
  /\ Publish(w)
  /\ result' = [result EXCEPT ![w] = Outcome("RAISED", NoEvent)]
  /\ UNCHANGED <<position_seq, position, call, candidate, checkpoints>>

\* Any statement, the commit included, may fail without effect: the driver
\* raises, or the process dies and the server drops its transaction.
Fail(w) ==
  /\ pc[w] \notin {"new", "done"}
  /\ Raise(w)
  /\ UNCHANGED <<database, position, call, candidate, checkpoints>>

----------------------------------------------------------------------------
Init ==
  /\ order_events = {} /\ idempotency_records = {} /\ position_seq = 0
  /\ locked = {}
  /\ inserted    = [w \in Invocations |-> {}]
  /\ recorded    = [w \in Invocations |-> {}]
  /\ position    = [w \in Invocations |-> 0]
  /\ pc          = [w \in Invocations |-> "new"]
  /\ command     = [w \in Invocations |-> {}]
  /\ config      = [w \in Invocations |-> {}]
  /\ candidate   = [w \in Invocations |-> {}]
  /\ checkpoints = [w \in Invocations |-> <<>>]
  /\ result      = [w \in Invocations |-> NoResult]

\* The steps an invocation takes when nothing fails.
Step(w) ==
  \/ PreliminaryCheck(w) \/ Load(w) \/ AuthoritativeCheck(w) \/ PrepareStream(w)
  \/ AppendVersionCheck(w) \/ InsertEvent(w) \/ InsertWaits(w) \/ InsertResumes(w)
  \/ RecordIdempotency(w) \/ Commit(w)

Next ==
  \E w \in Invocations :
    Begin(w) \/ Step(w) \/ InsertLockTimeout(w) \/ CommitUnacknowledged(w) \/ Fail(w)

Spec == Init /\ [][Next]_vars

\* An invocation that has begun is executed: a started call keeps running and
\* PostgreSQL resumes a waiting INSERT once its rival has ended.  Callers need
\* not call.
FairSpec == Spec /\ \A w \in Invocations : WF_vars(Step(w))
----------------------------------------------------------------------------
(* Properties.                                                             *)

Outcomes == {"none", "ACCEPTED", "REPLAY", "CONFLICT", "VALIDATION_BLOCKED",
             "ADMISSION_REJECTED", "RAISED"}
ControlPoints == {"new", "preliminary", "load", "check", "prepare", "version",
                  "insert", "waiting", "record", "commit", "done"}
Checkpoints == {"PRELIMINARY_IDEMPOTENCY_CHECK_RETURNED", "ACCEPTED_HISTORY_OBSERVED",
                "VALIDATION_RETURNED", "BUSINESS_UOW_REACHED",
                "AUTHORITATIVE_IDEMPOTENCY_CHECK_RETURNED",
                "CONCURRENCY_PREPARATION_RETURNED", "APPEND_ADMISSION_RETURNED",
                "IDEMPOTENCY_PERSISTENCE_RETURNED"}

EventRecord ==
  [event_id : Invocations, request_id : Requests, order_id : Orders,
   sequence : Nat \ {0}, event_type : EventTypes, amount : Int,
   proof : [prev_status : OrderStatuses, prev_version : Nat,
            prev_event_id : Invocations \cup {NoEvent}]]
EventRow == [event : EventRecord, global_position : Nat]
IdempotencyRowType ==
  [request_id : Requests, semantic_fingerprint : CommandTypes \X Orders \X Int,
   accepted_event_id : Invocations, result_sequence : Nat \ {0}]
ResultRecord ==
  [outcome : Outcomes, accepted_event : Invocations \cup {NoEvent},
   verdict : {"none", "LOCK_TIMEOUT", "STALE_WRITE"}, version_mismatch : Seq(Nat)]

AtMostOne(S) == \A x, y \in S : x = y

\* The type invariant: rows, transactions and invocations have the shapes the
\* schema and the result classes give them, and an invocation has at most one
\* command, candidate and uncommitted row of each table.
TypeOK ==
  /\ \A r \in order_events : r \in EventRow
  /\ \A r \in idempotency_records : r \in IdempotencyRowType
  /\ position_seq \in Nat
  /\ \A w \in locked : w \in Invocations
  /\ position \in [Invocations -> Nat]
  /\ pc \in [Invocations -> ControlPoints]
  /\ checkpoints \in [Invocations -> Seq(Checkpoints)]
  /\ result \in [Invocations -> ResultRecord]
  /\ inserted \in [Invocations -> SUBSET EventRow]
  /\ recorded \in [Invocations -> SUBSET IdempotencyRowType]
  /\ command \in [Invocations -> SUBSET Commands]
  /\ config \in [Invocations -> SUBSET Configs]
  /\ candidate \in [Invocations -> SUBSET EventRecord]
  /\ \A w \in Invocations :
       /\ AtMostOne(inserted[w]) /\ AtMostOne(recorded[w])
       /\ AtMostOne(command[w]) /\ AtMostOne(config[w]) /\ AtMostOne(candidate[w])

\* Accepted history has no fork and no gap: no two rows of order_events take
\* the same position of a stream, and a row at position n has one at every
\* position below it - although the version check and the INSERT of append are
\* two statements and other transactions commit between them.
GaplessStreams ==
  /\ \A r, s \in order_events : SamePosition(r.event, s.event) => r = s
  /\ \A r \in order_events : \A n \in 1..r.event.sequence :
       \E s \in order_events : s.event.order_id = r.event.order_id /\ s.event.sequence = n

Accounts(i, e) ==
  /\ i.request_id = e.request_id /\ i.accepted_event_id = e.event_id
  /\ i.result_sequence = e.sequence

\* A request takes effect at most once, and event and replay memory stand or
\* fall together: however calls with one request_id race, are retried after a
\* lost acknowledgement or die half-way, there is one accepted event per
\* idempotency record and one idempotency record per accepted event.
ExactlyOnce ==
  /\ \A r, s \in order_events : r.event.request_id = s.event.request_id => r = s
  /\ \A i, j \in idempotency_records : i.request_id = j.request_id => i = j
  /\ \A r \in order_events : \E i \in idempotency_records : Accounts(i, r.event)
  /\ \A i \in idempotency_records : \E r \in order_events : Accounts(i, r.event)

\* The proof stored with an accepted event names the event that is really its
\* predecessor, and the lifecycle is legal against that predecessor: CREATED
\* opens a stream, PAID follows CREATED with the same amount - even when
\* history was loaded and validated before the transaction began.
TruthfulHistory ==
  \A r \in order_events :
    LET e    == r.event
        prev == {f \in Stream(e.order_id) : f.sequence = e.sequence - 1}
    IN  /\ e.proof.prev_version = e.sequence - 1
        /\ prev = {} => /\ e.event_type = "CREATED" /\ e.amount > 0
                        /\ e.proof.prev_status = "INIT" /\ e.proof.prev_event_id = NoEvent
        /\ \A f \in prev :
             /\ e.event_type = "PAID" /\ f.event_type = "CREATED" /\ e.amount = f.amount
             /\ e.proof.prev_status = "CREATED" /\ e.proof.prev_event_id = f.event_id

\* What a caller is told is so, and stays so: ACCEPTED and REPLAY name a
\* committed event of the caller's own request and payload; a caller that got
\* CONFLICT, VALIDATION_BLOCKED or ADMISSION_REJECTED left no event behind; a
\* STALE_WRITE with version evidence was really overtaken.
DeliveredResultsAreFacts ==
  \A w \in Invocations :
    LET o == result[w].outcome
        m == result[w].version_mismatch
    IN  /\ o \in {"ACCEPTED", "REPLAY"} =>
             \E i \in idempotency_records :
               /\ i.accepted_event_id = result[w].accepted_event
               /\ i.request_id = CommandOf(w).request_id
               /\ i.semantic_fingerprint = semantic_fingerprint(CommandOf(w))
               /\ \E r \in order_events : Accounts(i, r.event)
        /\ o \in {"CONFLICT", "VALIDATION_BLOCKED", "ADMISSION_REJECTED"} =>
             ~\E r \in order_events : r.event.event_id = w
        /\ o = "REPLAY" => result[w].accepted_event # w
        /\ m # <<>> => m[1] < m[2] /\ m[2] <= current_version(CommandOf(w).order_id)

\* _CANONICAL_CHECKPOINTS of the execution trace, by validation placement.
CanonicalCheckpoints(placement) ==
  IF placement = "PRE_TRANSACTION"
  THEN <<"PRELIMINARY_IDEMPOTENCY_CHECK_RETURNED", "ACCEPTED_HISTORY_OBSERVED",
         "VALIDATION_RETURNED", "BUSINESS_UOW_REACHED",
         "AUTHORITATIVE_IDEMPOTENCY_CHECK_RETURNED", "CONCURRENCY_PREPARATION_RETURNED",
         "APPEND_ADMISSION_RETURNED", "IDEMPOTENCY_PERSISTENCE_RETURNED">>
  ELSE <<"BUSINESS_UOW_REACHED", "AUTHORITATIVE_IDEMPOTENCY_CHECK_RETURNED",
         "CONCURRENCY_PREPARATION_RETURNED", "ACCEPTED_HISTORY_OBSERVED",
         "VALIDATION_RETURNED", "APPEND_ADMISSION_RETURNED",
         "IDEMPOTENCY_PERSISTENCE_RETURNED">>

\* _ALLOWED_EXECUTION_TERMINALS: the checkpoints at which each outcome may be
\* returned; the preliminary check exists in PRE_TRANSACTION only.
AllowedTerminals(placement, outcome) ==
  CASE outcome \in {"REPLAY", "CONFLICT"} ->
         {"AUTHORITATIVE_IDEMPOTENCY_CHECK_RETURNED"} \cup
         (IF placement = "PRE_TRANSACTION"
          THEN {"PRELIMINARY_IDEMPOTENCY_CHECK_RETURNED"} ELSE {})
    [] outcome = "VALIDATION_BLOCKED" -> {"VALIDATION_RETURNED"}
    [] outcome = "ADMISSION_REJECTED" ->
         {"CONCURRENCY_PREPARATION_RETURNED", "APPEND_ADMISSION_RETURNED"}
    [] outcome = "ACCEPTED" -> {"IDEMPOTENCY_PERSISTENCE_RETURNED"}

\* The trace collector never rejects a checkpoint and the execution envelope
\* never rejects a result: on every path, of either placement, what has been
\* recorded is a prefix of the canonical order, and a normal return happens at
\* a terminal its outcome allows.  (A rejection would raise inside the unit of
\* work and roll an admitted event back.)
TraceAlwaysAccepted ==
  \A w \in Invocations : pc[w] # "new" =>
    LET placement == ConfigOf(w).placement
        seen      == checkpoints[w]
    IN  /\ Len(seen) <= Len(CanonicalCheckpoints(placement))
        /\ seen = SubSeq(CanonicalCheckpoints(placement), 1, Len(seen))
        /\ result[w].outcome \notin {"none", "RAISED"} =>
             seen[Len(seen)] \in AllowedTerminals(placement, result[w].outcome)

\* A call that has begun returns or raises: nobody waits for ever on a stream
\* position or a request_id that an open transaction holds, because a
\* transaction waits for a request_id only when it already has its position,
\* and for a position before it holds anything others wait for.
EveryCallEnds ==
  \A w \in Invocations : pc[w] # "new" ~> pc[w] = "done"
Accepted == INSTANCE AcceptedHistory
  WITH EventIds <- Invocations,
       history  <- [o \in Orders |-> load(o)],
       memory   <- idempotency_records

\* The write side implements AcceptedHistory: whatever the placement, the gate
\* and the failures, each commit is one acceptance of a command that is legal
\* and fresh against the history at the moment of the commit, and no other
\* step changes accepted history or replay memory.
ImplementsAcceptedHistory == Accepted!Spec

=============================================================================
