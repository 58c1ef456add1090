-------------------------- MODULE WriteSideProofs --------------------------
(***************************************************************************)
(* Theorems about the write side, the measurement of its invocations, the  *)
(* invocation owner, the controlled recovery on top of it and the receipt  *)
(* runtime around it, for any set of invocations, threads, other writers,  *)
(* commands, configurations and lock keys.                                 *)
(*                                                                         *)
(* The first part is about accepted history.  Its inductive invariant IInv *)
(* adds to the properties what is true of the uncommitted half: a          *)
(* candidate is always a legal successor of committed rows, an uncommitted *)
(* event holds a stream position nobody else holds, and an uncommitted     *)
(* idempotency row a request_id nobody else holds.                         *)
(*                                                                         *)
(* The second part is about what callers and readers are owed: what a      *)
(* caller is told is a fact, the execution trace is never rejected, the    *)
(* measurement of an invocation is there and true, and every commit is one *)
(* acceptance of AcceptedHistory.  Its invariants are inductive together   *)
(* with IInv, which says nothing of results and checkpoints.               *)
(*                                                                         *)
(* The third part is about the owner, which adds steps of its own to the   *)
(* write side and takes none away, so everything proved of the write side  *)
(* holds there.  What is added is an invariant of its lifecycle - who is   *)
(* inside which method, which result is current, which identities were     *)
(* minted - and the fact that the evidence an authorization rests on does  *)
(* not change any more.  The receipt runtime adds steps to the owner in    *)
(* the same way.  A result that was returned normally has parts of one of  *)
(* four kinds; whichever kind it is, its outcome and its receipt exist and *)
(* agree, and the receipt tells what happened.  What it tells stays true,  *)
(* and the custody of its handle lets it be persisted once.                *)
(*                                                                         *)
(* The last part is about bursts.  Its invariant says who holds a lock,    *)
(* whose candidate each committed event is, what a rejection is due to,    *)
(* and that lanes which lock first are never overtaken.                    *)
(***************************************************************************)
EXTENDS BurstEvidence, ControlledRecovery, DecisionReceiptRuntime, OrderDomainProofs

\* The event opens its stream, or follows a committed event it may follow.
FollowsHistory(e) ==
  /\ e.proof.prev_version = e.sequence - 1
  /\ \/ /\ e.sequence = 1 /\ e.event_type = "CREATED" /\ e.amount > 0
        /\ e.proof.prev_status = "INIT" /\ e.proof.prev_event_id = NoEvent
     \/ \E r \in order_events :
          /\ r.event.order_id = e.order_id /\ r.event.sequence = e.sequence - 1
          /\ r.event.event_type = "CREATED" /\ e.event_type = "PAID"
          /\ e.amount = r.event.amount
          /\ e.proof.prev_status = "CREATED" /\ e.proof.prev_event_id = r.event.event_id

\* What an invocation holds at each of its control points.
Coupled(w) ==
  /\ pc[w] = "new" => candidate[w] = {}
  /\ pc[w] # "new" => command[w] # {} /\ config[w] # {}
  /\ pc[w] \in {"version", "insert", "waiting", "record", "commit"} => candidate[w] # {}
  /\ pc[w] \in {"check", "prepare"} /\ IsPre(w) => candidate[w] # {}
  /\ pc[w] \in {"record", "commit"} => inserted[w] # {}
  /\ pc[w] = "commit" => recorded[w] # {}
  /\ \A e \in candidate[w] :
       /\ e.event_id = w /\ e.request_id = CommandOf(w).request_id
       /\ e.order_id = CommandOf(w).order_id
       /\ FollowsHistory(e)
  /\ \A r \in inserted[w] : pc[w] \in {"record", "commit"} /\ r.event \in candidate[w]
  /\ \A i \in recorded[w] :
       /\ pc[w] = "commit"
       /\ \E e \in candidate[w] : i = IdempotencyRow(CommandOf(w), e)

\* The committed rows of order_events.
StreamsInv ==
  /\ \A o \in Orders : \E v \in Nat : IsContiguous(Stream(o), v)
  /\ \A r, s \in order_events : r.event.event_id = s.event.event_id => r = s
  /\ \A r \in order_events : pc[r.event.event_id] = "done" /\ FollowsHistory(r.event)

\* The committed rows of idempotency_records.
MemoryInv ==
  /\ \A i, j \in idempotency_records : i.request_id = j.request_id => i = j
  /\ \A r \in order_events : \E i \in idempotency_records : Accounts(i, r.event)
  /\ \A i \in idempotency_records : \E r \in order_events : Accounts(i, r.event)

\* Uncommitted rows hold their keys alone.
PendingInv ==
  \A w \in Invocations :
    /\ \A r \in inserted[w] :
         /\ \A s \in order_events : ~SamePosition(s.event, r.event)
         /\ \A x \in Invocations \ {w} : \A s \in inserted[x] : ~SamePosition(s.event, r.event)
    /\ \A i \in recorded[w] :
         /\ \A j \in idempotency_records : j.request_id # i.request_id
         /\ \A x \in Invocations \ {w} : \A j \in recorded[x] : j.request_id # i.request_id

IInv ==
  /\ TypeOK
  /\ \A w \in Invocations : Coupled(w)
  /\ StreamsInv
  /\ MemoryInv
  /\ PendingInv
----------------------------------------------------------------------------
(* What an invocation holds is well typed.                                 *)

\* An invocation that has begun holds exactly one command and one configuration,
\* and they are the ones it was called with.
LEMMA HeldCall ==
  ASSUME TypeOK, NEW w \in Invocations, Coupled(w), pc[w] # "new"
  PROVE  /\ CommandOf(w) \in command[w] /\ CommandOf(w) \in Commands
         /\ CommandOf(w) \in CommandRecord
         /\ ConfigOf(w) \in config[w] /\ ConfigOf(w) \in Configs
<1>1. CommandOf(w) \in command[w] /\ ConfigOf(w) \in config[w]
  BY DEF Coupled, CommandOf, ConfigOf
<1>2. command[w] \in SUBSET Commands /\ config[w] \in SUBSET Configs
  BY DEF TypeOK
<1> QED BY <1>1, <1>2, ConstantsAssumption

\* The candidate an invocation holds after Load is unique and a well-typed event.
LEMMA HeldCandidate ==
  ASSUME TypeOK, NEW w \in Invocations, Coupled(w), candidate[w] # {}
  PROVE  /\ TheCandidate(w) \in candidate[w] /\ TheCandidate(w) \in EventRecord
         /\ candidate[w] = {TheCandidate(w)}
<1>1. TheCandidate(w) \in candidate[w]
  BY DEF TheCandidate
<1>2. candidate[w] \in SUBSET EventRecord /\ AtMostOne(candidate[w])
  BY DEF TypeOK
<1> QED BY <1>1, <1>2 DEF AtMostOne

----------------------------------------------------------------------------
(* Steps that leave the database alone.                                    *)

\* Nothing changes but what belongs to invocation w.
OnlyOf(w) ==
  /\ order_events' = order_events /\ idempotency_records' = idempotency_records
  /\ \A x \in Invocations \ {w} :
       /\ pc'[x] = pc[x] /\ command'[x] = command[x] /\ config'[x] = config[x]
       /\ candidate'[x] = candidate[x]
       /\ inserted'[x] = inserted[x] /\ recorded'[x] = recorded[x]

\* A step of w that touches no local state of x leaves x coupled to its rows.
LEMMA OthersStayCoupled ==
  ASSUME NEW w \in Invocations, OnlyOf(w),
         NEW x \in Invocations \ {w}, Coupled(x)
  PROVE  Coupled(x)'
<1>1. CommandOf(x)' = CommandOf(x) /\ ConfigOf(x)' = ConfigOf(x)
  BY DEF OnlyOf, CommandOf, ConfigOf
<1>2. IsPre(x)' = IsPre(x)
  BY <1>1 DEF IsPre
<1>3. \A e : FollowsHistory(e)' = FollowsHistory(e)
  BY DEF OnlyOf, FollowsHistory
<1>4. \A e : IdempotencyRow(CommandOf(x), e)' = IdempotencyRow(CommandOf(x), e)
  BY <1>1
<1> QED BY <1>1, <1>2, <1>3, <1>4 DEF OnlyOf, Coupled

\* A step that commits nothing leaves what is known of the committed streams and
\* of replay memory as it is.
LEMMA CommittedRowsStay ==
  ASSUME TypeOK, StreamsInv, MemoryInv, NEW w \in Invocations, OnlyOf(w), pc[w] # "done"
  PROVE  StreamsInv' /\ MemoryInv'
<1>1. \A o : Stream(o)' = Stream(o)
  BY DEF OnlyOf, Stream
<1>2. \A e : FollowsHistory(e)' = FollowsHistory(e)
  BY DEF OnlyOf, FollowsHistory
<1>3. \A r \in order_events : r.event.event_id \in Invocations \ {w}
  BY DEF TypeOK, StreamsInv, EventRow, EventRecord
<1>4. \A r \in order_events : pc'[r.event.event_id] = "done"
  BY <1>3 DEF OnlyOf, StreamsInv
<1>5. StreamsInv'
  BY <1>1, <1>2, <1>4 DEF OnlyOf, StreamsInv
<1>6. MemoryInv'
  BY DEF OnlyOf, MemoryInv
<1> QED BY <1>5, <1>6

\* A step of w that takes no key preserves everything but the types.
LEMMA KeylessStep ==
  ASSUME IInv, NEW w \in Invocations, OnlyOf(w), pc[w] # "done", Coupled(w)',
         inserted'[w] \in SUBSET inserted[w], recorded'[w] \in SUBSET recorded[w]
  PROVE  (\A x \in Invocations : Coupled(x))' /\ StreamsInv' /\ MemoryInv' /\ PendingInv'
<1>1. \A x \in Invocations : Coupled(x)'
  BY OthersStayCoupled DEF IInv
<1>2. StreamsInv' /\ MemoryInv'
  BY CommittedRowsStay DEF IInv
<1>3. \A x \in Invocations : inserted'[x] \in SUBSET inserted[x] /\ recorded'[x] \in SUBSET recorded[x]
  BY DEF OnlyOf
<1>4. PendingInv'
  BY <1>3 DEF IInv, OnlyOf, PendingInv
<1> QED BY <1>1, <1>2, <1>4
----------------------------------------------------------------------------
(* The ways a step ends.                                                   *)

\* Every result the write side constructs is a result record.
LEMMA ResultTypes ==
  /\ NoResult \in ResultRecord
  /\ \A o \in Outcomes, e \in Invocations \cup {NoEvent} : Outcome(o, e) \in ResultRecord
  /\ \A v \in {"LOCK_TIMEOUT", "STALE_WRITE"}, m \in Seq(Nat) :
       AdmissionRejected(v, m) \in ResultRecord
<1>1. NoResult \in ResultRecord
  BY DEF NoResult, Result, ResultRecord, Outcomes
<1>2. ASSUME NEW o \in Outcomes, NEW e \in Invocations \cup {NoEvent}
      PROVE  Outcome(o, e) \in ResultRecord
  BY DEF Outcome, Result, ResultRecord
<1>3. ASSUME NEW v \in {"LOCK_TIMEOUT", "STALE_WRITE"}, NEW m \in Seq(Nat)
      PROVE  AdmissionRejected(v, m) \in ResultRecord
  BY DEF AdmissionRejected, Result, ResultRecord, Outcomes
<1> QED BY <1>1, <1>2, <1>3

\* No version evidence is well-typed version evidence.
LEMMA EmptyEvidence == <<>> \in Seq(Nat)
OBVIOUS

\* The types that no step but Begin, Load and the writes to the database touch.
LEMMA ReturnTypes ==
  ASSUME TypeOK, NEW w \in Invocations, NEW r \in ResultRecord, RollbackAndReturn(w, r)
  PROVE  /\ \A x \in locked' : x \in Invocations
         /\ pc' \in [Invocations -> ControlPoints]
         /\ result' \in [Invocations -> ResultRecord]
         /\ inserted' \in [Invocations -> SUBSET EventRow]
         /\ recorded' \in [Invocations -> SUBSET IdempotencyRowType]
         /\ \A x \in Invocations : AtMostOne(inserted'[x]) /\ AtMostOne(recorded'[x])
<1>1. \A x \in locked' : x \in Invocations
  BY DEF TypeOK, RollbackAndReturn, EndTransaction
<1>2. pc' \in [Invocations -> ControlPoints]
  BY DEF TypeOK, RollbackAndReturn, ControlPoints
<1>3. result' \in [Invocations -> ResultRecord]
  BY DEF TypeOK, RollbackAndReturn
<1>4. /\ inserted' \in [Invocations -> SUBSET EventRow]
      /\ recorded' \in [Invocations -> SUBSET IdempotencyRowType]
  BY DEF TypeOK, RollbackAndReturn, EndTransaction
<1>5. \A x \in Invocations : AtMostOne(inserted'[x]) /\ AtMostOne(recorded'[x])
  BY DEF TypeOK, RollbackAndReturn, EndTransaction, AtMostOne
<1> QED BY <1>1, <1>2, <1>3, <1>4, <1>5

\* _record_checkpoint keeps the trace a sequence of checkpoints.
LEMMA CheckpointTypes ==
  ASSUME TypeOK, NEW w \in Invocations, NEW reached \in Seq(Checkpoints),
         RecordCheckpoints(w, reached)
  PROVE  checkpoints' \in [Invocations -> Seq(Checkpoints)]
<1>1. checkpoints[w] \o reached \in Seq(Checkpoints)
  BY DEF TypeOK
<1> QED BY <1>1 DEF TypeOK, RecordCheckpoints

\* An invocation that ends with its command and candidate as they were.
LEMMA EndStep ==
  ASSUME IInv, NEW w \in Invocations, NEW r \in ResultRecord,
         pc[w] \notin {"new", "done"}, RollbackAndReturn(w, r),
         UNCHANGED <<order_events, idempotency_records, call, candidate>>,
         position_seq' \in Nat, position' \in [Invocations -> Nat],
         checkpoints' \in [Invocations -> Seq(Checkpoints)]
  PROVE  IInv'
<1>1. TypeOK'
  <2>1. /\ order_events' = order_events /\ idempotency_records' = idempotency_records
        /\ command' = command /\ config' = config /\ candidate' = candidate
    BY DEF call
  <2> QED BY <2>1, ReturnTypes DEF IInv, TypeOK
<1>2. OnlyOf(w)
  BY DEF IInv, TypeOK, OnlyOf, RollbackAndReturn, EndTransaction, call
<1>3. pc'[w] = "done" /\ inserted'[w] = {} /\ recorded'[w] = {}
  BY DEF IInv, TypeOK, RollbackAndReturn, EndTransaction
<1>4. Coupled(w)'
  <2>1. CommandOf(w)' = CommandOf(w) /\ command'[w] # {} /\ config'[w] # {}
    BY DEF IInv, Coupled, CommandOf, call
  <2>2. \A e : FollowsHistory(e)' = FollowsHistory(e)
    BY <1>2 DEF OnlyOf, FollowsHistory
  <2> QED BY <1>3, <2>1, <2>2 DEF IInv, Coupled
<1> QED BY <1>1, <1>2, <1>3, <1>4, KeylessStep DEF IInv

\* The same, without a global position taken.
LEMMA ReturnStep ==
  ASSUME IInv, NEW w \in Invocations, NEW r \in ResultRecord,
         pc[w] \notin {"new", "done"}, RollbackAndReturn(w, r),
         UNCHANGED <<database, position, call, candidate>>,
         checkpoints' \in [Invocations -> Seq(Checkpoints)]
  PROVE  IInv'
<1>1. UNCHANGED <<order_events, idempotency_records, call, candidate>>
  BY DEF database
<1>2. position_seq' \in Nat /\ position' \in [Invocations -> Nat]
  BY DEF IInv, TypeOK, database
<1> QED BY <1>1, <1>2, EndStep

\* An invocation that moves on with what it held.
LEMMA GotoStep ==
  ASSUME IInv, NEW w \in Invocations, NEW next \in ControlPoints,
         Goto(w, next), pc[w] \notin {"new", "done"},
         UNCHANGED <<order_events, idempotency_records, inserted, recorded, call, candidate>>,
         position_seq' \in Nat, position' \in [Invocations -> Nat],
         \A x \in locked' : x \in Invocations,
         checkpoints' \in [Invocations -> Seq(Checkpoints)],
         inserted[w] = {}, recorded[w] = {}, next \notin {"new", "record", "commit"},
         next \in {"version", "insert", "waiting"} => candidate[w] # {},
         next \in {"check", "prepare"} /\ IsPre(w) => candidate[w] # {}
  PROVE  IInv'
<1>1. TypeOK'
  <2>1. pc' \in [Invocations -> ControlPoints] /\ result' = result
    BY DEF IInv, TypeOK, Goto
  <2>2. command' = command /\ config' = config
    BY DEF call
  <2> QED BY <2>1, <2>2 DEF IInv, TypeOK
<1>2. OnlyOf(w)
  BY DEF IInv, TypeOK, OnlyOf, Goto, call
<1>3. pc'[w] = next
  BY DEF IInv, TypeOK, Goto
<1>4. Coupled(w)'
  <2>1. CommandOf(w)' = CommandOf(w) /\ ConfigOf(w)' = ConfigOf(w)
    BY DEF CommandOf, ConfigOf, call
  <2>2. IsPre(w)' = IsPre(w)
    BY <2>1 DEF IsPre
  <2>3. \A e : FollowsHistory(e)' = FollowsHistory(e)
    BY <1>2 DEF OnlyOf, FollowsHistory
  <2>4. command'[w] # {} /\ config'[w] # {}
    BY DEF IInv, Coupled, call
  <2> QED BY <1>3, <2>1, <2>2, <2>3, <2>4 DEF IInv, Coupled
<1> QED BY <1>1, <1>2, <1>4, KeylessStep DEF IInv
----------------------------------------------------------------------------
(* Each action preserves the inductive invariant.                          *)

\* An empty database without calls satisfies the inductive invariant.
LEMMA InitIInv == Init => IInv
<1> SUFFICES ASSUME Init PROVE IInv
  OBVIOUS
<1>1. TypeOK
  BY ResultTypes DEF Init, TypeOK, ControlPoints, AtMostOne
<1>2. \A w \in Invocations : Coupled(w)
  BY DEF Init, Coupled
<1>3. StreamsInv
  <2>1. \A o : Stream(o) = {}
    BY DEF Init, Stream
  <2>2. \A o : IsContiguous(Stream(o), 0)
    BY <2>1 DEF IsContiguous
  <2> QED BY <2>2 DEF Init, StreamsInv
<1>4. MemoryInv /\ PendingInv
  BY DEF Init, MemoryInv, PendingInv
<1> QED BY <1>1, <1>2, <1>3, <1>4 DEF IInv

\* Dispatching create_order or pay_order preserves the inductive invariant.
LEMMA BeginIInv ==
  ASSUME IInv, NEW w \in Invocations, Begin(w)
  PROVE  IInv'
<1> PICK c \in Commands, k \in Configs :
      /\ command' = [command EXCEPT ![w] = {c}]
      /\ config'  = [config EXCEPT ![w] = {k}]
      /\ IF k.placement = "IN_TRANSACTION"
         THEN Goto(w, "check") /\ RecordCheckpoints(w, <<"BUSINESS_UOW_REACHED">>)
         ELSE Goto(w, "preliminary") /\ UNCHANGED checkpoints
  BY DEF Begin
<1>1. UNCHANGED <<order_events, idempotency_records, position_seq, locked, inserted,
                  recorded, position, candidate, result>> /\ pc[w] = "new"
  BY DEF Begin, database, transaction, Goto
<1>2. pc' \in [Invocations -> ControlPoints] /\ pc'[w] \in {"check", "preliminary"}
      /\ (pc'[w] = "check" => k.placement = "IN_TRANSACTION")
      /\ \A x \in Invocations \ {w} : pc'[x] = pc[x]
  BY DEF IInv, TypeOK, Goto, ControlPoints
<1>3. checkpoints' \in [Invocations -> Seq(Checkpoints)]
  <2>1. <<"BUSINESS_UOW_REACHED">> \in Seq(Checkpoints)
    BY DEF Checkpoints
  <2> QED BY <2>1, CheckpointTypes DEF IInv, TypeOK
<1>4. /\ command' \in [Invocations -> SUBSET Commands] /\ config' \in [Invocations -> SUBSET Configs]
      /\ command'[w] = {c} /\ config'[w] = {k}
      /\ \A x \in Invocations \ {w} : command'[x] = command[x] /\ config'[x] = config[x]
  BY DEF IInv, TypeOK
<1>5. TypeOK'
  <2>1. \A x \in Invocations : AtMostOne(command'[x]) /\ AtMostOne(config'[x])
    BY <1>4 DEF IInv, TypeOK, AtMostOne
  <2> QED BY <1>1, <1>2, <1>3, <1>4, <2>1 DEF IInv, TypeOK
<1>6. OnlyOf(w)
  BY <1>1, <1>2, <1>4 DEF OnlyOf
<1>7. candidate[w] = {} /\ inserted[w] = {} /\ recorded[w] = {}
  BY <1>1 DEF IInv, Coupled
<1>8. Coupled(w)'
  <2>1. ConfigOf(w)' = k
    BY <1>4 DEF ConfigOf
  <2>2. pc'[w] = "check" => ~IsPre(w)'
    BY <1>2, <2>1 DEF IsPre
  <2> QED BY <1>1, <1>2, <1>4, <1>7, <2>2 DEF Coupled
<1> QED BY <1>1, <1>5, <1>6, <1>8, KeylessStep DEF IInv
\* Both idempotency checks.
LEMMA CheckIdempotencyIInv ==
  ASSUME IInv, NEW w \in Invocations, pc[w] \in {"preliminary", "check"},
         NEW next \in {"load", "prepare"},
         next = "prepare" => pc[w] = "check",
         NEW reached \in Checkpoints, RecordCheckpoints(w, <<reached>>),
         CheckIdempotency(w, next),
         UNCHANGED <<database, position, call, candidate>>
  PROVE  IInv'
<1>1. checkpoints' \in [Invocations -> Seq(Checkpoints)]
  <2>1. <<reached>> \in Seq(Checkpoints)
    OBVIOUS
  <2> QED BY <2>1, CheckpointTypes DEF IInv
<1>2. CASE Goto(w, next) /\ UNCHANGED transaction
  <2>1. inserted[w] = {} /\ recorded[w] = {}
    BY DEF IInv, Coupled
  <2>2. next = "prepare" /\ IsPre(w) => candidate[w] # {}
    BY DEF IInv, Coupled
  <2>3. UNCHANGED <<order_events, idempotency_records, inserted, recorded, call, candidate>>
    BY <1>2 DEF database, transaction
  <2>4. /\ position_seq' \in Nat /\ position' \in [Invocations -> Nat]
        /\ \A x \in locked' : x \in Invocations
    BY <1>2 DEF IInv, TypeOK, database, transaction
  <2>5. next \in ControlPoints
    BY DEF ControlPoints
  <2> QED BY <1>1, <1>2, <2>1, <2>2, <2>3, <2>4, <2>5, GotoStep
<1>3. CASE \E r \in RecordOf(CommandOf(w)) :
             RollbackAndReturn(w, Outcome("REPLAY", r.accepted_event_id))
  <2>1. PICK r \in RecordOf(CommandOf(w)) :
               RollbackAndReturn(w, Outcome("REPLAY", r.accepted_event_id))
    BY <1>3
  <2>2. r.accepted_event_id \in Invocations
    BY DEF IInv, TypeOK, RecordOf, IdempotencyRowType
  <2>3. Outcome("REPLAY", r.accepted_event_id) \in ResultRecord
    BY <2>2, ResultTypes DEF Outcomes
  <2> QED BY <1>1, <2>1, <2>3, ReturnStep
<1>4. CASE RollbackAndReturn(w, Outcome("CONFLICT", NoEvent))
  <2>1. Outcome("CONFLICT", NoEvent) \in ResultRecord
    BY ResultTypes DEF Outcomes
  <2> QED BY <1>1, <1>4, <2>1, ReturnStep
<1> QED BY <1>2, <1>3, <1>4 DEF CheckIdempotency

\* The preliminary idempotency check preserves the inductive invariant.
LEMMA PreliminaryCheckIInv ==
  ASSUME IInv, NEW w \in Invocations, PreliminaryCheck(w)
  PROVE  IInv'
<1>1. "PRELIMINARY_IDEMPOTENCY_CHECK_RETURNED" \in Checkpoints
  BY DEF Checkpoints
<1> QED BY <1>1, CheckIdempotencyIInv DEF PreliminaryCheck

\* The authoritative idempotency check preserves the inductive invariant.
LEMMA AuthoritativeCheckIInv ==
  ASSUME IInv, NEW w \in Invocations, AuthoritativeCheck(w)
  PROVE  IInv'
<1>1. "AUTHORITATIVE_IDEMPOTENCY_CHECK_RETURNED" \in Checkpoints
  BY DEF Checkpoints
<1> QED BY <1>1, CheckIdempotencyIInv DEF AuthoritativeCheck

\* prepare_stream of either gate preserves the inductive invariant.
LEMMA PrepareStreamIInv ==
  ASSUME IInv, NEW w \in Invocations, PrepareStream(w)
  PROVE  IInv'
<1>1. pc[w] = "prepare" /\ UNCHANGED <<database, position, call, candidate>>
  BY DEF PrepareStream
<1>2. checkpoints' \in [Invocations -> Seq(Checkpoints)]
  <2>1. <<"CONCURRENCY_PREPARATION_RETURNED">> \in Seq(Checkpoints)
    BY DEF Checkpoints
  <2> QED BY <2>1, CheckpointTypes DEF PrepareStream, IInv
<1>3. CASE RollbackAndReturn(w, AdmissionRejected("LOCK_TIMEOUT", <<>>))
  <2>1. AdmissionRejected("LOCK_TIMEOUT", <<>>) \in ResultRecord
    BY EmptyEvidence, ResultTypes
  <2> QED BY <1>1, <1>2, <1>3, <2>1, ReturnStep
<1>4. CASE /\ locked' = IF ConfigOf(w).gate = "pessimistic" THEN locked \cup {w} ELSE locked
           /\ Goto(w, IF IsPre(w) THEN "version" ELSE "load")
           /\ UNCHANGED <<inserted, recorded>>
  <2> DEFINE next == IF IsPre(w) THEN "version" ELSE "load"
  <2>1. inserted[w] = {} /\ recorded[w] = {} /\ (next = "version" => candidate[w] # {})
    BY <1>1 DEF IInv, Coupled
  <2>2. UNCHANGED <<order_events, idempotency_records, inserted, recorded, call, candidate>>
    BY <1>1, <1>4 DEF database
  <2>3. /\ position_seq' \in Nat /\ position' \in [Invocations -> Nat]
        /\ \A x \in locked' : x \in Invocations
    BY <1>1, <1>4 DEF IInv, TypeOK, database
  <2>4. next \in {"version", "load"} /\ next \in ControlPoints /\ Goto(w, next)
    BY <1>4 DEF ControlPoints
  <2> HIDE DEF next
  <2> QED BY <1>1, <1>2, <2>1, <2>2, <2>3, <2>4, GotoStep
<1> QED BY <1>3, <1>4 DEF PrepareStream
\* The stream a command addresses is contiguous, and so is well typed.
LEMMA StreamFacts ==
  ASSUME TypeOK, StreamsInv, NEW o \in Orders
  PROVE  \E v \in Nat :
           /\ IsContiguous(Stream(o), v)
           /\ current_version(o) = v
           /\ \A e \in Stream(o) : e \in EventRecord /\ e.order_id = o
<1>1. PICK v \in Nat : IsContiguous(Stream(o), v)
  BY DEF StreamsInv
<1>2. \A e \in Stream(o) : e \in EventRecord /\ e.order_id = o
  BY DEF TypeOK, Stream, EventRow
<1>3. current_version(o) = v
  <2> DEFINE S == {0} \cup {e.sequence : e \in Stream(o)}
  <2>1. S \in SUBSET Int /\ v \in S /\ \A n \in S : n <= v
    BY <1>1 DEF IsContiguous
  <2> QED BY <2>1, MaxIs DEF current_version
<1> QED BY <1>1, <1>2, <1>3

\* append's version check preserves the inductive invariant: a candidate that
\* passes it continues the committed stream as it is now.
LEMMA AppendVersionCheckIInv ==
  ASSUME IInv, NEW w \in Invocations, AppendVersionCheck(w)
  PROVE  IInv'
<1> DEFINE e == TheCandidate(w)
           expected == e.proof.prev_version
           observed == current_version(e.order_id)
           evidence == IF observed # expected THEN <<expected, observed>> ELSE <<>>
<1>1. pc[w] = "version" /\ UNCHANGED <<database, position, call, candidate>>
  BY DEF AppendVersionCheck
<1>2. candidate[w] # {} /\ inserted[w] = {} /\ recorded[w] = {}
  BY <1>1 DEF IInv, Coupled
<1>3. e \in EventRecord
  BY <1>2, HeldCandidate DEF IInv
<1>4. CASE /\ RecordCheckpoints(w, <<"APPEND_ADMISSION_RETURNED">>)
           /\ RollbackAndReturn(w, AdmissionRejected("STALE_WRITE", evidence))
  <2>1. expected \in Nat /\ observed \in Nat
    BY <1>3, StreamFacts DEF IInv, EventRecord
  <2>2. evidence \in Seq(Nat)
    <3> HIDE DEF expected, observed
    <3>1. <<expected, observed>> \in Seq(Nat)
      BY <2>1
    <3> QED BY <3>1, EmptyEvidence
  <2> HIDE DEF evidence
  <2>3. AdmissionRejected("STALE_WRITE", evidence) \in ResultRecord
    BY <2>2, ResultTypes
  <2>4. <<"APPEND_ADMISSION_RETURNED">> \in Seq(Checkpoints)
    BY DEF Checkpoints
  <2>5. checkpoints' \in [Invocations -> Seq(Checkpoints)]
    BY <1>4, <2>4, CheckpointTypes DEF IInv
  <2> QED BY <1>1, <1>4, <2>3, <2>5, ReturnStep
<1>5. CASE Goto(w, "insert") /\ UNCHANGED <<transaction, checkpoints>>
  <2>1. UNCHANGED <<order_events, idempotency_records, inserted, recorded, call, candidate>>
    BY <1>1, <1>5 DEF database, transaction
  <2>2. /\ position_seq' \in Nat /\ position' \in [Invocations -> Nat]
        /\ \A x \in locked' : x \in Invocations
        /\ checkpoints' \in [Invocations -> Seq(Checkpoints)]
    BY <1>1, <1>5 DEF IInv, TypeOK, database, transaction
  <2>3. "insert" \in ControlPoints
    BY DEF ControlPoints
  <2> QED BY <1>1, <1>2, <1>5, <2>1, <2>2, <2>3, GotoStep
<1> QED BY <1>4, <1>5 DEF AppendVersionCheck

\* A failing statement, which rolls back, preserves the inductive invariant.
LEMMA FailIInv ==
  ASSUME IInv, NEW w \in Invocations, Fail(w)
  PROVE  IInv'
<1>1. Outcome("RAISED", NoEvent) \in ResultRecord
  BY ResultTypes DEF Outcomes
<1>2. checkpoints' \in [Invocations -> Seq(Checkpoints)]
  BY DEF Fail, IInv, TypeOK
<1> QED BY <1>1, <1>2, ReturnStep DEF Fail, Raise

\* A lock timeout of a waiting INSERT preserves the inductive invariant.
LEMMA InsertLockTimeoutIInv ==
  ASSUME IInv, NEW w \in Invocations, InsertLockTimeout(w)
  PROVE  IInv'
<1>1. AdmissionRejected("LOCK_TIMEOUT", <<>>) \in ResultRecord
  BY EmptyEvidence, ResultTypes
<1>2. <<"APPEND_ADMISSION_RETURNED">> \in Seq(Checkpoints)
  BY DEF Checkpoints
<1>3. checkpoints' \in [Invocations -> Seq(Checkpoints)]
  BY <1>2, CheckpointTypes DEF IInv, InsertLockTimeout
<1> QED BY <1>1, <1>3, ReturnStep DEF InsertLockTimeout

\* An INSERT that starts to wait preserves the inductive invariant.
LEMMA InsertWaitsIInv ==
  ASSUME IInv, NEW w \in Invocations, InsertWaits(w)
  PROVE  IInv'
<1>1. candidate[w] # {} /\ inserted[w] = {} /\ recorded[w] = {}
  BY DEF IInv, Coupled, InsertWaits
<1>2. UNCHANGED <<order_events, idempotency_records, inserted, recorded, call, candidate>>
  BY DEF InsertWaits, transaction
<1>3. /\ position_seq' \in Nat /\ position' \in [Invocations -> Nat]
      /\ \A x \in locked' : x \in Invocations
      /\ checkpoints' \in [Invocations -> Seq(Checkpoints)]
  BY DEF IInv, TypeOK, InsertWaits, transaction
<1>4. "waiting" \in ControlPoints
  BY DEF ControlPoints
<1> QED BY <1>1, <1>2, <1>3, <1>4, GotoStep DEF InsertWaits
\* The candidate built from a loaded history follows that history.
LEMMA LoadedCandidate ==
  ASSUME IInv, NEW w \in Invocations, pc[w] = "load",
         IsLegal(Rehydrate(CommandOf(w).order_id, load(CommandOf(w).order_id)), CommandOf(w))
  PROVE  LET e == CandidateEvent(Rehydrate(CommandOf(w).order_id, load(CommandOf(w).order_id)),
                                 CommandOf(w), w)
         IN  /\ e \in EventRecord
             /\ e.event_id = w /\ e.request_id = CommandOf(w).request_id
             /\ e.order_id = CommandOf(w).order_id
             /\ FollowsHistory(e)
<1> DEFINE c == CommandOf(w)
           o == c.order_id
           S == Stream(o)
           a == Rehydrate(o, InSequenceOrder(S))
           e == CandidateEvent(a, c, w)
<1>1. c \in CommandRecord
  BY HeldCall DEF IInv
<1>2. o \in Orders /\ c.amount \in Int /\ c.command_type \in CommandTypes /\ c.request_id \in Requests
  BY <1>1, ConstantsAssumption DEF CommandRecord
<1>3. PICK v \in Nat : IsContiguous(S, v) /\ \A f \in S : f \in EventRecord /\ f.order_id = o
  BY <1>2, StreamFacts DEF IInv
<1>4. IsLegal(a, c)
  BY DEF load
<1>5. \A f \in S : f.event_type \in EventTypes
  BY <1>3 DEF EventRecord
<1> HIDE DEF c, o, S
<1>6. /\ e.event_id = w /\ e.request_id = c.request_id /\ e.order_id = o
      /\ e.sequence = v + 1 /\ e.proof.prev_version = v
      /\ e.amount = normalize_money(c.amount) /\ e.amount > 0
      /\ v = 0 => /\ c.command_type = "create" /\ e.event_type = "CREATED"
                  /\ e.proof.prev_status = "INIT" /\ e.proof.prev_event_id = NoEvent
      /\ v # 0 => \E f \in S :
            /\ f.sequence = v /\ f.event_type = "CREATED"
            /\ c.command_type = "pay" /\ e.event_type = "PAID" /\ e.amount = f.amount
            /\ e.proof.prev_status = "CREATED" /\ e.proof.prev_event_id = f.event_id
  BY <1>2, <1>3, <1>4, <1>5, LegalCandidate
<1>7. e.amount \in Int
  BY <1>2, <1>6, NormalizedIsInteger
<1>8. e.proof.prev_event_id \in Invocations \cup {NoEvent}
  BY <1>3, <1>6 DEF EventRecord
<1>9. e \in EventRecord
  <2>1. e.event_type \in EventTypes /\ e.proof.prev_status \in OrderStatuses
    BY <1>6 DEF EventTypes, OrderStatuses
  <2>2. e = [event_id |-> e.event_id, request_id |-> e.request_id, order_id |-> e.order_id,
             sequence |-> e.sequence, event_type |-> e.event_type, amount |-> e.amount,
             proof |-> [prev_status |-> e.proof.prev_status,
                        prev_version |-> e.proof.prev_version,
                        prev_event_id |-> e.proof.prev_event_id]]
    BY DEF CandidateEvent
  <2> HIDE DEF e
  <2>3. v + 1 \in Nat \ {0}
    OBVIOUS
  <2>4. /\ e.event_id \in Invocations /\ e.request_id \in Requests /\ e.order_id \in Orders
        /\ e.sequence \in Nat \ {0} /\ e.proof.prev_version \in Nat
    BY <1>2, <1>6, <2>3
  <2> QED BY <1>7, <1>8, <2>1, <2>2, <2>4 DEF EventRecord
<1>10. FollowsHistory(e)
  <2> HIDE DEF e
  <2>1. CASE v = 0
    BY <1>6, <2>1 DEF FollowsHistory
  <2>2. CASE v # 0
    <3>1. PICK f \in S :
            /\ f.sequence = v /\ f.event_type = "CREATED"
            /\ e.event_type = "PAID" /\ e.amount = f.amount
            /\ e.proof.prev_status = "CREATED" /\ e.proof.prev_event_id = f.event_id
      BY <1>6, <2>2
    <3>2. PICK r \in order_events : r.event = f /\ f.order_id = o
      BY <3>1 DEF S, Stream
    <3>3. e.proof.prev_version = e.sequence - 1 /\ f.sequence = e.sequence - 1
      BY <1>6, <3>1
    <3> QED BY <1>6, <3>1, <3>2, <3>3 DEF FollowsHistory
  <2> QED BY <2>1, <2>2
<1> QED BY <1>6, <1>9, <1>10 DEF load, c, o, S

\* Loading history, building the candidate and validating it preserves the
\* inductive invariant.
LEMMA LoadIInv ==
  ASSUME IInv, NEW w \in Invocations, Load(w)
  PROVE  IInv'
<1> DEFINE c == CommandOf(w)
           history == load(c.order_id)
           a == Rehydrate(c.order_id, history)
           e == CandidateEvent(a, c, w)
           seen == <<"ACCEPTED_HISTORY_OBSERVED", "VALIDATION_RETURNED">>
<1>1. pc[w] = "load" /\ UNCHANGED <<database, position, call>>
  BY DEF Load
<1>2. CASE /\ RecordCheckpoints(w, <<"ACCEPTED_HISTORY_OBSERVED">>)
           /\ Raise(w)
           /\ UNCHANGED candidate
  <2>1. <<"ACCEPTED_HISTORY_OBSERVED">> \in Seq(Checkpoints)
    BY DEF Checkpoints
  <2>2. checkpoints' \in [Invocations -> Seq(Checkpoints)]
    BY <1>2, <2>1, CheckpointTypes DEF IInv
  <2>3. Outcome("RAISED", NoEvent) \in ResultRecord
    BY ResultTypes DEF Outcomes
  <2> QED BY <1>1, <1>2, <2>2, <2>3, ReturnStep DEF Raise
<1>3. CASE /\ IsLegal(a, c)
           /\ candidate' = [candidate EXCEPT ![w] = {e}]
           /\ \/ /\ RecordCheckpoints(w, seen)
                 /\ RollbackAndReturn(w, Outcome("VALIDATION_BLOCKED", NoEvent))
              \/ /\ IsPre(w)
                 /\ RecordCheckpoints(w, seen \o <<"BUSINESS_UOW_REACHED">>)
                 /\ Goto(w, "check")
                 /\ UNCHANGED transaction
              \/ /\ RecordCheckpoints(w, seen)
                 /\ Goto(w, "version")
                 /\ UNCHANGED transaction
  <2>1. PICK f \in EventRecord :
          /\ f = e
          /\ f.event_id = w /\ f.request_id = c.request_id /\ f.order_id = c.order_id
          /\ FollowsHistory(f)
    BY <1>1, <1>3, LoadedCandidate
  <2> HIDE DEF e, a, history
  <2>2. checkpoints' \in [Invocations -> Seq(Checkpoints)]
    <3>1. seen \in Seq(Checkpoints) /\ <<"BUSINESS_UOW_REACHED">> \in Seq(Checkpoints)
      BY DEF Checkpoints
    <3> HIDE DEF seen
    <3>2. seen \o <<"BUSINESS_UOW_REACHED">> \in Seq(Checkpoints)
      BY <3>1
    <3> QED BY <1>3, <3>1, <3>2, CheckpointTypes DEF IInv
  <2>3. /\ candidate' \in [Invocations -> SUBSET EventRecord] /\ candidate'[w] = {f}
        /\ \A x \in Invocations : AtMostOne(candidate'[x])
        /\ \A x \in Invocations \ {w} : candidate'[x] = candidate[x]
    BY <1>3, <2>1 DEF IInv, TypeOK, AtMostOne
  <2>4. inserted[w] = {} /\ recorded[w] = {} /\ command[w] # {} /\ config[w] # {}
    BY <1>1 DEF IInv, Coupled
  <2>5. /\ order_events' = order_events /\ idempotency_records' = idempotency_records
        /\ position_seq' = position_seq /\ position' = position
        /\ command' = command /\ config' = config
    BY <1>1 DEF database, call
  <2>6. /\ pc' \in [Invocations -> ControlPoints] /\ pc'[w] \in {"done", "check", "version"}
        /\ \A x \in Invocations \ {w} : pc'[x] = pc[x]
        /\ \A x \in locked' : x \in Invocations
        /\ result' \in [Invocations -> ResultRecord]
        /\ inserted' = inserted /\ recorded' = recorded
    <3>1. CASE RollbackAndReturn(w, Outcome("VALIDATION_BLOCKED", NoEvent))
      <4>1. Outcome("VALIDATION_BLOCKED", NoEvent) \in ResultRecord
        BY ResultTypes DEF Outcomes
      <4>2. /\ pc'[w] = "done" /\ \A x \in Invocations \ {w} : pc'[x] = pc[x]
            /\ inserted' = inserted /\ recorded' = recorded
        BY <2>4, <3>1 DEF IInv, TypeOK, RollbackAndReturn, EndTransaction
      <4> QED BY <3>1, <4>1, <4>2, ReturnTypes DEF IInv
    <3>2. CASE Goto(w, "check") /\ UNCHANGED transaction
      BY <3>2 DEF IInv, TypeOK, Goto, transaction, ControlPoints
    <3>3. CASE Goto(w, "version") /\ UNCHANGED transaction
      BY <3>3 DEF IInv, TypeOK, Goto, transaction, ControlPoints
    <3> QED BY <1>3, <3>1, <3>2, <3>3
  <2>7. TypeOK'
    BY <2>2, <2>3, <2>5, <2>6 DEF IInv, TypeOK
  <2>8. OnlyOf(w)
    BY <2>3, <2>5, <2>6 DEF OnlyOf
  <2>9. Coupled(w)'
    <3>1. CommandOf(w)' = c
      BY <2>5 DEF CommandOf
    <3>2. FollowsHistory(f)'
      BY <2>1, <2>5 DEF FollowsHistory
    <3>3. /\ f.event_id = w /\ f.request_id = CommandOf(w)'.request_id
          /\ f.order_id = CommandOf(w)'.order_id
      BY <2>1, <3>1
    <3> HIDE DEF c
    <3> QED BY <2>3, <2>4, <2>5, <2>6, <3>2, <3>3 DEF Coupled
  <2> QED BY <1>1, <2>6, <2>7, <2>8, <2>9, KeylessStep DEF IInv
<1> QED
  <2>1. \/ UNCHANGED candidate /\ Raise(w) /\ RecordCheckpoints(w, <<"ACCEPTED_HISTORY_OBSERVED">>)
        \/ /\ IsLegal(a, c)
           /\ candidate' = [candidate EXCEPT ![w] = {e}]
           /\ \/ /\ RecordCheckpoints(w, seen)
                 /\ RollbackAndReturn(w, Outcome("VALIDATION_BLOCKED", NoEvent))
              \/ /\ IsPre(w)
                 /\ RecordCheckpoints(w, seen \o <<"BUSINESS_UOW_REACHED">>)
                 /\ Goto(w, "check")
                 /\ UNCHANGED transaction
              \/ /\ RecordCheckpoints(w, seen)
                 /\ Goto(w, "version")
                 /\ UNCHANGED transaction
    BY Zenon DEF Load
  <2> QED BY <1>2, <1>3, <2>1
\* An INSERT that comes to its end took a stream position nobody holds, or
\* none.
LEMMA FinishInsertIInv ==
  ASSUME IInv, NEW w \in Invocations, NEW p \in Nat, pc[w] \in {"insert", "waiting"},
         FinishInsert(w, p),
         UNCHANGED <<order_events, idempotency_records, call, candidate>>,
         position_seq' \in Nat, position' \in [Invocations -> Nat]
  PROVE  IInv'
<1>1. checkpoints' \in [Invocations -> Seq(Checkpoints)]
  <2>1. <<"APPEND_ADMISSION_RETURNED">> \in Seq(Checkpoints)
    BY DEF Checkpoints
  <2> QED BY <2>1, CheckpointTypes DEF FinishInsert, IInv
<1>2. CASE RollbackAndReturn(w, AdmissionRejected("STALE_WRITE", <<>>))
  <2>1. AdmissionRejected("STALE_WRITE", <<>>) \in ResultRecord
    BY EmptyEvidence, ResultTypes
  <2> QED BY <1>1, <1>2, <2>1, EndStep
<1>3. CASE /\ ~\E r \in order_events : SamePosition(r.event, TheCandidate(w))
           /\ inserted' = [inserted EXCEPT ![w] = {[event |-> TheCandidate(w), global_position |-> p]}]
           /\ Goto(w, "record")
           /\ UNCHANGED <<locked, recorded>>
  <2>1. PICK e \in candidate[w] : e = TheCandidate(w) /\ e \in EventRecord
    <3>1. candidate[w] # {}
      BY DEF IInv, Coupled
    <3> QED BY <3>1, HeldCandidate DEF IInv
  <2>2. PICK row \in EventRow : row = [event |-> e, global_position |-> p]
    BY <2>1 DEF EventRow
  <2>3. row.event = e
    BY <2>2
  <2>4. /\ inserted' \in [Invocations -> SUBSET EventRow] /\ inserted'[w] = {row}
        /\ \A x \in Invocations : AtMostOne(inserted'[x])
        /\ \A x \in Invocations \ {w} : inserted'[x] = inserted[x]
    BY <1>3, <2>1, <2>2 DEF IInv, TypeOK, AtMostOne
  <2>5. /\ pc' \in [Invocations -> ControlPoints] /\ pc'[w] = "record" /\ result' = result
        /\ \A x \in Invocations \ {w} : pc'[x] = pc[x]
    BY <1>3 DEF IInv, TypeOK, Goto, ControlPoints
  <2>6. command' = command /\ config' = config /\ candidate' = candidate
        /\ locked' = locked /\ recorded' = recorded
    BY <1>3 DEF call
  <2>7. TypeOK'
    BY <1>1, <2>4, <2>5, <2>6 DEF IInv, TypeOK
  <2>8. OnlyOf(w)
    BY <2>4, <2>5, <2>6 DEF OnlyOf
  <2>9. StreamsInv' /\ MemoryInv'
    BY <2>8, CommittedRowsStay DEF IInv
  <2>10. Coupled(w)'
    <3>1. CommandOf(w)' = CommandOf(w)
      BY <2>6 DEF CommandOf
    <3>2. \A f : FollowsHistory(f)' = FollowsHistory(f)
      BY DEF FollowsHistory
    <3>3. recorded'[w] = {} /\ command'[w] # {} /\ config'[w] # {}
      BY <2>6 DEF IInv, Coupled
    <3> QED BY <2>1, <2>3, <2>4, <2>5, <2>6, <3>1, <3>2, <3>3 DEF IInv, Coupled
  <2>11. \A x \in Invocations : Coupled(x)'
    BY <2>8, <2>10, OthersStayCoupled DEF IInv
  <2>12. PendingInv'
    <3>1. \A r \in order_events : ~SamePosition(r.event, row.event)
      BY <1>3, <2>1, <2>3
    <3>2. \A x \in Invocations \ {w} : \A r \in inserted[x] : ~SamePosition(r.event, row.event)
      BY <2>1, <2>3 DEF FinishInsert, PositionRivals
    <3>3. \A x \in Invocations \ {w} : \A r \in inserted[x] : ~SamePosition(row.event, r.event)
      BY <3>2 DEF SamePosition
    <3>4. ASSUME NEW x \in Invocations, NEW r \in inserted'[x]
          PROVE  /\ \A t \in order_events' : ~SamePosition(t.event, r.event)
                 /\ \A y \in Invocations \ {x} : \A t \in inserted'[y] : ~SamePosition(t.event, r.event)
      <4>1. CASE x = w
        BY <2>4, <3>1, <3>2, <4>1
      <4>2. CASE x # w
        <5>1. r \in inserted[x]
          BY <2>4, <4>2
        <5>2. /\ \A t \in order_events : ~SamePosition(t.event, r.event)
              /\ \A y \in Invocations \ {x} : \A t \in inserted[y] : ~SamePosition(t.event, r.event)
          BY <5>1 DEF IInv, PendingInv
        <5> QED BY <2>4, <3>3, <4>2, <5>1, <5>2
      <4> QED BY <4>1, <4>2
    <3>5. ASSUME NEW x \in Invocations, NEW i \in recorded'[x]
          PROVE  /\ \A j \in idempotency_records' : j.request_id # i.request_id
                 /\ \A y \in Invocations \ {x} : \A j \in recorded'[y] : j.request_id # i.request_id
      BY <2>6 DEF IInv, PendingInv
    <3>6. \A t, r : SamePosition(t.event, r.event)' = SamePosition(t.event, r.event)
      BY DEF SamePosition
    <3> QED BY <3>4, <3>5, <3>6 DEF PendingInv
  <2> QED BY <2>7, <2>9, <2>11, <2>12 DEF IInv
<1> QED BY <1>2, <1>3 DEF FinishInsert

\* An INSERT into order_events that ends at once preserves the inductive
\* invariant.
LEMMA InsertEventIInv ==
  ASSUME IInv, NEW w \in Invocations, InsertEvent(w)
  PROVE  IInv'
<1>1. /\ position_seq + 1 \in Nat /\ position_seq' \in Nat /\ position' \in [Invocations -> Nat]
      /\ UNCHANGED <<order_events, idempotency_records, call, candidate>>
  BY DEF IInv, TypeOK, InsertEvent
<1> QED BY <1>1, FinishInsertIInv DEF InsertEvent

\* An INSERT that ends after waiting preserves the inductive invariant.
LEMMA InsertResumesIInv ==
  ASSUME IInv, NEW w \in Invocations, InsertResumes(w)
  PROVE  IInv'
<1>1. /\ position[w] \in Nat /\ position_seq' \in Nat /\ position' \in [Invocations -> Nat]
      /\ UNCHANGED <<order_events, idempotency_records, call, candidate>>
  BY DEF IInv, TypeOK, InsertResumes, database
<1> QED BY <1>1, FinishInsertIInv DEF InsertResumes

\* Recording the request, or failing on its primary key, preserves the inductive
\* invariant.
LEMMA RecordIdempotencyIInv ==
  ASSUME IInv, NEW w \in Invocations, RecordIdempotency(w)
  PROVE  IInv'
<1>1. pc[w] = "record" /\ UNCHANGED <<database, position, call, candidate>>
  BY DEF RecordIdempotency
<1>2. CASE Raise(w) /\ UNCHANGED checkpoints
  <2>1. Outcome("RAISED", NoEvent) \in ResultRecord
    BY ResultTypes DEF Outcomes
  <2>2. checkpoints' \in [Invocations -> Seq(Checkpoints)]
    BY <1>2 DEF IInv, TypeOK
  <2> QED BY <1>1, <1>2, <2>1, <2>2, ReturnStep DEF Raise
<1>3. CASE /\ RecordOf(CommandOf(w)) = {}
           /\ recorded' = [recorded EXCEPT ![w] = {IdempotencyRow(CommandOf(w), TheCandidate(w))}]
           /\ RecordCheckpoints(w, <<"IDEMPOTENCY_PERSISTENCE_RETURNED">>)
           /\ Goto(w, "commit")
           /\ UNCHANGED <<locked, inserted>>
  <2>1. checkpoints' \in [Invocations -> Seq(Checkpoints)]
    <3>1. <<"IDEMPOTENCY_PERSISTENCE_RETURNED">> \in Seq(Checkpoints)
      BY DEF Checkpoints
    <3> QED BY <1>3, <3>1, CheckpointTypes DEF IInv
  <2>2. PICK e \in candidate[w] : e = TheCandidate(w) /\ e \in EventRecord
    <3>1. candidate[w] # {}
      BY <1>1 DEF IInv, Coupled
    <3> QED BY <3>1, HeldCandidate DEF IInv
  <2>3. PICK c \in CommandRecord : c = CommandOf(w)
    BY <1>1, HeldCall DEF IInv
  <2>4. PICK i \in IdempotencyRowType : i = IdempotencyRow(c, e) /\ i.request_id = c.request_id
    <3>1. semantic_fingerprint(c) \in CommandTypes \X Orders \X Int
      <4>1. normalize_money(c.amount) \in Int
        BY NormalizedIsInteger, ConstantsAssumption DEF CommandRecord
      <4> QED BY <4>1 DEF semantic_fingerprint, CommandRecord
    <3>2. /\ c.request_id \in Requests /\ e.event_id \in Invocations /\ e.sequence \in Nat \ {0}
      BY <2>2 DEF CommandRecord, EventRecord
    <3>3. IdempotencyRow(c, e) \in IdempotencyRowType
      BY <3>1, <3>2 DEF IdempotencyRow, IdempotencyRowType
    <3>4. IdempotencyRow(c, e).request_id = c.request_id
      BY DEF IdempotencyRow
    <3> QED BY <3>3, <3>4
  <2>5. /\ recorded' \in [Invocations -> SUBSET IdempotencyRowType] /\ recorded'[w] = {i}
        /\ \A x \in Invocations : AtMostOne(recorded'[x])
        /\ \A x \in Invocations \ {w} : recorded'[x] = recorded[x]
    BY <1>3, <2>2, <2>3, <2>4 DEF IInv, TypeOK, AtMostOne
  <2>6. /\ pc' \in [Invocations -> ControlPoints] /\ pc'[w] = "commit" /\ result' = result
        /\ \A x \in Invocations \ {w} : pc'[x] = pc[x]
    BY <1>3 DEF IInv, TypeOK, Goto, ControlPoints
  <2>7. /\ order_events' = order_events /\ idempotency_records' = idempotency_records
        /\ position_seq' = position_seq /\ position' = position
        /\ command' = command /\ config' = config /\ candidate' = candidate
        /\ locked' = locked /\ inserted' = inserted
    BY <1>1, <1>3 DEF database, call
  <2>8. TypeOK'
    BY <2>1, <2>5, <2>6, <2>7 DEF IInv, TypeOK
  <2>9. OnlyOf(w)
    BY <2>5, <2>6, <2>7 DEF OnlyOf
  <2>10. StreamsInv' /\ MemoryInv'
    BY <1>1, <2>9, CommittedRowsStay DEF IInv
  <2>11. Coupled(w)'
    <3>1. CommandOf(w)' = CommandOf(w)
      BY <2>7 DEF CommandOf
    <3>2. \A f : FollowsHistory(f)' = FollowsHistory(f)
      BY <2>7 DEF FollowsHistory
    <3>3. inserted'[w] # {} /\ command'[w] # {} /\ config'[w] # {}
      BY <1>1, <2>7 DEF IInv, Coupled
    <3>4. i = IdempotencyRow(CommandOf(w)', e)
      BY <2>3, <2>4, <3>1
    <3> QED BY <1>1, <2>2, <2>5, <2>6, <2>7, <3>1, <3>2, <3>3, <3>4 DEF IInv, Coupled
  <2>12. \A x \in Invocations : Coupled(x)'
    BY <2>9, <2>11, OthersStayCoupled DEF IInv
  <2>13. PendingInv'
    <3>1. \A j \in idempotency_records : j.request_id # i.request_id
      BY <1>3, <2>3, <2>4 DEF RecordOf
    <3>2. \A x \in Invocations \ {w} : \A j \in recorded[x] : j.request_id # i.request_id
      BY <2>3, <2>4 DEF RecordIdempotency, RequestRivals
    <3>3. ASSUME NEW x \in Invocations, NEW k \in recorded'[x]
          PROVE  /\ \A j \in idempotency_records' : j.request_id # k.request_id
                 /\ \A y \in Invocations \ {x} : \A j \in recorded'[y] : j.request_id # k.request_id
      <4>1. CASE x = w
        BY <2>5, <2>7, <3>1, <3>2, <4>1
      <4>2. CASE x # w
        <5>1. k \in recorded[x]
          BY <2>5, <4>2
        <5>2. /\ \A j \in idempotency_records : j.request_id # k.request_id
              /\ \A y \in Invocations \ {x} : \A j \in recorded[y] : j.request_id # k.request_id
          BY <5>1 DEF IInv, PendingInv
        <5> QED BY <2>5, <2>7, <3>2, <4>2, <5>1, <5>2
      <4> QED BY <4>1, <4>2
    <3>4. ASSUME NEW x \in Invocations, NEW r \in inserted'[x]
          PROVE  /\ \A t \in order_events' : ~SamePosition(t.event, r.event)
                 /\ \A y \in Invocations \ {x} : \A t \in inserted'[y] : ~SamePosition(t.event, r.event)
      BY <2>7 DEF IInv, PendingInv
    <3>5. \A t, r : SamePosition(t.event, r.event)' = SamePosition(t.event, r.event)
      BY DEF SamePosition
    <3> QED BY <3>3, <3>4, <3>5 DEF PendingInv
  <2> QED BY <2>8, <2>10, <2>12, <2>13 DEF IInv
<1> QED BY <1>2, <1>3 DEF RecordIdempotency

\* The commit: one event and its idempotency record become committed rows.
LEMMA PublishIInv ==
  ASSUME IInv, NEW w \in Invocations, pc[w] = "commit", Publish(w),
         result' \in [Invocations -> ResultRecord],
         UNCHANGED <<position_seq, position, call, candidate, checkpoints>>
  PROVE  IInv'
<1>1. PICK e \in EventRecord, row \in EventRow :
        /\ inserted[w] = {row} /\ row.event = e
        /\ candidate[w] = {e} /\ e.event_id = w /\ e.order_id \in Orders /\ FollowsHistory(e)
        /\ e.request_id = CommandOf(w).request_id
  <2>1. candidate[w] # {} /\ inserted[w] # {}
    BY DEF IInv, Coupled
  <2>2. PICK row \in inserted[w] : row.event \in candidate[w]
    BY <2>1 DEF IInv, Coupled
  <2>3. row \in EventRow /\ row.event \in EventRecord /\ inserted[w] = {row}
        /\ candidate[w] = {row.event}
    BY <2>1, <2>2 DEF IInv, TypeOK, EventRow, AtMostOne
  <2>4. /\ row.event.event_id = w /\ FollowsHistory(row.event)
        /\ row.event.request_id = CommandOf(w).request_id
    BY <2>2 DEF IInv, Coupled
  <2> QED BY <2>3, <2>4 DEF EventRecord
<1>2. PICK i \in IdempotencyRowType : recorded[w] = {i} /\ Accounts(i, e)
  <2>1. PICK j \in recorded[w] : \E f \in candidate[w] : j = IdempotencyRow(CommandOf(w), f)
    BY DEF IInv, Coupled
  <2>2. j = IdempotencyRow(CommandOf(w), e)
    BY <1>1, <2>1
  <2>3. Accounts(j, e)
    BY <1>1, <2>2 DEF IdempotencyRow, Accounts
  <2>4. j \in IdempotencyRowType /\ recorded[w] = {j}
    BY <2>1 DEF IInv, TypeOK, AtMostOne
  <2> QED BY <2>3, <2>4
<1>3. order_events' = order_events \cup {row} /\ idempotency_records' = idempotency_records \cup {i}
  BY <1>1, <1>2 DEF Publish
<1>4. /\ pc' \in [Invocations -> ControlPoints] /\ pc'[w] = "done"
      /\ \A x \in Invocations \ {w} : pc'[x] = pc[x]
  BY DEF Publish, IInv, TypeOK, ControlPoints
<1>5. /\ inserted' \in [Invocations -> SUBSET EventRow] /\ inserted'[w] = {}
      /\ recorded' \in [Invocations -> SUBSET IdempotencyRowType] /\ recorded'[w] = {}
      /\ \A x \in Invocations \ {w} : inserted'[x] = inserted[x] /\ recorded'[x] = recorded[x]
      /\ \A x \in locked' : x \in Invocations
  BY DEF Publish, EndTransaction, IInv, TypeOK
<1>6. /\ position_seq' = position_seq /\ position' = position /\ command' = command
      /\ config' = config /\ candidate' = candidate /\ checkpoints' = checkpoints
  BY DEF call
<1>7. TypeOK'
  <2>1. ASSUME NEW x \in Invocations PROVE AtMostOne(inserted'[x]) /\ AtMostOne(recorded'[x])
    <3>1. CASE x = w
      BY <1>5, <3>1 DEF AtMostOne
    <3>2. CASE x # w
      BY <1>5, <3>2 DEF IInv, TypeOK
    <3> QED BY <3>1, <3>2
  <2> QED BY <1>3, <1>4, <1>5, <1>6, <2>1 DEF IInv, TypeOK
<1>8. \A f : FollowsHistory(f) => FollowsHistory(f)'
  BY <1>3 DEF FollowsHistory
<1>9. ASSUME NEW x \in Invocations PROVE Coupled(x)'
  <2>1. CommandOf(x)' = CommandOf(x) /\ ConfigOf(x)' = ConfigOf(x)
    BY <1>6 DEF CommandOf, ConfigOf
  <2>2. IsPre(x)' = IsPre(x)
    BY <2>1 DEF IsPre
  <2>3. \A f : IdempotencyRow(CommandOf(x), f)' = IdempotencyRow(CommandOf(x), f)
    BY <2>1
  <2>4. Coupled(x)
    BY DEF IInv
  <2>5. CASE x = w
    BY <1>4, <1>5, <1>6, <1>8, <2>1, <2>4, <2>5 DEF Coupled
  <2>6. CASE x # w
    BY <1>4, <1>5, <1>6, <1>8, <2>1, <2>2, <2>3, <2>4, <2>6 DEF Coupled
  <2> QED BY <2>5, <2>6
<1>10. StreamsInv'
  <2>1. \A r \in order_events : r.event.event_id \in Invocations /\ r.event.event_id # w
    BY DEF IInv, StreamsInv, TypeOK, EventRow, EventRecord
  <2>2. \A r, s \in order_events' : r.event.event_id = s.event.event_id => r = s
    BY <1>1, <1>3, <2>1 DEF IInv, StreamsInv
  <2>3. \A r \in order_events' : pc'[r.event.event_id] = "done" /\ FollowsHistory(r.event)'
    <3>1. \A r \in order_events : pc'[r.event.event_id] = "done" /\ FollowsHistory(r.event)'
      BY <1>4, <1>8, <2>1 DEF IInv, StreamsInv
    <3>2. pc'[row.event.event_id] = "done" /\ FollowsHistory(row.event)'
      BY <1>1, <1>4, <1>8
    <3> QED BY <1>3, <3>1, <3>2
  <2>4. ASSUME NEW o \in Orders PROVE \E v \in Nat : IsContiguous(Stream(o)', v)
    <3>1. PICK v \in Nat : IsContiguous(Stream(o), v)
      BY DEF IInv, StreamsInv
    <3>2. CASE o # e.order_id
      <4>1. Stream(o)' = Stream(o)
        BY <1>1, <1>3, <3>2 DEF Stream
      <4> QED BY <3>1, <4>1
    <3>3. CASE o = e.order_id
      <4>1. Stream(o)' = Stream(o) \cup {e}
        BY <1>1, <1>3, <3>3 DEF Stream
      <4>2. \A f \in Stream(o) : f.sequence # e.sequence
        <5>1. \A r \in order_events : ~SamePosition(r.event, row.event)
          BY <1>1 DEF IInv, PendingInv
        <5> QED BY <1>1, <3>3, <5>1 DEF Stream, SamePosition
      <4>3. e.sequence \in Nat \ {0}
        BY <1>1 DEF EventRecord
      <4>4. e.sequence - 1 \in 0..v
        <5>1. CASE e.sequence = 1
          BY <5>1
        <5>2. CASE e.sequence # 1
          <6>1. PICK r \in order_events : r.event.order_id = e.order_id /\ r.event.sequence = e.sequence - 1
            BY <1>1, <5>2 DEF FollowsHistory
          <6>2. r.event \in Stream(o)
            BY <3>3, <6>1 DEF Stream
          <6> QED BY <3>1, <6>1, <6>2 DEF IsContiguous
        <5> QED BY <5>1, <5>2
      <4>5. e.sequence \notin 1..v
        BY <3>1, <4>2 DEF IsContiguous
      <4>6. e.sequence = v + 1
        BY <4>3, <4>4, <4>5
      <4>7. IsContiguous(Stream(o) \cup {e}, v + 1)
        <5>1. \A f \in Stream(o) \cup {e} : f.sequence \in 1..(v + 1)
          BY <3>1, <4>6 DEF IsContiguous
        <5>2. \A f, g \in Stream(o) \cup {e} : f.sequence = g.sequence => f = g
          BY <3>1, <4>2 DEF IsContiguous
        <5>3. \A n \in 1..(v + 1) : \E f \in Stream(o) \cup {e} : f.sequence = n
          <6> SUFFICES ASSUME NEW n \in 1..(v + 1), n # e.sequence
                       PROVE  \E f \in Stream(o) : f.sequence = n
            OBVIOUS
          <6> QED BY <3>1, <4>6 DEF IsContiguous
        <5> QED BY <5>1, <5>2, <5>3 DEF IsContiguous
      <4> QED BY <4>1, <4>7
    <3> QED BY <3>2, <3>3
  <2> QED BY <2>2, <2>3, <2>4 DEF StreamsInv
<1>11. MemoryInv'
  <2>1. \A j \in idempotency_records : j.request_id # i.request_id
    BY <1>2 DEF IInv, PendingInv
  <2>2. \A j, k \in idempotency_records' : j.request_id = k.request_id => j = k
    BY <1>3, <2>1 DEF IInv, MemoryInv
  <2>3. \A r \in order_events' : \E j \in idempotency_records' : Accounts(j, r.event)
    BY <1>1, <1>2, <1>3 DEF IInv, MemoryInv
  <2>4. \A j \in idempotency_records' : \E r \in order_events' : Accounts(j, r.event)
    BY <1>1, <1>2, <1>3 DEF IInv, MemoryInv
  <2>5. \A j, r : Accounts(j, r.event)' = Accounts(j, r.event)
    BY DEF Accounts
  <2> QED BY <2>2, <2>3, <2>4, <2>5 DEF MemoryInv
<1>12. PendingInv'
  <2>1. ASSUME NEW x \in Invocations, NEW r \in inserted'[x]
        PROVE  /\ \A t \in order_events' : ~SamePosition(t.event, r.event)
               /\ \A y \in Invocations \ {x} : \A t \in inserted'[y] : ~SamePosition(t.event, r.event)
    <3>1. x # w /\ r \in inserted[x]
      BY <1>5
    <3>2. /\ \A t \in order_events : ~SamePosition(t.event, r.event)
          /\ \A y \in Invocations \ {x} : \A t \in inserted[y] : ~SamePosition(t.event, r.event)
      BY <3>1 DEF IInv, PendingInv
    <3>3. ~SamePosition(row.event, r.event)
      BY <1>1, <3>1, <3>2
    <3> QED BY <1>3, <1>5, <3>2, <3>3
  <2>2. ASSUME NEW x \in Invocations, NEW k \in recorded'[x]
        PROVE  /\ \A j \in idempotency_records' : j.request_id # k.request_id
               /\ \A y \in Invocations \ {x} : \A j \in recorded'[y] : j.request_id # k.request_id
    <3>1. x # w /\ k \in recorded[x]
      BY <1>5
    <3>2. /\ \A j \in idempotency_records : j.request_id # k.request_id
          /\ \A y \in Invocations \ {x} : \A j \in recorded[y] : j.request_id # k.request_id
      BY <3>1 DEF IInv, PendingInv
    <3>3. i.request_id # k.request_id
      BY <1>2, <3>1, <3>2
    <3> QED BY <1>3, <1>5, <3>2, <3>3
  <2>3. \A t, r : SamePosition(t.event, r.event)' = SamePosition(t.event, r.event)
    BY DEF SamePosition
  <2> QED BY <2>1, <2>2, <2>3 DEF PendingInv
<1> QED BY <1>7, <1>9, <1>10, <1>11, <1>12 DEF IInv

\* A commit, acknowledged or not, preserves the inductive invariant.
LEMMA CommitIInv ==
  ASSUME IInv, NEW w \in Invocations, Commit(w) \/ CommitUnacknowledged(w)
  PROVE  IInv'
<1>1. result' \in [Invocations -> ResultRecord]
  <2>1. pc[w] = "commit"
    BY DEF Commit, CommitUnacknowledged
  <2>2. TheCandidate(w) \in EventRecord
    BY <2>1, HeldCandidate DEF IInv, Coupled
  <2>3. /\ Outcome("ACCEPTED", TheCandidate(w).event_id) \in ResultRecord
        /\ Outcome("RAISED", NoEvent) \in ResultRecord
    BY <2>2, ResultTypes DEF EventRecord, Outcomes
  <2> QED BY <2>3 DEF IInv, TypeOK, Commit, CommitUnacknowledged
<1> QED BY <1>1, PublishIInv DEF Commit, CommitUnacknowledged

\* A step that changes nothing preserves the inductive invariant.
LEMMA StutterIInv ==
  ASSUME IInv, UNCHANGED vars
  PROVE  IInv'
<1>1. UNCHANGED <<order_events, idempotency_records, position_seq, locked, inserted, recorded,
                  position, pc, command, config, candidate, checkpoints, result>>
  BY DEF vars, database, transaction, call
<1>2. TypeOK'
  BY <1>1 DEF IInv, TypeOK
<1>3. \A e : FollowsHistory(e)' = FollowsHistory(e)
  BY <1>1 DEF FollowsHistory
<1>4. ASSUME NEW w \in Invocations PROVE Coupled(w)'
  <2>1. CommandOf(w)' = CommandOf(w) /\ ConfigOf(w)' = ConfigOf(w)
    BY <1>1 DEF CommandOf, ConfigOf
  <2>2. IsPre(w)' = IsPre(w)
    BY <2>1 DEF IsPre
  <2>3. \A e : IdempotencyRow(CommandOf(w), e)' = IdempotencyRow(CommandOf(w), e)
    BY <2>1
  <2> QED BY <1>1, <1>3, <2>1, <2>2, <2>3 DEF IInv, Coupled
<1>5. StreamsInv'
  <2>1. \A o : Stream(o)' = Stream(o)
    BY <1>1 DEF Stream
  <2> QED BY <1>1, <1>3, <2>1 DEF IInv, StreamsInv
<1>6. MemoryInv' /\ PendingInv'
  BY <1>1 DEF IInv, MemoryInv, PendingInv
<1> QED BY <1>2, <1>4, <1>5, <1>6 DEF IInv

\* The inductive step: every action of every invocation preserves IInv.
THEOREM NextIInv == IInv /\ [Next]_vars => IInv'
<1> SUFFICES ASSUME IInv, [Next]_vars PROVE IInv'
  OBVIOUS
<1>1. CASE UNCHANGED vars
  BY <1>1, StutterIInv
<1>2. ASSUME NEW w \in Invocations, Begin(w) PROVE IInv'
  BY <1>2, BeginIInv
<1>3. ASSUME NEW w \in Invocations, Step(w) PROVE IInv'
  <2>1. CASE PreliminaryCheck(w)
    BY <2>1, PreliminaryCheckIInv
  <2>2. CASE Load(w)
    BY <2>2, LoadIInv
  <2>3. CASE AuthoritativeCheck(w)
    BY <2>3, AuthoritativeCheckIInv
  <2>4. CASE PrepareStream(w)
    BY <2>4, PrepareStreamIInv
  <2>5. CASE AppendVersionCheck(w)
    BY <2>5, AppendVersionCheckIInv
  <2>6. CASE InsertEvent(w)
    BY <2>6, InsertEventIInv
  <2>7. CASE InsertWaits(w)
    BY <2>7, InsertWaitsIInv
  <2>8. CASE InsertResumes(w)
    BY <2>8, InsertResumesIInv
  <2>9. CASE RecordIdempotency(w)
    BY <2>9, RecordIdempotencyIInv
  <2>10. CASE Commit(w)
    BY <2>10, CommitIInv
  <2> QED BY <1>3, <2>1, <2>2, <2>3, <2>4, <2>5, <2>6, <2>7, <2>8, <2>9, <2>10 DEF Step
<1>4. ASSUME NEW w \in Invocations, InsertLockTimeout(w) PROVE IInv'
  BY <1>4, InsertLockTimeoutIInv
<1>5. ASSUME NEW w \in Invocations, CommitUnacknowledged(w) PROVE IInv'
  BY <1>5, CommitIInv
<1>6. ASSUME NEW w \in Invocations, Fail(w) PROVE IInv'
  BY <1>6, FailIInv
<1> QED BY <1>1, <1>2, <1>3, <1>4, <1>5, <1>6 DEF Next

\* IInv holds in every reachable state.
THEOREM Invariance == Spec => []IInv
BY InitIInv, NextIInv, PTL DEF Spec

----------------------------------------------------------------------------
(* The properties.                                                         *)

\* Type correctness of the write side, for every number of concurrent calls.
THEOREM TypeCorrect == Spec => []TypeOK
<1>1. IInv => TypeOK
  BY DEF IInv
<1> QED BY <1>1, Invariance, PTL

\* A stream position is taken once.
LEMMA OnePosition ==
  ASSUME IInv, NEW r \in order_events, NEW s \in order_events, SamePosition(r.event, s.event)
  PROVE  r = s
<1>1. r.event \in EventRecord
  BY DEF IInv, TypeOK, EventRow
<1>2. PICK o \in Orders : o = r.event.order_id
  BY <1>1 DEF EventRecord
<1>3. PICK v \in Nat : IsContiguous(Stream(o), v)
  BY DEF IInv, StreamsInv
<1>4. r.event \in Stream(o) /\ s.event \in Stream(o)
  BY <1>2 DEF Stream, SamePosition
<1>5. r.event = s.event
  BY <1>3, <1>4 DEF IsContiguous, SamePosition
<1> QED BY <1>5 DEF IInv, StreamsInv

\* Accepted history never forks and never has a gap, however many calls race
\* through the version check and the INSERT of append.
THEOREM StreamsAreGapless == Spec => []GaplessStreams
<1>1. IInv => GaplessStreams
  <2> SUFFICES ASSUME IInv PROVE GaplessStreams
    OBVIOUS
  <2>1. \A r \in order_events : r.event.order_id \in Orders /\ r.event.sequence \in Nat
    BY DEF IInv, TypeOK, EventRow, EventRecord
  <2>2. ASSUME NEW r \in order_events, NEW s \in order_events, SamePosition(r.event, s.event)
        PROVE  r = s
    BY <2>2, OnePosition
  <2>3. ASSUME NEW r \in order_events, NEW n \in 1..r.event.sequence
        PROVE  \E s \in order_events : s.event.order_id = r.event.order_id /\ s.event.sequence = n
    <3> DEFINE o == r.event.order_id
    <3>1. PICK v \in Nat : IsContiguous(Stream(o), v)
      BY <2>1 DEF IInv, StreamsInv
    <3>2. r.event \in Stream(o)
      BY DEF Stream
    <3>3. n \in 1..v
      BY <2>1, <3>1, <3>2 DEF IsContiguous
    <3>4. PICK f \in Stream(o) : f.sequence = n
      BY <3>1, <3>3 DEF IsContiguous
    <3> QED BY <3>4 DEF Stream
  <2> QED BY <2>2, <2>3 DEF GaplessStreams
<1> QED BY <1>1, Invariance, PTL

\* A request takes effect at most once, and events and idempotency records
\* correspond one to one, for every number of racing or retried calls.
THEOREM RequestsTakeEffectOnce == Spec => []ExactlyOnce
<1>1. IInv => ExactlyOnce
  <2> SUFFICES ASSUME IInv PROVE ExactlyOnce
    OBVIOUS
  <2>1. ASSUME NEW r \in order_events, NEW s \in order_events,
               r.event.request_id = s.event.request_id
        PROVE  r = s
    <3>1. PICK i \in idempotency_records : Accounts(i, r.event)
      BY DEF IInv, MemoryInv
    <3>2. PICK j \in idempotency_records : Accounts(j, s.event)
      BY DEF IInv, MemoryInv
    <3>3. i = j
      BY <2>1, <3>1, <3>2 DEF IInv, MemoryInv, Accounts
    <3> QED BY <3>1, <3>2, <3>3 DEF IInv, StreamsInv, Accounts
  <2> QED BY <2>1 DEF IInv, MemoryInv, ExactlyOnce
<1> QED BY <1>1, Invariance, PTL

\* Every accepted event is a legal successor of the event its proof names, and
\* that event really is its predecessor.
THEOREM HistoryIsTruthful == Spec => []TruthfulHistory
<1>1. IInv => TruthfulHistory
  <2> SUFFICES ASSUME IInv, NEW r \in order_events
               PROVE  LET e    == r.event
                          prev == {f \in Stream(e.order_id) : f.sequence = e.sequence - 1}
                      IN  /\ e.proof.prev_version = e.sequence - 1
                          /\ prev = {} =>
                               /\ e.event_type = "CREATED" /\ e.amount > 0
                               /\ e.proof.prev_status = "INIT" /\ e.proof.prev_event_id = NoEvent
                          /\ \A f \in prev :
                               /\ e.event_type = "PAID" /\ f.event_type = "CREATED"
                               /\ e.amount = f.amount
                               /\ e.proof.prev_status = "CREATED"
                               /\ e.proof.prev_event_id = f.event_id
    BY DEF TruthfulHistory
  <2> DEFINE e == r.event
             o == e.order_id
  <2>1. FollowsHistory(e)
    BY DEF IInv, StreamsInv
  <2>2. o \in Orders /\ e.sequence \in Nat
    BY DEF IInv, TypeOK, EventRow, EventRecord
  <2>3. PICK v \in Nat : IsContiguous(Stream(o), v)
    BY <2>2 DEF IInv, StreamsInv
  <2>4. CASE /\ e.sequence = 1 /\ e.event_type = "CREATED" /\ e.amount > 0
             /\ e.proof.prev_status = "INIT" /\ e.proof.prev_event_id = NoEvent
    <3>1. \A f \in Stream(o) : f.sequence # e.sequence - 1
      BY <2>3, <2>4 DEF IsContiguous
    <3> QED BY <2>1, <2>4, <3>1 DEF FollowsHistory
  <2>5. CASE \E s \in order_events :
               /\ s.event.order_id = e.order_id /\ s.event.sequence = e.sequence - 1
               /\ s.event.event_type = "CREATED" /\ e.event_type = "PAID"
               /\ e.amount = s.event.amount
               /\ e.proof.prev_status = "CREATED" /\ e.proof.prev_event_id = s.event.event_id
    <3>1. PICK s \in order_events :
               /\ s.event.order_id = e.order_id /\ s.event.sequence = e.sequence - 1
               /\ s.event.event_type = "CREATED" /\ e.event_type = "PAID"
               /\ e.amount = s.event.amount
               /\ e.proof.prev_status = "CREATED" /\ e.proof.prev_event_id = s.event.event_id
      BY <2>5
    <3>2. s.event \in Stream(o)
      BY <3>1 DEF Stream
    <3>3. \A f \in Stream(o) : f.sequence = e.sequence - 1 => f = s.event
      BY <2>3, <3>1, <3>2 DEF IsContiguous
    <3> QED BY <2>1, <3>1, <3>2, <3>3 DEF FollowsHistory
  <2> QED BY <2>1, <2>4, <2>5 DEF FollowsHistory
<1> QED BY <1>1, Invariance, PTL

----------------------------------------------------------------------------
(* What a step of one invocation may do to the database and to its result. *)

\* Nothing is committed.
NothingCommitted ==
  order_events' = order_events /\ idempotency_records' = idempotency_records

\* An invocation that goes on.
MovesOn(w) ==
  /\ NothingCommitted /\ pc[w] # "done" /\ pc'[w] # "done"
  /\ result' = result
  /\ \A x \in Invocations \ {w} : pc'[x] = pc[x] /\ command'[x] = command[x]

\* An invocation whose transaction is rolled back and that is told r.
Returns(w, r) ==
  /\ NothingCommitted /\ pc[w] \notin {"new", "done"}
  /\ RollbackAndReturn(w, r)
  /\ UNCHANGED call
  /\ r.version_mismatch # <<>> => r.version_mismatch[2] \in Int

\* An invocation that commits, whatever it is told.
Publishes(w) ==
  /\ pc[w] = "commit"
  /\ Publish(w)
  /\ UNCHANGED <<call, candidate>>
  /\ \E r \in {Outcome("ACCEPTED", TheCandidate(w).event_id), Outcome("RAISED", NoEvent)} :
       result' = [result EXCEPT ![w] = r]

\* r is true of what w asked for and of what has been committed.
IsFact(w, r) ==
  /\ r.outcome \in {"ACCEPTED", "REPLAY"} =>
       \E i \in idempotency_records :
         /\ i.accepted_event_id = r.accepted_event
         /\ i.request_id = CommandOf(w).request_id
         /\ i.semantic_fingerprint = semantic_fingerprint(CommandOf(w))
         /\ \E s \in order_events : Accounts(i, s.event)
  /\ r.outcome \in {"CONFLICT", "VALIDATION_BLOCKED", "ADMISSION_REJECTED"} =>
       ~\E s \in order_events : s.event.event_id = w
  /\ r.outcome = "REPLAY" => r.accepted_event # w
  /\ r.version_mismatch # <<>> =>
       /\ r.version_mismatch[1] < r.version_mismatch[2]
       /\ r.version_mismatch[2] <= current_version(CommandOf(w).order_id)

\* Nobody has been told anything before the end, and what was told is so.
AnswersInv ==
  \A w \in Invocations :
    /\ pc[w] # "done" => result[w] = NoResult
    /\ result[w].version_mismatch # <<>> => result[w].version_mismatch[2] \in Int
    /\ IsFact(w, result[w])

\* An outcome that names no committed event and carries no version evidence
\* is a fact for whoever has not committed.
LEMMA PlainOutcome ==
  ASSUME IInv, NEW w \in Invocations, pc[w] # "done", NEW r,
         r.outcome \notin {"ACCEPTED", "REPLAY"}, r.version_mismatch = <<>>
  PROVE  IsFact(w, r)
<1>1. ~\E s \in order_events : s.event.event_id = w
  BY DEF IInv, StreamsInv
<1> QED BY <1>1 DEF IsFact

\* The fields of the results the write side builds.
LEMMA ResultFields ==
  ASSUME NEW o, NEW e, NEW v, NEW m
  PROVE  /\ Outcome(o, e).outcome = o /\ Outcome(o, e).accepted_event = e
         /\ Outcome(o, e).version_mismatch = <<>>
         /\ AdmissionRejected(v, m).outcome = "ADMISSION_REJECTED"
         /\ AdmissionRejected(v, m).version_mismatch = m
BY DEF Outcome, AdmissionRejected, Result

\* Both idempotency checks: a replay names what an earlier invocation with the
\* same request and payload has committed.
LEMMA CheckIdempotencyShape ==
  ASSUME IInv, NEW w \in Invocations, pc[w] \in {"preliminary", "check"},
         NEW next \in {"load", "prepare"}, CheckIdempotency(w, next),
         UNCHANGED <<database, call>>
  PROVE  MovesOn(w) \/ \E r : Returns(w, r) /\ IsFact(w, r)
<1> DEFINE c == CommandOf(w)
<1>1. NothingCommitted /\ command' = command
  BY DEF NothingCommitted, database, call
<1>2. CASE Goto(w, next)
  <2>1. pc'[w] = next /\ \A x \in Invocations \ {w} : pc'[x] = pc[x]
    BY <1>2 DEF Goto, IInv, TypeOK
  <2> QED BY <1>1, <1>2, <2>1 DEF MovesOn, Goto
<1>3. ASSUME IdempotencyVerdict(c) = "REPLAY", NEW i \in RecordOf(c),
             RollbackAndReturn(w, Outcome("REPLAY", i.accepted_event_id))
      PROVE  \E r : Returns(w, r) /\ IsFact(w, r)
  <2> DEFINE r == Outcome("REPLAY", i.accepted_event_id)
  <2>1. PICK j \in RecordOf(c) : j.semantic_fingerprint = semantic_fingerprint(c)
    BY <1>3 DEF IdempotencyVerdict
  <2>2. i = j /\ i \in idempotency_records /\ i.request_id = c.request_id
    BY <1>3, <2>1 DEF IInv, MemoryInv, RecordOf
  <2>3. PICK s \in order_events : Accounts(i, s.event)
    BY <2>2 DEF IInv, MemoryInv
  <2>4. s.event.event_id = i.accepted_event_id /\ i.accepted_event_id # w
    BY <2>3 DEF Accounts, IInv, StreamsInv
  <2>5. r.outcome = "REPLAY" /\ r.accepted_event = i.accepted_event_id /\ r.version_mismatch = <<>>
    BY ResultFields
  <2>6. Returns(w, r)
    BY <1>1, <1>3, <2>5 DEF Returns
  <2> HIDE DEF r
  <2>7. IsFact(w, r)
    BY <2>1, <2>2, <2>3, <2>4, <2>5 DEF IsFact
  <2> QED BY <2>6, <2>7
<1>4. CASE RollbackAndReturn(w, Outcome("CONFLICT", NoEvent))
  <2>1. IsFact(w, Outcome("CONFLICT", NoEvent))
    BY PlainOutcome, ResultFields
  <2>2. Returns(w, Outcome("CONFLICT", NoEvent))
    BY <1>1, <1>4, ResultFields DEF Returns
  <2> QED BY <2>1, <2>2
<1> QED BY <1>2, <1>3, <1>4 DEF CheckIdempotency

\* append's version check reports a stale write with the version that overtook
\* the candidate: its expected version is one that has been committed.
LEMMA VersionCheckShape ==
  ASSUME IInv, NEW w \in Invocations, AppendVersionCheck(w)
  PROVE  MovesOn(w) \/ \E r : Returns(w, r) /\ IsFact(w, r)
<1> DEFINE e == TheCandidate(w)
           expected == e.proof.prev_version
           observed == current_version(e.order_id)
           mismatch == IF observed # expected THEN <<expected, observed>> ELSE <<>>
<1>1. pc[w] = "version" /\ NothingCommitted /\ UNCHANGED call /\ command' = command
  BY DEF AppendVersionCheck, NothingCommitted, database, call
<1>2. CASE Goto(w, "insert")
  <2>1. pc'[w] = "insert" /\ \A x \in Invocations \ {w} : pc'[x] = pc[x]
    BY <1>2 DEF Goto, IInv, TypeOK
  <2> QED BY <1>1, <1>2, <2>1 DEF MovesOn, Goto
<1>3. CASE RollbackAndReturn(w, AdmissionRejected("STALE_WRITE", mismatch))
  <2>1. e \in candidate[w] /\ e \in EventRecord
    BY <1>1, HeldCandidate DEF IInv, Coupled
  <2>2. /\ FollowsHistory(e) /\ e.order_id = CommandOf(w).order_id
        /\ e.order_id \in Orders /\ e.sequence \in Nat \ {0}
    BY <2>1 DEF IInv, Coupled, EventRecord
  <2>3. PICK v \in Nat : IsContiguous(Stream(e.order_id), v) /\ observed = v
    BY <2>2, StreamFacts DEF IInv
  <2>4. expected = e.sequence - 1
    BY <2>2 DEF FollowsHistory
  <2>5. expected \in 0..v
    <3>1. CASE e.sequence = 1
      BY <2>4, <3>1
    <3>2. CASE e.sequence # 1
      <4>1. PICK s \in order_events : s.event.order_id = e.order_id /\ s.event.sequence = e.sequence - 1
        BY <2>2, <3>2 DEF FollowsHistory
      <4>2. s.event \in Stream(e.order_id)
        BY <4>1 DEF Stream
      <4> QED BY <2>3, <2>4, <4>1, <4>2 DEF IsContiguous
    <3> QED BY <3>1, <3>2
  <2>6. mismatch # <<>> => /\ mismatch[2] \in Int /\ mismatch[1] < mismatch[2]
                           /\ mismatch[2] <= current_version(CommandOf(w).order_id)
    <3> SUFFICES ASSUME observed # expected
                 PROVE  /\ mismatch[2] \in Int /\ mismatch[1] < mismatch[2]
                        /\ mismatch[2] <= current_version(CommandOf(w).order_id)
      OBVIOUS
    <3>1. mismatch[1] = expected /\ mismatch[2] = v /\ current_version(CommandOf(w).order_id) = v
      BY <2>2, <2>3
    <3>2. expected < v
      BY <2>3, <2>5
    <3> QED BY <3>1, <3>2
  <2> HIDE DEF mismatch
  <2> DEFINE r == AdmissionRejected("STALE_WRITE", mismatch)
  <2>7. r.outcome = "ADMISSION_REJECTED" /\ r.version_mismatch = mismatch
    BY ResultFields
  <2>8. Returns(w, r)
    BY <1>1, <1>3, <2>6, <2>7 DEF Returns
  <2>9. ~\E s \in order_events : s.event.event_id = w
    BY <1>1 DEF IInv, StreamsInv
  <2> HIDE DEF r
  <2>10. IsFact(w, r)
    BY <2>6, <2>7, <2>9 DEF IsFact
  <2> QED BY <2>8, <2>10
<1> QED BY <1>2, <1>3 DEF AppendVersionCheck

\* A return without version evidence that names no event.
LEMMA PlainReturn ==
  ASSUME IInv, NEW w \in Invocations, pc[w] \notin {"new", "done"}, NothingCommitted,
         UNCHANGED call, NEW r, RollbackAndReturn(w, r),
         r.outcome \notin {"ACCEPTED", "REPLAY"}, r.version_mismatch = <<>>
  PROVE  \E s : Returns(w, s) /\ IsFact(w, s)
<1>1. Returns(w, r)
  BY DEF Returns
<1>2. IsFact(w, r)
  BY PlainOutcome
<1> QED BY <1>1, <1>2

\* An invocation that goes on with the statement next.
LEMMA PlainMove ==
  ASSUME IInv, NEW w \in Invocations, pc[w] # "done", NothingCommitted, UNCHANGED command,
         NEW next, next # "done", Goto(w, next)
  PROVE  MovesOn(w)
<1>1. pc'[w] = next /\ \A x \in Invocations \ {w} : pc'[x] = pc[x]
  BY DEF Goto, IInv, TypeOK
<1> QED BY <1>1 DEF MovesOn, Goto

\* An INSERT that comes to its end.
LEMMA FinishInsertShape ==
  ASSUME IInv, NEW w \in Invocations, pc[w] \in {"insert", "waiting"}, NEW p,
         FinishInsert(w, p), NothingCommitted, UNCHANGED call
  PROVE  MovesOn(w) \/ \E r : Returns(w, r) /\ IsFact(w, r)
<1>1. CASE RollbackAndReturn(w, AdmissionRejected("STALE_WRITE", <<>>))
  BY <1>1, PlainReturn, ResultFields
<1>2. CASE Goto(w, "record")
  BY <1>2, PlainMove DEF call
<1> QED BY <1>1, <1>2 DEF FinishInsert

\* Loading, rehydrating, building and validating the candidate.
LEMMA LoadShape ==
  ASSUME IInv, NEW w \in Invocations, Load(w)
  PROVE  MovesOn(w) \/ \E r : Returns(w, r) /\ IsFact(w, r)
<1>1. pc[w] = "load" /\ NothingCommitted /\ UNCHANGED call /\ UNCHANGED command
  BY DEF Load, NothingCommitted, database, call
<1>2. \/ RollbackAndReturn(w, Outcome("RAISED", NoEvent))
      \/ RollbackAndReturn(w, Outcome("VALIDATION_BLOCKED", NoEvent))
      \/ Goto(w, "check")
      \/ Goto(w, "version")
  BY Zenon DEF Load, Raise
<1>3. CASE RollbackAndReturn(w, Outcome("RAISED", NoEvent))
  BY <1>1, <1>3, PlainReturn, ResultFields
<1>4. CASE RollbackAndReturn(w, Outcome("VALIDATION_BLOCKED", NoEvent))
  BY <1>1, <1>4, PlainReturn, ResultFields
<1>5. CASE Goto(w, "check")
  BY <1>1, <1>5, PlainMove
<1>6. CASE Goto(w, "version")
  BY <1>1, <1>6, PlainMove
<1> QED BY <1>2, <1>3, <1>4, <1>5, <1>6

\* Every step of an invocation moves on, returns a fact or commits.
LEMMA StepShape ==
  ASSUME IInv, NEW w \in Invocations,
         Begin(w) \/ Step(w) \/ InsertLockTimeout(w) \/ CommitUnacknowledged(w) \/ Fail(w)
  PROVE  MovesOn(w) \/ (\E r : Returns(w, r) /\ IsFact(w, r)) \/ Publishes(w)
<1> DEFINE Shape == MovesOn(w) \/ (\E r : Returns(w, r) /\ IsFact(w, r)) \/ Publishes(w)
<1>1. CASE Begin(w)
  <2>1. PICK c \in Commands, k \in Configs :
          /\ command' = [command EXCEPT ![w] = {c}]
          /\ Goto(w, "check") \/ Goto(w, "preliminary")
    BY <1>1 DEF Begin
  <2>2. pc[w] = "new" /\ NothingCommitted
    BY <1>1 DEF Begin, NothingCommitted, database
  <2>3. /\ pc'[w] # "done" /\ \A x \in Invocations \ {w} : pc'[x] = pc[x]
        /\ result' = result
        /\ \A x \in Invocations \ {w} : command'[x] = command[x]
    BY <2>1 DEF Goto, IInv, TypeOK
  <2> QED BY <2>2, <2>3 DEF MovesOn
<1>2. CASE PreliminaryCheck(w)
  BY <1>2, CheckIdempotencyShape DEF PreliminaryCheck
<1>3. CASE AuthoritativeCheck(w)
  BY <1>3, CheckIdempotencyShape DEF AuthoritativeCheck
<1>4. CASE Load(w)
  BY <1>4, LoadShape
<1>5. CASE PrepareStream(w)
  <2>1. pc[w] = "prepare" /\ NothingCommitted /\ UNCHANGED call /\ UNCHANGED command
    BY <1>5 DEF PrepareStream, NothingCommitted, database, call
  <2>2. CASE RollbackAndReturn(w, AdmissionRejected("LOCK_TIMEOUT", <<>>))
    BY <2>1, <2>2, PlainReturn, ResultFields
  <2>3. CASE Goto(w, "version") \/ Goto(w, "load")
    BY <2>1, <2>3, PlainMove
  <2> QED BY <1>5, <2>2, <2>3 DEF PrepareStream
<1>6. CASE AppendVersionCheck(w)
  BY <1>6, VersionCheckShape
<1>7. CASE InsertEvent(w)
  BY <1>7, FinishInsertShape DEF InsertEvent, NothingCommitted
<1>8. CASE InsertWaits(w)
  BY <1>8, PlainMove DEF InsertWaits, NothingCommitted, call
<1>9. CASE InsertResumes(w)
  BY <1>9, FinishInsertShape DEF InsertResumes, NothingCommitted, database
<1>10. CASE RecordIdempotency(w)
  <2>1. pc[w] = "record" /\ NothingCommitted /\ UNCHANGED call /\ UNCHANGED command
    BY <1>10 DEF RecordIdempotency, NothingCommitted, database, call
  <2>2. CASE Raise(w)
    BY <2>1, <2>2, PlainReturn, ResultFields DEF Raise
  <2>3. CASE Goto(w, "commit")
    BY <2>1, <2>3, PlainMove
  <2> QED BY <1>10, <2>2, <2>3 DEF RecordIdempotency
<1>11. CASE Commit(w) \/ CommitUnacknowledged(w)
  BY <1>11 DEF Commit, CommitUnacknowledged, Publishes
<1>12. CASE InsertLockTimeout(w)
  <2>1. pc[w] = "waiting" /\ NothingCommitted /\ UNCHANGED call
        /\ RollbackAndReturn(w, AdmissionRejected("LOCK_TIMEOUT", <<>>))
    BY <1>12 DEF InsertLockTimeout, NothingCommitted, database
  <2> QED BY <2>1, PlainReturn, ResultFields
<1>13. CASE Fail(w)
  <2>1. pc[w] \notin {"new", "done"} /\ NothingCommitted /\ UNCHANGED call
        /\ RollbackAndReturn(w, Outcome("RAISED", NoEvent))
    BY <1>13 DEF Fail, Raise, NothingCommitted, database
  <2> QED BY <2>1, PlainReturn, ResultFields
<1>14. ASSUME Step(w) PROVE Shape
  BY <1>14, <1>2, <1>3, <1>4, <1>5, <1>6, <1>7, <1>8, <1>9, <1>10, <1>11 DEF Step
<1> QED BY <1>1, <1>11, <1>12, <1>13, <1>14

----------------------------------------------------------------------------
(* Results.                                                                *)

\* What is committed stays committed: a fact about an invocation that commits
\* nothing remains one when others commit.
LEMMA FactsStay ==
  ASSUME IInv, IInv', NEW x \in Invocations, NEW r, IsFact(x, r),
         order_events \subseteq order_events',
         idempotency_records \subseteq idempotency_records',
         \A s \in order_events' \ order_events : s.event.event_id # x,
         command'[x] = command[x],
         r.version_mismatch # <<>> => pc[x] # "new" /\ r.version_mismatch[2] \in Int
  PROVE  IsFact(x, r)'
<1>1. CommandOf(x)' = CommandOf(x)
  BY DEF CommandOf
<1>2. \A i, s : Accounts(i, s.event)' = Accounts(i, s.event)
  BY DEF Accounts
<1>3. semantic_fingerprint(CommandOf(x))' = semantic_fingerprint(CommandOf(x))
  BY <1>1
<1>4. r.outcome \in {"ACCEPTED", "REPLAY"} =>
        \E i \in idempotency_records' :
          /\ i.accepted_event_id = r.accepted_event
          /\ i.request_id = CommandOf(x).request_id
          /\ i.semantic_fingerprint = semantic_fingerprint(CommandOf(x))
          /\ \E s \in order_events' : Accounts(i, s.event)
  BY DEF IsFact
<1>5. r.outcome \in {"CONFLICT", "VALIDATION_BLOCKED", "ADMISSION_REJECTED"} =>
        ~\E s \in order_events' : s.event.event_id = x
  BY DEF IsFact
<1>6. r.version_mismatch # <<>> =>
        /\ r.version_mismatch[1] < r.version_mismatch[2]
        /\ r.version_mismatch[2] <= current_version(CommandOf(x).order_id)'
  <2> SUFFICES ASSUME r.version_mismatch # <<>>
               PROVE  r.version_mismatch[2] <= current_version(CommandOf(x).order_id)'
    BY DEF IsFact
  <2>1. PICK o \in Orders : o = CommandOf(x).order_id
    BY HeldCall DEF IInv, CommandRecord
  <2>2. PICK v \in Nat : IsContiguous(Stream(o), v) /\ current_version(o) = v
    BY <2>1, StreamFacts DEF IInv
  <2>3. PICK u \in Nat : IsContiguous(Stream(o)', u)
    BY <2>1 DEF IInv, StreamsInv
  <2>4. current_version(o)' = u
    BY <2>3, LargestSequence DEF current_version
  <2>5. Stream(o) \subseteq Stream(o)'
    BY DEF Stream
  <2>6. v <= u
    <3>1. CASE v = 0
      BY <3>1
    <3>2. CASE v # 0
      <4>1. PICK f \in Stream(o) : f.sequence = v
        BY <2>2, <3>2 DEF IsContiguous
      <4> QED BY <2>3, <2>5, <4>1 DEF IsContiguous
    <3> QED BY <3>1, <3>2
  <2>7. r.version_mismatch[2] <= v
    BY <2>1, <2>2 DEF IsFact
  <2>8. r.version_mismatch[2] <= current_version(o)'
    BY <2>4, <2>6, <2>7
  <2>9. current_version(CommandOf(x).order_id)' = current_version(o)'
    BY <1>1, <2>1
  <2> QED BY <2>8, <2>9
<1> QED BY <1>1, <1>2, <1>3, <1>4, <1>5, <1>6 DEF IsFact

\* No result is a fact about anybody.
LEMMA NoResultIsFact == \A w : IsFact(w, NoResult) /\ NoResult.version_mismatch = <<>>
BY DEF IsFact, NoResult, Result

\* One committed event and its idempotency record: what Publish adds.
LEMMA PublishedRows ==
  ASSUME IInv, NEW w \in Invocations, pc[w] = "commit", Publish(w)
  PROVE  \E row \in EventRow, i \in IdempotencyRowType :
           /\ order_events' = order_events \cup {row}
           /\ idempotency_records' = idempotency_records \cup {i}
           /\ inserted[w] = {row} /\ recorded[w] = {i}
           /\ row.event = TheCandidate(w) /\ row.event.event_id = w
           /\ i = IdempotencyRow(CommandOf(w), row.event)
           /\ Accounts(i, row.event)
<1>1. candidate[w] # {} /\ inserted[w] # {} /\ recorded[w] # {}
  BY DEF IInv, Coupled
<1>2. candidate[w] = {TheCandidate(w)}
  BY <1>1, HeldCandidate DEF IInv
<1>3. PICK row \in inserted[w] : row.event = TheCandidate(w)
  BY <1>1, <1>2 DEF IInv, Coupled
<1>4. PICK i \in recorded[w] : i = IdempotencyRow(CommandOf(w), TheCandidate(w))
  BY <1>1, <1>2 DEF IInv, Coupled
<1>5. row \in EventRow /\ inserted[w] = {row} /\ i \in IdempotencyRowType /\ recorded[w] = {i}
  BY <1>3, <1>4 DEF IInv, TypeOK, AtMostOne
<1>6. row.event.event_id = w /\ row.event.request_id = CommandOf(w).request_id
  BY <1>2, <1>3 DEF IInv, Coupled
<1>7. Accounts(i, row.event)
  BY <1>3, <1>4, <1>6 DEF Accounts, IdempotencyRow
<1> QED BY <1>3, <1>4, <1>5, <1>6, <1>7 DEF Publish

\* Every kind of step keeps the answers true.
LEMMA MovesOnAnswers ==
  ASSUME IInv, IInv', AnswersInv, NEW w \in Invocations, MovesOn(w)
  PROVE  AnswersInv'
<1> SUFFICES ASSUME NEW x \in Invocations
             PROVE  /\ pc'[x] # "done" => result'[x] = NoResult
                    /\ result'[x].version_mismatch # <<>> => result'[x].version_mismatch[2] \in Int
                    /\ IsFact(x, result[x])'
  BY DEF AnswersInv
<1>1. result'[x] = result[x]
  BY DEF MovesOn
<1>2. CASE x = w
  <2>1. result'[x] = NoResult
    BY <1>1, <1>2 DEF AnswersInv, MovesOn
  <2>2. IsFact(x, NoResult)'
    BY DEF IsFact, NoResult, Result
  <2>3. NoResult' = NoResult
    BY DEF NoResult
  <2> QED BY <2>1, <2>2, <2>3, NoResultIsFact
<1>3. CASE x # w
  <2>1. PICK r : r = result[x]
    OBVIOUS
  <2>2. IsFact(x, r) /\ (r.version_mismatch # <<>> => r.version_mismatch[2] \in Int)
    BY <2>1 DEF AnswersInv
  <2>3. pc'[x] = pc[x] /\ command'[x] = command[x] /\ order_events' = order_events
        /\ idempotency_records' = idempotency_records
    BY <1>3 DEF MovesOn, NothingCommitted
  <2>4. r.version_mismatch # <<>> => pc[x] # "new"
    BY <2>1, NoResultIsFact DEF AnswersInv
  <2>5. IsFact(x, r)'
    BY <2>2, <2>3, <2>4, FactsStay
  <2> QED BY <1>1, <2>1, <2>2, <2>3, <2>5 DEF AnswersInv
<1> QED BY <1>2, <1>3

\* A return without a commit: the new result is a fact, and no other result is
\* disturbed.
LEMMA ReturnsAnswers ==
  ASSUME IInv, IInv', AnswersInv, NEW w \in Invocations, NEW q, Returns(w, q), IsFact(w, q)
  PROVE  AnswersInv'
<1> SUFFICES ASSUME NEW x \in Invocations
             PROVE  /\ pc'[x] # "done" => result'[x] = NoResult
                    /\ result'[x].version_mismatch # <<>> => result'[x].version_mismatch[2] \in Int
                    /\ IsFact(x, result[x])'
  BY DEF AnswersInv
<1>1. /\ pc'[w] = "done" /\ result'[w] = q /\ pc[w] # "new" /\ command' = command
      /\ x # w => pc'[x] = pc[x] /\ result'[x] = result[x]
      /\ order_events' = order_events /\ idempotency_records' = idempotency_records
  BY DEF Returns, RollbackAndReturn, IInv, TypeOK, call, NothingCommitted
<1>2. PICK r : r = result'[x]
  OBVIOUS
<1>3. /\ IsFact(x, r)
      /\ r.version_mismatch # <<>> => r.version_mismatch[2] \in Int /\ pc[x] # "new"
  <2>1. CASE x = w
    BY <1>1, <1>2, <2>1 DEF Returns
  <2>2. CASE x # w
    BY <1>1, <1>2, <2>2, NoResultIsFact DEF AnswersInv
  <2> QED BY <2>1, <2>2
<1>4. IsFact(x, r)'
  BY <1>1, <1>3, FactsStay
<1>5. pc'[x] # "done" => result'[x] = NoResult
  BY <1>1 DEF AnswersInv
<1> QED BY <1>2, <1>3, <1>4, <1>5

\* A commit, acknowledged or not: the result of the committing invocation names
\* the rows that have just become visible.
LEMMA PublishesAnswers ==
  ASSUME IInv, IInv', AnswersInv, NEW w \in Invocations, Publishes(w)
  PROVE  AnswersInv'
<1> SUFFICES ASSUME NEW x \in Invocations
             PROVE  /\ pc'[x] # "done" => result'[x] = NoResult
                    /\ result'[x].version_mismatch # <<>> => result'[x].version_mismatch[2] \in Int
                    /\ IsFact(x, result[x])'
  BY DEF AnswersInv
<1>1. pc[w] = "commit" /\ Publish(w) /\ command' = command
  BY DEF Publishes, call
<1>2. PICK row \in EventRow, i \in IdempotencyRowType :
        /\ order_events' = order_events \cup {row}
        /\ idempotency_records' = idempotency_records \cup {i}
        /\ row.event = TheCandidate(w) /\ row.event.event_id = w
        /\ i = IdempotencyRow(CommandOf(w), row.event)
        /\ Accounts(i, row.event)
  BY <1>1, PublishedRows
<1>3. /\ pc'[w] = "done"
      /\ x # w => pc'[x] = pc[x]
  BY <1>1 DEF Publish, IInv, TypeOK
<1>4. CASE x # w
  <2>1. result'[x] = result[x]
    BY <1>4 DEF Publishes, IInv, TypeOK
  <2>2. PICK r : r = result[x]
    OBVIOUS
  <2>3. IsFact(x, r) /\ (r.version_mismatch # <<>> => r.version_mismatch[2] \in Int /\ pc[x] # "new")
    BY <2>2, NoResultIsFact DEF AnswersInv
  <2>4. \A s \in order_events' \ order_events : s.event.event_id # x
    BY <1>2, <1>4
  <2>5. IsFact(x, r)'
    BY <1>1, <1>2, <2>3, <2>4, FactsStay
  <2> QED BY <1>3, <1>4, <2>1, <2>2, <2>3, <2>5 DEF AnswersInv
<1>5. CASE x = w
  <2>1. PICK r \in {Outcome("ACCEPTED", TheCandidate(w).event_id), Outcome("RAISED", NoEvent)} :
          result' = [result EXCEPT ![w] = r]
    BY DEF Publishes
  <2>2. result'[w] = r
    BY <2>1 DEF IInv, TypeOK
  <2>3. /\ r.version_mismatch = <<>>
        /\ r.outcome = "RAISED" \/ (r.outcome = "ACCEPTED" /\ r.accepted_event = w)
    BY <1>2, <2>1, ResultFields
  <2>4. CommandOf(w)' = CommandOf(w)
    BY <1>1 DEF CommandOf
  <2>5. /\ i.accepted_event_id = w /\ i.request_id = CommandOf(w).request_id
        /\ i.semantic_fingerprint = semantic_fingerprint(CommandOf(w))
    BY <1>2 DEF IdempotencyRow
  <2>6. semantic_fingerprint(CommandOf(w))' = semantic_fingerprint(CommandOf(w))
        /\ Accounts(i, row.event)' = Accounts(i, row.event)
    BY <2>4 DEF Accounts
  <2>7. i \in idempotency_records' /\ row \in order_events'
    BY <1>2
  <2>8. IsFact(w, r)'
    BY <1>2, <2>3, <2>4, <2>5, <2>6, <2>7 DEF IsFact
  <2> QED BY <1>3, <1>5, <2>2, <2>3, <2>8
<1> QED BY <1>4, <1>5

\* The answers stay true in every step of the write side.
LEMMA NextAnswers ==
  ASSUME IInv, IInv', AnswersInv, [Next]_vars
  PROVE  AnswersInv'
<1>1. CASE UNCHANGED vars
  <2>1. UNCHANGED <<order_events, idempotency_records, pc, command, result>>
    BY <1>1 DEF vars, database, call
  <2>2. \A x : CommandOf(x)' = CommandOf(x)
    BY <2>1 DEF CommandOf
  <2>3. \A o : current_version(o)' = current_version(o)
    BY <2>1 DEF current_version, Stream
  <2> QED BY <2>1, <2>2, <2>3 DEF AnswersInv, IsFact
<1>2. CASE Next
  <2>1. PICK w \in Invocations :
          Begin(w) \/ Step(w) \/ InsertLockTimeout(w) \/ CommitUnacknowledged(w) \/ Fail(w)
    BY <1>2 DEF Next
  <2>2. MovesOn(w) \/ (\E r : Returns(w, r) /\ IsFact(w, r)) \/ Publishes(w)
    BY <2>1, StepShape
  <2> QED BY <2>2, MovesOnAnswers, ReturnsAnswers, PublishesAnswers
<1> QED BY <1>1, <1>2

\* Whoever has not returned has no result, and every result given is a fact.
LEMMA Answers == Spec => []AnswersInv
<1>1. Init => AnswersInv
  BY NoResultIsFact DEF Init, AnswersInv
<1>2. IInv /\ IInv' /\ AnswersInv /\ [Next]_vars => AnswersInv'
  BY NextAnswers
<1> QED BY <1>1, <1>2, Invariance, PTL DEF Spec

\* What create_order and pay_order tell a caller is so and stays so, for every
\* number of concurrent, retried and failing calls.
THEOREM ResultsAreFacts == Spec => []DeliveredResultsAreFacts
<1>1. AnswersInv => DeliveredResultsAreFacts
  BY DEF AnswersInv, IsFact, DeliveredResultsAreFacts
<1> QED BY <1>1, Answers, PTL

----------------------------------------------------------------------------
(* Every commit is one acceptance.                                         *)

EventTypeOf(c) == IF c.command_type = "create" THEN "CREATED" ELSE "PAID"

\* A candidate says what its command said.
PayloadInv ==
  \A w \in Invocations : \A e \in candidate[w] :
    /\ e.amount = normalize_money(CommandOf(w).amount) /\ e.amount > 0
    /\ e.event_type = EventTypeOf(CommandOf(w))

\* Only Load builds a candidate, and only Begin, before there is one, changes
\* a command.
LEMMA NextPayload ==
  ASSUME IInv, PayloadInv, [Next]_vars
  PROVE  PayloadInv'
<1>1. CASE UNCHANGED <<command, candidate>>
  <2>1. \A x : CommandOf(x)' = CommandOf(x)
    BY <1>1 DEF CommandOf
  <2> QED BY <1>1, <2>1 DEF PayloadInv, EventTypeOf
<1>2. ASSUME NEW w \in Invocations, Begin(w) PROVE PayloadInv'
  <2>1. candidate' = candidate /\ candidate[w] = {}
    BY <1>2 DEF Begin, IInv, Coupled
  <2>2. \A x \in Invocations \ {w} : command'[x] = command[x]
    BY <1>2 DEF Begin, IInv, TypeOK
  <2>3. \A x \in Invocations \ {w} : CommandOf(x)' = CommandOf(x)
    BY <2>2 DEF CommandOf
  <2> QED BY <2>1, <2>3 DEF PayloadInv, EventTypeOf
<1>3. ASSUME NEW w \in Invocations, Load(w) PROVE PayloadInv'
  <2> DEFINE c == CommandOf(w)
             a == Rehydrate(c.order_id, load(c.order_id))
             e == CandidateEvent(a, c, w)
  <2>1. /\ command' = command
        /\ candidate' = candidate \/ (IsLegal(a, c) /\ candidate' = [candidate EXCEPT ![w] = {e}])
    <3>1. command' = command
      BY <1>3 DEF Load, call
    <3>2. candidate' = candidate \/ (IsLegal(a, c) /\ candidate' = [candidate EXCEPT ![w] = {e}])
      BY <1>3, Zenon DEF Load
    <3> QED BY <3>1, <3>2
  <2>2. \A x : CommandOf(x)' = CommandOf(x)
    BY <2>1 DEF CommandOf
  <2>3. CASE candidate' = candidate
    BY <1>1, <2>1, <2>3
  <2>4. CASE IsLegal(a, c) /\ candidate' = [candidate EXCEPT ![w] = {e}]
    <3>1. /\ e.amount = normalize_money(c.amount) /\ e.event_type = EventTypeOf(c)
      BY DEF CandidateEvent, EventTypeOf
    <3>2. normalize_money(c.amount) > 0
      BY <2>4 DEF IsLegal, IsPositiveMoney
    <3> HIDE DEF e
    <3>3. candidate'[w] = {e} /\ \A x \in Invocations \ {w} : candidate'[x] = candidate[x]
      BY <2>4 DEF IInv, TypeOK
    <3> QED BY <2>2, <3>1, <3>2, <3>3 DEF PayloadInv, EventTypeOf
  <2> QED BY <2>1, <2>3, <2>4
<1>4. ASSUME NEW w \in Invocations,
             \/ PreliminaryCheck(w) \/ AuthoritativeCheck(w) \/ PrepareStream(w)
             \/ AppendVersionCheck(w) \/ InsertEvent(w) \/ InsertWaits(w) \/ InsertResumes(w)
             \/ RecordIdempotency(w) \/ Commit(w) \/ InsertLockTimeout(w)
             \/ CommitUnacknowledged(w) \/ Fail(w)
      PROVE  UNCHANGED <<command, candidate>>
  BY <1>4 DEF PreliminaryCheck, AuthoritativeCheck, PrepareStream, AppendVersionCheck,
     InsertEvent, InsertWaits, InsertResumes, RecordIdempotency, Commit, InsertLockTimeout,
     CommitUnacknowledged, Fail, call
<1>5. CASE UNCHANGED vars
  BY <1>1, <1>5 DEF vars, call
<1>6. CASE Next
  <2>1. PICK w \in Invocations :
          Begin(w) \/ Step(w) \/ InsertLockTimeout(w) \/ CommitUnacknowledged(w) \/ Fail(w)
    BY <1>6 DEF Next
  <2> QED BY <2>1, <1>1, <1>2, <1>3, <1>4 DEF Step
<1> QED BY <1>5, <1>6

\* However long ago history was loaded, at its commit a candidate is what its
\* command would build from history as it is now.
LEMMA CommitsFreshCandidate ==
  ASSUME IInv, PayloadInv, NEW w \in Invocations, pc[w] = "commit"
  PROVE  LET c == CommandOf(w)
             a == Rehydrate(c.order_id, load(c.order_id))
             e == TheCandidate(w)
         IN  /\ IsLegal(a, c)
             /\ CandidateEvent(a, c, w) = e
             /\ e.order_id = c.order_id /\ c.order_id \in Orders
             /\ \E v \in Nat : IsContiguous(Stream(c.order_id), v) /\ e.sequence = v + 1
<1> DEFINE c == CommandOf(w)
           o == c.order_id
           e == TheCandidate(w)
           S == Stream(o)
           a == Rehydrate(o, InSequenceOrder(S))
<1>1. c \in CommandRecord
  BY HeldCall DEF IInv
<1>2. o \in Orders /\ c.amount \in Int /\ c.command_type \in CommandTypes
  BY <1>1, ConstantsAssumption DEF CommandRecord
<1>3. e \in candidate[w] /\ e \in EventRecord /\ candidate[w] = {e}
  BY HeldCandidate DEF IInv, Coupled
<1>4. /\ e.event_id = w /\ e.request_id = c.request_id /\ e.order_id = o /\ FollowsHistory(e)
      /\ e.amount = normalize_money(c.amount) /\ e.amount > 0 /\ e.event_type = EventTypeOf(c)
  BY <1>3 DEF IInv, Coupled, PayloadInv
<1>5. PICK v \in Nat : IsContiguous(S, v)
  BY <1>2 DEF IInv, StreamsInv
<1>6. \A f \in S : f.sequence # e.sequence
  <2>1. PICK row \in inserted[w] : row.event = e
    BY <1>3 DEF IInv, Coupled
  <2>2. \A r \in order_events : ~SamePosition(r.event, e)
    BY <2>1 DEF IInv, PendingInv
  <2> QED BY <1>4, <2>2 DEF Stream, SamePosition
<1>7. e.sequence \in Nat \ {0} /\ e.proof.prev_version = e.sequence - 1
  BY <1>3, <1>4 DEF EventRecord, FollowsHistory
<1>8. /\ a.order_id = o /\ a.current_version = v
      /\ v = 0 => a.status = "INIT" /\ a.last_event_id = NoEvent
      /\ \A f \in S : f.sequence = v =>
           /\ a.status = StatusAfter(f.event_type) /\ a.last_event_id = f.event_id
           /\ f.event_type = "CREATED" => a.total_amount = f.amount
  BY <1>5, RehydrateContiguous
<1>9. /\ e.sequence = v + 1
      /\ e.proof.prev_status = a.status /\ e.proof.prev_event_id = a.last_event_id
      /\ IsLegal(a, c)
  <2> HIDE DEF c, o, e, S, a
  <2>1. IsPositiveMoney(c.amount)
    BY <1>4 DEF IsPositiveMoney
  <2>2. CASE /\ e.sequence = 1 /\ e.event_type = "CREATED"
             /\ e.proof.prev_status = "INIT" /\ e.proof.prev_event_id = NoEvent
    <3>1. v = 0
      BY <1>5, <1>6, <2>2 DEF IsContiguous
    <3>2. c.command_type = "create"
      BY <1>4, <2>2 DEF EventTypeOf
    <3> QED BY <1>8, <2>1, <2>2, <3>1, <3>2 DEF IsLegal
  <2>3. CASE \E r \in order_events :
               /\ r.event.order_id = e.order_id /\ r.event.sequence = e.sequence - 1
               /\ r.event.event_type = "CREATED" /\ e.event_type = "PAID"
               /\ e.amount = r.event.amount
               /\ e.proof.prev_status = "CREATED" /\ e.proof.prev_event_id = r.event.event_id
    <3>1. PICK f \in S :
            /\ f.sequence = e.sequence - 1 /\ f.event_type = "CREATED"
            /\ e.event_type = "PAID" /\ e.amount = f.amount
            /\ e.proof.prev_status = "CREATED" /\ e.proof.prev_event_id = f.event_id
      BY <1>4, <2>3 DEF S, Stream
    <3>2. f.sequence \in 1..v /\ e.sequence \notin 1..v
      BY <1>5, <1>6, <3>1 DEF IsContiguous
    <3>3. e.sequence = v + 1 /\ f.sequence = v
      BY <1>7, <3>1, <3>2
    <3>4. a.status = "CREATED" /\ a.last_event_id = f.event_id /\ a.total_amount = e.amount
      BY <1>8, <3>1, <3>3 DEF StatusAfter
    <3>5. c.command_type # "create"
      BY <1>4, <3>1 DEF EventTypeOf
    <3> QED BY <1>4, <2>1, <3>1, <3>3, <3>4, <3>5 DEF IsLegal
  <2> QED BY <1>4, <2>2, <2>3 DEF FollowsHistory
<1>10. CandidateEvent(a, c, w) = e
  <2> HIDE DEF c, o, e, S, a
  <2>1. CandidateEvent(a, c, w) =
          [event_id |-> e.event_id, request_id |-> e.request_id, order_id |-> e.order_id,
           sequence |-> e.sequence, event_type |-> e.event_type, amount |-> e.amount,
           proof |-> [prev_status |-> e.proof.prev_status,
                      prev_version |-> e.proof.prev_version,
                      prev_event_id |-> e.proof.prev_event_id]]
    <3>1. e.proof.prev_version = v
      BY <1>7, <1>9
    <3> QED BY <1>4, <1>8, <1>9, <3>1 DEF CandidateEvent, EventTypeOf
  <2> QED BY <1>3, <2>1 DEF EventRecord
<1> QED BY <1>2, <1>4, <1>5, <1>9, <1>10 DEF load

\* The abstract specification speaks of the same aggregate and candidates.
LEMMA SameDomain ==
  /\ \A o, h : Accepted!Rehydrate(o, h) = Rehydrate(o, h)
  /\ \A a, c, id : Accepted!CandidateEvent(a, c, id) = CandidateEvent(a, c, id)
  /\ \A a, c : Accepted!IsLegal(a, c) <=> IsLegal(a, c)
  /\ \A c, e : Accepted!IdempotencyRow(c, e) = IdempotencyRow(c, e)
<1>1. \A m : Accepted!normalize_money(m) = normalize_money(m)
  BY DEF Accepted!normalize_money, normalize_money, Accepted!HalfEvenCents, HalfEvenCents
<1>2. \A h, t : Accepted!LastAmount(h, t) = LastAmount(h, t)
  BY DEF Accepted!LastAmount, LastAmount, Accepted!Max, Max
<1>3. \A t : Accepted!StatusAfter(t) = StatusAfter(t)
  BY DEF Accepted!StatusAfter, StatusAfter
<1>4. \A o, h : Accepted!Rehydrate(o, h) = Rehydrate(o, h)
  BY <1>2, <1>3 DEF Accepted!Rehydrate, Rehydrate
<1>5. \A a, c, id : Accepted!CandidateEvent(a, c, id) = CandidateEvent(a, c, id)
  BY <1>1 DEF Accepted!CandidateEvent, CandidateEvent
<1>6. \A a, c : Accepted!IsLegal(a, c) <=> IsLegal(a, c)
  BY <1>1 DEF Accepted!IsLegal, IsLegal, Accepted!IsPositiveMoney, IsPositiveMoney
<1>7. \A c, e : Accepted!IdempotencyRow(c, e) = IdempotencyRow(c, e)
  BY <1>1 DEF Accepted!IdempotencyRow, IdempotencyRow, Accepted!semantic_fingerprint,
     semantic_fingerprint
<1> QED BY <1>4, <1>5, <1>6, <1>7

\* An empty database is an empty history.
LEMMA InitRefines == Init => Accepted!Init
<1> SUFFICES ASSUME Init PROVE Accepted!Init
  OBVIOUS
<1>1. ASSUME NEW o \in Orders PROVE load(o) = <<>>
  <2>1. Stream(o) = {}
    BY DEF Init, Stream
  <2>2. IsContiguous({}, 0)
    BY DEF IsContiguous
  <2>3. InSequenceOrder({}) \in Seq({}) /\ Len(InSequenceOrder({})) = 0
    BY <2>2, InSequenceOrderContiguous
  <2> QED BY <2>1, <2>3 DEF load
<1>2. [o \in Orders |-> load(o)] = [o \in Orders |-> <<>>]
  BY <1>1
<1> QED BY <1>2 DEF Init, Accepted!Init

\* A step that commits nothing is a stutter of the abstract specification.
LEMMA NothingCommittedStutters ==
  ASSUME NothingCommitted
  PROVE  UNCHANGED Accepted!vars
<1>1. \A o : load(o)' = load(o)
  BY DEF NothingCommitted, load, Stream
<1> QED BY <1>1 DEF NothingCommitted, Accepted!vars

\* A commit accepts the command of its invocation, against the history of that
\* moment and under an identity that is new.
LEMMA PublishAccepts ==
  ASSUME IInv, PayloadInv, NEW w \in Invocations, pc[w] = "commit", Publish(w)
  PROVE  Accepted!Next
<1> DEFINE c == CommandOf(w)
           o == c.order_id
           e == TheCandidate(w)
           a == Rehydrate(o, load(o))
           history == [p \in Orders |-> load(p)]
<1>1. /\ IsLegal(a, c) /\ CandidateEvent(a, c, w) = e /\ e.order_id = o /\ o \in Orders
      /\ \E v \in Nat : IsContiguous(Stream(o), v) /\ e.sequence = v + 1
  BY CommitsFreshCandidate
<1>2. c \in Commands
  BY HeldCall DEF IInv
<1>3. PICK row \in EventRow, i \in IdempotencyRowType :
        /\ order_events' = order_events \cup {row}
        /\ idempotency_records' = idempotency_records \cup {i}
        /\ recorded[w] = {i} /\ row.event = e /\ i = IdempotencyRow(c, e)
  BY PublishedRows
<1> HIDE DEF c, e
<1>4. ASSUME NEW p \in Orders
      PROVE  load(p)' = IF p = o THEN Append(load(p), e) ELSE load(p)
  <2>1. CASE p = o
    <3>1. Stream(p)' = Stream(p) \cup {e}
      BY <1>1, <1>3, <2>1 DEF Stream
    <3> QED BY <1>1, <2>1, <3>1, InSequenceOrderGrows DEF load
  <2>2. CASE p # o
    <3>1. Stream(p)' = Stream(p)
      BY <1>1, <1>3, <2>2 DEF Stream
    <3> QED BY <2>2, <3>1 DEF load
  <2> QED BY <2>1, <2>2
<1>5. [p \in Orders |-> load(p)]' = [history EXCEPT ![o] = Append(@, e)]
  <2>1. [p \in Orders |-> load(p)]' = [p \in Orders |-> load(p)']
    OBVIOUS
  <2>2. [history EXCEPT ![o] = Append(@, e)]
          = [p \in Orders |-> IF p = o THEN Append(load(p), e) ELSE load(p)]
    BY <1>1
  <2> QED BY <1>4, <2>1, <2>2
<1>6. ~Accepted!Remembers(idempotency_records, c)
  <2>1. \A j \in idempotency_records : j.request_id # i.request_id
    BY <1>3 DEF IInv, PendingInv
  <2>2. i.request_id = c.request_id
    BY <1>3 DEF IdempotencyRow
  <2> QED BY <2>1, <2>2 DEF Accepted!Remembers
<1>7. Accepted!Remembers(idempotency_records', c)
  BY <1>3 DEF IdempotencyRow, Accepted!Remembers
<1>8. Accepted!Fresh(w)
  <2> SUFFICES ASSUME NEW p \in Orders, NEW n \in 1..Len(load(p))
               PROVE  load(p)[n].event_id # w
    BY DEF Accepted!Fresh
  <2>1. PICK v \in Nat : IsContiguous(Stream(p), v)
    BY DEF IInv, StreamsInv
  <2>2. load(p)[n] \in Stream(p)
    BY <2>1, InSequenceOrderContiguous DEF load
  <2>3. \A r \in order_events : r.event.event_id # w
    BY DEF IInv, StreamsInv
  <2> QED BY <2>2, <2>3 DEF Stream
<1>9. history[o] = load(o)
  BY <1>1
<1>10. Accepted!Accept(c, w)
  <2>1. Accepted!Rehydrate(o, history[o]) = a
    BY <1>9, SameDomain
  <2>2. Accepted!IsLegal(Accepted!Rehydrate(o, history[o]), c)
        /\ Accepted!CandidateEvent(Accepted!Rehydrate(o, history[o]), c, w) = e
    BY <1>1, <2>1, SameDomain
  <2>3. idempotency_records' = idempotency_records \cup {Accepted!IdempotencyRow(c, e)}
    BY <1>3, SameDomain
  <2> QED BY <1>5, <1>6, <1>7, <1>8, <2>2, <2>3 DEF Accepted!Accept
<1> QED BY <1>2, <1>10 DEF Accepted!Next

\* Every step of the write side is a step of AcceptedHistory or a stutter.
LEMMA NextRefines ==
  ASSUME IInv, PayloadInv, [Next]_vars
  PROVE  [Accepted!Next]_(Accepted!vars)
<1>1. CASE UNCHANGED vars
  BY <1>1, NothingCommittedStutters DEF vars, database, NothingCommitted
<1>2. CASE Next
  <2>1. PICK w \in Invocations :
          Begin(w) \/ Step(w) \/ InsertLockTimeout(w) \/ CommitUnacknowledged(w) \/ Fail(w)
    BY <1>2 DEF Next
  <2>2. NothingCommitted \/ Publishes(w)
    BY <2>1, StepShape DEF MovesOn, Returns
  <2> QED BY <2>2, NothingCommittedStutters, PublishAccepts DEF Publishes
<1> QED BY <1>1, <1>2

\* The write side implements AcceptedHistory: its transactions, locks,
\* placements, retries and failures are invisible in accepted history and
\* replay memory, where commands are accepted one at a time against history
\* as it is.
THEOREM Refinement == Spec => ImplementsAcceptedHistory
<1>1. Init => PayloadInv
  BY DEF Init, PayloadInv
<1>2. IInv /\ PayloadInv /\ [Next]_vars => PayloadInv'
  BY NextPayload
<1>3. IInv /\ PayloadInv /\ [Next]_vars => [Accepted!Next]_(Accepted!vars)
  BY NextRefines
<1> QED BY <1>1, <1>2, <1>3, InitRefines, Invariance, PTL
        DEF Spec, ImplementsAcceptedHistory, Accepted!Spec

----------------------------------------------------------------------------
(* The execution trace.                                                    *)

\* How many checkpoints have been recorded at each control point.
PreDepth == [preliminary |-> 0, load |-> 1, check |-> 4, prepare |-> 5, version |-> 6,
             insert |-> 6, waiting |-> 6, record |-> 7, commit |-> 8]
InDepth  == [check |-> 1, prepare |-> 2, load |-> 3, version |-> 5, insert |-> 5,
             waiting |-> 5, record |-> 6, commit |-> 7]

Running == ControlPoints \ {"new", "done"}

Depth(w, at) == IF IsPre(w) THEN PreDepth[at] ELSE InDepth[at]

Canonical(w) == CanonicalCheckpoints(ConfigOf(w).placement)

\* s is the beginning of the canonical order t.
Begins(s, t) == Len(s) <= Len(t) /\ \A n \in 1..Len(s) : s[n] = t[n]

\* What has been recorded when: the trace of a running invocation is as long as
\* its control point says, that of a finished one ends where its outcome allows.
TracedAt(w) ==
  /\ pc[w] = "new" => checkpoints[w] = <<>>
  /\ pc[w] = "preliminary" => IsPre(w)
  /\ pc[w] \in Running => Len(checkpoints[w]) = Depth(w, pc[w])
  /\ pc[w] # "new" => Begins(checkpoints[w], Canonical(w))
  /\ result[w].outcome \notin {"none", "RAISED"} =>
       /\ Len(checkpoints[w]) > 0
       /\ checkpoints[w][Len(checkpoints[w])]
            \in AllowedTerminals(ConfigOf(w).placement, result[w].outcome)

TraceInv == \A w \in Invocations : TracedAt(w)

\* The canonical orders, entry by entry.
LEMMA CanonicalEntries ==
  /\ LET t == CanonicalCheckpoints("PRE_TRANSACTION")
     IN  /\ t \in Seq(Checkpoints) /\ Len(t) = 8
         /\ t[1] = "PRELIMINARY_IDEMPOTENCY_CHECK_RETURNED" /\ t[2] = "ACCEPTED_HISTORY_OBSERVED"
         /\ t[3] = "VALIDATION_RETURNED" /\ t[4] = "BUSINESS_UOW_REACHED"
         /\ t[5] = "AUTHORITATIVE_IDEMPOTENCY_CHECK_RETURNED"
         /\ t[6] = "CONCURRENCY_PREPARATION_RETURNED" /\ t[7] = "APPEND_ADMISSION_RETURNED"
         /\ t[8] = "IDEMPOTENCY_PERSISTENCE_RETURNED"
  /\ LET t == CanonicalCheckpoints("IN_TRANSACTION")
     IN  /\ t \in Seq(Checkpoints) /\ Len(t) = 7
         /\ t[1] = "BUSINESS_UOW_REACHED" /\ t[2] = "AUTHORITATIVE_IDEMPOTENCY_CHECK_RETURNED"
         /\ t[3] = "CONCURRENCY_PREPARATION_RETURNED" /\ t[4] = "ACCEPTED_HISTORY_OBSERVED"
         /\ t[5] = "VALIDATION_RETURNED" /\ t[6] = "APPEND_ADMISSION_RETURNED"
         /\ t[7] = "IDEMPOTENCY_PERSISTENCE_RETURNED"
<1>1. CanonicalCheckpoints("PRE_TRANSACTION") \in Seq(Checkpoints)
  BY DEF CanonicalCheckpoints, Checkpoints
<1>2. CanonicalCheckpoints("IN_TRANSACTION") \in Seq(Checkpoints)
  BY DEF CanonicalCheckpoints, Checkpoints
<1> QED BY <1>1, <1>2 DEF CanonicalCheckpoints

\* The placement of an invocation that has begun.
LEMMA HeldPlacement ==
  ASSUME TypeOK, NEW w \in Invocations, Coupled(w), pc[w] # "new"
  PROVE  /\ IsPre(w) => ConfigOf(w).placement = "PRE_TRANSACTION"
         /\ ~IsPre(w) => ConfigOf(w).placement = "IN_TRANSACTION"
         /\ Canonical(w) \in Seq(Checkpoints)
<1>1. ConfigOf(w).placement \in Placements
  BY HeldCall, ConstantsAssumption
<1>2. /\ IsPre(w) => ConfigOf(w).placement = "PRE_TRANSACTION"
      /\ ~IsPre(w) => ConfigOf(w).placement = "IN_TRANSACTION"
  BY <1>1 DEF IsPre, Placements
<1> QED BY <1>2, CanonicalEntries DEF Canonical

\* The beginning of an order, read on.
LEMMA ReadOn ==
  ASSUME NEW s \in Seq(Checkpoints), NEW t \in Seq(Checkpoints), NEW more \in Seq(Checkpoints),
         Begins(s, t), Len(s) + Len(more) <= Len(t),
         \A k \in 1..Len(more) : more[k] = t[Len(s) + k]
  PROVE  /\ Begins(s \o more, t) /\ Len(s \o more) = Len(s) + Len(more)
         /\ more # <<>> => (s \o more)[Len(s \o more)] = more[Len(more)]
<1> DEFINE u == s \o more
<1>1. /\ u \in Seq(Checkpoints) /\ Len(u) = Len(s) + Len(more)
      /\ \A i \in 1..(Len(s) + Len(more)) :
           u[i] = IF i <= Len(s) THEN s[i] ELSE more[i - Len(s)]
  BY ConcatProperties
<1>2. Len(s) \in Nat /\ Len(more) \in Nat /\ Len(t) \in Nat
  OBVIOUS
<1> HIDE DEF u
<1>3. ASSUME NEW n \in 1..Len(u) PROVE u[n] = t[n]
  <2>1. CASE n <= Len(s)
    BY <1>1, <1>2, <2>1 DEF Begins
  <2>2. CASE n > Len(s)
    <3>1. n - Len(s) \in 1..Len(more) /\ Len(s) + (n - Len(s)) = n
      BY <1>1, <1>2, <2>2
    <3>2. u[n] = more[n - Len(s)]
      BY <1>1, <1>2, <2>2
    <3>3. more[n - Len(s)] = t[Len(s) + (n - Len(s))]
      BY <3>1
    <3> QED BY <3>1, <3>2, <3>3
  <2> QED BY <1>1, <1>2, <2>1, <2>2
<1>4. more # <<>> => u[Len(u)] = more[Len(more)]
  <2> SUFFICES ASSUME more # <<>> PROVE u[Len(u)] = more[Len(more)]
    OBVIOUS
  <2>1. Len(more) > 0
    OBVIOUS
  <2>2. Len(u) \in 1..(Len(s) + Len(more)) /\ ~(Len(u) <= Len(s)) /\ Len(u) - Len(s) = Len(more)
    BY <1>1, <1>2, <2>1
  <2> QED BY <1>1, <2>2
<1> QED BY <1>1, <1>3, <1>4 DEF Begins, u

\* The next checkpoints of w are more.
Fits(w, more) ==
  LET n == Depth(w, pc[w])
  IN  /\ n + Len(more) <= Len(Canonical(w))
      /\ \A k \in 1..Len(more) : more[k] = Canonical(w)[n + k]

\* What recording the right checkpoints does to the trace.
LEMMA Recorded ==
  ASSUME IInv, NEW w \in Invocations, TracedAt(w), pc[w] \in Running,
         NEW more \in Seq(Checkpoints), Fits(w, more),
         checkpoints'[w] = checkpoints[w] \o more, config' = config
  PROVE  /\ Begins(checkpoints[w], Canonical(w))'
         /\ Len(checkpoints'[w]) = Depth(w, pc[w]) + Len(more)
         /\ more # <<>> => checkpoints'[w][Len(checkpoints'[w])] = more[Len(more)]
         /\ IsPre(w)' = IsPre(w) /\ ConfigOf(w)' = ConfigOf(w)
<1>1. ConfigOf(w)' = ConfigOf(w)
  BY DEF ConfigOf
<1>2. IsPre(w)' = IsPre(w) /\ Canonical(w)' = Canonical(w)
  BY <1>1 DEF IsPre, Canonical
<1>3. pc[w] # "new" /\ checkpoints[w] \in Seq(Checkpoints) /\ Canonical(w) \in Seq(Checkpoints)
  BY HeldPlacement DEF IInv, TypeOK, Running
<1>4. Begins(checkpoints[w], Canonical(w)) /\ Len(checkpoints[w]) = Depth(w, pc[w])
  BY <1>3 DEF TracedAt
<1>5. /\ Begins(checkpoints[w] \o more, Canonical(w))
      /\ Len(checkpoints[w] \o more) = Len(checkpoints[w]) + Len(more)
      /\ more # <<>> =>
           (checkpoints[w] \o more)[Len(checkpoints[w] \o more)] = more[Len(more)]
  <2>1. PICK s \in Seq(Checkpoints), t \in Seq(Checkpoints) :
          s = checkpoints[w] /\ t = Canonical(w)
    BY <1>3
  <2>2. Len(s) + Len(more) <= Len(t) /\ \A k \in 1..Len(more) : more[k] = t[Len(s) + k]
    BY <1>4, <2>1 DEF Fits
  <2>3. Begins(s, t)
    BY <1>4, <2>1
  <2>4. /\ Begins(s \o more, t) /\ Len(s \o more) = Len(s) + Len(more)
        /\ more # <<>> => (s \o more)[Len(s \o more)] = more[Len(more)]
    BY <2>2, <2>3, ReadOn
  <2> QED BY <2>1, <2>4
<1>6. Begins(checkpoints'[w], Canonical(w)')
  BY <1>2, <1>5
<1>7. Begins(checkpoints[w], Canonical(w))'
  BY <1>6 DEF Begins
<1> QED BY <1>1, <1>2, <1>4, <1>5, <1>7

\* An invocation that records its checkpoints and goes on.
LEMMA TraceGoesOn ==
  ASSUME IInv, AnswersInv, NEW w \in Invocations, TracedAt(w), pc[w] \in Running,
         NEW more \in Seq(Checkpoints), Fits(w, more),
         checkpoints'[w] = checkpoints[w] \o more, config' = config,
         NEW next \in Running, Goto(w, next), next # "preliminary",
         Depth(w, next) = Depth(w, pc[w]) + Len(more)
  PROVE  TracedAt(w)'
<1>1. /\ Begins(checkpoints[w], Canonical(w))'
      /\ Len(checkpoints'[w]) = Depth(w, pc[w]) + Len(more)
      /\ IsPre(w)' = IsPre(w)
  BY Recorded
<1>2. pc'[w] = next /\ result' = result
  BY DEF Goto, IInv, TypeOK
<1>3. result[w].outcome = "none"
  BY DEF AnswersInv, Running, NoResult, Result
<1>4. Depth(w, pc[w])' = Depth(w, next)
  BY <1>1, <1>2 DEF Depth
<1>5. pc'[w] # "new" /\ pc'[w] # "preliminary"
  BY <1>2 DEF Running
<1> QED BY <1>1, <1>2, <1>3, <1>4, <1>5 DEF TracedAt

\* An invocation that records its checkpoints and returns.
LEMMA TraceEnds ==
  ASSUME IInv, NEW w \in Invocations, TracedAt(w), pc[w] \in Running,
         NEW more \in Seq(Checkpoints), Fits(w, more),
         checkpoints'[w] = checkpoints[w] \o more, config' = config,
         pc'[w] = "done", NEW r, result'[w] = r,
         r.outcome # "RAISED" =>
           /\ more # <<>>
           /\ more[Len(more)] \in AllowedTerminals(ConfigOf(w).placement, r.outcome)
  PROVE  TracedAt(w)'
<1>1. /\ Begins(checkpoints[w], Canonical(w))'
      /\ more # <<>> => checkpoints'[w][Len(checkpoints'[w])] = more[Len(more)]
      /\ ConfigOf(w)' = ConfigOf(w)
  BY Recorded
<1>2. AllowedTerminals(ConfigOf(w).placement, r.outcome)'
        = AllowedTerminals(ConfigOf(w).placement, r.outcome)
  BY <1>1
<1>3. pc'[w] \notin Running
  BY DEF Running
<1>4. r.outcome \notin {"none", "RAISED"} =>
        /\ Len(checkpoints'[w]) > 0
        /\ checkpoints'[w][Len(checkpoints'[w])]
             \in AllowedTerminals(ConfigOf(w).placement, r.outcome)'
  <2>1. more # <<>> => Len(more) > 0
    OBVIOUS
  <2>2. Len(checkpoints'[w]) = Len(checkpoints[w]) + Len(more)
    BY DEF IInv, TypeOK
  <2>3. Len(checkpoints[w]) \in Nat /\ Len(more) \in Nat
    BY DEF IInv, TypeOK
  <2> QED BY <1>1, <1>2, <2>1, <2>2, <2>3
<1>5. (result[w].outcome \notin {"none", "RAISED"} =>
        /\ Len(checkpoints[w]) > 0
        /\ checkpoints[w][Len(checkpoints[w])]
             \in AllowedTerminals(ConfigOf(w).placement, result[w].outcome))'
  BY <1>4
<1> QED BY <1>1, <1>3, <1>5 DEF TracedAt, Running

\* An invocation that fails leaves its trace as it is.
LEMMA TraceFails ==
  ASSUME IInv, NEW w \in Invocations, TracedAt(w), pc[w] \in Running,
         checkpoints' = checkpoints, config' = config, Raise(w)
  PROVE  TracedAt(w)'
<1>1. pc'[w] = "done" /\ result'[w] = Outcome("RAISED", NoEvent)
  BY DEF Raise, RollbackAndReturn, IInv, TypeOK
<1>2. ConfigOf(w)' = ConfigOf(w)
  BY DEF ConfigOf
<1>3. Canonical(w)' = Canonical(w)
  BY <1>2 DEF Canonical
<1>4. Begins(checkpoints[w], Canonical(w))
  BY DEF TracedAt, Running
<1>5. Begins(checkpoints[w], Canonical(w))'
  BY <1>3, <1>4 DEF Begins
<1>6. result'[w].outcome = "RAISED"
  BY <1>1, ResultFields
<1> QED BY <1>1, <1>5, <1>6 DEF TracedAt, Running

\* The checkpoints an action records at a control point are the canonical ones.
LEMMA FitsOne ==
  ASSUME NEW w, NEW x, NEW n \in Nat, Depth(w, pc[w]) = n, n + 1 <= Len(Canonical(w)),
         Canonical(w)[n + 1] = x
  PROVE  Fits(w, <<x>>)
<1> DEFINE more == <<x>>
<1>1. Len(more) = 1 /\ more[1] = x
  OBVIOUS
<1> HIDE DEF more
<1>2. Fits(w, more)
  BY <1>1 DEF Fits
<1> QED BY <1>2 DEF more

\* What the canonical order says at the control point of w, by placement.
LEMMA CanonicalAt ==
  ASSUME IInv, NEW w \in Invocations, pc[w] \in Running
  PROVE  /\ IsPre(w) =>
              /\ ConfigOf(w).placement = "PRE_TRANSACTION" /\ Len(Canonical(w)) = 8
              /\ Canonical(w)[1] = "PRELIMINARY_IDEMPOTENCY_CHECK_RETURNED"
              /\ Canonical(w)[2] = "ACCEPTED_HISTORY_OBSERVED"
              /\ Canonical(w)[3] = "VALIDATION_RETURNED"
              /\ Canonical(w)[4] = "BUSINESS_UOW_REACHED"
              /\ Canonical(w)[5] = "AUTHORITATIVE_IDEMPOTENCY_CHECK_RETURNED"
              /\ Canonical(w)[6] = "CONCURRENCY_PREPARATION_RETURNED"
              /\ Canonical(w)[7] = "APPEND_ADMISSION_RETURNED"
              /\ Canonical(w)[8] = "IDEMPOTENCY_PERSISTENCE_RETURNED"
         /\ ~IsPre(w) =>
              /\ ConfigOf(w).placement = "IN_TRANSACTION" /\ Len(Canonical(w)) = 7
              /\ Canonical(w)[1] = "BUSINESS_UOW_REACHED"
              /\ Canonical(w)[2] = "AUTHORITATIVE_IDEMPOTENCY_CHECK_RETURNED"
              /\ Canonical(w)[3] = "CONCURRENCY_PREPARATION_RETURNED"
              /\ Canonical(w)[4] = "ACCEPTED_HISTORY_OBSERVED"
              /\ Canonical(w)[5] = "VALIDATION_RETURNED"
              /\ Canonical(w)[6] = "APPEND_ADMISSION_RETURNED"
              /\ Canonical(w)[7] = "IDEMPOTENCY_PERSISTENCE_RETURNED"
<1>1. /\ IsPre(w) => ConfigOf(w).placement = "PRE_TRANSACTION"
      /\ ~IsPre(w) => ConfigOf(w).placement = "IN_TRANSACTION"
  BY HeldPlacement DEF IInv, Running
<1> QED BY <1>1, CanonicalEntries DEF Canonical

\* Depths and terminals, evaluated.
LEMMA Depths ==
  ASSUME NEW w
  PROVE  /\ IsPre(w) =>
              /\ Depth(w, "preliminary") = 0 /\ Depth(w, "load") = 1 /\ Depth(w, "check") = 4
              /\ Depth(w, "prepare") = 5 /\ Depth(w, "version") = 6 /\ Depth(w, "insert") = 6
              /\ Depth(w, "waiting") = 6 /\ Depth(w, "record") = 7 /\ Depth(w, "commit") = 8
         /\ ~IsPre(w) =>
              /\ Depth(w, "check") = 1 /\ Depth(w, "prepare") = 2 /\ Depth(w, "load") = 3
              /\ Depth(w, "version") = 5 /\ Depth(w, "insert") = 5 /\ Depth(w, "waiting") = 5
              /\ Depth(w, "record") = 6 /\ Depth(w, "commit") = 7
BY DEF Depth, PreDepth, InDepth

\* The checkpoints at which each outcome may be returned, one by one.
LEMMA Terminals ==
  /\ \A p : /\ "AUTHORITATIVE_IDEMPOTENCY_CHECK_RETURNED" \in AllowedTerminals(p, "REPLAY")
            /\ "AUTHORITATIVE_IDEMPOTENCY_CHECK_RETURNED" \in AllowedTerminals(p, "CONFLICT")
            /\ "VALIDATION_RETURNED" \in AllowedTerminals(p, "VALIDATION_BLOCKED")
            /\ "CONCURRENCY_PREPARATION_RETURNED" \in AllowedTerminals(p, "ADMISSION_REJECTED")
            /\ "APPEND_ADMISSION_RETURNED" \in AllowedTerminals(p, "ADMISSION_REJECTED")
            /\ "IDEMPOTENCY_PERSISTENCE_RETURNED" \in AllowedTerminals(p, "ACCEPTED")
  /\ "PRELIMINARY_IDEMPOTENCY_CHECK_RETURNED" \in AllowedTerminals("PRE_TRANSACTION", "REPLAY")
  /\ "PRELIMINARY_IDEMPOTENCY_CHECK_RETURNED" \in AllowedTerminals("PRE_TRANSACTION", "CONFLICT")
BY DEF AllowedTerminals

\* A checkpoint recorded by w is appended to its trace.
LEMMA RecordedTrace ==
  ASSUME IInv, NEW w \in Invocations, NEW more, RecordCheckpoints(w, more)
  PROVE  /\ checkpoints'[w] = checkpoints[w] \o more
         /\ \A x \in Invocations \ {w} : checkpoints'[x] = checkpoints[x]
BY DEF RecordCheckpoints, IInv, TypeOK

\* A single checkpoint, and what follows it.
LEMMA OneCheckpoint ==
  ASSUME IInv, AnswersInv, NEW w \in Invocations, TracedAt(w), pc[w] \in Running,
         NEW x \in Checkpoints, RecordCheckpoints(w, <<x>>), config' = config,
         NEW n \in Nat, Depth(w, pc[w]) = n, n + 1 <= Len(Canonical(w)),
         Canonical(w)[n + 1] = x,
         \/ \E next \in Running \ {"preliminary"} : Goto(w, next) /\ Depth(w, next) = n + 1
         \/ \E r : /\ RollbackAndReturn(w, r)
                   /\ r.outcome # "RAISED" =>
                        x \in AllowedTerminals(ConfigOf(w).placement, r.outcome)
  PROVE  TracedAt(w)'
<1> DEFINE more == <<x>>
<1>1. more \in Seq(Checkpoints) /\ Len(more) = 1 /\ more[1] = x /\ more # <<>>
  OBVIOUS
<1>2. Fits(w, more)
  BY FitsOne
<1>3. checkpoints'[w] = checkpoints[w] \o more
  BY RecordedTrace
<1> HIDE DEF more
<1>4. CASE \E next \in Running \ {"preliminary"} : Goto(w, next) /\ Depth(w, next) = n + 1
  BY <1>1, <1>2, <1>3, <1>4, TraceGoesOn
<1>5. CASE \E r : /\ RollbackAndReturn(w, r)
                  /\ r.outcome # "RAISED" =>
                       x \in AllowedTerminals(ConfigOf(w).placement, r.outcome)
  <2>1. PICK r : /\ RollbackAndReturn(w, r)
                 /\ r.outcome # "RAISED" =>
                      x \in AllowedTerminals(ConfigOf(w).placement, r.outcome)
    BY <1>5
  <2>2. pc'[w] = "done" /\ result'[w] = r
    BY <2>1 DEF RollbackAndReturn, IInv, TypeOK
  <2>3. r.outcome # "RAISED" =>
          more # <<>> /\ more[Len(more)] \in AllowedTerminals(ConfigOf(w).placement, r.outcome)
    BY <1>1, <2>1
  <2> QED BY <1>1, <1>2, <1>3, <2>2, <2>3, TraceEnds
<1> QED BY <1>4, <1>5

\* The control points that are passed on the way.
LEMMA RunningPoints ==
  \A at \in {"preliminary", "load", "check", "prepare", "version", "insert", "waiting",
             "record", "commit"} : at \in Running
BY DEF Running, ControlPoints

\* create_order and pay_order open the trace, with the first checkpoint when
\* the write transaction is entered at once.
LEMMA BeginTraced ==
  ASSUME IInv, AnswersInv, NEW w \in Invocations, TracedAt(w), Begin(w)
  PROVE  TracedAt(w)'
<1>1. PICK c \in Commands, k \in Configs :
      /\ config'  = [config EXCEPT ![w] = {k}]
      /\ IF k.placement = "IN_TRANSACTION"
         THEN Goto(w, "check") /\ RecordCheckpoints(w, <<"BUSINESS_UOW_REACHED">>)
         ELSE Goto(w, "preliminary") /\ UNCHANGED checkpoints
  BY DEF Begin
<1>2. pc[w] = "new" /\ checkpoints[w] = <<>> /\ result' = result /\ result[w].outcome = "none"
  BY <1>1 DEF Begin, TracedAt, Goto, AnswersInv, NoResult, Result
<1>3. config'[w] = {k}
  BY <1>1 DEF IInv, TypeOK
<1>4. ConfigOf(w)' = k
  BY <1>3 DEF ConfigOf
<1>5. k.placement \in Placements
  BY ConstantsAssumption
<1>6. CASE k.placement = "IN_TRANSACTION"
  <2>1. pc'[w] = "check" /\ checkpoints'[w] = <<>> \o <<"BUSINESS_UOW_REACHED">>
    BY <1>1, <1>2, <1>6, RecordedTrace, ZenonT(40) DEF Goto, IInv, TypeOK
  <2>2. checkpoints'[w] = <<"BUSINESS_UOW_REACHED">>
    BY <2>1
  <2>3. ~IsPre(w)'
    BY <1>4, <1>6 DEF IsPre
  <2>4. Depth(w, pc[w])' = 1
    BY <2>1, <2>3 DEF Depth, InDepth
  <2>5. Len(checkpoints'[w]) = 1 /\ checkpoints'[w][1] = "BUSINESS_UOW_REACHED"
    BY <2>2
  <2>6. Canonical(w)' = CanonicalCheckpoints("IN_TRANSACTION")
    BY <1>4, <1>6 DEF Canonical
  <2>7. Begins(checkpoints'[w], Canonical(w)')
    BY <2>5, <2>6, CanonicalEntries DEF Begins
  <2>8. Begins(checkpoints[w], Canonical(w))'
    BY <2>7 DEF Begins
  <2> QED BY <1>2, <2>1, <2>4, <2>5, <2>8 DEF TracedAt
<1>7. CASE k.placement = "PRE_TRANSACTION"
  <2>1. pc'[w] = "preliminary" /\ checkpoints'[w] = <<>>
    BY <1>1, <1>2, <1>7 DEF Goto, IInv, TypeOK
  <2>2. IsPre(w)'
    BY <1>4, <1>7 DEF IsPre
  <2>3. Depth(w, pc[w])' = 0
    BY <2>1, <2>2 DEF Depth, PreDepth
  <2>4. Canonical(w)' = CanonicalCheckpoints("PRE_TRANSACTION")
    BY <1>4, <1>7 DEF Canonical
  <2>5. Begins(checkpoints'[w], Canonical(w)')
    BY <2>1, <2>4, CanonicalEntries DEF Begins
  <2>6. Begins(checkpoints[w], Canonical(w))'
    BY <2>5 DEF Begins
  <2> QED BY <1>2, <2>1, <2>2, <2>3, <2>6 DEF TracedAt
<1> QED BY <1>5, <1>6, <1>7 DEF Placements

\* The preliminary idempotency check records its checkpoint before it decides.
LEMMA PreliminaryTraced ==
  ASSUME IInv, AnswersInv, NEW w \in Invocations, TracedAt(w), PreliminaryCheck(w)
  PROVE  TracedAt(w)'
<1>1. /\ pc[w] = "preliminary" /\ config' = config /\ IsPre(w) /\ pc[w] \in Running
      /\ RecordCheckpoints(w, <<"PRELIMINARY_IDEMPOTENCY_CHECK_RETURNED">>)
      /\ CheckIdempotency(w, "load")
  BY RunningPoints DEF PreliminaryCheck, call, TracedAt
<1>2. /\ Depth(w, pc[w]) = 0 /\ Len(Canonical(w)) = 8 /\ Depth(w, "load") = 1
      /\ Canonical(w)[1] = "PRELIMINARY_IDEMPOTENCY_CHECK_RETURNED"
      /\ ConfigOf(w).placement = "PRE_TRANSACTION"
  BY <1>1, CanonicalAt, Depths
<1>3. \/ \E next \in Running \ {"preliminary"} : Goto(w, next) /\ Depth(w, next) = 0 + 1
      \/ \E r : /\ RollbackAndReturn(w, r)
                /\ r.outcome # "RAISED" =>
                     "PRELIMINARY_IDEMPOTENCY_CHECK_RETURNED"
                       \in AllowedTerminals(ConfigOf(w).placement, r.outcome)
  BY <1>1, <1>2, Terminals, RunningPoints, ResultFields, SMTT(30) DEF CheckIdempotency
<1>4. "PRELIMINARY_IDEMPOTENCY_CHECK_RETURNED" \in Checkpoints
  BY DEF Checkpoints
<1> QED BY <1>1, <1>2, <1>3, <1>4, OneCheckpoint

\* The authoritative idempotency check records its checkpoint before it decides.
LEMMA AuthoritativeTraced ==
  ASSUME IInv, AnswersInv, NEW w \in Invocations, TracedAt(w), AuthoritativeCheck(w)
  PROVE  TracedAt(w)'
<1>1. /\ pc[w] = "check" /\ config' = config /\ pc[w] \in Running
      /\ RecordCheckpoints(w, <<"AUTHORITATIVE_IDEMPOTENCY_CHECK_RETURNED">>)
      /\ CheckIdempotency(w, "prepare")
  BY RunningPoints DEF AuthoritativeCheck, call
<1>2. PICK n \in Nat :
        /\ Depth(w, pc[w]) = n /\ n + 1 <= Len(Canonical(w)) /\ Depth(w, "prepare") = n + 1
        /\ Canonical(w)[n + 1] = "AUTHORITATIVE_IDEMPOTENCY_CHECK_RETURNED"
  <2>1. CASE IsPre(w)
    BY <1>1, <2>1, CanonicalAt, Depths
  <2>2. CASE ~IsPre(w)
    BY <1>1, <2>2, CanonicalAt, Depths
  <2> QED BY <2>1, <2>2
<1>3. \/ \E next \in Running \ {"preliminary"} : Goto(w, next) /\ Depth(w, next) = n + 1
      \/ \E r : /\ RollbackAndReturn(w, r)
                /\ r.outcome # "RAISED" =>
                     "AUTHORITATIVE_IDEMPOTENCY_CHECK_RETURNED"
                       \in AllowedTerminals(ConfigOf(w).placement, r.outcome)
  BY <1>1, <1>2, Terminals, RunningPoints, ResultFields, SMTT(30) DEF CheckIdempotency
<1>4. "AUTHORITATIVE_IDEMPOTENCY_CHECK_RETURNED" \in Checkpoints
  BY DEF Checkpoints
<1> QED BY <1>1, <1>2, <1>3, <1>4, OneCheckpoint

\* prepare_stream records its checkpoint also when the stream lock is busy.
LEMMA PrepareTraced ==
  ASSUME IInv, AnswersInv, NEW w \in Invocations, TracedAt(w), PrepareStream(w)
  PROVE  TracedAt(w)'
<1>1. /\ pc[w] = "prepare" /\ config' = config /\ pc[w] \in Running
      /\ RecordCheckpoints(w, <<"CONCURRENCY_PREPARATION_RETURNED">>)
      /\ \/ RollbackAndReturn(w, AdmissionRejected("LOCK_TIMEOUT", <<>>))
         \/ IsPre(w) /\ Goto(w, "version")
         \/ ~IsPre(w) /\ Goto(w, "load")
  BY RunningPoints DEF PrepareStream, call
<1>2. PICK n \in Nat :
        /\ Depth(w, pc[w]) = n /\ n + 1 <= Len(Canonical(w))
        /\ IsPre(w) => Depth(w, "version") = n + 1
        /\ ~IsPre(w) => Depth(w, "load") = n + 1
        /\ Canonical(w)[n + 1] = "CONCURRENCY_PREPARATION_RETURNED"
  <2>1. CASE IsPre(w)
    BY <1>1, <2>1, CanonicalAt, Depths
  <2>2. CASE ~IsPre(w)
    BY <1>1, <2>2, CanonicalAt, Depths
  <2> QED BY <2>1, <2>2
<1>3. \/ \E next \in Running \ {"preliminary"} : Goto(w, next) /\ Depth(w, next) = n + 1
      \/ \E r : /\ RollbackAndReturn(w, r)
                /\ r.outcome # "RAISED" =>
                     "CONCURRENCY_PREPARATION_RETURNED"
                       \in AllowedTerminals(ConfigOf(w).placement, r.outcome)
  BY <1>1, <1>2, Terminals, RunningPoints, ResultFields
<1>4. "CONCURRENCY_PREPARATION_RETURNED" \in Checkpoints
  BY DEF Checkpoints
<1> QED BY <1>1, <1>2, <1>3, <1>4, OneCheckpoint

\* Loading, rehydrating and validating: two checkpoints, three when the write
\* transaction begins only then, one when the handler raises.
LEMMA LoadTraced ==
  ASSUME IInv, AnswersInv, NEW w \in Invocations, TracedAt(w), Load(w)
  PROVE  TracedAt(w)'
<1> DEFINE two   == <<"ACCEPTED_HISTORY_OBSERVED", "VALIDATION_RETURNED">>
           three == two \o <<"BUSINESS_UOW_REACHED">>
<1>1. pc[w] = "load" /\ config' = config /\ pc[w] \in Running
  BY RunningPoints DEF Load, call
<1>2. \/ RecordCheckpoints(w, <<"ACCEPTED_HISTORY_OBSERVED">>) /\ Raise(w)
      \/ /\ RecordCheckpoints(w, two)
         /\ RollbackAndReturn(w, Outcome("VALIDATION_BLOCKED", NoEvent))
      \/ IsPre(w) /\ RecordCheckpoints(w, three) /\ Goto(w, "check")
      \/ ~IsPre(w) /\ RecordCheckpoints(w, two) /\ Goto(w, "version")
  BY Zenon DEF Load
<1>3. /\ two \in Seq(Checkpoints) /\ Len(two) = 2 /\ two # <<>>
      /\ two[1] = "ACCEPTED_HISTORY_OBSERVED" /\ two[2] = "VALIDATION_RETURNED"
  BY DEF Checkpoints
<1>4. /\ three \in Seq(Checkpoints) /\ Len(three) = 3
      /\ three[1] = "ACCEPTED_HISTORY_OBSERVED" /\ three[2] = "VALIDATION_RETURNED"
      /\ three[3] = "BUSINESS_UOW_REACHED"
  BY DEF Checkpoints
<1> HIDE DEF two, three
<1>5. PICK n \in Nat :
        /\ Depth(w, pc[w]) = n /\ n + 2 <= Len(Canonical(w))
        /\ Canonical(w)[n + 1] = "ACCEPTED_HISTORY_OBSERVED"
        /\ Canonical(w)[n + 2] = "VALIDATION_RETURNED"
        /\ IsPre(w) => /\ Depth(w, "check") = n + 3 /\ n + 3 <= Len(Canonical(w))
                       /\ Canonical(w)[n + 3] = "BUSINESS_UOW_REACHED"
        /\ ~IsPre(w) => Depth(w, "version") = n + 2
  <2>1. CASE IsPre(w)
    BY <1>1, <2>1, CanonicalAt, Depths, SMTT(30)
  <2>2. CASE ~IsPre(w)
    BY <1>1, <2>2, CanonicalAt, Depths
  <2> QED BY <2>1, <2>2
<1>6. Fits(w, two)
  BY <1>3, <1>5 DEF Fits
<1>7. CASE RecordCheckpoints(w, <<"ACCEPTED_HISTORY_OBSERVED">>) /\ Raise(w)
  <2>1. RollbackAndReturn(w, Outcome("RAISED", NoEvent))
        /\ Outcome("RAISED", NoEvent).outcome = "RAISED"
    BY <1>7, ResultFields DEF Raise
  <2>2. n + 1 <= Len(Canonical(w))
    <3>1. Len(Canonical(w)) \in Nat
      BY <1>1, CanonicalAt
    <3> QED BY <1>5, <3>1
  <2>3. "ACCEPTED_HISTORY_OBSERVED" \in Checkpoints
    BY DEF Checkpoints
  <2> QED BY <1>1, <1>5, <1>7, <2>1, <2>2, <2>3, OneCheckpoint
<1>8. CASE /\ RecordCheckpoints(w, two)
           /\ RollbackAndReturn(w, Outcome("VALIDATION_BLOCKED", NoEvent))
  <2>1. checkpoints'[w] = checkpoints[w] \o two
    BY <1>8, RecordedTrace
  <2>2. PICK r : pc'[w] = "done" /\ result'[w] = r /\ r.outcome = "VALIDATION_BLOCKED"
    <3>1. pc'[w] = "done" /\ result'[w] = Outcome("VALIDATION_BLOCKED", NoEvent)
      BY <1>8 DEF RollbackAndReturn, IInv, TypeOK
    <3> QED BY <3>1, ResultFields
  <2>3. two[Len(two)] \in AllowedTerminals(ConfigOf(w).placement, r.outcome)
    BY <1>3, <2>2, Terminals
  <2> QED BY <1>1, <1>3, <1>6, <2>1, <2>2, <2>3, TraceEnds
<1>9. CASE IsPre(w) /\ RecordCheckpoints(w, three) /\ Goto(w, "check")
  <2>1. checkpoints'[w] = checkpoints[w] \o three
    BY <1>9, RecordedTrace
  <2>2. Fits(w, three)
    BY <1>4, <1>5, <1>9 DEF Fits
  <2>3. Depth(w, "check") = Depth(w, pc[w]) + Len(three)
    BY <1>4, <1>5, <1>9
  <2> QED BY <1>1, <1>4, <1>9, <2>1, <2>2, <2>3, TraceGoesOn, RunningPoints
<1>10. CASE ~IsPre(w) /\ RecordCheckpoints(w, two) /\ Goto(w, "version")
  <2>1. checkpoints'[w] = checkpoints[w] \o two
    BY <1>10, RecordedTrace
  <2>2. Depth(w, "version") = Depth(w, pc[w]) + Len(two)
    BY <1>3, <1>5, <1>10
  <2> QED BY <1>1, <1>3, <1>6, <1>10, <2>1, <2>2, TraceGoesOn, RunningPoints
<1> QED BY <1>2, <1>7, <1>8, <1>9, <1>10

\* A step between two control points of the same depth records nothing.
LEMMA NoCheckpoint ==
  ASSUME IInv, AnswersInv, NEW w \in Invocations, TracedAt(w), pc[w] \in Running,
         checkpoints' = checkpoints, config' = config,
         NEW next \in Running, Goto(w, next), next # "preliminary",
         Depth(w, next) = Depth(w, pc[w])
  PROVE  TracedAt(w)'
<1>1. pc'[w] = next /\ result' = result
  BY DEF Goto, IInv, TypeOK
<1>2. result[w].outcome = "none"
  BY DEF AnswersInv, Running, NoResult, Result
<1>3. ConfigOf(w)' = ConfigOf(w)
  BY DEF ConfigOf
<1>4. IsPre(w)' = IsPre(w) /\ Canonical(w)' = Canonical(w)
  BY <1>3 DEF IsPre, Canonical
<1>5. Depth(w, pc[w])' = Depth(w, next)
  BY <1>1, <1>4 DEF Depth
<1>6. Begins(checkpoints[w], Canonical(w)) /\ Len(checkpoints[w]) = Depth(w, pc[w])
  BY DEF TracedAt, Running
<1>7. Begins(checkpoints[w], Canonical(w))'
  BY <1>4, <1>6 DEF Begins
<1>8. pc'[w] # "new" /\ pc'[w] # "preliminary"
  BY <1>1 DEF Running
<1> QED BY <1>1, <1>2, <1>5, <1>6, <1>7, <1>8 DEF TracedAt

\* Admission of the append: its checkpoint is recorded by whichever statement
\* of append ends it.
LEMMA AppendTraced ==
  ASSUME IInv, AnswersInv, NEW w \in Invocations, TracedAt(w), config' = config,
         pc[w] \in {"version", "insert", "waiting"},
         \/ checkpoints' = checkpoints /\ (Goto(w, "insert") \/ Goto(w, "waiting"))
         \/ /\ RecordCheckpoints(w, <<"APPEND_ADMISSION_RETURNED">>)
            /\ \/ Goto(w, "record")
               \/ \E v, m : RollbackAndReturn(w, AdmissionRejected(v, m))
  PROVE  TracedAt(w)'
<1>1. pc[w] \in Running
  BY RunningPoints
<1>2. PICK n \in Nat :
        /\ Depth(w, pc[w]) = n /\ n + 1 <= Len(Canonical(w))
        /\ Depth(w, "insert") = n /\ Depth(w, "waiting") = n /\ Depth(w, "record") = n + 1
        /\ Canonical(w)[n + 1] = "APPEND_ADMISSION_RETURNED"
  <2>1. CASE IsPre(w)
    BY <1>1, <2>1, CanonicalAt, Depths
  <2>2. CASE ~IsPre(w)
    BY <1>1, <2>2, CanonicalAt, Depths
  <2> QED BY <2>1, <2>2
<1>3. CASE checkpoints' = checkpoints /\ (Goto(w, "insert") \/ Goto(w, "waiting"))
  BY <1>1, <1>2, <1>3, NoCheckpoint, RunningPoints
<1>4. CASE /\ RecordCheckpoints(w, <<"APPEND_ADMISSION_RETURNED">>)
           /\ \/ Goto(w, "record")
              \/ \E v, m : RollbackAndReturn(w, AdmissionRejected(v, m))
  <2>1. \/ \E next \in Running \ {"preliminary"} : Goto(w, next) /\ Depth(w, next) = n + 1
        \/ \E r : /\ RollbackAndReturn(w, r)
                  /\ r.outcome # "RAISED" =>
                       "APPEND_ADMISSION_RETURNED"
                         \in AllowedTerminals(ConfigOf(w).placement, r.outcome)
    BY <1>2, <1>4, Terminals, RunningPoints, ResultFields
  <2>2. "APPEND_ADMISSION_RETURNED" \in Checkpoints
    BY DEF Checkpoints
  <2> QED BY <1>1, <1>2, <1>4, <2>1, <2>2, OneCheckpoint
<1> QED BY <1>3, <1>4

\* Recording the idempotency row: a duplicate raises before its checkpoint.
LEMMA RecordTraced ==
  ASSUME IInv, AnswersInv, NEW w \in Invocations, TracedAt(w), RecordIdempotency(w)
  PROVE  TracedAt(w)'
<1>1. /\ pc[w] = "record" /\ config' = config /\ pc[w] \in Running
      /\ \/ Raise(w) /\ checkpoints' = checkpoints
         \/ /\ RecordCheckpoints(w, <<"IDEMPOTENCY_PERSISTENCE_RETURNED">>)
            /\ Goto(w, "commit")
  BY RunningPoints DEF RecordIdempotency, call
<1>2. PICK n \in Nat :
        /\ Depth(w, pc[w]) = n /\ n + 1 <= Len(Canonical(w)) /\ Depth(w, "commit") = n + 1
        /\ Canonical(w)[n + 1] = "IDEMPOTENCY_PERSISTENCE_RETURNED"
  <2>1. CASE IsPre(w)
    BY <1>1, <2>1, CanonicalAt, Depths
  <2>2. CASE ~IsPre(w)
    BY <1>1, <2>2, CanonicalAt, Depths
  <2> QED BY <2>1, <2>2
<1>3. "IDEMPOTENCY_PERSISTENCE_RETURNED" \in Checkpoints
  BY DEF Checkpoints
<1>4. CASE Raise(w) /\ checkpoints' = checkpoints
  BY <1>1, <1>4, TraceFails
<1>5. CASE RecordCheckpoints(w, <<"IDEMPOTENCY_PERSISTENCE_RETURNED">>) /\ Goto(w, "commit")
  BY <1>1, <1>2, <1>3, <1>5, OneCheckpoint, RunningPoints
<1> QED BY <1>1, <1>4, <1>5

\* The commit delivers the prepared result: the whole canonical order has been
\* recorded by then, and its last checkpoint allows ACCEPTED.
LEMMA CommitTraced ==
  ASSUME IInv, AnswersInv, NEW w \in Invocations, TracedAt(w),
         Commit(w) \/ CommitUnacknowledged(w)
  PROVE  TracedAt(w)'
<1>1. /\ pc[w] = "commit" /\ config' = config /\ checkpoints' = checkpoints
      /\ pc[w] \in Running /\ pc'[w] = "done"
      /\ \/ result'[w] = Outcome("ACCEPTED", TheCandidate(w).event_id)
         \/ result'[w] = Outcome("RAISED", NoEvent)
  BY RunningPoints DEF Commit, CommitUnacknowledged, Publish, call, IInv, TypeOK
<1>2. ConfigOf(w)' = ConfigOf(w)
  BY <1>1 DEF ConfigOf
<1>3. Canonical(w)' = Canonical(w)
  BY <1>2 DEF Canonical
<1>4. Begins(checkpoints[w], Canonical(w)) /\ Len(checkpoints[w]) = Depth(w, pc[w])
  BY <1>1 DEF TracedAt
<1>5. /\ Len(checkpoints[w]) \in Nat /\ Len(checkpoints[w]) > 0
      /\ Canonical(w)[Len(checkpoints[w])] = "IDEMPOTENCY_PERSISTENCE_RETURNED"
  BY <1>1, <1>4, CanonicalAt, Depths
<1>6. checkpoints[w][Len(checkpoints[w])] = "IDEMPOTENCY_PERSISTENCE_RETURNED"
  BY <1>4, <1>5 DEF Begins
<1>7. Begins(checkpoints[w], Canonical(w))'
  BY <1>1, <1>3, <1>4 DEF Begins
<1>8. result'[w].outcome \in {"ACCEPTED", "RAISED"}
  BY <1>1, ResultFields
<1>9. (result[w].outcome \notin {"none", "RAISED"} =>
        /\ Len(checkpoints[w]) > 0
        /\ checkpoints[w][Len(checkpoints[w])]
             \in AllowedTerminals(ConfigOf(w).placement, result[w].outcome))'
  BY <1>1, <1>5, <1>6, <1>8, Terminals
<1> QED BY <1>1, <1>7, <1>9 DEF TracedAt, Running

\* The trace of the invocation that takes the step.
LEMMA OwnTrace ==
  ASSUME IInv, AnswersInv, NEW w \in Invocations, TracedAt(w),
         Begin(w) \/ Step(w) \/ InsertLockTimeout(w) \/ CommitUnacknowledged(w) \/ Fail(w)
  PROVE  TracedAt(w)'
<1>1. CASE Begin(w)
  BY <1>1, BeginTraced
<1>2. CASE PreliminaryCheck(w)
  BY <1>2, PreliminaryTraced
<1>3. CASE Load(w)
  BY <1>3, LoadTraced
<1>4. CASE AuthoritativeCheck(w)
  BY <1>4, AuthoritativeTraced
<1>5. CASE PrepareStream(w)
  BY <1>5, PrepareTraced
<1>6. CASE AppendVersionCheck(w)
  <2>1. /\ config' = config /\ pc[w] = "version"
        /\ \/ checkpoints' = checkpoints /\ Goto(w, "insert")
           \/ /\ RecordCheckpoints(w, <<"APPEND_ADMISSION_RETURNED">>)
              /\ \E v, m : RollbackAndReturn(w, AdmissionRejected(v, m))
    BY <1>6, Zenon DEF AppendVersionCheck, call
  <2> QED BY <2>1, AppendTraced
<1>7. CASE InsertEvent(w) \/ InsertResumes(w) \/ InsertLockTimeout(w)
  <2>1. /\ config' = config /\ pc[w] \in {"insert", "waiting"}
        /\ RecordCheckpoints(w, <<"APPEND_ADMISSION_RETURNED">>)
        /\ \/ Goto(w, "record")
           \/ \E v, m : RollbackAndReturn(w, AdmissionRejected(v, m))
    BY <1>7, Zenon DEF InsertEvent, InsertResumes, InsertLockTimeout, FinishInsert, call
  <2> QED BY <2>1, AppendTraced
<1>8. CASE InsertWaits(w)
  <2>1. config' = config /\ pc[w] = "insert" /\ checkpoints' = checkpoints /\ Goto(w, "waiting")
    BY <1>8 DEF InsertWaits, call
  <2> QED BY <2>1, AppendTraced
<1>9. CASE RecordIdempotency(w)
  BY <1>9, RecordTraced
<1>10. CASE Commit(w) \/ CommitUnacknowledged(w)
  BY <1>10, CommitTraced
<1>11. CASE Fail(w)
  <2>1. /\ config' = config /\ checkpoints' = checkpoints /\ Raise(w)
        /\ pc[w] \in Running
    BY <1>11 DEF Fail, call, Running, IInv, TypeOK
  <2> QED BY <2>1, TraceFails
<1> QED BY <1>1, <1>2, <1>3, <1>4, <1>5, <1>6, <1>7, <1>8, <1>9, <1>10, <1>11 DEF Step

\* No step of w touches the trace, the control point, the configuration or the
\* result of another invocation.
LEMMA OthersUntouched ==
  ASSUME IInv, NEW w \in Invocations, NEW x \in Invocations \ {w},
         Begin(w) \/ Step(w) \/ InsertLockTimeout(w) \/ CommitUnacknowledged(w) \/ Fail(w)
  PROVE  /\ pc'[x] = pc[x] /\ checkpoints'[x] = checkpoints[x]
         /\ config'[x] = config[x] /\ result'[x] = result[x]
<1> USE DEF Goto, RollbackAndReturn, Raise, RecordCheckpoints, call, IInv, TypeOK
<1>1. CASE Begin(w)
  BY <1>1 DEF Begin
<1>2. CASE PreliminaryCheck(w) \/ AuthoritativeCheck(w)
  BY <1>2 DEF PreliminaryCheck, AuthoritativeCheck, CheckIdempotency
<1>3. CASE Load(w)
  BY <1>3 DEF Load
<1>4. CASE PrepareStream(w) \/ AppendVersionCheck(w)
  BY <1>4 DEF PrepareStream, AppendVersionCheck
<1>5. CASE InsertEvent(w) \/ InsertResumes(w) \/ InsertLockTimeout(w) \/ InsertWaits(w)
  BY <1>5 DEF InsertEvent, InsertResumes, InsertLockTimeout, InsertWaits, FinishInsert
<1>6. CASE RecordIdempotency(w) \/ Commit(w) \/ CommitUnacknowledged(w) \/ Fail(w)
  BY <1>6 DEF RecordIdempotency, Commit, CommitUnacknowledged, Publish, Fail
<1> QED BY <1>1, <1>2, <1>3, <1>4, <1>5, <1>6 DEF Step

\* Every step keeps every trace as the control points say.
LEMMA NextTraced ==
  ASSUME IInv, AnswersInv, TraceInv, [Next]_vars
  PROVE  TraceInv'
<1>1. CASE UNCHANGED vars
  BY <1>1 DEF vars, call, TraceInv, TracedAt, Depth, Canonical, IsPre, ConfigOf
<1>2. CASE Next
  <2>1. PICK w \in Invocations :
          Begin(w) \/ Step(w) \/ InsertLockTimeout(w) \/ CommitUnacknowledged(w) \/ Fail(w)
    BY <1>2 DEF Next
  <2>2. TracedAt(w)'
    BY <2>1, OwnTrace DEF TraceInv
  <2>3. ASSUME NEW x \in Invocations \ {w} PROVE TracedAt(x)'
    <3>1. /\ pc'[x] = pc[x] /\ checkpoints'[x] = checkpoints[x]
          /\ config'[x] = config[x] /\ result'[x] = result[x]
      BY <2>1, <2>3, OthersUntouched
    <3>2. TracedAt(x)
      BY DEF TraceInv
    <3>3. ConfigOf(x)' = ConfigOf(x)
      BY <3>1 DEF ConfigOf
    <3>4. IsPre(x)' = IsPre(x) /\ Canonical(x)' = Canonical(x)
      BY <3>3 DEF IsPre, Canonical
    <3>5. Depth(x, pc[x])' = Depth(x, pc[x])
      BY <3>1, <3>4 DEF Depth
    <3>6. Begins(checkpoints[x], Canonical(x))' = Begins(checkpoints[x], Canonical(x))
      BY <3>1, <3>4 DEF Begins
    <3> QED BY <3>1, <3>2, <3>3, <3>4, <3>5, <3>6 DEF TracedAt
  <2> QED BY <2>2, <2>3 DEF TraceInv
<1> QED BY <1>1, <1>2

\* A trace that begins the canonical order is a prefix of it.
LEMMA BeginningIsPrefix ==
  ASSUME NEW s \in Seq(Checkpoints), NEW t \in Seq(Checkpoints), Begins(s, t)
  PROVE  s = SubSeq(t, 1, Len(s))
<1>1. Len(s) \in Nat /\ Len(t) \in Nat /\ Len(s) <= Len(t)
  BY DEF Begins
<1> DEFINE u == SubSeq(t, 1, Len(s))
<1>2. /\ u \in Seq(Checkpoints) /\ Len(u) = Len(s)
      /\ \A i \in 1..Len(s) : u[i] = t[i]
  <2>1. 1 \in 1..(Len(t) + 1) /\ Len(s) \in (1 - 1)..Len(t)
    BY <1>1
  <2>2. /\ u \in Seq(Checkpoints)
        /\ Len(u) = Len(s) - 1 + 1
        /\ \A i \in 1..(Len(s) - 1 + 1) : u[i] = t[1 + i - 1]
    BY <1>1
  <2> QED BY <1>1, <2>2
<1> HIDE DEF u
<1>3. s = u
  BY <1>2, SeqEqual DEF Begins
<1> QED BY <1>3 DEF u

\* The traces, in every behaviour.
LEMMA Traces == Spec => []TraceInv
<1>1. Init => TraceInv
  BY DEF Init, TraceInv, TracedAt, Running, NoResult, Result
<1>2. IInv /\ AnswersInv /\ TraceInv /\ [Next]_vars => TraceInv'
  BY NextTraced
<1> QED BY <1>1, <1>2, Answers, Invariance, PTL DEF Spec

\* The trace collector accepts every checkpoint and the execution envelope
\* every result: on each path of either placement what has been recorded is a
\* prefix of the canonical order, and a normal return happens at a checkpoint
\* its outcome allows.
THEOREM TraceIsAccepted == Spec => []TraceAlwaysAccepted
<1>1. IInv /\ TraceInv => TraceAlwaysAccepted
  <2> SUFFICES ASSUME IInv, TraceInv, NEW w \in Invocations, pc[w] # "new"
               PROVE  LET placement == ConfigOf(w).placement
                          seen      == checkpoints[w]
                      IN  /\ Len(seen) <= Len(CanonicalCheckpoints(placement))
                          /\ seen = SubSeq(CanonicalCheckpoints(placement), 1, Len(seen))
                          /\ result[w].outcome \notin {"none", "RAISED"} =>
                               seen[Len(seen)] \in AllowedTerminals(placement, result[w].outcome)
    BY DEF TraceAlwaysAccepted
  <2>1. /\ Begins(checkpoints[w], Canonical(w))
        /\ result[w].outcome \notin {"none", "RAISED"} =>
             checkpoints[w][Len(checkpoints[w])]
               \in AllowedTerminals(ConfigOf(w).placement, result[w].outcome)
    BY DEF TraceInv, TracedAt
  <2>2. checkpoints[w] \in Seq(Checkpoints) /\ Canonical(w) \in Seq(Checkpoints)
    BY HeldPlacement DEF IInv, TypeOK
  <2>3. checkpoints[w] = SubSeq(Canonical(w), 1, Len(checkpoints[w]))
    BY <2>1, <2>2, BeginningIsPrefix
  <2> QED BY <2>1, <2>3 DEF Canonical, Begins
<1> QED BY <1>1, Traces, Invariance, PTL

----------------------------------------------------------------------------
(* What an invocation leaves behind when it ends.                          *)

\* The result says what the invocation ended with, the candidate was validated,
\* and only an invocation that was accepted, or raised, is in accepted history.
Told(w) ==
  /\ pc[w] = "done" => result[w].outcome # "none"
  /\ result[w].outcome = "ACCEPTED" => result[w].accepted_event = w
  /\ result[w].outcome = "ADMISSION_REJECTED" => result[w].verdict # "none"
  /\ result[w].version_mismatch # <<>> =>
       \A e \in candidate[w] : result[w].version_mismatch[1] = e.proof.prev_version
  /\ candidate[w] # {} => Reached(w, "VALIDATION_RETURNED")
  /\ \A r \in order_events :
       r.event.event_id = w => result[w].outcome \in {"ACCEPTED", "RAISED"}

\* A record remembers the order of the event it accounts for.
RecordsInv ==
  \A i \in idempotency_records : \E r \in order_events :
    Accounts(i, r.event) /\ r.event.order_id = i.semantic_fingerprint[2]

ToldInv == (\A w \in Invocations : Told(w)) /\ RecordsInv

\* What the step of an invocation does to its own candidate and trace: only
\* Load builds a candidate, and it records that the candidate was validated.
LEMMA OwnCandidate ==
  ASSUME IInv, NEW w \in Invocations,
         Begin(w) \/ Step(w) \/ InsertLockTimeout(w) \/ CommitUnacknowledged(w) \/ Fail(w)
  PROVE  /\ checkpoints' = checkpoints \/ \E s \in Seq(Checkpoints) : RecordCheckpoints(w, s)
         /\ \/ candidate' = candidate
            \/ /\ pc[w] = "load"
               /\ \E e : candidate' = [candidate EXCEPT ![w] = {e}]
               /\ \E s \in Seq(Checkpoints) : RecordCheckpoints(w, s) /\ s[2] = "VALIDATION_RETURNED"
                                              /\ 2 \in 1..Len(s)
<1> DEFINE Grows == checkpoints' = checkpoints \/ \E s \in Seq(Checkpoints) : RecordCheckpoints(w, s)
           Builds == \/ candidate' = candidate
                     \/ /\ pc[w] = "load"
                        /\ \E e : candidate' = [candidate EXCEPT ![w] = {e}]
                        /\ \E s \in Seq(Checkpoints) :
                             /\ RecordCheckpoints(w, s) /\ s[2] = "VALIDATION_RETURNED"
                             /\ 2 \in 1..Len(s)
<1>1. \A c \in Checkpoints : <<c>> \in Seq(Checkpoints)
  OBVIOUS
<1>2. {"PRELIMINARY_IDEMPOTENCY_CHECK_RETURNED", "ACCEPTED_HISTORY_OBSERVED",
       "VALIDATION_RETURNED", "BUSINESS_UOW_REACHED",
       "AUTHORITATIVE_IDEMPOTENCY_CHECK_RETURNED", "CONCURRENCY_PREPARATION_RETURNED",
       "APPEND_ADMISSION_RETURNED", "IDEMPOTENCY_PERSISTENCE_RETURNED"} \subseteq Checkpoints
  BY DEF Checkpoints
<1>3. CASE Begin(w)
  <2>1. candidate' = candidate
    BY <1>3 DEF Begin
  <2>2. checkpoints' = checkpoints \/ RecordCheckpoints(w, <<"BUSINESS_UOW_REACHED">>)
    BY <1>3, Zenon DEF Begin
  <2> QED BY <1>1, <1>2, <2>1, <2>2
<1>4. CASE PreliminaryCheck(w) \/ AuthoritativeCheck(w)
  <2>1. candidate' = candidate
    BY <1>4 DEF PreliminaryCheck, AuthoritativeCheck
  <2>2. \/ RecordCheckpoints(w, <<"PRELIMINARY_IDEMPOTENCY_CHECK_RETURNED">>)
        \/ RecordCheckpoints(w, <<"AUTHORITATIVE_IDEMPOTENCY_CHECK_RETURNED">>)
    BY <1>4 DEF PreliminaryCheck, AuthoritativeCheck
  <2> QED BY <1>1, <1>2, <2>1, <2>2
<1>5. CASE PrepareStream(w)
  BY <1>1, <1>2, <1>5 DEF PrepareStream
<1>6. CASE AppendVersionCheck(w)
  <2>1. candidate' = candidate
    BY <1>6 DEF AppendVersionCheck
  <2>2. checkpoints' = checkpoints \/ RecordCheckpoints(w, <<"APPEND_ADMISSION_RETURNED">>)
    BY <1>6, Zenon DEF AppendVersionCheck
  <2> QED BY <1>1, <1>2, <2>1, <2>2
<1>7. CASE InsertEvent(w) \/ InsertResumes(w) \/ InsertLockTimeout(w)
  <2>1. candidate' = candidate /\ RecordCheckpoints(w, <<"APPEND_ADMISSION_RETURNED">>)
    BY <1>7 DEF InsertEvent, InsertResumes, InsertLockTimeout, FinishInsert
  <2> QED BY <1>1, <1>2, <2>1
<1>8. CASE InsertWaits(w) \/ Commit(w) \/ CommitUnacknowledged(w) \/ Fail(w)
  BY <1>8 DEF InsertWaits, Commit, CommitUnacknowledged, Fail
<1>9. CASE RecordIdempotency(w)
  <2>1. candidate' = candidate
    BY <1>9 DEF RecordIdempotency
  <2>2. checkpoints' = checkpoints \/ RecordCheckpoints(w, <<"IDEMPOTENCY_PERSISTENCE_RETURNED">>)
    BY <1>9, Zenon DEF RecordIdempotency
  <2> QED BY <1>1, <1>2, <2>1, <2>2
<1>10. CASE Load(w)
  <2> DEFINE one == <<"ACCEPTED_HISTORY_OBSERVED">>
             two == <<"ACCEPTED_HISTORY_OBSERVED", "VALIDATION_RETURNED">>
             uow == <<"BUSINESS_UOW_REACHED">>
  <2>1. /\ one \in Seq(Checkpoints)
        /\ two \in Seq(Checkpoints) /\ two[2] = "VALIDATION_RETURNED" /\ Len(two) = 2
        /\ two \o uow \in Seq(Checkpoints) /\ (two \o uow)[2] = "VALIDATION_RETURNED"
        /\ Len(two \o uow) = 3
    <3>1. one \in Seq(Checkpoints) /\ two \in Seq(Checkpoints) /\ uow \in Seq(Checkpoints)
      BY <1>2
    <3>2. two[2] = "VALIDATION_RETURNED" /\ Len(two) = 2 /\ Len(uow) = 1
      OBVIOUS
    <3> HIDE DEF one, two, uow
    <3>3. 2 \in 1..Len(two)
      BY <3>2
    <3>4. /\ two \o uow \in Seq(Checkpoints) /\ Len(two \o uow) = Len(two) + Len(uow)
          /\ (two \o uow)[2] = two[2]
      BY <3>1, <3>3, ConcatProperties
    <3> QED BY <3>1, <3>2, <3>4
  <2>2. pc[w] = "load"
    BY <1>10 DEF Load
  <2> HIDE DEF one, two, uow
  <2>3. \/ candidate' = candidate /\ RecordCheckpoints(w, one)
        \/ /\ \E e : candidate' = [candidate EXCEPT ![w] = {e}]
           /\ RecordCheckpoints(w, two) \/ RecordCheckpoints(w, two \o uow)
    BY <1>10, Zenon DEF Load, one, two, uow
  <2>4. 2 \in 1..2 /\ 2 \in 1..3
    OBVIOUS
  <2> QED BY <2>1, <2>2, <2>3, <2>4
<1>11. ASSUME Step(w) PROVE Grows /\ Builds
  BY <1>11, <1>4, <1>5, <1>6, <1>7, <1>8, <1>9, <1>10 DEF Step
<1> QED BY <1>3, <1>7, <1>8, <1>11

\* No step of w touches the call or the candidate of another invocation.
LEMMA OthersCall ==
  ASSUME IInv, NEW w \in Invocations, NEW x \in Invocations \ {w},
         Begin(w) \/ Step(w) \/ InsertLockTimeout(w) \/ CommitUnacknowledged(w) \/ Fail(w)
  PROVE  command'[x] = command[x] /\ candidate'[x] = candidate[x]
<1>1. candidate'[x] = candidate[x]
  BY OwnCandidate DEF IInv, TypeOK
<1>2. command'[x] = command[x]
  <2>1. CASE Begin(w)
    BY <2>1 DEF Begin, IInv, TypeOK
  <2>2. CASE Step(w) \/ InsertLockTimeout(w) \/ CommitUnacknowledged(w) \/ Fail(w)
    <3>1. command' = command
      BY <2>2 DEF Step, PreliminaryCheck, Load, AuthoritativeCheck, PrepareStream,
         AppendVersionCheck, InsertEvent, InsertWaits, InsertResumes, RecordIdempotency, Commit,
         InsertLockTimeout, CommitUnacknowledged, Fail, call
    <3> QED BY <3>1
  <2> QED BY <2>1, <2>2
<1> QED BY <1>1, <1>2

\* What an invocation that returns is told.
TellsOf(w, r) ==
  /\ result' = [result EXCEPT ![w] = r]
  /\ r.outcome \notin {"none", "ACCEPTED"}
  /\ r.outcome = "ADMISSION_REJECTED" => r.verdict # "none"
  /\ r.version_mismatch # <<>> =>
       /\ candidate' = candidate
       /\ r.version_mismatch[1] = TheCandidate(w).proof.prev_version
       /\ pc[w] = "version"

\* The fields of the results the write side builds.
LEMMA ToldFields ==
  ASSUME NEW o, NEW e, NEW v, NEW m
  PROVE  /\ Outcome(o, e).outcome = o /\ Outcome(o, e).version_mismatch = <<>>
         /\ AdmissionRejected(v, m).outcome = "ADMISSION_REJECTED"
         /\ AdmissionRejected(v, m).verdict = v
         /\ AdmissionRejected(v, m).version_mismatch = m
BY DEF Outcome, AdmissionRejected, Result

\* A result without version evidence that is no acceptance.
LEMMA PlainTells ==
  ASSUME NEW w, NEW o \in {"REPLAY", "CONFLICT", "VALIDATION_BLOCKED", "RAISED"}, NEW e,
         RollbackAndReturn(w, Outcome(o, e))
  PROVE  \E r : TellsOf(w, r)
<1> DEFINE r == Outcome(o, e)
<1>1. r.outcome = o /\ r.version_mismatch = <<>> /\ result' = [result EXCEPT ![w] = r]
  BY ToldFields DEF RollbackAndReturn
<1> HIDE DEF r
<1>2. TellsOf(w, r)
  BY <1>1 DEF TellsOf
<1> QED BY <1>2

\* A rejection without version evidence.
LEMMA RejectionTells ==
  ASSUME NEW w, NEW v \in {"LOCK_TIMEOUT", "STALE_WRITE"},
         RollbackAndReturn(w, AdmissionRejected(v, <<>>))
  PROVE  \E r : TellsOf(w, r)
<1> DEFINE r == AdmissionRejected(v, <<>>)
<1>1. /\ r.outcome = "ADMISSION_REJECTED" /\ r.verdict = v /\ r.version_mismatch = <<>>
      /\ result' = [result EXCEPT ![w] = r]
  BY ToldFields DEF RollbackAndReturn
<1> HIDE DEF r
<1>2. TellsOf(w, r)
  BY <1>1 DEF TellsOf
<1> QED BY <1>2

\* An invocation that goes on with another statement.
GoesOn(w) == \E next \in ControlPoints \ {"new", "done"} : Goto(w, next)

\* The statements an invocation can go on with.
LEMMA ControlPointNames ==
  {"preliminary", "load", "check", "prepare", "version", "insert", "waiting", "record", "commit"}
    \subseteq ControlPoints \ {"new", "done"}
BY DEF ControlPoints

\* A rejection with version evidence names the version the candidate expected.
LEMMA VersionTells ==
  ASSUME NEW w, AppendVersionCheck(w)
  PROVE  Goto(w, "insert") \/ \E r : TellsOf(w, r)
<1> DEFINE e == TheCandidate(w)
           expected == e.proof.prev_version
           observed == current_version(e.order_id)
           mismatch == IF observed # expected THEN <<expected, observed>> ELSE <<>>
           r == AdmissionRejected("STALE_WRITE", mismatch)
<1>1. pc[w] = "version" /\ candidate' = candidate
  BY DEF AppendVersionCheck
<1>2. Goto(w, "insert") \/ result' = [result EXCEPT ![w] = r]
  BY DEF AppendVersionCheck, RollbackAndReturn
<1>3. /\ r.outcome = "ADMISSION_REJECTED" /\ r.verdict = "STALE_WRITE"
      /\ r.version_mismatch = mismatch
  BY ToldFields
<1>4. mismatch # <<>> => mismatch[1] = expected
  OBVIOUS
<1> HIDE DEF r, mismatch, expected
<1>5. CASE result' = [result EXCEPT ![w] = r]
  <2>1. TellsOf(w, r)
    BY <1>1, <1>3, <1>4, <1>5 DEF TellsOf, expected
  <2> QED BY <2>1
<1> QED BY <1>2, <1>5

\* Every step lets its invocation go on, tells it why it ends, or commits.
LEMMA StepTells ==
  ASSUME NEW w,
         Begin(w) \/ Step(w) \/ InsertLockTimeout(w) \/ CommitUnacknowledged(w) \/ Fail(w)
  PROVE  GoesOn(w) \/ (\E r : TellsOf(w, r)) \/ Publishes(w)
<1> DEFINE Tells == GoesOn(w) \/ (\E r : TellsOf(w, r)) \/ Publishes(w)
<1>0. ASSUME NEW next \in {"preliminary", "load", "check", "prepare", "version", "insert",
                          "waiting", "record", "commit"}, Goto(w, next)
      PROVE  GoesOn(w)
  BY <1>0, ControlPointNames DEF GoesOn
<1>1. CASE Begin(w)
  <2>1. Goto(w, "check") \/ Goto(w, "preliminary")
    BY <1>1, Zenon DEF Begin
  <2> QED BY <2>1, <1>0
<1>2. CASE PreliminaryCheck(w) \/ AuthoritativeCheck(w)
  <2>1. \/ Goto(w, "load") \/ Goto(w, "prepare")
        \/ \E e : RollbackAndReturn(w, Outcome("REPLAY", e))
        \/ RollbackAndReturn(w, Outcome("CONFLICT", NoEvent))
    BY <1>2, Zenon DEF PreliminaryCheck, AuthoritativeCheck, CheckIdempotency
  <2> QED BY <2>1, <1>0, PlainTells
<1>3. CASE Load(w)
  <2>1. \/ Goto(w, "check") \/ Goto(w, "version")
        \/ RollbackAndReturn(w, Outcome("RAISED", NoEvent))
        \/ RollbackAndReturn(w, Outcome("VALIDATION_BLOCKED", NoEvent))
    BY <1>3, Zenon DEF Load, Raise
  <2> QED BY <2>1, <1>0, PlainTells
<1>4. CASE PrepareStream(w)
  <2>1. \/ Goto(w, "version") \/ Goto(w, "load")
        \/ RollbackAndReturn(w, AdmissionRejected("LOCK_TIMEOUT", <<>>))
    BY <1>4 DEF PrepareStream
  <2> QED BY <2>1, <1>0, RejectionTells
<1>5. CASE AppendVersionCheck(w)
  BY <1>0, <1>5, VersionTells
<1>6. CASE InsertEvent(w) \/ InsertResumes(w) \/ InsertLockTimeout(w) \/ InsertWaits(w)
  <2>1. \/ Goto(w, "record") \/ Goto(w, "waiting")
        \/ RollbackAndReturn(w, AdmissionRejected("STALE_WRITE", <<>>))
        \/ RollbackAndReturn(w, AdmissionRejected("LOCK_TIMEOUT", <<>>))
    BY <1>6, Zenon DEF InsertEvent, InsertResumes, InsertLockTimeout, InsertWaits, FinishInsert
  <2> QED BY <2>1, <1>0, RejectionTells
<1>7. CASE RecordIdempotency(w) \/ Fail(w)
  <2>1. Goto(w, "commit") \/ RollbackAndReturn(w, Outcome("RAISED", NoEvent))
    BY <1>7, Zenon DEF RecordIdempotency, Fail, Raise
  <2> QED BY <2>1, <1>0, PlainTells
<1>8. CASE Commit(w) \/ CommitUnacknowledged(w)
  BY <1>8 DEF Commit, CommitUnacknowledged, Publishes
<1>9. ASSUME Step(w) PROVE Tells
  BY <1>9, <1>2, <1>3, <1>4, <1>5, <1>6, <1>7, <1>8 DEF Step
<1> QED BY <1>1, <1>6, <1>7, <1>8, <1>9

\* A trace keeps what it has recorded.
LEMMA ReachedStays ==
  ASSUME IInv, NEW w \in Invocations, NEW x \in Invocations, NEW c,
         checkpoints' = checkpoints \/ \E s \in Seq(Checkpoints) : RecordCheckpoints(w, s),
         Reached(x, c)
  PROVE  Reached(x, c)'
<1>1. checkpoints \in [Invocations -> Seq(Checkpoints)]
  BY DEF IInv, TypeOK
<1>2. PICK i \in DOMAIN checkpoints[x] : checkpoints[x][i] = c
  BY DEF Reached
<1>3. CASE checkpoints' = checkpoints
  BY <1>2, <1>3 DEF Reached
<1>4. ASSUME NEW s \in Seq(Checkpoints), RecordCheckpoints(w, s) PROVE Reached(x, c)'
  <2>1. checkpoints'[x] = checkpoints[x] \/ checkpoints'[x] = checkpoints[x] \o s
    BY <1>1, <1>4 DEF RecordCheckpoints
  <2>2. PICK p \in Seq(Checkpoints) : p = checkpoints[x]
    BY <1>1
  <2>3. i \in DOMAIN (p \o s) /\ (p \o s)[i] = c
    BY <1>2, <2>2
  <2> QED BY <1>2, <2>1, <2>2, <2>3 DEF Reached
<1> QED BY <1>3, <1>4

\* The invocation that takes the step.
LEMMA OwnTold ==
  ASSUME IInv, AnswersInv, NEW w \in Invocations, Told(w),
         Begin(w) \/ Step(w) \/ InsertLockTimeout(w) \/ CommitUnacknowledged(w) \/ Fail(w)
  PROVE  Told(w)'
<1>1. MovesOn(w) \/ (\E r : Returns(w, r)) \/ Publishes(w)
  BY StepShape
<1>2. pc[w] # "done" /\ result[w] = NoResult /\ DOMAIN result = Invocations
  BY <1>1 DEF MovesOn, Returns, Publishes, AnswersInv, IInv, TypeOK
<1>3. \A r \in order_events : r.event.event_id # w
  BY <1>2 DEF IInv, StreamsInv
<1>4. NoResult.outcome = "none" /\ NoResult.version_mismatch = <<>>
  BY DEF NoResult, Result
<1>5. candidate'[w] # {} => Reached(w, "VALIDATION_RETURNED")'
  <2> DEFINE Grows == checkpoints' = checkpoints \/ \E s \in Seq(Checkpoints) : RecordCheckpoints(w, s)
  <2>1. CASE candidate' = candidate
    <3>1. Grows
      BY OwnCandidate
    <3> QED BY <2>1, <3>1, ReachedStays DEF Told
  <2>2. ASSUME NEW s \in Seq(Checkpoints), RecordCheckpoints(w, s),
               s[2] = "VALIDATION_RETURNED", 2 \in 1..Len(s)
        PROVE  Reached(w, "VALIDATION_RETURNED")'
    <3>1. PICK p \in Seq(Checkpoints) : p = checkpoints[w] /\ checkpoints'[w] = p \o s
      BY <2>2 DEF IInv, TypeOK, RecordCheckpoints
    <3>2. /\ Len(p) + 2 \in 1..(Len(p) + Len(s)) /\ (p \o s)[Len(p) + 2] = s[2]
          /\ p \o s \in Seq(Checkpoints) /\ Len(p \o s) = Len(p) + Len(s)
      BY <2>2, ConcatProperties
    <3>3. Len(p) + 2 \in DOMAIN checkpoints'[w]
      BY <3>1, <3>2
    <3> QED BY <2>2, <3>1, <3>2, <3>3 DEF Reached
  <2> QED BY <2>1, <2>2, OwnCandidate
<1>6. CASE MovesOn(w)
  <2>1. result'[w] = NoResult /\ pc'[w] # "done" /\ order_events' = order_events
    BY <1>2, <1>6 DEF MovesOn, NothingCommitted
  <2> QED BY <1>3, <1>4, <1>5, <2>1 DEF Told
<1>7. ASSUME NEW q, Returns(w, q) PROVE Told(w)'
  <2>1. order_events' = order_events /\ pc'[w] = "done"
    BY <1>7 DEF Returns, NothingCommitted, RollbackAndReturn, IInv, TypeOK
  <2>2. ~GoesOn(w)
    BY <2>1 DEF GoesOn, Goto, IInv, TypeOK
  <2>3. ~Publishes(w)
    <3>1. ASSUME Publishes(w) PROVE FALSE
      <4>1. PICK row \in EventRow : order_events' = order_events \cup {row} /\ row.event.event_id = w
        BY <3>1, PublishedRows DEF Publishes
      <4> QED BY <1>3, <2>1, <4>1
    <3> QED BY <3>1
  <2>4. PICK r : TellsOf(w, r)
    BY <2>2, <2>3, StepTells
  <2>5. result'[w] = r
    BY <1>2, <2>4 DEF TellsOf
  <2>6. ASSUME r.version_mismatch # <<>>, NEW e \in candidate'[w]
        PROVE  r.version_mismatch[1] = e.proof.prev_version
    <3>1. candidate' = candidate /\ pc[w] = "version"
          /\ r.version_mismatch[1] = TheCandidate(w).proof.prev_version
      BY <2>4, <2>6 DEF TellsOf
    <3>2. candidate[w] = {TheCandidate(w)}
      BY <3>1, HeldCandidate DEF IInv, Coupled
    <3> QED BY <2>6, <3>1, <3>2
  <2>7. r.outcome \notin {"none", "ACCEPTED"} /\ (r.outcome = "ADMISSION_REJECTED" => r.verdict # "none")
    BY <2>4 DEF TellsOf
  <2> QED BY <1>3, <1>5, <2>1, <2>5, <2>6, <2>7 DEF Told
<1>8. CASE Publishes(w)
  <2>1. PICK r \in {Outcome("ACCEPTED", TheCandidate(w).event_id), Outcome("RAISED", NoEvent)} :
          result' = [result EXCEPT ![w] = r]
    BY <1>8 DEF Publishes
  <2>2. TheCandidate(w).event_id = w
    BY <1>8, PublishedRows DEF Publishes
  <2>3. /\ r.outcome \in {"ACCEPTED", "RAISED"} /\ r.version_mismatch = <<>>
        /\ r.outcome = "ACCEPTED" => r.accepted_event = w
    BY <2>1, <2>2, ResultFields
  <2>4. result'[w] = r
    BY <1>2, <2>1
  <2> QED BY <1>5, <2>3, <2>4 DEF Told
<1> QED BY <1>1, <1>6, <1>7, <1>8

\* What has been told keeps being so in every step of the write side.
LEMMA NextTold ==
  ASSUME IInv, AnswersInv, ToldInv, [Next]_vars
  PROVE  ToldInv'
<1>1. CASE UNCHANGED vars
  <2>1. UNCHANGED <<order_events, idempotency_records, pc, result, candidate, checkpoints>>
    BY <1>1 DEF vars, database
  <2>2. \A w, c : Reached(w, c)' = Reached(w, c)
    BY <2>1 DEF Reached
  <2>3. (\A w \in Invocations : Told(w))'
    BY <2>1, <2>2 DEF ToldInv, Told
  <2> QED BY <2>1, <2>3 DEF ToldInv, RecordsInv, Accounts
<1>2. CASE Next
  <2>1. PICK w \in Invocations :
          Begin(w) \/ Step(w) \/ InsertLockTimeout(w) \/ CommitUnacknowledged(w) \/ Fail(w)
    BY <1>2 DEF Next
  <2>2. Told(w)'
    BY <2>1, OwnTold DEF ToldInv
  <2>3. \/ order_events' = order_events /\ idempotency_records' = idempotency_records
        \/ \E row \in EventRow, i \in IdempotencyRowType :
             /\ order_events' = order_events \cup {row}
             /\ idempotency_records' = idempotency_records \cup {i}
             /\ row.event.event_id = w /\ Accounts(i, row.event)
             /\ row.event.order_id = i.semantic_fingerprint[2]
    <3>1. MovesOn(w) \/ (\E r : Returns(w, r)) \/ Publishes(w)
      BY <2>1, StepShape
    <3>2. CASE Publishes(w)
      <4>1. PICK row \in EventRow, i \in IdempotencyRowType :
              /\ order_events' = order_events \cup {row}
              /\ idempotency_records' = idempotency_records \cup {i}
              /\ row.event.event_id = w /\ Accounts(i, row.event)
              /\ i = IdempotencyRow(CommandOf(w), row.event) /\ row.event = TheCandidate(w)
        BY <3>2, PublishedRows DEF Publishes
      <4>2. row.event.order_id = CommandOf(w).order_id
        <5>1. candidate[w] # {}
          BY <3>2 DEF Publishes, IInv, Coupled
        <5>2. TheCandidate(w) \in candidate[w]
          BY <5>1, HeldCandidate DEF IInv
        <5> QED BY <4>1, <5>2 DEF IInv, Coupled
      <4>3. i.semantic_fingerprint[2] = CommandOf(w).order_id
        BY <4>1 DEF IdempotencyRow, semantic_fingerprint
      <4> QED BY <4>1, <4>2, <4>3
    <3> QED BY <3>1, <3>2 DEF MovesOn, Returns, NothingCommitted
  <2>4. ASSUME NEW x \in Invocations \ {w} PROVE Told(x)'
    <3>1. /\ pc'[x] = pc[x] /\ checkpoints'[x] = checkpoints[x] /\ result'[x] = result[x]
          /\ candidate'[x] = candidate[x]
      BY <2>1, OthersUntouched, OthersCall
    <3>2. \A r \in order_events' : r.event.event_id = x => r \in order_events
      BY <2>3
    <3>3. Reached(x, "VALIDATION_RETURNED")' <=> Reached(x, "VALIDATION_RETURNED")
      BY <3>1 DEF Reached
    <3>4. Told(x)
      BY DEF ToldInv
    <3> QED BY <3>1, <3>2, <3>3, <3>4 DEF Told
  <2>5. RecordsInv'
    BY <2>3 DEF ToldInv, RecordsInv, Accounts
  <2> QED BY <2>2, <2>4, <2>5 DEF ToldInv
<1> QED BY <1>1, <1>2

\* What an invocation has been told is what it ended with, in every behaviour
\* of the write side.
LEMMA ToldAlways == Spec => []ToldInv
<1>1. Init => ToldInv
  BY DEF Init, ToldInv, Told, RecordsInv, NoResult, Result
<1>2. IInv /\ AnswersInv /\ ToldInv /\ [Next]_vars => ToldInv'
  BY NextTold
<1> QED BY <1>1, <1>2, Invariance, Answers, PTL DEF Spec

\* An invocation that has ended does not change any more.
LEMMA EndedStays ==
  ASSUME IInv, NEW w \in Invocations, pc[w] = "done", [Next]_vars
  PROVE  /\ pc'[w] = "done" /\ result'[w] = result[w] /\ candidate'[w] = candidate[w]
         /\ checkpoints'[w] = checkpoints[w] /\ command'[w] = command[w]
<1>1. CASE UNCHANGED vars
  BY <1>1 DEF vars, call
<1>2. CASE Next
  <2>1. PICK x \in Invocations :
          Begin(x) \/ Step(x) \/ InsertLockTimeout(x) \/ CommitUnacknowledged(x) \/ Fail(x)
    BY <1>2 DEF Next
  <2>2. pc[x] # "done"
    BY <2>1, StepShape DEF MovesOn, Returns, Publishes
  <2>3. w \in Invocations \ {x}
    BY <2>2
  <2> QED BY <2>1, <2>3, OthersUntouched, OthersCall
<1> QED BY <1>1, <1>2

\* The result object of an invocation that was rejected does not change.
LEMMA ReportStays ==
  ASSUME IInv, NEW w \in Invocations, pc[w] = "done", [Next]_vars,
         result[w].outcome = "ADMISSION_REJECTED"
  PROVE  PostgresWriteSideResult(w)' = PostgresWriteSideResult(w)
<1>1. /\ result'[w] = result[w] /\ candidate'[w] = candidate[w]
      /\ checkpoints'[w] = checkpoints[w] /\ command'[w] = command[w]
  BY EndedStays
<1>2. \A c : Reached(w, c)' = Reached(w, c)
  BY <1>1 DEF Reached
<1>3. AppendReached(w)' = AppendReached(w)
  BY <1>2 DEF AppendReached
<1>4. CommandOf(w)' = CommandOf(w)
  BY <1>1 DEF CommandOf
<1>5. IdempotencyDecision(w)' = IdempotencyDecision(w)
  BY <1>1 DEF IdempotencyDecision
<1> QED BY <1>1, <1>2, <1>3, <1>4, <1>5 DEF PostgresWriteSideResult

----------------------------------------------------------------------------
(* The measurement of an invocation that returned.                         *)

\* Which checkpoints a trace of length n has reached, by placement.
ReachedBy(w, n) ==
  /\ IsPre(w) =>
       /\ n <= 8
       /\ Reached(w, "PRELIMINARY_IDEMPOTENCY_CHECK_RETURNED") <=> n >= 1
       /\ Reached(w, "ACCEPTED_HISTORY_OBSERVED") <=> n >= 2
       /\ Reached(w, "VALIDATION_RETURNED") <=> n >= 3
       /\ Reached(w, "BUSINESS_UOW_REACHED") <=> n >= 4
       /\ Reached(w, "AUTHORITATIVE_IDEMPOTENCY_CHECK_RETURNED") <=> n >= 5
       /\ Reached(w, "CONCURRENCY_PREPARATION_RETURNED") <=> n >= 6
       /\ Reached(w, "APPEND_ADMISSION_RETURNED") <=> n >= 7
       /\ Reached(w, "IDEMPOTENCY_PERSISTENCE_RETURNED") <=> n >= 8
  /\ ~IsPre(w) =>
       /\ n <= 7
       /\ ~Reached(w, "PRELIMINARY_IDEMPOTENCY_CHECK_RETURNED")
       /\ Reached(w, "BUSINESS_UOW_REACHED") <=> n >= 1
       /\ Reached(w, "AUTHORITATIVE_IDEMPOTENCY_CHECK_RETURNED") <=> n >= 2
       /\ Reached(w, "CONCURRENCY_PREPARATION_RETURNED") <=> n >= 3
       /\ Reached(w, "ACCEPTED_HISTORY_OBSERVED") <=> n >= 4
       /\ Reached(w, "VALIDATION_RETURNED") <=> n >= 5
       /\ Reached(w, "APPEND_ADMISSION_RETURNED") <=> n >= 6
       /\ Reached(w, "IDEMPOTENCY_PERSISTENCE_RETURNED") <=> n >= 7

\* Where each outcome is returned, by placement.
ReturnedAt(w, n) ==
  /\ IsPre(w) =>
       /\ result[w].outcome \in {"REPLAY", "CONFLICT"} => n \in {1, 5}
       /\ result[w].outcome = "VALIDATION_BLOCKED" => n = 3
       /\ result[w].outcome = "ADMISSION_REJECTED" => n \in {6, 7}
       /\ result[w].outcome = "ACCEPTED" => n = 8
  /\ ~IsPre(w) =>
       /\ result[w].outcome \in {"REPLAY", "CONFLICT"} => n = 2
       /\ result[w].outcome = "VALIDATION_BLOCKED" => n = 5
       /\ result[w].outcome = "ADMISSION_REJECTED" => n \in {3, 6}
       /\ result[w].outcome = "ACCEPTED" => n = 7

\* The trace of an invocation that returned says where it returned.
LEMMA ReturnedTrace ==
  ASSUME IInv, AnswersInv, TraceInv, NEW w \in Invocations, ReturnedNormally(w)
  PROVE  \E n \in 1..8 : ReachedBy(w, n) /\ ReturnedAt(w, n)
<1>1. /\ pc[w] = "done" /\ pc[w] # "new"
      /\ result[w].outcome \in {"ACCEPTED", "REPLAY", "CONFLICT", "VALIDATION_BLOCKED",
                                "ADMISSION_REJECTED"}
  <2>1. result[w].outcome \in Outcomes
    BY DEF IInv, TypeOK, ResultRecord
  <2>2. pc[w] # "done" => result[w].outcome = "none"
    BY DEF AnswersInv, NoResult, Result
  <2> QED BY <2>1, <2>2 DEF Outcomes, ReturnedNormally
<1>2. PICK s \in Seq(Checkpoints) : s = checkpoints[w]
  BY DEF IInv, TypeOK
<1>3. PICK t \in Seq(Checkpoints) : t = Canonical(w)
  BY <1>1, HeldPlacement DEF IInv
<1>4. PICK p : p = ConfigOf(w).placement
  OBVIOUS
<1>5. /\ IsPre(w) => p = "PRE_TRANSACTION"
      /\ ~IsPre(w) => p = "IN_TRANSACTION"
  BY <1>1, <1>4, HeldPlacement DEF IInv
<1>6. /\ Begins(s, t) /\ Len(s) > 0 /\ s[Len(s)] \in AllowedTerminals(p, result[w].outcome)
  BY <1>1, <1>2, <1>3, <1>4 DEF TraceInv, TracedAt, ReturnedNormally
<1>7. PICK n \in Nat : n = Len(s)
  OBVIOUS
<1>8. /\ n > 0 /\ n <= Len(t) /\ (\A k \in 1..n : s[k] = t[k])
      /\ t[n] \in AllowedTerminals(p, result[w].outcome)
  <2>1. n \in 1..n /\ n > 0
    BY <1>6, <1>7
  <2> QED BY <1>6, <1>7, <2>1 DEF Begins
<1>9. \A c : Reached(w, c) <=> \E k \in 1..n : t[k] = c
  BY <1>2, <1>7, <1>8 DEF Reached
<1>10. CASE IsPre(w)
  <2>1. /\ Len(t) = 8
        /\ t[1] = "PRELIMINARY_IDEMPOTENCY_CHECK_RETURNED" /\ t[2] = "ACCEPTED_HISTORY_OBSERVED"
        /\ t[3] = "VALIDATION_RETURNED" /\ t[4] = "BUSINESS_UOW_REACHED"
        /\ t[5] = "AUTHORITATIVE_IDEMPOTENCY_CHECK_RETURNED"
        /\ t[6] = "CONCURRENCY_PREPARATION_RETURNED" /\ t[7] = "APPEND_ADMISSION_RETURNED"
        /\ t[8] = "IDEMPOTENCY_PERSISTENCE_RETURNED"
    BY <1>3, <1>4, <1>5, <1>10, CanonicalEntries DEF Canonical
  <2>2. n \in 1..8
    BY <1>8, <2>1
  <2>3. ReachedBy(w, n)
    BY <1>9, <1>10, <2>1, <2>2 DEF ReachedBy
  <2>4. ReturnedAt(w, n)
    BY <1>1, <1>5, <1>8, <1>10, <2>1, <2>2, SMTT(30) DEF ReturnedAt, AllowedTerminals
  <2> QED BY <2>2, <2>3, <2>4
<1>11. CASE ~IsPre(w)
  <2>1. /\ Len(t) = 7
        /\ t[1] = "BUSINESS_UOW_REACHED" /\ t[2] = "AUTHORITATIVE_IDEMPOTENCY_CHECK_RETURNED"
        /\ t[3] = "CONCURRENCY_PREPARATION_RETURNED" /\ t[4] = "ACCEPTED_HISTORY_OBSERVED"
        /\ t[5] = "VALIDATION_RETURNED" /\ t[6] = "APPEND_ADMISSION_RETURNED"
        /\ t[7] = "IDEMPOTENCY_PERSISTENCE_RETURNED"
    BY <1>3, <1>4, <1>5, <1>11, CanonicalEntries DEF Canonical
  <2>2. n \in 1..7
    BY <1>8, <2>1
  <2>3. ReachedBy(w, n)
    BY <1>9, <1>11, <2>1, <2>2 DEF ReachedBy
  <2>4. ReturnedAt(w, n)
    BY <1>1, <1>5, <1>8, <1>11, <2>1, <2>2, SMTT(30) DEF ReturnedAt, AllowedTerminals
  <2> QED BY <2>2, <2>3, <2>4
<1> QED BY <1>10, <1>11

\* When each phase was entered.
LEMMA PhasesEntered ==
  ASSUME NEW w
  PROVE  /\ Entered(w, "producer_write_invocation")
         /\ Entered(w, "validation_runtime_call") <=> Reached(w, "VALIDATION_RETURNED")
         /\ Entered(w, "preliminary_idempotency_check")
              <=> Reached(w, "PRELIMINARY_IDEMPOTENCY_CHECK_RETURNED")
         /\ Entered(w, "preliminary_read_cleanup") <=> IsPre(w)
         /\ Entered(w, "business_uow") <=> Reached(w, "BUSINESS_UOW_REACHED")
         /\ Entered(w, "authoritative_idempotency_check")
              <=> Reached(w, "AUTHORITATIVE_IDEMPOTENCY_CHECK_RETURNED")
         /\ Entered(w, "accepted_history_load") <=> Reached(w, "ACCEPTED_HISTORY_OBSERVED")
         /\ Entered(w, "concurrency_preparation_call")
              <=> Reached(w, "CONCURRENCY_PREPARATION_RETURNED")
         /\ Entered(w, TryLock) <=> /\ ConfigOf(w).gate = "pessimistic"
                                    /\ Reached(w, "CONCURRENCY_PREPARATION_RETURNED")
         /\ Entered(w, "append_admission_call") <=> Reached(w, "APPEND_ADMISSION_RETURNED")
         /\ Entered(w, "idempotency_record_call")
              <=> Reached(w, "IDEMPOTENCY_PERSISTENCE_RETURNED")
         /\ Entered(w, "commit_finalization") <=> result[w].outcome = "ACCEPTED"
         /\ Entered(w, "rollback_finalization")
              <=> Reached(w, "BUSINESS_UOW_REACHED") /\ result[w].outcome # "ACCEPTED"
BY DEF Entered, TracedCall, Finalized, TryLock

\* A measurement shows the phases that were entered, whatever the clock lost.
LEMMA MeasuredPhase ==
  ASSUME NEW w, NEW lost, NEW phase \in Phases
  PROVE  /\ WasReached(Measurement(w, lost), phase) <=> Entered(w, phase)
         /\ Measurement(w, lost)[phase] = "NOT_APPLICABLE" <=> ~Applicable(w, phase)
         /\ Measurement(w, lost)[phase] = "MEASURED" <=> Entered(w, phase) /\ phase \notin lost
<1>1. Measurement(w, lost)[phase] = PhaseMeasurement(w, phase, lost)
  BY DEF Measurement
<1>2. Entered(w, phase) => Applicable(w, phase)
  BY DEF Applicable
<1> HIDE DEF Entered, Applicable
<1>3. CASE ~Applicable(w, phase)
  BY <1>1, <1>2, <1>3 DEF PhaseMeasurement, WasReached
<1>4. CASE Applicable(w, phase) /\ ~Entered(w, phase)
  BY <1>1, <1>4 DEF PhaseMeasurement, WasReached
<1>5. CASE Entered(w, phase) /\ phase \in lost
  BY <1>1, <1>2, <1>5 DEF PhaseMeasurement, WasReached
<1>6. CASE Entered(w, phase) /\ phase \notin lost
  BY <1>1, <1>2, <1>6 DEF PhaseMeasurement, WasReached
<1> QED BY <1>2, <1>3, <1>4, <1>5, <1>6

\* The phases by name.
LEMMA PhaseNames ==
  Phases = {"validation_runtime_call", "preliminary_idempotency_check",
            "authoritative_idempotency_check", "accepted_history_load",
            "concurrency_preparation_call", "append_admission_call", "idempotency_record_call",
            "producer_write_invocation", "business_uow", "preliminary_read_cleanup",
            TryLock, "commit_finalization", "rollback_finalization"}
BY DEF Phases, TracedCall

\* The topology that the snapshot's constructor demands is that of the paths:
\* a snapshot is refused only when the reading of the whole invocation is lost.
LEMMA ConstructsIs ==
  ASSUME IInv, AnswersInv, TraceInv, NEW w \in Invocations, ReturnedNormally(w), NEW lost
  PROVE  Constructs(Measurement(w, lost)) <=> "producer_write_invocation" \notin lost
<1> DEFINE m == Measurement(w, lost)
<1>1. PICK n \in 1..8 : ReachedBy(w, n) /\ ReturnedAt(w, n)
  BY ReturnedTrace
<1>2. result[w].outcome \in {"ACCEPTED", "REPLAY", "CONFLICT", "VALIDATION_BLOCKED",
                             "ADMISSION_REJECTED"}
  BY DEF IInv, TypeOK, ResultRecord, Outcomes, ReturnedNormally
<1>3. \A phase \in Phases : WasReached(m, phase) <=> Entered(w, phase)
  BY MeasuredPhase
<1>4. m["producer_write_invocation"] = "MEASURED" <=> "producer_write_invocation" \notin lost
  BY MeasuredPhase, PhaseNames, PhasesEntered
<1> HIDE DEF m
<1>5. WasReached(m, "preliminary_idempotency_check") <=> WasReached(m, "preliminary_read_cleanup")
  BY <1>1, <1>3, PhaseNames, PhasesEntered DEF ReachedBy
<1>6. \A phase \in DOMAIN ParentPhase : WasReached(m, phase) => WasReached(m, ParentPhase[phase])
  <2>1. /\ Entered(w, "validation_runtime_call") => Entered(w, "accepted_history_load")
        /\ Entered(w, "authoritative_idempotency_check") => Entered(w, "business_uow")
        /\ Entered(w, "concurrency_preparation_call") => Entered(w, "authoritative_idempotency_check")
        /\ Entered(w, TryLock) => Entered(w, "concurrency_preparation_call")
        /\ Entered(w, "append_admission_call") => Entered(w, "concurrency_preparation_call")
        /\ Entered(w, "idempotency_record_call") => Entered(w, "append_admission_call")
        /\ Entered(w, "rollback_finalization") => Entered(w, "business_uow")
    BY <1>1, PhasesEntered DEF ReachedBy
  <2>2. Entered(w, "commit_finalization") => Entered(w, "idempotency_record_call")
    BY <1>1, PhasesEntered DEF ReachedBy, ReturnedAt
  <2> HIDE DEF Entered
  <2> QED BY <1>3, <2>1, <2>2, PhaseNames DEF ParentPhase, TryLock
<1>7. Entered(w, "business_uow")
        <=> Entered(w, "commit_finalization") \/ Entered(w, "rollback_finalization")
  BY <1>1, <1>2, PhasesEntered DEF ReachedBy, ReturnedAt
<1>8. ~(Entered(w, "commit_finalization") /\ Entered(w, "rollback_finalization"))
  BY PhasesEntered
<1> HIDE DEF Entered
<1>9. /\ WasReached(m, "business_uow")
           = (WasReached(m, "commit_finalization") \/ WasReached(m, "rollback_finalization"))
      /\ ~(WasReached(m, "commit_finalization") /\ WasReached(m, "rollback_finalization"))
  BY <1>3, <1>7, <1>8, PhaseNames DEF WasReached
<1>10. WasReached(m, "preliminary_idempotency_check") = WasReached(m, "preliminary_read_cleanup")
  BY <1>5 DEF WasReached
<1> QED BY <1>4, <1>6, <1>9, <1>10 DEF Constructs, m

\* Whatever path the races send a call along, its measurement is there whenever
\* the clock read the whole invocation.
THEOREM MeasurementIsDelivered == Spec => []MeasurementSurvivesEveryPath
<1>1. IInv /\ AnswersInv /\ TraceInv => MeasurementSurvivesEveryPath
  <2> SUFFICES ASSUME IInv, AnswersInv, TraceInv, NEW w \in Invocations, ReturnedNormally(w),
                      NEW lost \in ClockFailures
               PROVE  (Delivery(w, lost).availability = "AVAILABLE")
                        = ("producer_write_invocation" \notin lost)
    BY DEF MeasurementSurvivesEveryPath
  <2> DEFINE snapshot == {m \in {Measurement(w, lost)} : Constructs(m)}
  <2>1. Constructs(Measurement(w, lost)) <=> "producer_write_invocation" \notin lost
    BY ConstructsIs
  <2>2. snapshot # {} <=> "producer_write_invocation" \notin lost
    BY <2>1
  <2>3. Delivery(w, lost) = MeasurementDelivery(snapshot)
    BY DEF Delivery
  <2> HIDE DEF snapshot
  <2>4. Delivery(w, lost).availability = IF snapshot = {} THEN "UNAVAILABLE" ELSE "AVAILABLE"
    BY <2>3 DEF MeasurementDelivery
  <2> QED BY <2>2, <2>4
<1> QED BY <1>1, Invariance, Answers, Traces, PTL

\* The commit phase was entered by the calls whose event is accepted history.
LEMMA AcceptedMeansRow ==
  ASSUME AnswersInv, ToldInv, NEW w \in Invocations, ReturnedNormally(w)
  PROVE  result[w].outcome = "ACCEPTED" <=> EventsNamed({w}) # {}
<1>1. ASSUME result[w].outcome = "ACCEPTED" PROVE EventsNamed({w}) # {}
  <2>1. PICK i \in idempotency_records, r \in order_events :
          i.accepted_event_id = result[w].accepted_event /\ Accounts(i, r.event)
    BY <1>1 DEF AnswersInv, IsFact
  <2>2. r.event.event_id = w
    BY <1>1, <2>1 DEF ToldInv, Told, Accounts
  <2> QED BY <2>2 DEF EventsNamed
<1>2. ASSUME EventsNamed({w}) # {} PROVE result[w].outcome = "ACCEPTED"
  <2>1. PICK r \in order_events : r.event.event_id = w
    BY <1>2 DEF EventsNamed
  <2> QED BY <2>1 DEF ToldInv, Told, ReturnedNormally
<1> QED BY <1>1, <1>2

\* A measurement that was delivered tells what happened to the database and
\* which phases its composition does not have.
THEOREM MeasurementIsTrue == Spec => []MeasurementTellsTheTruth
<1>1. IInv /\ AnswersInv /\ TraceInv /\ ToldInv => MeasurementTellsTheTruth
  <2> SUFFICES ASSUME IInv, AnswersInv, TraceInv, ToldInv,
                      NEW w \in Invocations, ReturnedNormally(w), NEW lost \in ClockFailures,
                      NEW m \in Delivery(w, lost).measurement
               PROVE  /\ WasReached(m, "commit_finalization") = (EventsNamed({w}) # {})
                      /\ SupportedComposition(w) \/ WasReached(m, "concurrency_preparation_call") =>
                           {phase \in Phases : m[phase] = "NOT_APPLICABLE"}
                             = (IF IsPre(w) THEN {} ELSE PreliminaryPhases)
                               \cup (IF ConfigOf(w).gate = "optimistic" THEN {TryLock} ELSE {})
    BY DEF MeasurementTellsTheTruth
  <2>1. m = Measurement(w, lost)
    BY DEF Delivery, MeasurementDelivery
  <2>2. \A phase \in Phases : /\ WasReached(m, phase) <=> Entered(w, phase)
                              /\ m[phase] = "NOT_APPLICABLE" <=> ~Applicable(w, phase)
    BY <2>1, MeasuredPhase
  <2>3. WasReached(m, "commit_finalization") = (EventsNamed({w}) # {})
    <3>1. WasReached(m, "commit_finalization") <=> result[w].outcome = "ACCEPTED"
      BY <2>2, PhaseNames, PhasesEntered
    <3>2. WasReached(m, "commit_finalization") <=> EventsNamed({w}) # {}
      BY <3>1, AcceptedMeansRow
    <3> QED BY <3>2 DEF WasReached
  <2>4. ASSUME SupportedComposition(w) \/ WasReached(m, "concurrency_preparation_call"),
               NEW phase \in Phases
        PROVE  ~Applicable(w, phase) <=>
                 \/ ~IsPre(w) /\ phase \in PreliminaryPhases
                 \/ ConfigOf(w).gate = "optimistic" /\ phase = TryLock
    <3>1. PICK n \in 1..8 : ReachedBy(w, n)
      BY ReturnedTrace
    <3>2. pc[w] # "new"
      BY DEF AnswersInv, ReturnedNormally, NoResult, Result
    <3>3. /\ IsPre(w) => ConfigOf(w).placement = "PRE_TRANSACTION"
          /\ ~IsPre(w) => ConfigOf(w).placement = "IN_TRANSACTION"
          /\ ConfigOf(w).gate \in {"optimistic", "pessimistic"}
      <4>1. ConfigOf(w) \in Configs
        BY <3>2, HeldCall DEF IInv
      <4> QED BY <3>2, <4>1, HeldPlacement, ConstantsAssumption DEF IInv, Gates
    <3>4. CASE phase \in PreliminaryPhases
      <4>1. phase # TryLock
        BY <3>4 DEF PreliminaryPhases, TryLock
      <4>2. InitialApplicability(ConfigOf(w).placement, phase) <=> IsPre(w)
        BY <3>3, <3>4, <4>1 DEF InitialApplicability
      <4>3. Entered(w, phase) <=> IsPre(w)
        BY <3>1, <3>4, PhasesEntered DEF PreliminaryPhases, ReachedBy
      <4> QED BY <3>4, <4>1, <4>2, <4>3 DEF Applicable
    <3>5. CASE phase = TryLock
      <4>1. phase \notin PreliminaryPhases
        BY <3>5 DEF PreliminaryPhases, TryLock
      <4>2. InitialApplicability(ConfigOf(w).placement, phase) <=> ~IsPre(w)
        BY <3>3, <3>5, <4>1 DEF InitialApplicability
      <4>3. Entered(w, phase) <=> /\ ConfigOf(w).gate = "pessimistic"
                                  /\ Reached(w, "CONCURRENCY_PREPARATION_RETURNED")
        BY <3>5, PhasesEntered
      <4>4. SupportedComposition(w) \/ Reached(w, "CONCURRENCY_PREPARATION_RETURNED")
        BY <2>2, <2>4, PhaseNames, PhasesEntered
      <4>5. SupportedComposition(w) => (IsPre(w) <=> ConfigOf(w).gate = "optimistic")
        BY <3>3 DEF SupportedComposition
      <4> QED BY <3>3, <3>5, <4>1, <4>2, <4>3, <4>4, <4>5 DEF Applicable
    <3>6. CASE phase \notin PreliminaryPhases /\ phase # TryLock
      <4>1. InitialApplicability(ConfigOf(w).placement, phase)
        BY <3>6 DEF InitialApplicability
      <4> QED BY <3>6, <4>1 DEF Applicable
    <3> QED BY <3>4, <3>5, <3>6
  <2>5. PreliminaryPhases \subseteq Phases /\ TryLock \in Phases
    BY PhaseNames DEF PreliminaryPhases
  <2> HIDE DEF Applicable, Entered
  <2> QED BY <2>2, <2>3, <2>4, <2>5
<1> QED BY <1>1, Invariance, Answers, Traces, ToldAlways, PTL

----------------------------------------------------------------------------
(* The inductive invariants.                                               *)

\* An invocation that returned normally.
Finished(w) == pc[w] = "done" /\ result[w].outcome \notin {"none", "RAISED"}

\* Who is inside the owner: one thread at most in each method, and only before
\* the method has published its result.
CallersInv ==
  /\ caller \in [Threads -> {"idle", "initial", "reinvocation"}]
  /\ \A t \in Threads :
       /\ caller[t] = "initial" => initial_invocation_started /\ initial_result = {}
       /\ caller[t] = "reinvocation" => authority_spent /\ current_response_result = {}
  /\ \A t, u \in Threads : caller[t] # "idle" /\ caller[t] = caller[u] => t = u

\* Which results there are, and what an authorization rests on.
ResultsInv ==
  /\ request_signature \in Commands
  /\ \A w \in {A1, A2} : pc[w] # "new" => command[w] = {request_signature}
  /\ initial_invocation_started \in BOOLEAN /\ authority_spent \in BOOLEAN
  /\ \/ /\ initial_result = {} /\ current_response_result = {}
        /\ ~authority_spent /\ cached_evaluation = "none"
     \/ initial_result = {A1} /\ initial_invocation_started /\ Finished(A1)
  /\ \/ current_response_result = {}
     \/ current_response_result = {A1} /\ ~authority_spent
     \/ current_response_result = {A2} /\ authority_spent /\ Finished(A2)
  /\ cached_evaluation = "authorized" => result[A1].outcome = "ADMISSION_REJECTED" /\ Eligible(A1)
  /\ authority_spent => cached_evaluation = "authorized" /\ pc[A2] # "new"

\* Which outcome identities were minted: at most one for each result.
IdentitiesInv ==
  \/ /\ current_response_outcome_id = 0 /\ identities \in {{}, {<<A1, 1>>}}
     /\ ~authority_spent => identities = {}
     /\ cached_delivery = {}
  \/ /\ current_response_outcome_id = 1 /\ current_response_result = {A1}
     /\ identities = {<<A1, 1>>}
  \/ /\ current_response_outcome_id = 1 /\ current_response_result = {A2}
     /\ identities = {<<A2, 1>>}
  \/ /\ current_response_outcome_id = 2 /\ current_response_result = {A2}
     /\ identities = {<<A1, 1>>, <<A2, 2>>}

\* A delivery belongs to the current result and says what its outcome calls for.
DeliveriesInv ==
  \A d \in cached_delivery :
    /\ d.result \in current_response_result
    /\ d.response = "USE_CURRENT_RESULT" <=> result[d.result].outcome = "ACCEPTED"
    /\ d.response = "RETURN_PRIOR_ACCEPTED_RESULT" => result[d.result].outcome = "REPLAY"

OwnerInv == CallersInv /\ ResultsInv /\ IdentitiesInv /\ DeliveriesInv

\* At most one proposal was carried out, on evidence that still stands.
RecoveryInv ==
  \/ executed = {}
  \/ /\ authority_spent
     /\ \E proposal :
          /\ executed = {proposal}
          /\ proposal.source_result = A1 /\ proposal.request_signature = request_signature
     /\ AppendVersionAdvanced(PostgresWriteSideResult(A1))

----------------------------------------------------------------------------
(* What the owner tells its caller.                                        *)

\* The parts of a rejected result that the mapping looks at.
LEMMA RejectionSource ==
  ASSUME TypeOK, NEW w \in Invocations, Told(w), result[w].outcome = "ADMISSION_REJECTED",
         NEW p \in AdmissionRejectionSource(PostgresWriteSideResult(w))
  PROVE  p.verdict \in {"LOCK_TIMEOUT", "STALE_WRITE"}
<1> DEFINE r == PostgresWriteSideResult(w)
           v == result[w].verdict
<1>1. v \in {"none", "LOCK_TIMEOUT", "STALE_WRITE"} /\ v # "none"
  BY DEF TypeOK, ResultRecord, Told
<1>2. p.verdict # "ADMITTED" /\ (p \in r.admission_result \/ p \in r.stream_admission_result)
  BY DEF AdmissionRejectionSource
<1>3. r.admission_result =
        IF ~AppendReached(w) THEN {}
        ELSE {[verdict |-> v, candidate_event_id |-> w, accepted_event_id |-> {},
               version_mismatch |-> result[w].version_mismatch]}
  BY DEF PostgresWriteSideResult
<1>4. r.stream_admission_result =
        IF ~Reached(w, "CONCURRENCY_PREPARATION_RETURNED") THEN {}
        ELSE {[verdict  |-> IF ~AppendReached(w) THEN v ELSE "ADMITTED",
               order_id |-> CommandOf(w).order_id]}
  BY DEF PostgresWriteSideResult
<1> HIDE DEF r, v
<1>5. p \in r.admission_result => p.verdict = v
  BY <1>3
<1>6. p \in r.stream_admission_result => p.verdict \in {v, "ADMITTED"}
  BY <1>4
<1> QED BY <1>1, <1>2, <1>5, <1>6

\* The response of each outcome: the current result is used exactly when this
\* attempt was accepted, and a prior one returned only for a replay.
LEMMA ResponseIs ==
  ASSUME TypeOK, NEW w \in Invocations, Told(w), Finished(w), NEW a \in Responses(w)
  PROVE  /\ a = "USE_CURRENT_RESULT" <=> result[w].outcome = "ACCEPTED"
         /\ a = "RETURN_PRIOR_ACCEPTED_RESULT" => result[w].outcome = "REPLAY"
<1>1. PICK r : r = PostgresWriteSideResult(w)
  OBVIOUS
<1>2. r.outcome = result[w].outcome
  BY <1>1 DEF PostgresWriteSideResult
<1>3. PICK o \in SemanticOutcomes(r) : a = Decision(o)
  BY <1>1 DEF Responses
<1>4. OutcomeShape(r) /\ o.semantic_code = STATUS_MAPPINGS[TechnicalStatus(r)]
  BY <1>3 DEF SemanticOutcomes
<1>5. r.outcome \in {"ACCEPTED", "REPLAY", "CONFLICT", "VALIDATION_BLOCKED", "ADMISSION_REJECTED"}
  BY <1>2 DEF TypeOK, ResultRecord, Outcomes, Finished
<1>6. CASE r.outcome = "ACCEPTED"
  <2>1. TechnicalStatus(r) = "WRITE_SIDE_ACCEPTED"
    BY <1>6 DEF TechnicalStatus
  <2>2. a = "USE_CURRENT_RESULT"
    BY <1>3, <1>4, <2>1 DEF STATUS_MAPPINGS, Decision, SUPPORTED_RESPONSES
  <2> QED BY <1>2, <1>6, <2>2
<1>7. CASE r.outcome = "REPLAY"
  <2>1. TechnicalStatus(r) = "IDEMPOTENT_REPLAY"
    BY <1>7 DEF TechnicalStatus
  <2>2. a = "RETURN_PRIOR_ACCEPTED_RESULT"
    BY <1>3, <1>4, <2>1 DEF STATUS_MAPPINGS, Decision, SUPPORTED_RESPONSES
  <2> QED BY <1>2, <1>7, <2>2
<1>8. CASE r.outcome \in {"CONFLICT", "VALIDATION_BLOCKED"}
  <2>1. TechnicalStatus(r) \in {"IDEMPOTENCY_CONFLICT", "COMPASS_VALIDATION_BLOCKED"}
    BY <1>8 DEF TechnicalStatus
  <2>2. a = "BLOCK_CURRENT_CONTINUATION"
    BY <1>3, <1>4, <2>1 DEF STATUS_MAPPINGS, Decision, SUPPORTED_RESPONSES
  <2> QED BY <1>2, <1>8, <2>2
<1>9. CASE r.outcome = "ADMISSION_REJECTED"
  <2>1. PICK p : p = CHOOSE q \in AdmissionRejectionSource(r) : TRUE
    OBVIOUS
  <2>2. AdmissionRejectionSource(r) # {}
    BY <1>4, <1>9 DEF OutcomeShape
  <2>3. p \in AdmissionRejectionSource(r)
    BY <2>1, <2>2
  <2>4. p.verdict \in {"LOCK_TIMEOUT", "STALE_WRITE"}
    BY <1>1, <1>2, <1>9, <2>3, RejectionSource
  <2>5. TechnicalStatus(r) = VerdictStatus(p.verdict)
    BY <1>9, <2>1 DEF TechnicalStatus
  <2>6. VerdictStatus(p.verdict) \in {"CONCURRENT_STATE_STALENESS", "LOCK_TIMEOUT"}
    BY <2>4 DEF VerdictStatus
  <2>7. a = "refused"
    BY <1>3, <1>4, <2>5, <2>6 DEF STATUS_MAPPINGS, Decision, SUPPORTED_RESPONSES
  <2> QED BY <1>2, <1>9, <2>7
<1> QED BY <1>5, <1>6, <1>7, <1>8, <1>9

----------------------------------------------------------------------------
(* The owner on top of the write side.                                     *)

\* Every step of the owner is a step of the write side, or none.
LEMMA OwnerRefines ==
  ASSUME [OwnerNext]_ownerVars
  PROVE  [Next]_vars
<1>1. CASE WriterNext
  BY <1>1, Zenon DEF WriterNext, Next
<1>2. ASSUME NEW w \in Invocations, Dispatch(w) PROVE Next
  BY <1>2 DEF Dispatch, Next
<1>3. ASSUME NEW t \in Threads,
             \/ InvokeInitial(t) \/ CompleteInitial(t)
             \/ EvaluateCurrentResponse(t) \/ EvaluateReinvocationAuthority(t)
             \/ InvokeAuthorizedReinvocation(t) \/ CompleteReinvocation(t)
      PROVE  Dispatch(A1) \/ Dispatch(A2) \/ UNCHANGED vars
  BY <1>3, Zenon DEF InvokeInitial, CompleteInitial, EvaluateCurrentResponse,
     EvaluateReinvocationAuthority, InvokeAuthorizedReinvocation, CompleteReinvocation
<1>4. CASE UNCHANGED ownerVars
  BY <1>4 DEF ownerVars
<1> QED BY <1>1, <1>2, <1>3, <1>4, OwnerAssumption DEF OwnerNext

\* An invocation that has begun has begun for good.
LEMMA BegunStays ==
  ASSUME IInv, AnswersInv, NEW w \in Invocations,
         Begin(w) \/ Step(w) \/ InsertLockTimeout(w) \/ CommitUnacknowledged(w) \/ Fail(w)
  PROVE  pc'[w] # "new"
<1>1. MovesOn(w) \/ (\E r : Returns(w, r)) \/ Publishes(w)
  BY StepShape
<1>2. ASSUME NEW r, Returns(w, r) PROVE pc'[w] = "done"
  BY <1>2 DEF Returns, RollbackAndReturn, IInv, TypeOK
<1>3. CASE Publishes(w)
  BY <1>3 DEF Publishes, Publish, IInv, TypeOK
<1>4. CASE GoesOn(w)
  BY <1>4 DEF GoesOn, Goto, IInv, TypeOK
<1>5. ASSUME MovesOn(w), NEW r, TellsOf(w, r) PROVE FALSE
  <2>1. result[w] = NoResult /\ result' = result
    BY <1>5 DEF MovesOn, AnswersInv
  <2>2. result'[w] = r /\ r.outcome # "none"
    BY <1>5 DEF TellsOf, IInv, TypeOK
  <2> QED BY <2>1, <2>2 DEF NoResult, Result
<1> QED BY <1>1, <1>2, <1>3, <1>4, <1>5, StepTells

\* The writers leave the calls of the two owned invocations alone and begin
\* neither.
LEMMA OwnedCall ==
  ASSUME IInv, AnswersInv, WriterNext, NEW w \in {A1, A2}
  PROVE  command'[w] = command[w] /\ (pc'[w] = "new" <=> pc[w] = "new")
<1>1. PICK x \in Invocations :
        \/ x \notin {A1, A2} /\ Begin(x)
        \/ Step(x) \/ InsertLockTimeout(x) \/ CommitUnacknowledged(x) \/ Fail(x)
  BY DEF WriterNext
<1>2. w \in Invocations
  BY OwnerAssumption
<1>3. CASE x # w
  BY <1>1, <1>2, <1>3, OthersUntouched, OthersCall
<1>4. CASE x = w
  <2>1. Step(w) \/ InsertLockTimeout(w) \/ CommitUnacknowledged(w) \/ Fail(w)
    BY <1>1, <1>4
  <2>2. command' = command /\ pc[w] # "new"
    BY <2>1 DEF Step, PreliminaryCheck, Load, AuthoritativeCheck, PrepareStream,
       AppendVersionCheck, InsertEvent, InsertWaits, InsertResumes, RecordIdempotency, Commit,
       InsertLockTimeout, CommitUnacknowledged, Fail, call
  <2> QED BY <1>2, <2>1, <2>2, BegunStays
<1> QED BY <1>3, <1>4

\* The evidence of an authorization stands as long as the request is retained.
LEMMA EligibleStays ==
  ASSUME IInv, [Next]_vars, request_signature' = request_signature, pc[A1] = "done",
         result[A1].outcome = "ADMISSION_REJECTED"
  PROVE  /\ Eligible(A1)' <=> Eligible(A1)
         /\ AppendVersionAdvanced(PostgresWriteSideResult(A1))'
              <=> AppendVersionAdvanced(PostgresWriteSideResult(A1))
<1>1. PICK r : r = PostgresWriteSideResult(A1)
  OBVIOUS
<1>2. PostgresWriteSideResult(A1)' = r
  BY <1>1, ReportStays, OwnerAssumption
<1>3. /\ PreparationLockTimeout(r)' <=> PreparationLockTimeout(r)
      /\ AppendVersionAdvanced(r)' <=> AppendVersionAdvanced(r)
  BY DEF PreparationLockTimeout, AppendVersionAdvanced
<1>4. /\ PreparationLockTimeout(PostgresWriteSideResult(A1))' <=> PreparationLockTimeout(r)'
      /\ AppendVersionAdvanced(PostgresWriteSideResult(A1))' <=> AppendVersionAdvanced(r)'
  BY <1>2 DEF PreparationLockTimeout, AppendVersionAdvanced
<1> QED BY <1>1, <1>3, <1>4 DEF Eligible

\* A finished invocation stays finished, with the same outcome.
LEMMA FinishedStays ==
  ASSUME IInv, [Next]_vars, NEW w \in Invocations, Finished(w)
  PROVE  Finished(w)' /\ result'[w] = result[w]
BY EndedStays DEF Finished

\* The results of the owner, over a step that leaves them alone.
LEMMA ResultsKept ==
  ASSUME IInv, OwnerInv, [Next]_vars,
         UNCHANGED <<request_signature, initial_result, authority, current_response_result>>,
         initial_invocation_started' \in BOOLEAN,
         initial_invocation_started => initial_invocation_started',
         \A w \in {A1, A2} : /\ pc'[w] # "new" => command'[w] = {request_signature}
                             /\ pc[w] # "new" => pc'[w] # "new"
  PROVE  ResultsInv'
<1>1. /\ request_signature' = request_signature /\ initial_result' = initial_result
      /\ authority_spent' = authority_spent /\ cached_evaluation' = cached_evaluation
      /\ current_response_result' = current_response_result
  BY DEF authority
<1>2. \A w \in {A1, A2} : Finished(w) => Finished(w)' /\ result'[w] = result[w]
  BY FinishedStays, OwnerAssumption
<1>3. cached_evaluation = "authorized" =>
        /\ Finished(A1) /\ result[A1].outcome = "ADMISSION_REJECTED" /\ Eligible(A1)
  BY DEF OwnerInv, ResultsInv
<1>4. cached_evaluation = "authorized" =>
        result'[A1].outcome = "ADMISSION_REJECTED" /\ Eligible(A1)'
  <2> SUFFICES ASSUME cached_evaluation = "authorized"
               PROVE  result'[A1].outcome = "ADMISSION_REJECTED" /\ Eligible(A1)'
    OBVIOUS
  <2>1. pc[A1] = "done"
    BY <1>3 DEF Finished
  <2> QED BY <1>1, <1>2, <1>3, <2>1, EligibleStays
<1> QED BY <1>1, <1>2, <1>4 DEF OwnerInv, ResultsInv

\* The deliveries, over a step that leaves them and their result alone.
LEMMA DeliveriesKept ==
  ASSUME IInv, OwnerInv, [Next]_vars, UNCHANGED <<current_response_result, cached_delivery>>
  PROVE  DeliveriesInv'
<1>1. ASSUME NEW d \in cached_delivery PROVE result'[d.result] = result[d.result]
  <2>1. d.result \in current_response_result
    BY DEF OwnerInv, DeliveriesInv
  <2>2. d.result \in Invocations /\ Finished(d.result)
    BY <2>1, OwnerAssumption DEF OwnerInv, ResultsInv
  <2> QED BY <2>2, FinishedStays
<1> QED BY <1>1 DEF OwnerInv, DeliveriesInv

\* A step of the writers.
LEMMA WriterOwner ==
  ASSUME IInv, AnswersInv, OwnerInv, [Next]_vars, UNCHANGED owner,
         \A w \in {A1, A2} : command'[w] = command[w] /\ (pc'[w] = "new" <=> pc[w] = "new")
  PROVE  OwnerInv'
<1>1. /\ request_signature' = request_signature /\ caller' = caller
      /\ initial_invocation_started' = initial_invocation_started
      /\ initial_result' = initial_result /\ UNCHANGED authority
      /\ cached_evaluation' = cached_evaluation /\ authority_spent' = authority_spent
      /\ current_response_result' = current_response_result
      /\ current_response_outcome_id' = current_response_outcome_id
      /\ cached_delivery' = cached_delivery /\ identities' = identities
  BY DEF owner, retained, authority, response
<1>2. CallersInv'
  BY <1>1 DEF OwnerInv, CallersInv
<1>3. ResultsInv'
  BY <1>1, ResultsKept DEF OwnerInv, ResultsInv
<1>4. IdentitiesInv'
  BY <1>1 DEF OwnerInv, IdentitiesInv
<1>5. DeliveriesInv'
  BY <1>1, DeliveriesKept
<1> QED BY <1>2, <1>3, <1>4, <1>5 DEF OwnerInv

\* Entering the writer begins one invocation with the retained request.
LEMMA DispatchIs ==
  ASSUME IInv, AnswersInv, NEW w \in Invocations, Dispatch(w)
  PROVE  /\ [Next]_vars /\ pc'[w] # "new" /\ command'[w] = {request_signature}
         /\ \A x \in Invocations \ {w} : pc'[x] = pc[x] /\ command'[x] = command[x]
<1>1. Begin(w) /\ command'[w] = {request_signature}
  BY DEF Dispatch
<1>2. pc'[w] # "new"
  BY <1>1, BegunStays
<1>3. ASSUME NEW x \in Invocations \ {w} PROVE pc'[x] = pc[x] /\ command'[x] = command[x]
  BY <1>1, <1>3, OthersUntouched, OthersCall
<1> QED BY <1>1, <1>2, <1>3 DEF Next

\* invoke_initial up to the writer.
LEMMA InvokeInitialOwner ==
  ASSUME IInv, AnswersInv, OwnerInv, NEW t \in Threads, InvokeInitial(t)
  PROVE  OwnerInv'
<1>1. /\ caller[t] = "idle" /\ ~initial_invocation_started /\ initial_invocation_started' = TRUE
      /\ caller' = [caller EXCEPT ![t] = "initial"] /\ Dispatch(A1)
      /\ request_signature' = request_signature /\ initial_result' = initial_result
      /\ UNCHANGED authority /\ authority_spent' = authority_spent
      /\ current_response_result' = current_response_result
      /\ current_response_outcome_id' = current_response_outcome_id
      /\ cached_delivery' = cached_delivery /\ identities' = identities
  BY DEF InvokeInitial, retained, authority, response
<1>2. /\ [Next]_vars /\ pc'[A1] # "new" /\ command'[A1] = {request_signature}
      /\ pc'[A2] = pc[A2] /\ command'[A2] = command[A2]
  BY <1>1, DispatchIs, OwnerAssumption
<1>3. initial_result = {} /\ ~authority_spent
  BY <1>1 DEF OwnerInv, ResultsInv
<1>4. \A u \in Threads : caller[u] = "idle"
  BY <1>1, <1>3 DEF OwnerInv, CallersInv
<1>5. CallersInv'
  BY <1>1, <1>3, <1>4 DEF OwnerInv, CallersInv
<1>6. ResultsInv'
  <2>1. \A w \in {A1, A2} : /\ pc'[w] # "new" => command'[w] = {request_signature}
                            /\ pc[w] # "new" => pc'[w] # "new"
    BY <1>2 DEF OwnerInv, ResultsInv
  <2> QED BY <1>1, <1>2, <2>1, ResultsKept
<1>7. IdentitiesInv'
  BY <1>1 DEF OwnerInv, IdentitiesInv
<1>8. DeliveriesInv'
  BY <1>1, <1>2, DeliveriesKept
<1> QED BY <1>5, <1>6, <1>7, <1>8 DEF OwnerInv

\* invoke_initial after the writer.
LEMMA CompleteInitialOwner ==
  ASSUME IInv, ToldInv, OwnerInv, NEW t \in Threads, CompleteInitial(t)
  PROVE  OwnerInv'
<1>1. /\ caller[t] = "initial" /\ pc[A1] = "done" /\ caller' = [caller EXCEPT ![t] = "idle"]
      /\ request_signature' = request_signature /\ pc' = pc /\ command' = command
      /\ result' = result /\ UNCHANGED vars
      /\ initial_invocation_started' = initial_invocation_started
      /\ UNCHANGED authority /\ authority_spent' = authority_spent
      /\ cached_evaluation' = cached_evaluation
  BY DEF CompleteInitial, retained, authority, vars, call
<1>2. initial_invocation_started /\ initial_result = {}
  BY <1>1 DEF OwnerInv, CallersInv
<1>3. current_response_result = {} /\ ~authority_spent /\ cached_evaluation = "none"
  BY <1>2 DEF OwnerInv, ResultsInv
<1>4. current_response_outcome_id = 0 /\ identities = {} /\ cached_delivery = {}
  BY <1>3 DEF OwnerInv, IdentitiesInv
<1>5. \A u \in Threads \ {t} : caller[u] = "idle"
  BY <1>1, <1>3 DEF OwnerInv, CallersInv
<1>6. CallersInv'
  BY <1>1, <1>5 DEF OwnerInv, CallersInv
<1>7. CASE result[A1].outcome = "RAISED"
  <2>1. /\ initial_result' = initial_result /\ current_response_result' = current_response_result
        /\ current_response_outcome_id' = current_response_outcome_id
        /\ cached_delivery' = cached_delivery /\ identities' = identities
    BY <1>7 DEF CompleteInitial, response
  <2>2. ResultsInv'
    BY <1>1, <2>1, <1>2, <1>3 DEF OwnerInv, ResultsInv
  <2>3. IdentitiesInv' /\ DeliveriesInv'
    BY <1>1, <1>4, <2>1 DEF IdentitiesInv, DeliveriesInv
  <2> QED BY <1>6, <2>2, <2>3 DEF OwnerInv
<1>8. CASE result[A1].outcome # "RAISED"
  <2>1. /\ initial_result' = {A1} /\ current_response_result' = {A1}
        /\ current_response_outcome_id' = 0
        /\ cached_delivery' = {} /\ identities' = identities
    BY <1>8 DEF CompleteInitial, PublishCurrentResponse
  <2>2. Finished(A1)'
    BY <1>1, <1>8, OwnerAssumption DEF Finished, ToldInv, Told
  <2>3. ResultsInv'
    BY <1>1, <2>1, <2>2, <1>2, <1>3 DEF OwnerInv, ResultsInv
  <2>4. IdentitiesInv' /\ DeliveriesInv'
    BY <1>1, <1>4, <2>1 DEF IdentitiesInv, DeliveriesInv
  <2> QED BY <1>6, <2>3, <2>4 DEF OwnerInv
<1> QED BY <1>7, <1>8

\* evaluate_current_response mints one identity for a result and derives the
\* response from its outcome.
LEMMA EvaluateResponseOwner ==
  ASSUME IInv, ToldInv, OwnerInv, NEW t \in Threads, EvaluateCurrentResponse(t)
  PROVE  OwnerInv'
<1>1. PICK w \in current_response_result :
        /\ current_response_outcome_id' = OutcomeId(w)
        /\ identities' = identities \cup {<<w, OutcomeId(w)>>}
        /\ cached_delivery' = {[result |-> w, outcome_id |-> OutcomeId(w), response |-> a] :
                                 a \in Responses(w)}
  BY DEF EvaluateCurrentResponse
<1>2. /\ UNCHANGED vars /\ pc' = pc /\ command' = command /\ result' = result
      /\ request_signature' = request_signature /\ caller' = caller
      /\ initial_invocation_started' = initial_invocation_started
      /\ initial_result' = initial_result /\ UNCHANGED authority
      /\ authority_spent' = authority_spent
      /\ current_response_result' = current_response_result
  BY DEF EvaluateCurrentResponse, retained, authority, vars, call
<1>3. CallersInv'
  BY <1>2 DEF OwnerInv, CallersInv
<1>4. ResultsInv'
  <2>1. \A x \in {A1, A2} : /\ pc'[x] # "new" => command'[x] = {request_signature}
                            /\ pc[x] # "new" => pc'[x] # "new"
    BY <1>2 DEF OwnerInv, ResultsInv
  <2>2. [Next]_vars /\ initial_invocation_started \in BOOLEAN
    BY <1>2 DEF OwnerInv, ResultsInv
  <2> QED BY <1>2, <2>1, <2>2, ResultsKept
<1>5. current_response_result = {w} /\ w \in {A1, A2} /\ Finished(w) /\ w \in Invocations
      /\ (w = A1 <=> ~authority_spent)
  BY OwnerAssumption DEF OwnerInv, ResultsInv
<1>6. IdentitiesInv'
  <2>1. Cardinality({}) = 0 /\ Cardinality({<<A1, 1>>}) = 1
    BY FS_EmptySet, FS_Singleton
  <2>2. CASE current_response_outcome_id = 0
    <3>1. OutcomeId(w) = Cardinality(identities) + 1
      BY <2>2 DEF OutcomeId
    <3>2. /\ identities \in {{}, {<<A1, 1>>}}
          /\ ~authority_spent => identities = {}
      BY <2>2 DEF OwnerInv, IdentitiesInv
    <3>3. CASE identities = {}
      <4>1. OutcomeId(w) = 1 /\ identities' = {<<w, 1>>}
        BY <1>1, <2>1, <3>1, <3>3
      <4> QED BY <1>1, <1>2, <1>5, <4>1 DEF IdentitiesInv
    <3>4. CASE identities = {<<A1, 1>>} /\ authority_spent
      <4>1. OutcomeId(w) = 2 /\ w = A2
        BY <1>5, <2>1, <3>1, <3>4
      <4>2. identities' = {<<A1, 1>>, <<A2, 2>>}
        BY <1>1, <3>4, <4>1
      <4> QED BY <1>1, <1>2, <1>5, <4>1, <4>2 DEF IdentitiesInv
    <3> QED BY <3>2, <3>3, <3>4
  <2>3. CASE current_response_outcome_id # 0
    <3>1. OutcomeId(w) = current_response_outcome_id
      BY <2>3 DEF OutcomeId
    <3>2. <<w, OutcomeId(w)>> \in identities
      BY <1>5, <2>3, <3>1, OwnerAssumption DEF OwnerInv, IdentitiesInv
    <3>3. identities' = identities /\ current_response_outcome_id' = current_response_outcome_id
      BY <1>1, <3>1, <3>2
    <3> QED BY <1>2, <2>3, <3>3 DEF OwnerInv, IdentitiesInv
  <2> QED BY <2>2, <2>3
<1>7. DeliveriesInv'
  <2>1. ASSUME NEW d \in cached_delivery'
        PROVE  /\ d.result \in current_response_result
               /\ d.response = "USE_CURRENT_RESULT" <=> result[d.result].outcome = "ACCEPTED"
               /\ d.response = "RETURN_PRIOR_ACCEPTED_RESULT" => result[d.result].outcome = "REPLAY"
    <3>1. PICK a \in Responses(w) : d.result = w /\ d.response = a
      BY <1>1, <2>1
    <3>2. TypeOK /\ Told(w)
      BY <1>5 DEF IInv, ToldInv
    <3> QED BY <1>5, <3>1, <3>2, ResponseIs
  <2> QED BY <1>2, <2>1 DEF DeliveriesInv
<1> QED BY <1>3, <1>4, <1>6, <1>7 DEF OwnerInv

\* evaluate_reinvocation_authority caches what the result of A1 earns.
LEMMA EvaluateAuthorityOwner ==
  ASSUME IInv, OwnerInv, NEW t \in Threads, EvaluateReinvocationAuthority(t)
  PROVE  OwnerInv'
<1>1. /\ initial_result = {A1} /\ cached_evaluation = "none"
      /\ cached_evaluation' = IF Eligible(A1) THEN "authorized" ELSE "no_authority"
      /\ UNCHANGED vars /\ pc' = pc /\ command' = command /\ result' = result
      /\ request_signature' = request_signature /\ caller' = caller
      /\ initial_invocation_started' = initial_invocation_started
      /\ initial_result' = initial_result /\ authority_spent' = authority_spent
      /\ current_response_result' = current_response_result
      /\ current_response_outcome_id' = current_response_outcome_id
      /\ cached_delivery' = cached_delivery /\ identities' = identities
  BY DEF EvaluateReinvocationAuthority, retained, response, vars, call
<1>2. [Next]_vars
  BY <1>1
<1>3. CallersInv' /\ IdentitiesInv'
  BY <1>1 DEF OwnerInv, CallersInv, IdentitiesInv
<1>4. DeliveriesInv'
  BY <1>1, <1>2, DeliveriesKept
<1>5. ~authority_spent /\ Finished(A1)
  BY <1>1 DEF OwnerInv, ResultsInv
<1>6. Eligible(A1) => result[A1].outcome = "ADMISSION_REJECTED"
  BY DEF Eligible, PreparationLockTimeout, AppendVersionAdvanced, PostgresWriteSideResult
<1>7. \A w \in {A1, A2} : Finished(w)' <=> Finished(w)
  BY <1>1 DEF Finished
<1>8. Eligible(A1) => Eligible(A1)'
  BY <1>1, <1>2, <1>5, <1>6, EligibleStays DEF Finished
<1>9. ResultsInv'
  BY <1>1, <1>5, <1>6, <1>7, <1>8 DEF OwnerInv, ResultsInv
<1> QED BY <1>3, <1>4, <1>9 DEF OwnerInv

\* invoke_authorized_reinvocation up to the writer.
LEMMA ReinvokeOwner ==
  ASSUME IInv, AnswersInv, OwnerInv, NEW t \in Threads, InvokeAuthorizedReinvocation(t)
  PROVE  OwnerInv'
<1>1. /\ initial_result = {A1} /\ cached_evaluation = "authorized" /\ ~authority_spent
      /\ authority_spent' = TRUE /\ caller[t] = "idle"
      /\ caller' = [caller EXCEPT ![t] = "reinvocation"] /\ Dispatch(A2)
      /\ request_signature' = request_signature
      /\ initial_invocation_started' = initial_invocation_started
      /\ initial_result' = initial_result /\ cached_evaluation' = cached_evaluation
      /\ current_response_result' = {} /\ current_response_outcome_id' = 0
      /\ cached_delivery' = {} /\ identities' = identities
  BY DEF InvokeAuthorizedReinvocation, ClearCurrentResponse, retained
<1>2. /\ [Next]_vars /\ pc'[A2] # "new" /\ command'[A2] = {request_signature}
      /\ pc'[A1] = pc[A1] /\ command'[A1] = command[A1]
  BY <1>1, DispatchIs, OwnerAssumption
<1>3. /\ Finished(A1) /\ initial_invocation_started
      /\ result[A1].outcome = "ADMISSION_REJECTED" /\ Eligible(A1)
  BY <1>1 DEF OwnerInv, ResultsInv
<1>4. Finished(A1)' /\ result'[A1] = result[A1]
  BY <1>2, <1>3, FinishedStays, OwnerAssumption
<1>5. Eligible(A1)'
  BY <1>1, <1>2, <1>3, EligibleStays DEF Finished
<1>6. ResultsInv'
  BY <1>1, <1>2, <1>3, <1>4, <1>5 DEF OwnerInv, ResultsInv
<1>7. CallersInv'
  BY <1>1 DEF OwnerInv, CallersInv
<1>8. current_response_result \in {{}, {A1}}
  BY <1>1 DEF OwnerInv, ResultsInv
<1>9. identities \in {{}, {<<A1, 1>>}}
  BY <1>8, OwnerAssumption DEF OwnerInv, IdentitiesInv
<1>10. IdentitiesInv' /\ DeliveriesInv'
  BY <1>1, <1>9 DEF IdentitiesInv, DeliveriesInv
<1> QED BY <1>6, <1>7, <1>10 DEF OwnerInv

\* invoke_authorized_reinvocation after the writer.
LEMMA CompleteReinvocationOwner ==
  ASSUME IInv, ToldInv, OwnerInv, NEW t \in Threads, CompleteReinvocation(t)
  PROVE  OwnerInv'
<1>1. /\ caller[t] = "reinvocation" /\ pc[A2] = "done"
      /\ caller' = [caller EXCEPT ![t] = "idle"]
      /\ UNCHANGED vars /\ pc' = pc /\ command' = command /\ result' = result
      /\ request_signature' = request_signature
      /\ initial_invocation_started' = initial_invocation_started
      /\ initial_result' = initial_result /\ authority_spent' = authority_spent
      /\ cached_evaluation' = cached_evaluation
  BY DEF CompleteReinvocation, retained, authority, vars, call
<1>2. authority_spent /\ current_response_result = {}
  BY <1>1 DEF OwnerInv, CallersInv
<1>3. /\ initial_result = {A1} /\ Finished(A1) /\ cached_evaluation = "authorized"
      /\ result[A1].outcome = "ADMISSION_REJECTED" /\ Eligible(A1)
  BY <1>2 DEF OwnerInv, ResultsInv
<1>4. /\ current_response_outcome_id = 0 /\ identities \in {{}, {<<A1, 1>>}}
      /\ cached_delivery = {}
  BY <1>2 DEF OwnerInv, IdentitiesInv
<1>5. \A u \in Threads \ {t} : caller[u] = "idle"
  BY <1>1, <1>3 DEF OwnerInv, CallersInv
<1>6. CallersInv'
  BY <1>1, <1>5 DEF OwnerInv, CallersInv
<1>7. Finished(A1)' /\ Eligible(A1)'
  <2>1. [Next]_vars
    BY <1>1
  <2> QED BY <1>1, <1>3, <2>1, EligibleStays DEF Finished
<1>8. CASE result[A2].outcome = "RAISED"
  <2>1. /\ current_response_result' = current_response_result
        /\ current_response_outcome_id' = current_response_outcome_id
        /\ cached_delivery' = cached_delivery /\ identities' = identities
    BY <1>8 DEF CompleteReinvocation, response
  <2>2. ResultsInv'
    BY <1>1, <1>2, <1>3, <1>7, <2>1 DEF OwnerInv, ResultsInv
  <2>3. IdentitiesInv' /\ DeliveriesInv'
    BY <1>1, <1>2, <1>4, <2>1 DEF IdentitiesInv, DeliveriesInv
  <2> QED BY <1>6, <2>2, <2>3 DEF OwnerInv
<1>9. CASE result[A2].outcome # "RAISED"
  <2>1. /\ current_response_result' = {A2} /\ current_response_outcome_id' = 0
        /\ cached_delivery' = {} /\ identities' = identities
    BY <1>9 DEF CompleteReinvocation, PublishCurrentResponse
  <2>2. Finished(A2)'
    BY <1>1, <1>9, OwnerAssumption DEF Finished, ToldInv, Told
  <2>3. ResultsInv'
    BY <1>1, <1>2, <1>3, <1>7, <2>1, <2>2 DEF OwnerInv, ResultsInv
  <2>4. IdentitiesInv' /\ DeliveriesInv'
    BY <1>1, <1>2, <1>4, <2>1 DEF IdentitiesInv, DeliveriesInv
  <2> QED BY <1>6, <2>3, <2>4 DEF OwnerInv
<1> QED BY <1>8, <1>9


\* The lifecycle of the owner is kept by every step, of the owner or of the
\* writers.
LEMMA NextOwner ==
  ASSUME IInv, AnswersInv, ToldInv, OwnerInv, [OwnerNext]_ownerVars
  PROVE  OwnerInv'
<1>1. CASE WriterNext
  <2>1. [Next]_vars
    BY OwnerRefines
  <2>2. UNCHANGED owner
    BY <1>1 DEF WriterNext
  <2>3. \A w \in {A1, A2} : command'[w] = command[w] /\ (pc'[w] = "new" <=> pc[w] = "new")
    BY <1>1, OwnedCall
  <2> QED BY <2>1, <2>2, <2>3, WriterOwner
<1>2. CASE UNCHANGED ownerVars
  <2>1. UNCHANGED vars /\ UNCHANGED owner
    BY <1>2 DEF ownerVars
  <2>2. pc' = pc /\ command' = command
    BY <2>1 DEF vars, call
  <2> QED BY <2>1, <2>2, WriterOwner
<1>3. ASSUME NEW t \in Threads,
             \/ InvokeInitial(t) \/ CompleteInitial(t)
             \/ EvaluateCurrentResponse(t) \/ EvaluateReinvocationAuthority(t)
             \/ InvokeAuthorizedReinvocation(t) \/ CompleteReinvocation(t)
      PROVE  OwnerInv'
  BY <1>3, InvokeInitialOwner, CompleteInitialOwner, EvaluateResponseOwner,
     EvaluateAuthorityOwner, ReinvokeOwner, CompleteReinvocationOwner
<1> QED BY <1>1, <1>2, <1>3 DEF OwnerNext

\* The owner implements the write side: it only decides when two of its
\* invocations begin, so what is proved of the write side holds here.
THEOREM OwnerImplements == OwnerSpec => Spec
<1>1. OwnerInit => Init
  BY DEF OwnerInit
<1>2. [OwnerNext]_ownerVars => [Next]_vars
  BY OwnerRefines
<1> QED BY <1>1, <1>2, PTL DEF OwnerSpec, Spec

\* The lifecycle of the owner, in every behaviour.
THEOREM OwnerInvariance == OwnerSpec => []OwnerInv
<1>1. OwnerInit => OwnerInv
  <2> SUFFICES ASSUME OwnerInit PROVE OwnerInv
    OBVIOUS
  <2>1. \A w \in {A1, A2} : pc[w] = "new"
    BY OwnerAssumption DEF OwnerInit, Init
  <2>2. CallersInv
    BY DEF OwnerInit, CallersInv
  <2>3. ResultsInv
    BY <2>1 DEF OwnerInit, ResultsInv
  <2> QED BY <2>2, <2>3 DEF OwnerInit, OwnerInv, IdentitiesInv, DeliveriesInv
<1>2. IInv /\ AnswersInv /\ ToldInv /\ OwnerInv /\ [OwnerNext]_ownerVars => OwnerInv'
  BY NextOwner
<1> QED BY <1>1, <1>2, OwnerImplements, Invariance, Answers, ToldAlways, PTL DEF OwnerSpec

----------------------------------------------------------------------------
(* What is true of the owner.                                              *)

\* The position a stale candidate was built for is taken by a committed event.
LEMMA OvertakenPosition ==
  ASSUME IInv, AnswersInv, ToldInv, NEW w \in Invocations, pc[w] = "done",
         result[w].version_mismatch # <<>>, NEW e \in candidate[w]
  PROVE  \E r \in order_events : SamePosition(r.event, e)
<1> DEFINE m == result[w].version_mismatch
<1>1. /\ e \in EventRecord /\ e.order_id = CommandOf(w).order_id
      /\ e.proof.prev_version = e.sequence - 1
  BY DEF IInv, TypeOK, Coupled, FollowsHistory
<1>2. e.order_id \in Orders /\ e.sequence \in Nat \ {0}
  BY <1>1 DEF EventRecord
<1>3. m[1] = e.proof.prev_version
  BY DEF ToldInv, Told
<1>4. m[1] < m[2] /\ m[2] <= current_version(CommandOf(w).order_id) /\ m[2] \in Int
  BY DEF AnswersInv, IsFact
<1>5. PICK v \in Nat : IsContiguous(Stream(e.order_id), v) /\ current_version(e.order_id) = v
  BY <1>2, StreamFacts DEF IInv
<1>6. e.sequence \in 1..v
  BY <1>1, <1>2, <1>3, <1>4, <1>5
<1>7. PICK f \in Stream(e.order_id) : f.sequence = e.sequence
  BY <1>5, <1>6 DEF IsContiguous
<1> QED BY <1>7 DEF Stream, SamePosition

\* What an authorization rests on: nothing was validated, or a version
\* mismatch was observed.
LEMMA EligibleMeans ==
  ASSUME Eligible(A1)
  PROVE  ~Reached(A1, "VALIDATION_RETURNED") \/ result[A1].version_mismatch # <<>>
<1>1. PICK r : r = PostgresWriteSideResult(A1)
  OBVIOUS
<1>2. CASE PreparationLockTimeout(r)
  <2>1. r.validation_decision = {}
    BY <1>2 DEF PreparationLockTimeout
  <2> QED BY <1>1, <2>1 DEF PostgresWriteSideResult
<1>3. CASE AppendVersionAdvanced(r)
  <2>1. PICK p \in r.admission_result : p.version_mismatch # <<>>
    BY <1>3 DEF AppendVersionAdvanced
  <2>2. p.version_mismatch = result[A1].version_mismatch
    BY <1>1, <2>1 DEF PostgresWriteSideResult
  <2> QED BY <2>1, <2>2
<1> QED BY <1>1, <1>2, <1>3 DEF Eligible

\* Only a dead attempt is authorized to be repeated: with authority issued, A1
\* has no row and its candidate, if it built one, can never be appended.
THEOREM AuthorityIsEarned == OwnerSpec => []AuthorityNeedsDeadAttempt
<1>1. IInv /\ AnswersInv /\ ToldInv /\ OwnerInv => AuthorityNeedsDeadAttempt
  <2> SUFFICES ASSUME IInv, AnswersInv, ToldInv, OwnerInv, cached_evaluation = "authorized"
               PROVE  /\ inserted[A1] = {} /\ \A r \in order_events : r.event.event_id # A1
                      /\ \A e \in candidate[A1] : \E r \in order_events : SamePosition(r.event, e)
    BY DEF AuthorityNeedsDeadAttempt
  <2>1. /\ pc[A1] = "done" /\ result[A1].outcome = "ADMISSION_REJECTED" /\ Eligible(A1)
        /\ A1 \in Invocations
    BY OwnerAssumption DEF OwnerInv, ResultsInv, Finished
  <2>2. inserted[A1] = {}
    BY <2>1 DEF IInv, Coupled
  <2>3. \A r \in order_events : r.event.event_id # A1
    BY <2>1 DEF AnswersInv, IsFact
  <2>4. ASSUME NEW e \in candidate[A1] PROVE \E r \in order_events : SamePosition(r.event, e)
    <3>1. Reached(A1, "VALIDATION_RETURNED")
      BY <2>1, <2>4 DEF ToldInv, Told
    <3>2. result[A1].version_mismatch # <<>>
      BY <2>1, <3>1, EligibleMeans
    <3> QED BY <2>1, <2>4, <3>2, OvertakenPosition
  <2> QED BY <2>2, <2>3, <2>4
<1> QED BY <1>1, OwnerImplements, OwnerInvariance, Invariance, Answers, ToldAlways, PTL

\* A caller is never given the result of a superseded attempt, and a result has
\* one outcome identity however often its evaluation failed and was repeated.
THEOREM ResponseIsCurrent == OwnerSpec => []NoSupersededResponse
<1>1. OwnerInv => NoSupersededResponse
  <2> SUFFICES ASSUME OwnerInv PROVE NoSupersededResponse
    OBVIOUS
  <2>1. \A d \in cached_delivery : d.result \in current_response_result
    BY DEF OwnerInv, DeliveriesInv
  <2>2. identities \in {{}, {<<A1, 1>>}, {<<A2, 1>>}, {<<A1, 1>>, <<A2, 2>>}}
    BY DEF OwnerInv, IdentitiesInv
  <2>3. ASSUME NEW p \in identities, NEW q \in identities PROVE p[1] = q[1] <=> p[2] = q[2]
    <3>1. \/ identities = {<<A1, 1>>} \/ identities = {<<A2, 1>>}
          \/ identities = {<<A1, 1>>, <<A2, 2>>}
      BY <2>2, <2>3
    <3>2. CASE identities = {<<A1, 1>>, <<A2, 2>>}
      <4>1. p \in {<<A1, 1>>, <<A2, 2>>} /\ q \in {<<A1, 1>>, <<A2, 2>>}
        BY <2>3, <3>2
      <4> QED BY <4>1, OwnerAssumption
    <3> QED BY <2>3, <3>1, <3>2
  <2>4. /\ authority_spent => A1 \notin current_response_result
        /\ A2 \in current_response_result =>
             pc[A2] = "done" /\ result[A2].outcome \notin {"none", "RAISED"}
    BY OwnerAssumption DEF OwnerInv, ResultsInv, Finished
  <2> QED BY <2>1, <2>3, <2>4 DEF NoSupersededResponse
<1> QED BY <1>1, OwnerInvariance, PTL

\* What the owner tells its caller to do agrees with accepted history, now and
\* for as long as the delivery is cached.
THEOREM ResponsesAreTrue == OwnerSpec => []ResponsesMatchHistory
<1>1. IInv /\ AnswersInv /\ ToldInv /\ OwnerInv => ResponsesMatchHistory
  <2> SUFFICES ASSUME IInv, AnswersInv, ToldInv, OwnerInv, NEW d \in cached_delivery
               PROVE  /\ d.response = "USE_CURRENT_RESULT" <=>
                           {r \in order_events : r.event.event_id = d.result} # {}
                      /\ d.response = "RETURN_PRIOR_ACCEPTED_RESULT" =>
                           {r \in order_events :
                              /\ r.event.request_id = request_signature.request_id
                              /\ r.event.order_id = request_signature.order_id} # {}
    BY DEF ResponsesMatchHistory
  <2>1. PICK w \in {A1, A2} : w = d.result /\ Finished(w) /\ w \in Invocations
    BY OwnerAssumption DEF OwnerInv, ResultsInv, DeliveriesInv
  <2>2. /\ d.response = "USE_CURRENT_RESULT" <=> result[w].outcome = "ACCEPTED"
        /\ d.response = "RETURN_PRIOR_ACCEPTED_RESULT" => result[w].outcome = "REPLAY"
    BY <2>1 DEF OwnerInv, DeliveriesInv
  <2>3. CommandOf(w) = request_signature
    <3>1. command[w] = {request_signature}
      BY <2>1 DEF OwnerInv, ResultsInv, Finished
    <3> QED BY <3>1 DEF CommandOf
  <2>4. result[w].outcome = "ACCEPTED" <=> \E r \in order_events : r.event.event_id = w
    <3>1. ASSUME result[w].outcome = "ACCEPTED" PROVE \E r \in order_events : r.event.event_id = w
      <4>1. PICK i \in idempotency_records, r \in order_events :
              i.accepted_event_id = result[w].accepted_event /\ Accounts(i, r.event)
        BY <2>1, <3>1 DEF AnswersInv, IsFact
      <4>2. result[w].accepted_event = w
        BY <2>1, <3>1 DEF ToldInv, Told
      <4> QED BY <4>1, <4>2 DEF Accounts
    <3>2. ASSUME NEW r \in order_events, r.event.event_id = w PROVE result[w].outcome = "ACCEPTED"
      BY <2>1, <3>2 DEF ToldInv, Told, Finished
    <3> QED BY <3>1, <3>2
  <2>5. ASSUME result[w].outcome = "REPLAY"
        PROVE  \E r \in order_events : /\ r.event.request_id = request_signature.request_id
                                       /\ r.event.order_id = request_signature.order_id
    <3>1. PICK i \in idempotency_records :
            /\ i.request_id = request_signature.request_id
            /\ i.semantic_fingerprint = semantic_fingerprint(request_signature)
      BY <2>1, <2>3, <2>5 DEF AnswersInv, IsFact
    <3>2. PICK r \in order_events :
            Accounts(i, r.event) /\ r.event.order_id = i.semantic_fingerprint[2]
      BY DEF ToldInv, RecordsInv
    <3>3. i.semantic_fingerprint[2] = request_signature.order_id
      BY <3>1 DEF semantic_fingerprint
    <3> QED BY <3>1, <3>2, <3>3 DEF Accounts
  <2> QED BY <2>1, <2>2, <2>4, <2>5
<1> QED BY <1>1, OwnerImplements, OwnerInvariance, Invariance, Answers, ToldAlways, PTL

----------------------------------------------------------------------------
(* Controlled recovery.                                                    *)

\* Recovery goes through the owner and adds no step to it.
LEMMA RecoveryRefines ==
  ASSUME [RecoveryNext]_recoveryVars
  PROVE  [OwnerNext]_ownerVars
BY DEF RecoveryNext, Execute, OwnerNext, recoveryVars

\* The evidence of a carried-out proposal stays, and a second one finds the
\* authority spent.
LEMMA NextRecovery ==
  ASSUME IInv, AnswersInv, OwnerInv, RecoveryInv, [RecoveryNext]_recoveryVars
  PROVE  RecoveryInv'
<1>1. [OwnerNext]_ownerVars /\ [Next]_vars
  BY RecoveryRefines, OwnerRefines
<1>2. request_signature' = request_signature /\ (authority_spent => authority_spent')
  <2>1. CASE WriterNext \/ UNCHANGED ownerVars
    BY <2>1 DEF WriterNext, ownerVars, owner, retained, authority
  <2>2. ASSUME NEW t \in Threads,
               \/ InvokeInitial(t) \/ CompleteInitial(t)
               \/ EvaluateCurrentResponse(t) \/ EvaluateReinvocationAuthority(t)
               \/ InvokeAuthorizedReinvocation(t) \/ CompleteReinvocation(t)
        PROVE  request_signature' = request_signature /\ (authority_spent => authority_spent')
    <3>1. UNCHANGED retained
      BY <2>2, Zenon DEF InvokeInitial, CompleteInitial, EvaluateCurrentResponse,
         EvaluateReinvocationAuthority, InvokeAuthorizedReinvocation, CompleteReinvocation
    <3>2. UNCHANGED authority \/ UNCHANGED authority_spent \/ authority_spent' = TRUE
      BY <2>2, Zenon DEF InvokeInitial, CompleteInitial, EvaluateCurrentResponse,
         EvaluateReinvocationAuthority, InvokeAuthorizedReinvocation, CompleteReinvocation
    <3> QED BY <3>1, <3>2 DEF retained, authority
  <2> QED BY <1>1, <2>1, <2>2 DEF OwnerNext
<1>3. authority_spent \/ cached_evaluation = "authorized" =>
        pc[A1] = "done" /\ result[A1].outcome = "ADMISSION_REJECTED" /\ Eligible(A1)
  BY DEF OwnerInv, ResultsInv, Finished
<1>4. CASE executed' = executed
  <2>1. CASE executed = {}
    BY <1>4, <2>1 DEF RecoveryInv
  <2>2. CASE executed # {}
    <3>1. /\ authority_spent /\ AppendVersionAdvanced(PostgresWriteSideResult(A1))
          /\ \E proposal : /\ executed = {proposal} /\ proposal.source_result = A1
                           /\ proposal.request_signature = request_signature
      BY <2>2 DEF RecoveryInv
    <3>2. AppendVersionAdvanced(PostgresWriteSideResult(A1))'
      BY <1>1, <1>2, <1>3, <3>1, EligibleStays
    <3> QED BY <1>2, <1>4, <3>1, <3>2 DEF RecoveryInv
  <2> QED BY <2>1, <2>2
<1>5. ASSUME NEW t \in Threads, Execute(t) PROVE RecoveryInv'
  <2>1. /\ ~authority_spent /\ authority_spent' = TRUE /\ cached_evaluation = "authorized"
        /\ initial_result = {A1}
    BY <1>5 DEF Execute, InvokeAuthorizedReinvocation
  <2>2. PICK x \in Executors, proposal \in Proposals :
          Accepts(x, proposal) /\ executed' = executed \cup {proposal}
    BY <1>5 DEF Execute
  <2>3. executed' = {proposal}
    BY <2>1, <2>2 DEF RecoveryInv
  <2>4. proposal.source_result = A1 /\ proposal.request_signature = request_signature
    BY <2>1, <2>2 DEF Accepts, Executors
  <2>5. Proposable(PostgresWriteSideResult(A1))
    BY <2>4 DEF Proposals
  <2>6. PICK r : r = PostgresWriteSideResult(A1)
    OBVIOUS
  <2>7. r.admission_result # {}
    BY <2>5, <2>6 DEF Proposable
  <2>8. ~PreparationLockTimeout(r)
    BY <2>7 DEF PreparationLockTimeout
  <2>9. AppendVersionAdvanced(PostgresWriteSideResult(A1))
    BY <1>3, <2>1, <2>6, <2>8 DEF Eligible
  <2>10. AppendVersionAdvanced(PostgresWriteSideResult(A1))'
    BY <1>1, <1>2, <1>3, <2>1, <2>9, EligibleStays
  <2> QED BY <1>2, <2>1, <2>3, <2>4, <2>10 DEF RecoveryInv
<1> QED BY <1>4, <1>5 DEF RecoveryNext, recoveryVars

\* Whatever proposals are made, kept and handed in, at most one is carried out,
\* for A1's own request and on evidence that the stream had moved on.
THEOREM RecoveryEarned == RecoverySpec => []RecoveryIsEarned
<1>1. RecoverySpec => OwnerSpec
  <2>1. RecoveryInit => OwnerInit
    BY DEF RecoveryInit
  <2>2. [RecoveryNext]_recoveryVars => [OwnerNext]_ownerVars
    BY RecoveryRefines
  <2> QED BY <2>1, <2>2, PTL DEF RecoverySpec, OwnerSpec
<1>2. RecoveryInit => RecoveryInv
  BY DEF RecoveryInit, RecoveryInv
<1>3. IInv /\ AnswersInv /\ OwnerInv /\ RecoveryInv /\ [RecoveryNext]_recoveryVars => RecoveryInv'
  BY NextRecovery
<1>4. OwnerInv /\ RecoveryInv => RecoveryIsEarned
  <2> SUFFICES ASSUME OwnerInv, RecoveryInv PROVE RecoveryIsEarned
    OBVIOUS
  <2>1. CASE executed = {}
    BY <2>1, FS_EmptySet DEF RecoveryIsEarned
  <2>2. CASE executed # {}
    <3>1. PICK proposal : /\ executed = {proposal} /\ proposal.source_result = A1
                          /\ proposal.request_signature = request_signature
      BY <2>2 DEF RecoveryInv
    <3>2. Cardinality(executed) = 1
      BY <3>1, FS_Singleton
    <3>3. authority_spent /\ AppendVersionAdvanced(PostgresWriteSideResult(A1)) /\ pc[A2] # "new"
      BY <2>2 DEF RecoveryInv, OwnerInv, ResultsInv
    <3> QED BY <3>1, <3>2, <3>3 DEF RecoveryIsEarned
  <2> QED BY <2>1, <2>2
<1> QED BY <1>1, <1>2, <1>3, <1>4, OwnerImplements, OwnerInvariance, Invariance, Answers, PTL
    DEF RecoverySpec

----------------------------------------------------------------------------
(* What a finished invocation still has.                                   *)

\* A conflict is with a record that exists, and an accepted invocation keeps
\* the event it returns.
KeepsEvidence(w) ==
  /\ result[w].outcome = "CONFLICT" => RecordOf(CommandOf(w)) # {}
  /\ result[w].outcome = "ACCEPTED" => candidate[w] # {}

KeptInv == \A w \in Invocations : KeepsEvidence(w)

\* Where the two outcomes come from.
LEMMA OutcomeOrigin ==
  ASSUME IInv, NEW w \in Invocations,
         Begin(w) \/ Step(w) \/ InsertLockTimeout(w) \/ CommitUnacknowledged(w) \/ Fail(w)
  PROVE  \/ result' = result
         \/ \E r : /\ result' = [result EXCEPT ![w] = r]
                   /\ r.outcome = "CONFLICT" => RecordOf(CommandOf(w)) # {} /\ command' = command
                   /\ r.outcome = "ACCEPTED" => pc[w] = "commit" /\ candidate' = candidate
<1> DEFINE Origin(r) ==
             /\ result' = [result EXCEPT ![w] = r]
             /\ r.outcome = "CONFLICT" => RecordOf(CommandOf(w)) # {} /\ command' = command
             /\ r.outcome = "ACCEPTED" => pc[w] = "commit" /\ candidate' = candidate
           Shape == result' = result \/ \E r : Origin(r)
<1> SUFFICES Shape
  OBVIOUS
<1>1. ASSUME NEW o \in {"REPLAY", "VALIDATION_BLOCKED", "RAISED"}, NEW e,
             RollbackAndReturn(w, Outcome(o, e))
      PROVE  Shape
  <2>1. Outcome(o, e).outcome = o
    BY ToldFields
  <2>2. Origin(Outcome(o, e))
    BY <1>1, <2>1 DEF RollbackAndReturn
  <2> QED BY <2>2
<1>2. ASSUME NEW v, NEW m, RollbackAndReturn(w, AdmissionRejected(v, m)) PROVE Shape
  <2>1. AdmissionRejected(v, m).outcome = "ADMISSION_REJECTED"
    BY ToldFields
  <2>2. Origin(AdmissionRejected(v, m))
    BY <1>2, <2>1 DEF RollbackAndReturn
  <2> QED BY <2>2
<1>3. ASSUME NEW next, Goto(w, next) PROVE Shape
  BY <1>3 DEF Goto
<1>4. CASE PreliminaryCheck(w) \/ AuthoritativeCheck(w)
  <2>1. /\ command' = command
        /\ \/ Goto(w, "load") \/ Goto(w, "prepare")
           \/ \E e : RollbackAndReturn(w, Outcome("REPLAY", e))
           \/ /\ IdempotencyVerdict(CommandOf(w)) = "CONFLICT"
              /\ RollbackAndReturn(w, Outcome("CONFLICT", NoEvent))
    BY <1>4, Zenon DEF PreliminaryCheck, AuthoritativeCheck, CheckIdempotency, call
  <2>2. CASE /\ IdempotencyVerdict(CommandOf(w)) = "CONFLICT"
             /\ RollbackAndReturn(w, Outcome("CONFLICT", NoEvent))
    <3>1. RecordOf(CommandOf(w)) # {}
      BY <2>2 DEF IdempotencyVerdict
    <3>2. Outcome("CONFLICT", NoEvent).outcome = "CONFLICT"
      BY ToldFields
    <3>3. Origin(Outcome("CONFLICT", NoEvent))
      BY <2>1, <2>2, <3>1, <3>2 DEF RollbackAndReturn
    <3> QED BY <3>3
  <2> HIDE DEF Shape
  <2> QED BY <2>1, <2>2, <1>1, <1>3
<1>5. CASE Commit(w) \/ CommitUnacknowledged(w)
  <2>1. /\ pc[w] = "commit" /\ candidate' = candidate
        /\ \E r \in {Outcome("ACCEPTED", TheCandidate(w).event_id), Outcome("RAISED", NoEvent)} :
             result' = [result EXCEPT ![w] = r]
    BY <1>5 DEF Commit, CommitUnacknowledged
  <2>2. \A e : /\ Outcome("ACCEPTED", e).outcome = "ACCEPTED"
               /\ Outcome("RAISED", e).outcome = "RAISED"
    BY ToldFields
  <2>3. ASSUME NEW r \in {Outcome("ACCEPTED", TheCandidate(w).event_id), Outcome("RAISED", NoEvent)},
               result' = [result EXCEPT ![w] = r]
        PROVE  Origin(r)
    BY <2>1, <2>2, <2>3
  <2> QED BY <2>1, <2>3
<1> HIDE DEF Shape
<1>6. CASE Begin(w) \/ Load(w)
  <2>1. \/ \E next : Goto(w, next)
        \/ RollbackAndReturn(w, Outcome("RAISED", NoEvent))
        \/ RollbackAndReturn(w, Outcome("VALIDATION_BLOCKED", NoEvent))
    BY <1>6, Zenon DEF Begin, Load, Raise
  <2> QED BY <2>1, <1>1, <1>3
<1>7. CASE PrepareStream(w) \/ AppendVersionCheck(w) \/ InsertLockTimeout(w)
  <2>1. (\E next : Goto(w, next)) \/ \E v, m : RollbackAndReturn(w, AdmissionRejected(v, m))
    BY <1>7, Zenon DEF PrepareStream, AppendVersionCheck, InsertLockTimeout
  <2> QED BY <2>1, <1>2, <1>3
<1>8. CASE InsertEvent(w) \/ InsertResumes(w) \/ InsertWaits(w)
  <2>1. (\E next : Goto(w, next)) \/ \E v, m : RollbackAndReturn(w, AdmissionRejected(v, m))
    BY <1>8, Zenon DEF InsertEvent, InsertResumes, InsertWaits, FinishInsert
  <2> QED BY <2>1, <1>2, <1>3
<1>9. CASE RecordIdempotency(w) \/ Fail(w)
  <2>1. (\E next : Goto(w, next)) \/ RollbackAndReturn(w, Outcome("RAISED", NoEvent))
    BY <1>9, Zenon DEF RecordIdempotency, Fail, Raise
  <2> QED BY <2>1, <1>1, <1>3
<1>10. ASSUME Step(w) PROVE Shape
  BY <1>10, <1>4, <1>5, <1>6, <1>7, <1>8, <1>9 DEF Step
<1> QED BY <1>5, <1>6, <1>7, <1>9, <1>10

\* What is recorded stays recorded.
LEMMA RecordsStay ==
  ASSUME IInv, [Next]_vars
  PROVE  order_events \subseteq order_events' /\ idempotency_records \subseteq idempotency_records'
<1>1. CASE UNCHANGED vars
  BY <1>1 DEF vars, database
<1>2. CASE Next
  <2>1. PICK w \in Invocations :
          Begin(w) \/ Step(w) \/ InsertLockTimeout(w) \/ CommitUnacknowledged(w) \/ Fail(w)
    BY <1>2 DEF Next
  <2>2. MovesOn(w) \/ (\E r : Returns(w, r)) \/ Publishes(w)
    BY <2>1, StepShape
  <2> QED BY <2>2 DEF MovesOn, Returns, Publishes, NothingCommitted, Publish
<1> QED BY <1>1, <1>2

\* Every step of the write side keeps that evidence.
LEMMA NextKept ==
  ASSUME IInv, AnswersInv, KeptInv, [Next]_vars
  PROVE  KeptInv'
<1>1. CASE UNCHANGED vars
  BY <1>1 DEF vars, database, call, KeptInv, KeepsEvidence, RecordOf, CommandOf
<1>2. CASE Next
  <2>1. PICK w \in Invocations :
          Begin(w) \/ Step(w) \/ InsertLockTimeout(w) \/ CommitUnacknowledged(w) \/ Fail(w)
    BY <1>2 DEF Next
  <2>2. \A c : RecordOf(c) # {} => RecordOf(c)' # {}
    BY RecordsStay DEF RecordOf
  <2>3. ASSUME NEW x \in Invocations \ {w} PROVE KeepsEvidence(x)'
    <3>1. result'[x] = result[x] /\ candidate'[x] = candidate[x] /\ command'[x] = command[x]
      BY <2>1, OthersUntouched, OthersCall
    <3>2. CommandOf(x)' = CommandOf(x)
      BY <3>1 DEF CommandOf
    <3>3. KeepsEvidence(x)
      BY DEF KeptInv
    <3> QED BY <2>2, <3>1, <3>2, <3>3 DEF KeepsEvidence, RecordOf
  <2>4. KeepsEvidence(w)'
    <3>1. MovesOn(w) \/ (\E r : Returns(w, r)) \/ Publishes(w)
      BY <2>1, StepShape
    <3>2. result[w].outcome = "none" /\ DOMAIN result = Invocations
      BY <3>1 DEF MovesOn, Returns, Publishes, AnswersInv, NoResult, Result, IInv, TypeOK
    <3>3. CASE result' = result
      BY <3>2, <3>3 DEF KeepsEvidence
    <3>4. ASSUME NEW r, result' = [result EXCEPT ![w] = r],
                 r.outcome = "CONFLICT" => RecordOf(CommandOf(w)) # {} /\ command' = command,
                 r.outcome = "ACCEPTED" => pc[w] = "commit" /\ candidate' = candidate
          PROVE  KeepsEvidence(w)'
      <4>1. result'[w] = r
        BY <3>2, <3>4
      <4>2. command' = command => CommandOf(w)' = CommandOf(w)
        BY DEF CommandOf
      <4>3. r.outcome = "CONFLICT" => RecordOf(CommandOf(w))' # {}
        BY <2>2, <3>4, <4>2 DEF RecordOf
      <4>4. pc[w] = "commit" => candidate[w] # {}
        BY DEF IInv, Coupled
      <4> QED BY <3>4, <4>1, <4>3, <4>4 DEF KeepsEvidence
    <3> QED BY <2>1, <3>3, <3>4, OutcomeOrigin
  <2> QED BY <2>3, <2>4 DEF KeptInv
<1> QED BY <1>1, <1>2

\* A finished invocation keeps its evidence in every behaviour.
LEMMA Kept == Spec => []KeptInv
<1>1. Init => KeptInv
  BY DEF Init, KeptInv, KeepsEvidence, NoResult, Result
<1>2. IInv /\ AnswersInv /\ KeptInv /\ [Next]_vars => KeptInv'
  BY NextKept
<1> QED BY <1>1, <1>2, Invariance, Answers, PTL DEF Spec

----------------------------------------------------------------------------
(* The result objects there are.                                           *)

Missing == [verdict |-> "MISS", record |-> {}]
StreamPart(v, o) == {[verdict |-> v, order_id |-> o]}
ValidationPart(a, w) == {[action |-> a, candidate_event_id |-> w]}

\* The parts of the result of an invocation w that was accepted,
AcceptedParts(r, w) ==
  /\ r.outcome = "ACCEPTED" /\ r.idempotency_decision = Missing
  /\ \E e : /\ r.accepted_event = {e} /\ e.event_id = w
            /\ r.stream_admission_result = StreamPart("ADMITTED", e.order_id)
  /\ r.validation_decision = ValidationPart("ALLOW", w)
  /\ \E p : /\ r.admission_result = {p}
            /\ p.verdict = "ADMITTED" /\ p.candidate_event_id = w /\ p.accepted_event_id = {w}

\* that found the record i of its request,
FoundParts(r, w, i) ==
  /\ r.outcome \in {"REPLAY", "CONFLICT"}
  /\ r.idempotency_decision = [verdict |-> r.outcome, record |-> {i}]
  /\ i.signature.order_id = i.accepted_event.order_id
  /\ i.signature.request_id = i.accepted_event.request_id
  /\ r.accepted_event = IF r.outcome = "REPLAY" THEN {i.accepted_event} ELSE {}
  /\ r.stream_admission_result = {} /\ r.admission_result = {}
  /\ r.validation_decision \in {{}, ValidationPart("ALLOW", w)}

\* whose candidate was blocked,
BlockedParts(r, w) ==
  /\ r.outcome = "VALIDATION_BLOCKED" /\ r.idempotency_decision = Missing /\ r.accepted_event = {}
  /\ \E o : r.stream_admission_result \in {{}, StreamPart("ADMITTED", o)}
  /\ r.validation_decision = ValidationPart("BLOCK", w) /\ r.admission_result = {}

\* and that was rejected for its stream o, before append or by append.
RejectedParts(r, w, o) ==
  /\ r.outcome = "ADMISSION_REJECTED" /\ r.idempotency_decision = Missing /\ r.accepted_event = {}
  /\ \E v \in {"LOCK_TIMEOUT", "STALE_WRITE"} :
       \/ /\ r.stream_admission_result = StreamPart(v, o) /\ r.admission_result = {}
          /\ r.validation_decision \in {{}, ValidationPart("ALLOW", w)}
       \/ /\ r.stream_admission_result = StreamPart("ADMITTED", o)
          /\ r.validation_decision = ValidationPart("ALLOW", w)
          /\ \E p : /\ r.admission_result = {p} /\ p.verdict = v
                    /\ p.candidate_event_id = w /\ p.accepted_event_id = {}

\* The parts of a result object that follow from the trace.
LEMMA TracedParts ==
  ASSUME NEW w
  PROVE  LET r == PostgresWriteSideResult(w)
             rejected == result[w].outcome = "ADMISSION_REJECTED"
         IN  /\ r.outcome = result[w].outcome
             /\ r.idempotency_decision = IdempotencyDecision(w)
             /\ result[w].outcome = "ACCEPTED" => r.accepted_event = candidate[w]
             /\ result[w].outcome = "REPLAY" =>
                  r.accepted_event = {i.accepted_event : i \in IdempotencyDecision(w).record}
             /\ result[w].outcome \notin {"ACCEPTED", "REPLAY"} => r.accepted_event = {}
             /\ r.stream_admission_result =
                  IF ~Reached(w, "CONCURRENCY_PREPARATION_RETURNED") THEN {}
                  ELSE StreamPart(IF rejected /\ ~AppendReached(w) THEN result[w].verdict
                                  ELSE "ADMITTED", CommandOf(w).order_id)
             /\ r.validation_decision =
                  IF ~Reached(w, "VALIDATION_RETURNED") THEN {}
                  ELSE ValidationPart(IF result[w].outcome = "VALIDATION_BLOCKED" THEN "BLOCK"
                                      ELSE "ALLOW", w)
             /\ r.admission_result =
                  IF ~AppendReached(w) THEN {}
                  ELSE {[verdict |-> IF rejected THEN result[w].verdict ELSE "ADMITTED",
                         candidate_event_id |-> w,
                         accepted_event_id |-> IF rejected THEN {} ELSE {w},
                         version_mismatch |-> result[w].version_mismatch]}
BY DEF PostgresWriteSideResult, StreamPart, ValidationPart

\* The record that a replay or a conflict was decided by, and its event.
LEMMA FoundRecord ==
  ASSUME IInv, AnswersInv, ToldInv, KeptInv, NEW w \in Invocations,
         result[w].outcome \in {"REPLAY", "CONFLICT"}
  PROVE  \E i : \E s \in order_events :
           /\ IdempotencyDecision(w) = [verdict |-> result[w].outcome, record |-> {i}]
           /\ i.accepted_event = s.event /\ s.event.event_id # w
           /\ s.event.request_id = CommandOf(w).request_id
           /\ i.signature.order_id = s.event.order_id /\ i.signature.request_id = s.event.request_id
<1>1. RecordOf(CommandOf(w)) # {}
  BY DEF AnswersInv, IsFact, KeptInv, KeepsEvidence, RecordOf
<1>2. PICK j \in idempotency_records :
        RecordOf(CommandOf(w)) = {j} /\ j.request_id = CommandOf(w).request_id
  BY <1>1 DEF RecordOf, IInv, MemoryInv
<1>3. PICK s \in order_events : Accounts(j, s.event) /\ s.event.order_id = j.semantic_fingerprint[2]
  BY DEF ToldInv, RecordsInv
<1>4. EventsNamed({j.accepted_event_id}) = {s.event}
  BY <1>3 DEF EventsNamed, Accounts, IInv, StreamsInv
<1>5. s.event.event_id # w
  BY DEF ToldInv, Told
<1> DEFINE i == [signature |-> RecordSignature(j), accepted_event |-> s.event]
<1>6. (CHOOSE e \in EventsNamed({j.accepted_event_id}) : TRUE) = s.event
  BY <1>4
<1>7. IdempotencyDecision(w) = [verdict |-> result[w].outcome, record |-> {i}]
  BY <1>2, <1>6 DEF IdempotencyDecision
<1>8. /\ i.accepted_event = s.event
      /\ i.signature.order_id = s.event.order_id /\ i.signature.request_id = s.event.request_id
  BY <1>2, <1>3 DEF RecordSignature, Accounts
<1> HIDE DEF i
<1> QED BY <1>2, <1>3, <1>5, <1>7, <1>8 DEF Accounts

\* Every normal result of the write side is one of the four.
LEMMA PartsOfResult ==
  ASSUME IInv, AnswersInv, TraceInv, ToldInv, KeptInv, NEW w \in Invocations, ReturnedNormally(w),
         NEW r, r = PostgresWriteSideResult(w)
  PROVE  \/ AcceptedParts(r, w)
         \/ \E i : \E s \in order_events :
              /\ FoundParts(r, w, i) /\ i.accepted_event = s.event
              /\ s.event.event_id # w /\ s.event.request_id = CommandOf(w).request_id
         \/ BlockedParts(r, w)
         \/ RejectedParts(r, w, CommandOf(w).order_id)
<1>1. PICK n \in 1..8 : ReachedBy(w, n) /\ ReturnedAt(w, n)
  BY ReturnedTrace
<1>2. result[w].outcome \in {"ACCEPTED", "REPLAY", "CONFLICT", "VALIDATION_BLOCKED",
                             "ADMISSION_REJECTED"}
  BY DEF IInv, TypeOK, ResultRecord, Outcomes, ReturnedNormally
<1>3. PICK o : o = CommandOf(w).order_id
  OBVIOUS
<1>4. result[w].outcome \notin {"REPLAY", "CONFLICT"} => r.idempotency_decision = Missing
  BY TracedParts DEF IdempotencyDecision, Missing
<1> DEFINE prepared == Reached(w, "CONCURRENCY_PREPARATION_RETURNED")
           validated == Reached(w, "VALIDATION_RETURNED")
           appended == Reached(w, "APPEND_ADMISSION_RETURNED")
<1>5. /\ result[w].outcome = "ACCEPTED" => prepared /\ validated /\ appended
      /\ result[w].outcome \in {"REPLAY", "CONFLICT"} => ~prepared /\ ~appended
      /\ result[w].outcome = "VALIDATION_BLOCKED" => validated /\ ~appended
      /\ result[w].outcome = "ADMISSION_REJECTED" => prepared /\ (appended => validated)
  BY <1>1, <1>2 DEF ReachedBy, ReturnedAt
<1> HIDE DEF prepared, validated, appended
<1>6. CASE result[w].outcome = "ACCEPTED"
  <2>1. PICK e : candidate[w] = {e} /\ e.event_id = w /\ e.order_id = o
    <3>1. candidate[w] = {TheCandidate(w)}
      BY <1>6, HeldCandidate DEF KeptInv, KeepsEvidence, IInv
    <3>2. TheCandidate(w).event_id = w /\ TheCandidate(w).order_id = o
      BY <1>3, <3>1 DEF IInv, Coupled
    <3> QED BY <3>1, <3>2
  <2> DEFINE p == [verdict |-> "ADMITTED", candidate_event_id |-> w, accepted_event_id |-> {w},
                   version_mismatch |-> result[w].version_mismatch]
  <2>2. /\ r.outcome = "ACCEPTED" /\ r.accepted_event = {e}
        /\ r.stream_admission_result = StreamPart("ADMITTED", o)
        /\ r.validation_decision = ValidationPart("ALLOW", w) /\ r.admission_result = {p}
    BY <1>3, <1>5, <1>6, <2>1, TracedParts DEF prepared, validated, appended, AppendReached
  <2>3. p.verdict = "ADMITTED" /\ p.candidate_event_id = w /\ p.accepted_event_id = {w}
    OBVIOUS
  <2> HIDE DEF p
  <2> QED BY <1>4, <1>6, <2>1, <2>2, <2>3 DEF AcceptedParts
<1>7. CASE result[w].outcome \in {"REPLAY", "CONFLICT"}
  <2>1. PICK i : \E s \in order_events :
           /\ IdempotencyDecision(w) = [verdict |-> result[w].outcome, record |-> {i}]
           /\ i.accepted_event = s.event /\ s.event.event_id # w
           /\ s.event.request_id = CommandOf(w).request_id
           /\ i.signature.order_id = s.event.order_id /\ i.signature.request_id = s.event.request_id
    BY <1>7, FoundRecord
  <2>2. /\ r.outcome = result[w].outcome /\ r.idempotency_decision = IdempotencyDecision(w)
        /\ r.stream_admission_result = {} /\ r.admission_result = {}
        /\ r.validation_decision \in {{}, ValidationPart("ALLOW", w)}
    BY <1>5, <1>7, TracedParts DEF prepared, validated, appended, AppendReached
  <2>3. {j.accepted_event : j \in IdempotencyDecision(w).record} = {i.accepted_event}
    BY <2>1
  <2>4. r.accepted_event = IF r.outcome = "REPLAY" THEN {i.accepted_event} ELSE {}
    BY <1>7, <2>2, <2>3, TracedParts
  <2>5. FoundParts(r, w, i)
    BY <1>7, <2>1, <2>2, <2>4 DEF FoundParts
  <2> QED BY <2>1, <2>5
<1>8. CASE result[w].outcome = "VALIDATION_BLOCKED"
  <2>1. /\ r.outcome = "VALIDATION_BLOCKED" /\ r.accepted_event = {}
        /\ r.stream_admission_result \in {{}, StreamPart("ADMITTED", o)}
        /\ r.validation_decision = ValidationPart("BLOCK", w) /\ r.admission_result = {}
    BY <1>3, <1>5, <1>8, TracedParts DEF prepared, validated, appended, AppendReached
  <2> QED BY <1>4, <1>8, <2>1 DEF BlockedParts
<1>9. CASE result[w].outcome = "ADMISSION_REJECTED"
  <2>1. PICK v \in {"LOCK_TIMEOUT", "STALE_WRITE"} : v = result[w].verdict
    BY <1>9 DEF ToldInv, Told, IInv, TypeOK, ResultRecord
  <2>2. /\ r.outcome = "ADMISSION_REJECTED" /\ r.accepted_event = {}
        /\ r.idempotency_decision = Missing
    BY <1>4, <1>9, TracedParts
  <2>3. CASE appended
    <3> DEFINE p == [verdict |-> v, candidate_event_id |-> w, accepted_event_id |-> {},
                     version_mismatch |-> result[w].version_mismatch]
    <3>1. /\ r.stream_admission_result = StreamPart("ADMITTED", o)
          /\ r.validation_decision = ValidationPart("ALLOW", w) /\ r.admission_result = {p}
      BY <1>3, <1>5, <1>9, <2>1, <2>3, TracedParts DEF prepared, validated, appended, AppendReached
    <3>2. p.verdict = v /\ p.candidate_event_id = w /\ p.accepted_event_id = {}
      OBVIOUS
    <3> HIDE DEF p
    <3>3. RejectedParts(r, w, o)
      BY <2>2, <3>1, <3>2 DEF RejectedParts
    <3> QED BY <1>3, <3>3
  <2>4. CASE ~appended
    <3>1. /\ r.stream_admission_result = StreamPart(v, o) /\ r.admission_result = {}
          /\ r.validation_decision \in {{}, ValidationPart("ALLOW", w)}
      BY <1>3, <1>5, <1>9, <2>1, <2>4, TracedParts DEF prepared, validated, appended, AppendReached
    <3>2. RejectedParts(r, w, o)
      BY <2>2, <3>1 DEF RejectedParts
    <3> QED BY <1>3, <3>2
  <2> QED BY <2>3, <2>4
<1> QED BY <1>2, <1>6, <1>7, <1>8, <1>9

----------------------------------------------------------------------------
(* What the two mappers make of each.                                      *)

\* The mappers read the same things from the result of w, and nothing is
\* missing and nothing twice.
Explains(r, w) ==
  LET identity == SelectedIdentity(r)
  IN  /\ OutcomeShape(r) /\ AtMostOne(OrderIds(r)) /\ AtMostOne(RequestIds(r))
      /\ ResultShape(r) /\ AtMostOne(identity.order_id) /\ AtMostOne(identity.request_id)
      /\ AtMostOne(identity.accepted_event_id)
      /\ r.outcome = "ACCEPTED" => AcceptedIdentity(r, identity)
      /\ Subject(r, identity).id # {}
      /\ identity.candidate_event_id \in {{}, {w}}
      /\ CandidateOfContext(r) = identity.candidate_event_id
      /\ {e.event_id : e \in AcceptedEventFromResult(r)} = identity.accepted_event_id
      /\ TechnicalStatus(r) = MirroredStatus(r)

\* The admission fate that the receipt names, and the events it names with it.
Fated(r, w) ==
  LET identity == SelectedIdentity(r)
      subject  == Subject(r, identity)
  IN  \/ /\ AdmissionDisposition(r) = "ADMITTED_TO_ACCEPTED_HISTORY"
         /\ r.outcome = "ACCEPTED"
         /\ identity.candidate_event_id = {w} /\ identity.accepted_event_id = {w}
         /\ subject = [type |-> "ACCEPTED_EVENT", id |-> {w}]
      \/ /\ AdmissionDisposition(r) \in {"SEMANTIC_ADMISSION_REJECTED",
              "APPEND_CONCURRENCY_CONFLICT", "APPEND_TECHNICAL_FAILURE"}
         /\ r.outcome \in {"VALIDATION_BLOCKED", "ADMISSION_REJECTED"}
         /\ identity.candidate_event_id = {w} /\ identity.accepted_event_id = {}
         /\ subject = [type |-> "CANDIDATE_EVENT", id |-> {w}]
      \/ /\ AdmissionDisposition(r) = "APPEND_ADMISSION_NOT_REACHED"
         /\ r.outcome = "ADMISSION_REJECTED" /\ identity.accepted_event_id = {}
         /\ subject \in {[type |-> "CANDIDATE_EVENT", id |-> {w}],
                         [type |-> "ORDER", id |-> identity.order_id]}

\* The same for a request that was found, with the event a of its record.
FatedByRecord(r, a) ==
  LET identity == SelectedIdentity(r)
      subject  == Subject(r, identity)
  IN  /\ identity.accepted_event_id = {a.event_id}
      /\ \/ /\ AdmissionDisposition(r) = "MATCHED_EXISTING_ACCEPTED_EVENT" /\ r.outcome = "REPLAY"
            /\ subject = [type |-> "ACCEPTED_EVENT", id |-> {a.event_id}]
         \/ /\ AdmissionDisposition(r) = "IDEMPOTENCY_CONFLICT_WITH_ACCEPTED_HISTORY"
            /\ r.outcome = "CONFLICT" /\ subject = [type |-> "REQUEST", id |-> {a.request_id}]

\* An acceptance.
LEMMA AcceptedExplained ==
  ASSUME NEW r, NEW w, AcceptedParts(r, w)
  PROVE  Explains(r, w) /\ Fated(r, w)
<1>1. PICK e : /\ r.accepted_event = {e} /\ e.event_id = w
               /\ r.stream_admission_result = StreamPart("ADMITTED", e.order_id)
  BY DEF AcceptedParts
<1>2. PICK p : /\ r.admission_result = {p}
               /\ p.verdict = "ADMITTED" /\ p.candidate_event_id = w /\ p.accepted_event_id = {w}
  BY DEF AcceptedParts
<1>3. /\ r.outcome = "ACCEPTED" /\ r.idempotency_decision = Missing
      /\ r.validation_decision = ValidationPart("ALLOW", w)
  BY DEF AcceptedParts
<1>4. r.idempotency_decision.record = {}
  BY <1>3 DEF Missing
<1>5. AcceptedEvents(r) = {e} /\ AcceptedEventFromResult(r) = {e}
  BY <1>1, <1>4 DEF AcceptedEvents, AcceptedEventFromResult
<1>6. SelectedIdentity(r) = [order_id |-> {e.order_id}, request_id |-> {e.request_id},
                             candidate_event_id |-> {w}, accepted_event_id |-> {w}]
  <2>1. {s.order_id : s \in r.stream_admission_result} = {e.order_id}
    BY <1>1 DEF StreamPart
  <2>2. {d.candidate_event_id : d \in r.validation_decision} = {w}
    BY <1>3 DEF ValidationPart
  <2>3. {q.candidate_event_id : q \in r.admission_result} = {w}
    BY <1>2
  <2>4. /\ {f.order_id : f \in AcceptedEvents(r)} = {e.order_id}
        /\ {f.request_id : f \in AcceptedEvents(r)} = {e.request_id}
        /\ {f.event_id : f \in AcceptedEvents(r)} = {w}
    BY <1>1, <1>5
  <2>5. /\ {i.signature.order_id : i \in r.idempotency_decision.record} = {}
        /\ {i.signature.request_id : i \in r.idempotency_decision.record} = {}
    BY <1>4
  <2> QED BY <2>1, <2>2, <2>3, <2>4, <2>5 DEF SelectedIdentity
<1>7. OrderIds(r) = {e.order_id} /\ RequestIds(r) = {e.request_id} /\ CandidateOfContext(r) = {w}
  BY <1>1, <1>2, <1>4, <1>5 DEF OrderIds, RequestIds, CandidateOfContext, StreamPart
<1>8. OutcomeShape(r)
  BY <1>1, <1>2, <1>3 DEF OutcomeShape
<1>9. ResultShape(r)
  <2>1. Admitted(r.stream_admission_result) /\ Admitted(r.admission_result) /\ Allowing(r)
    BY <1>1, <1>2, <1>3 DEF Admitted, Allowing, StreamPart, ValidationPart
  <2>2. Missed(r)
    BY <1>3 DEF Missed, Missing
  <2>3. AcceptedShape(r)
    BY <1>1, <1>2, <2>1, <2>2 DEF AcceptedShape
  <2> QED BY <1>3, <2>3 DEF ResultShape
<1>10. /\ TechnicalStatus(r) = MirroredStatus(r)
       /\ AdmissionDisposition(r) = "ADMITTED_TO_ACCEPTED_HISTORY"
  <2>1. TechnicalStatus(r) = "WRITE_SIDE_ACCEPTED"
    BY <1>3 DEF TechnicalStatus
  <2>2. MirroredStatus(r) = "WRITE_SIDE_ACCEPTED"
    BY <1>3 DEF MirroredStatus
  <2>3. AdmissionDisposition(r) = "ADMITTED_TO_ACCEPTED_HISTORY"
    BY <1>3 DEF AdmissionDisposition
  <2> QED BY <2>1, <2>2, <2>3
<1>11. Subject(r, SelectedIdentity(r)) = [type |-> "ACCEPTED_EVENT", id |-> {w}]
  BY <1>3, <1>6 DEF Subject
<1>12. AcceptedIdentity(r, SelectedIdentity(r))
  BY <1>2, <1>6 DEF AcceptedIdentity
<1>13. {f.event_id : f \in AcceptedEventFromResult(r)} = {w}
  BY <1>1, <1>5
<1>14. Explains(r, w)
  <2>1. Subject(r, SelectedIdentity(r)).id # {}
    BY <1>11
  <2>2. /\ SelectedIdentity(r).order_id = {e.order_id}
        /\ SelectedIdentity(r).request_id = {e.request_id}
        /\ SelectedIdentity(r).candidate_event_id = {w} /\ SelectedIdentity(r).accepted_event_id = {w}
    BY <1>6
  <2> QED BY <1>7, <1>8, <1>9, <1>10, <1>12, <1>13, <2>1, <2>2 DEF Explains, AtMostOne
<1>15. Fated(r, w)
  BY <1>3, <1>6, <1>10, <1>11 DEF Fated
<1> QED BY <1>14, <1>15

\* A replay or a conflict.
LEMMA FoundExplained ==
  ASSUME NEW r, NEW w, NEW i, FoundParts(r, w, i)
  PROVE  Explains(r, w) /\ FatedByRecord(r, i.accepted_event)
<1>1. PICK a : a = i.accepted_event
  OBVIOUS
<1>2. /\ r.outcome \in {"REPLAY", "CONFLICT"}
      /\ r.idempotency_decision = [verdict |-> r.outcome, record |-> {i}]
      /\ i.signature.order_id = a.order_id /\ i.signature.request_id = a.request_id
      /\ r.accepted_event = IF r.outcome = "REPLAY" THEN {a} ELSE {}
      /\ r.stream_admission_result = {} /\ r.admission_result = {}
      /\ r.validation_decision \in {{}, ValidationPart("ALLOW", w)}
  BY <1>1 DEF FoundParts
<1>3. r.idempotency_decision.record = {i} /\ r.idempotency_decision.verdict = r.outcome
  BY <1>2
<1>4. AcceptedEvents(r) = {a} /\ AcceptedEventFromResult(r) = {a}
  BY <1>1, <1>2, <1>3 DEF AcceptedEvents, AcceptedEventFromResult
<1>5. PICK c \in {{}, {w}} : c = {d.candidate_event_id : d \in r.validation_decision}
  BY <1>2 DEF ValidationPart
<1>6. SelectedIdentity(r) = [order_id |-> {a.order_id}, request_id |-> {a.request_id},
                             candidate_event_id |-> c, accepted_event_id |-> {a.event_id}]
  <2>1. {s.order_id : s \in r.stream_admission_result} = {}
    BY <1>2
  <2>2. {q.candidate_event_id : q \in r.admission_result} = {}
    BY <1>2
  <2>3. /\ {f.order_id : f \in AcceptedEvents(r)} = {a.order_id}
        /\ {f.request_id : f \in AcceptedEvents(r)} = {a.request_id}
        /\ {f.event_id : f \in AcceptedEvents(r)} = {a.event_id}
    BY <1>4
  <2>4. /\ {j.signature.order_id : j \in r.idempotency_decision.record} = {a.order_id}
        /\ {j.signature.request_id : j \in r.idempotency_decision.record} = {a.request_id}
    BY <1>2, <1>3
  <2> QED BY <1>5, <2>1, <2>2, <2>3, <2>4 DEF SelectedIdentity
<1>7. OrderIds(r) = {a.order_id} /\ RequestIds(r) = {a.request_id} /\ CandidateOfContext(r) = c
  BY <1>2, <1>3, <1>4, <1>5 DEF OrderIds, RequestIds, CandidateOfContext
<1>8. OutcomeShape(r)
  BY <1>2, <1>4 DEF OutcomeShape
<1>9. ResultShape(r)
  <2>1. r.validation_decision # {} => Allowing(r)
    BY <1>2 DEF Allowing, ValidationPart
  <2>2. ReplayOrConflictShape(r)
    BY <1>2, <1>3, <2>1 DEF ReplayOrConflictShape
  <2> QED BY <1>2, <2>2 DEF ResultShape
<1>10. TechnicalStatus(r) = MirroredStatus(r)
  BY <1>2 DEF TechnicalStatus, MirroredStatus
<1>11. /\ r.outcome = "REPLAY" =>
            /\ AdmissionDisposition(r) = "MATCHED_EXISTING_ACCEPTED_EVENT"
            /\ Subject(r, SelectedIdentity(r)) = [type |-> "ACCEPTED_EVENT", id |-> {a.event_id}]
       /\ r.outcome = "CONFLICT" =>
            /\ AdmissionDisposition(r) = "IDEMPOTENCY_CONFLICT_WITH_ACCEPTED_HISTORY"
            /\ Subject(r, SelectedIdentity(r)) = [type |-> "REQUEST", id |-> {a.request_id}]
  <2>1. CASE r.outcome = "REPLAY"
    <3>1. AdmissionDisposition(r) = "MATCHED_EXISTING_ACCEPTED_EVENT"
      BY <2>1 DEF AdmissionDisposition
    <3>2. Subject(r, SelectedIdentity(r)) = [type |-> "ACCEPTED_EVENT", id |-> {a.event_id}]
      BY <1>6, <2>1 DEF Subject
    <3> QED BY <2>1, <3>1, <3>2
  <2>2. CASE r.outcome = "CONFLICT"
    <3>1. AdmissionDisposition(r) = "IDEMPOTENCY_CONFLICT_WITH_ACCEPTED_HISTORY"
      BY <2>2 DEF AdmissionDisposition
    <3>2. Subject(r, SelectedIdentity(r)) = [type |-> "REQUEST", id |-> {a.request_id}]
      BY <1>6, <2>2 DEF Subject
    <3> QED BY <2>2, <3>1, <3>2
  <2> QED BY <1>2, <2>1, <2>2
<1>12. Subject(r, SelectedIdentity(r)).id # {}
  BY <1>2, <1>11
<1>13. {f.event_id : f \in AcceptedEventFromResult(r)} = {a.event_id}
  BY <1>4
<1>14. Explains(r, w)
  <2>1. r.outcome # "ACCEPTED"
    BY <1>2
  <2> QED BY <1>6, <1>7, <1>8, <1>9, <1>10, <1>12, <1>13, <2>1, SMTT(30) DEF Explains, AtMostOne
<1>15. FatedByRecord(r, a)
  BY <1>2, <1>6, <1>11 DEF FatedByRecord
<1> QED BY <1>1, <1>14, <1>15

\* A validation block.
LEMMA BlockedExplained ==
  ASSUME NEW r, NEW w, BlockedParts(r, w)
  PROVE  Explains(r, w) /\ Fated(r, w)
<1>1. PICK o : r.stream_admission_result \in {{}, StreamPart("ADMITTED", o)}
  BY DEF BlockedParts
<1>2. /\ r.outcome = "VALIDATION_BLOCKED" /\ r.idempotency_decision = Missing
      /\ r.accepted_event = {} /\ r.admission_result = {}
      /\ r.validation_decision = ValidationPart("BLOCK", w)
  BY DEF BlockedParts
<1>3. r.idempotency_decision.record = {}
  BY <1>2 DEF Missing
<1>4. AcceptedEvents(r) = {} /\ AcceptedEventFromResult(r) = {}
  BY <1>2, <1>3 DEF AcceptedEvents, AcceptedEventFromResult
<1>5. PICK q \in {{}, {o}} : q = {s.order_id : s \in r.stream_admission_result}
  BY <1>1 DEF StreamPart
<1>6. SelectedIdentity(r) = [order_id |-> q, request_id |-> {},
                             candidate_event_id |-> {w}, accepted_event_id |-> {}]
  <2>1. {d.candidate_event_id : d \in r.validation_decision} = {w}
    BY <1>2 DEF ValidationPart
  <2> QED BY <1>2, <1>3, <1>4, <1>5, <2>1 DEF SelectedIdentity
<1>7. OrderIds(r) = q /\ RequestIds(r) = {} /\ CandidateOfContext(r) = {w}
  BY <1>2, <1>3, <1>4, <1>5 DEF OrderIds, RequestIds, CandidateOfContext, ValidationPart
<1>8. OutcomeShape(r)
  BY <1>2 DEF OutcomeShape, ValidationPart
<1>9. ResultShape(r)
  <2>1. \E d \in r.validation_decision : d.action = "BLOCK"
    BY <1>2 DEF ValidationPart
  <2>2. r.stream_admission_result # {} => Admitted(r.stream_admission_result)
    BY <1>1 DEF Admitted, StreamPart
  <2>3. Missed(r)
    BY <1>2 DEF Missed, Missing
  <2>4. BlockedShape(r)
    BY <1>2, <2>1, <2>2, <2>3 DEF BlockedShape
  <2> QED BY <1>2, <2>4 DEF ResultShape
<1>10. /\ TechnicalStatus(r) = MirroredStatus(r)
       /\ AdmissionDisposition(r) = "SEMANTIC_ADMISSION_REJECTED"
  <2>1. TechnicalStatus(r) = "COMPASS_VALIDATION_BLOCKED"
    BY <1>2 DEF TechnicalStatus
  <2>2. MirroredStatus(r) = "COMPASS_VALIDATION_BLOCKED"
    BY <1>2 DEF MirroredStatus
  <2>3. AdmissionDisposition(r) = "SEMANTIC_ADMISSION_REJECTED"
    BY <1>2 DEF AdmissionDisposition
  <2> QED BY <2>1, <2>2, <2>3
<1>11. Subject(r, SelectedIdentity(r)) = [type |-> "CANDIDATE_EVENT", id |-> {w}]
  BY <1>2, <1>6 DEF Subject
<1>12. {f.event_id : f \in AcceptedEventFromResult(r)} = {}
  BY <1>4
<1>13. Explains(r, w)
  BY <1>2, <1>6, <1>7, <1>8, <1>9, <1>10, <1>11, <1>12 DEF Explains, AtMostOne
<1>14. Fated(r, w)
  BY <1>2, <1>6, <1>10, <1>11 DEF Fated
<1> QED BY <1>13, <1>14

\* A rejection, by the stream lock or by append.
LEMMA RejectedExplained ==
  ASSUME NEW r, NEW w, NEW o, RejectedParts(r, w, o)
  PROVE  Explains(r, w) /\ Fated(r, w) /\ SelectedIdentity(r).order_id = {o}
<1>1. PICK v \in {"LOCK_TIMEOUT", "STALE_WRITE"} :
        \/ /\ r.stream_admission_result = StreamPart(v, o) /\ r.admission_result = {}
           /\ r.validation_decision \in {{}, ValidationPart("ALLOW", w)}
        \/ /\ r.stream_admission_result = StreamPart("ADMITTED", o)
           /\ r.validation_decision = ValidationPart("ALLOW", w)
           /\ \E p : /\ r.admission_result = {p} /\ p.verdict = v
                     /\ p.candidate_event_id = w /\ p.accepted_event_id = {}
  BY DEF RejectedParts
<1>2. /\ r.outcome = "ADMISSION_REJECTED" /\ r.idempotency_decision = Missing
      /\ r.accepted_event = {}
  BY DEF RejectedParts
<1>3. r.idempotency_decision.record = {}
  BY <1>2 DEF Missing
<1>4. AcceptedEvents(r) = {} /\ AcceptedEventFromResult(r) = {}
  BY <1>2, <1>3 DEF AcceptedEvents, AcceptedEventFromResult
<1>5. {s.order_id : s \in r.stream_admission_result} = {o}
  <2>1. PICK u : r.stream_admission_result = StreamPart(u, o)
    BY <1>1
  <2> QED BY <2>1 DEF StreamPart
<1>6. /\ OrderIds(r) = {o} /\ RequestIds(r) = {} /\ Missed(r)
      /\ {f.event_id : f \in AcceptedEventFromResult(r)} = {}
  BY <1>2, <1>3, <1>4, <1>5 DEF OrderIds, RequestIds, Missed, Missing
<1>7. /\ TechnicalStatus(r) = VerdictStatus((CHOOSE p \in AdmissionRejectionSource(r) : TRUE).verdict)
      /\ OwnedRejectionVerdict(r) = v => MirroredStatus(r) = VerdictStatus(v)
  BY <1>1, <1>2 DEF TechnicalStatus, MirroredStatus, VerdictStatus
<1>8. CASE /\ r.stream_admission_result = StreamPart(v, o) /\ r.admission_result = {}
           /\ r.validation_decision \in {{}, ValidationPart("ALLOW", w)}
  <2> DEFINE s == [verdict |-> v, order_id |-> o]
  <2>1. s.verdict = v /\ r.stream_admission_result = {s}
    BY <1>8 DEF StreamPart
  <2> HIDE DEF s
  <2>2. AdmissionRejectionSource(r) = {s}
    BY <1>8, <2>1 DEF AdmissionRejectionSource
  <2>3. (CHOOSE p \in AdmissionRejectionSource(r) : TRUE) = s /\ OwnedRejectionVerdict(r) = v
    BY <1>8, <2>1, <2>2 DEF OwnedRejectionVerdict
  <2>4. PICK c \in {{}, {w}} : c = {d.candidate_event_id : d \in r.validation_decision}
    BY <1>8 DEF ValidationPart
  <2>5. SelectedIdentity(r) = [order_id |-> {o}, request_id |-> {},
                               candidate_event_id |-> c, accepted_event_id |-> {}]
    BY <1>3, <1>4, <1>5, <1>8, <2>4 DEF SelectedIdentity
  <2>6. CandidateOfContext(r) = c
    BY <1>8, <2>4 DEF CandidateOfContext
  <2>7. OutcomeShape(r)
    BY <1>2, <1>8, <2>2 DEF OutcomeShape
  <2>8. ResultShape(r)
    <3>1. r.validation_decision # {} => Allowing(r)
      BY <1>8 DEF Allowing, ValidationPart
    <3>2. RejectedShape(r)
      BY <1>2, <1>6, <1>8, <2>1, <3>1 DEF RejectedShape, Admitted
    <3> QED BY <1>2, <3>2 DEF ResultShape
  <2>9. AdmissionDisposition(r) = "APPEND_ADMISSION_NOT_REACHED"
    BY <1>2, <1>8 DEF AdmissionDisposition
  <2>10. Subject(r, SelectedIdentity(r)) = IF c = {} THEN [type |-> "ORDER", id |-> {o}]
                                           ELSE [type |-> "CANDIDATE_EVENT", id |-> {w}]
    <3>1. CASE c = {}
      BY <1>2, <2>5, <3>1 DEF Subject
    <3>2. CASE c = {w}
      BY <1>2, <2>5, <3>2 DEF Subject
    <3> QED BY <3>1, <3>2
  <2>11. Subject(r, SelectedIdentity(r)).id # {}
    BY <2>10
  <2>12. TechnicalStatus(r) = MirroredStatus(r)
    BY <1>7, <2>1, <2>3
  <2>13. Explains(r, w)
    BY <1>2, <1>6, <2>5, <2>6, <2>7, <2>8, <2>11, <2>12 DEF Explains, AtMostOne
  <2>14. Fated(r, w)
    BY <1>2, <2>5, <2>9, <2>10 DEF Fated
  <2> QED BY <2>5, <2>13, <2>14
<1>9. ASSUME r.stream_admission_result = StreamPart("ADMITTED", o),
             r.validation_decision = ValidationPart("ALLOW", w),
             NEW p, r.admission_result = {p}, p.verdict = v,
             p.candidate_event_id = w, p.accepted_event_id = {}
      PROVE  Explains(r, w) /\ Fated(r, w) /\ SelectedIdentity(r).order_id = {o}
  <2>1. AdmissionRejectionSource(r) = {p}
    BY <1>9 DEF AdmissionRejectionSource
  <2>2. (CHOOSE q \in AdmissionRejectionSource(r) : TRUE) = p /\ OwnedRejectionVerdict(r) = v
    BY <1>9, <2>1 DEF OwnedRejectionVerdict
  <2>3. SelectedIdentity(r) = [order_id |-> {o}, request_id |-> {},
                               candidate_event_id |-> {w}, accepted_event_id |-> {}]
    <3>1. {d.candidate_event_id : d \in r.validation_decision} = {w}
      BY <1>9 DEF ValidationPart
    <3>2. {q.candidate_event_id : q \in r.admission_result} = {w}
      BY <1>9
    <3> QED BY <1>3, <1>4, <1>5, <3>1, <3>2 DEF SelectedIdentity
  <2>4. CandidateOfContext(r) = {w}
    BY <1>9 DEF CandidateOfContext
  <2>5. OutcomeShape(r)
    BY <1>2, <1>9, <2>1 DEF OutcomeShape
  <2>6. ResultShape(r)
    <3>1. Allowing(r) /\ Admitted(r.stream_admission_result) /\ ~Admitted(r.admission_result)
      BY <1>9 DEF Allowing, ValidationPart, Admitted, StreamPart
    <3>2. r.stream_admission_result # {}
      BY <1>9 DEF StreamPart
    <3>3. RejectedShape(r)
      BY <1>2, <1>6, <1>9, <3>1, <3>2 DEF RejectedShape
    <3> QED BY <1>2, <3>3 DEF ResultShape
  <2>7. AdmissionDisposition(r) \in {"APPEND_CONCURRENCY_CONFLICT", "APPEND_TECHNICAL_FAILURE"}
    BY <1>2, <1>9 DEF AdmissionDisposition
  <2>8. Subject(r, SelectedIdentity(r)) = [type |-> "CANDIDATE_EVENT", id |-> {w}]
    BY <1>2, <2>3 DEF Subject
  <2>9. TechnicalStatus(r) = MirroredStatus(r)
    BY <1>7, <1>9, <2>2
  <2>10. Explains(r, w)
    BY <1>2, <1>6, <2>3, <2>4, <2>5, <2>6, <2>8, <2>9 DEF Explains, AtMostOne
  <2>11. Fated(r, w)
    BY <1>2, <2>3, <2>7, <2>8 DEF Fated
  <2> QED BY <2>3, <2>10, <2>11
<1> QED BY <1>1, <1>8, <1>9

----------------------------------------------------------------------------
(* The semantic outcome and the receipt of a result.                       *)

\* What the receipt mapper writes down.
WrittenReceipt(r, receipt_id) ==
  [receipt_id |-> receipt_id, evidence_source |-> "WRITE_SIDE_ADMISSION",
   semantic_code |-> STATUS_MAPPINGS[TechnicalStatus(r)],
   subject |-> Subject(r, SelectedIdentity(r)),
   identity_source |-> IdentitySource(r, SelectedIdentity(r)),
   candidate_event_id |-> OneOrNone(SelectedIdentity(r).candidate_event_id),
   accepted_event_id |-> OneOrNone(SelectedIdentity(r).accepted_event_id),
   disposition |-> AdmissionDisposition(r), evidence_summary |-> EvidenceSummary(r)]

\* A set of at most one identity has at most one element.
LEMMA FewIdentities ==
  ASSUME NEW S, AtMostOne(S)
  PROVE  Cardinality(S) <= 1
<1>1. CASE S = {}
  BY <1>1, FS_EmptySet
<1>2. CASE S # {}
  <2>1. PICK x : S = {x}
    BY <1>2 DEF AtMostOne
  <2>2. Cardinality({x}) = 1
    BY FS_Singleton
  <2> QED BY <2>1, <2>2
<1> QED BY <1>1, <1>2

\* The one value of an identity.
LEMMA OneIdentity ==
  /\ \A x : OneOrNone({x}) = x
  /\ OneOrNone({}) = NoEvent
BY DEF OneOrNone

\* The outcome of a result that explains itself.
LEMMA OutcomeIs ==
  ASSUME NEW r, NEW w, Explains(r, w)
  PROVE  SemanticOutcomes(r) = {[semantic_code |-> STATUS_MAPPINGS[TechnicalStatus(r)],
                                 context |-> OutcomeContext(r), evidence |-> OutcomeEvidence(r)]}
<1>1. OutcomeShape(r) /\ AtMostOne(OrderIds(r)) /\ AtMostOne(RequestIds(r))
  BY DEF Explains
<1>2. Cardinality(OrderIds(r)) <= 1 /\ Cardinality(RequestIds(r)) <= 1
  BY <1>1, FewIdentities
<1>3. {y \in {r} : /\ OutcomeShape(y)
                   /\ Cardinality(OrderIds(y)) <= 1 /\ Cardinality(RequestIds(y)) <= 1} = {r}
  BY <1>1, <1>2
<1> QED BY <1>3 DEF SemanticOutcomes

\* A receipt is what the mapper writes down, whatever the result.
LEMMA ReceiptFields ==
  ASSUME NEW r, NEW id, NEW x \in ReceiptOf(r, id)
  PROVE  /\ x.disposition = AdmissionDisposition(r)
         /\ x.accepted_event_id = OneOrNone(SelectedIdentity(r).accepted_event_id)
         /\ x.subject = Subject(r, SelectedIdentity(r))
BY DEF ReceiptOf, MappedReceipts

\* The receipt of a result that explains itself.
LEMMA MappedIs ==
  ASSUME NEW r, NEW w, NEW id, Explains(r, w)
  PROVE  MappedReceipts(r, id) = {WrittenReceipt(r, id)}
<1> DEFINE identity == SelectedIdentity(r)
           code == STATUS_MAPPINGS[TechnicalStatus(r)]
           Kept1 == {i \in {SelectedIdentity(x) : x \in {y \in {r} : ResultShape(y)}} :
                       /\ Consistent(i)
                       /\ r.outcome = "ACCEPTED" => AcceptedIdentity(r, i)
                       /\ Subject(r, i).id # {}}
<1>1. /\ ResultShape(r) /\ (r.outcome = "ACCEPTED" => AcceptedIdentity(r, identity))
      /\ Subject(r, identity).id # {}
  BY DEF Explains
<1>2. Consistent(identity)
  <2>1. /\ AtMostOne(identity.order_id) /\ AtMostOne(identity.request_id)
        /\ AtMostOne(identity.candidate_event_id) /\ AtMostOne(identity.accepted_event_id)
    BY DEF Explains, AtMostOne
  <2>2. /\ Cardinality(identity.order_id) <= 1 /\ Cardinality(identity.request_id) <= 1
        /\ Cardinality(identity.candidate_event_id) <= 1
        /\ Cardinality(identity.accepted_event_id) <= 1
    BY <2>1, FewIdentities
  <2>3. DOMAIN identity = {"order_id", "request_id", "candidate_event_id", "accepted_event_id"}
    BY DEF SelectedIdentity
  <2> HIDE DEF identity
  <2> QED BY <2>2, <2>3 DEF Consistent
<1> HIDE DEF identity
<1>3. Kept1 = {identity}
  BY <1>1, <1>2 DEF identity
<1>4. PICK o : SemanticOutcomes(r) = {o} /\ o.semantic_code = code
  <2> DEFINE o == [semantic_code |-> code, context |-> OutcomeContext(r),
                   evidence |-> OutcomeEvidence(r)]
  <2>1. SemanticOutcomes(r) = {o} /\ o.semantic_code = code
    BY OutcomeIs
  <2> QED BY <2>1
<1> HIDE DEF Kept1, code
<1>5. MappedReceipts(r, id) =
        {[receipt_id |-> id, evidence_source |-> "WRITE_SIDE_ADMISSION",
          semantic_code |-> outcome.semantic_code,
          subject |-> Subject(r, i), identity_source |-> IdentitySource(r, i),
          candidate_event_id |-> OneOrNone(i.candidate_event_id),
          accepted_event_id |-> OneOrNone(i.accepted_event_id),
          disposition |-> AdmissionDisposition(r), evidence_summary |-> EvidenceSummary(r)] :
           outcome \in {o}, i \in {identity}}
  BY <1>3, <1>4 DEF MappedReceipts, Kept1
<1> QED BY <1>4, <1>5 DEF WrittenReceipt, identity, code

\* A fate is named with the events it must and must not carry.
LEMMA FateIsCoherent ==
  ASSUME NEW r, NEW w, w # NoEvent, NEW id,
         Fated(r, w) \/ \E a : FatedByRecord(r, a) /\ a.event_id # NoEvent
  PROVE  Persistence!validate_admission_evidence(WrittenReceipt(r, id))
<1> DEFINE x == WrittenReceipt(r, id)
<1>1. /\ x.disposition = AdmissionDisposition(r)
      /\ x.candidate_event_id = OneOrNone(SelectedIdentity(r).candidate_event_id)
      /\ x.accepted_event_id = OneOrNone(SelectedIdentity(r).accepted_event_id)
  BY DEF WrittenReceipt
<1> HIDE DEF x
<1>2. CASE x.disposition = "ADMITTED_TO_ACCEPTED_HISTORY"
  <2>1. x.candidate_event_id = w /\ x.accepted_event_id = w
    BY <1>1, <1>2, OneIdentity DEF Fated, FatedByRecord
  <2> QED BY <1>2, <2>1 DEF Persistence!validate_admission_evidence, x
<1>3. CASE x.disposition \in {"MATCHED_EXISTING_ACCEPTED_EVENT",
                              "IDEMPOTENCY_CONFLICT_WITH_ACCEPTED_HISTORY"}
  <2>1. x.accepted_event_id # NoEvent
    BY <1>1, <1>3, OneIdentity DEF Fated, FatedByRecord
  <2> QED BY <1>3, <2>1 DEF Persistence!validate_admission_evidence, x
<1>4. CASE x.disposition \in {"SEMANTIC_ADMISSION_REJECTED", "APPEND_CONCURRENCY_CONFLICT",
                              "APPEND_TECHNICAL_FAILURE"}
  <2>1. x.candidate_event_id = w /\ x.accepted_event_id = NoEvent
    BY <1>1, <1>4, OneIdentity DEF Fated, FatedByRecord
  <2> QED BY <1>4, <2>1 DEF Persistence!validate_admission_evidence, x
<1>5. CASE x.disposition = "APPEND_ADMISSION_NOT_REACHED"
  <2>1. x.accepted_event_id = NoEvent
    BY <1>1, <1>5, OneIdentity DEF Fated, FatedByRecord
  <2> QED BY <1>5, <2>1 DEF Persistence!validate_admission_evidence, x
<1> QED BY <1>1, <1>2, <1>3, <1>4, <1>5 DEF Fated, FatedByRecord

\* Every normal result explains itself.
LEMMA ResultExplained ==
  ASSUME IInv, AnswersInv, TraceInv, ToldInv, KeptInv, NEW w \in Invocations, ReturnedNormally(w),
         NEW r, r = PostgresWriteSideResult(w)
  PROVE  /\ Explains(r, w)
         /\ Fated(r, w) \/ \E a : FatedByRecord(r, a) /\ a.event_id # NoEvent
<1>1. CASE AcceptedParts(r, w)
  BY <1>1, AcceptedExplained
<1>2. ASSUME NEW i, NEW s \in order_events, FoundParts(r, w, i), i.accepted_event = s.event
      PROVE  Explains(r, w) /\ \E a : FatedByRecord(r, a) /\ a.event_id # NoEvent
  <2>1. s.event.event_id # NoEvent
    BY ConstantsAssumption DEF IInv, TypeOK, EventRow, EventRecord
  <2> QED BY <1>2, <2>1, FoundExplained
<1>3. CASE BlockedParts(r, w)
  BY <1>3, BlockedExplained
<1>4. CASE RejectedParts(r, w, CommandOf(w).order_id)
  BY <1>4, RejectedExplained
<1> QED BY <1>1, <1>2, <1>3, <1>4, PartsOfResult

\* Every normal result of the writer has a semantic outcome and a receipt, and
\* the two mappers, which read its parts independently, tell the same.
THEOREM ResultsAreExplained == Spec => []EveryResultIsExplained
<1>1. IInv /\ AnswersInv /\ TraceInv /\ ToldInv /\ KeptInv => EveryResultIsExplained
  <2> SUFFICES ASSUME IInv, AnswersInv, TraceInv, ToldInv, KeptInv, NEW w \in Invocations,
                      result[w].outcome \notin {"none", "RAISED"},
                      NEW r, r = PostgresWriteSideResult(w)
               PROVE  /\ SemanticOutcomes(r) # {} /\ ReceiptOf(r, 1) # {}
                      /\ \A o \in SemanticOutcomes(r), x \in ReceiptOf(r, 1) :
                           /\ OneOrNone(o.context.candidate_event_id) = x.candidate_event_id
                           /\ OneOrNone(o.context.accepted_event_id) = x.accepted_event_id
                           /\ \A part \in DOMAIN o.evidence : o.evidence[part] = x.evidence_summary[part]
                           /\ STATUS_MAPPINGS[x.evidence_summary.technical_status] = o.semantic_code
    BY DEF EveryResultIsExplained
  <2>1. /\ Explains(r, w)
        /\ Fated(r, w) \/ \E a : FatedByRecord(r, a) /\ a.event_id # NoEvent
    BY ResultExplained DEF ReturnedNormally
  <2> DEFINE o1 == [semantic_code |-> STATUS_MAPPINGS[TechnicalStatus(r)],
                    context |-> OutcomeContext(r), evidence |-> OutcomeEvidence(r)]
             x1 == WrittenReceipt(r, 1)
  <2>2. SemanticOutcomes(r) = {o1}
    BY <2>1, OutcomeIs
  <2>3. ReceiptOf(r, 1) = {x1}
    <3>1. MappedReceipts(r, 1) = {x1}
      BY <2>1, MappedIs
    <3>2. Persistence!validate_admission_evidence(x1)
      BY <2>1, FateIsCoherent, ConstantsAssumption
    <3> HIDE DEF x1
    <3> QED BY <3>1, <3>2 DEF ReceiptOf
  <2>4. /\ o1.context.candidate_event_id = SelectedIdentity(r).candidate_event_id
        /\ o1.context.accepted_event_id = SelectedIdentity(r).accepted_event_id
    BY <2>1 DEF OutcomeContext, Explains
  <2>5. /\ x1.candidate_event_id = OneOrNone(SelectedIdentity(r).candidate_event_id)
        /\ x1.accepted_event_id = OneOrNone(SelectedIdentity(r).accepted_event_id)
    BY DEF WrittenReceipt
  <2>6. \A part \in DOMAIN o1.evidence : o1.evidence[part] = x1.evidence_summary[part]
    <3>1. o1.evidence = OutcomeEvidence(r) /\ x1.evidence_summary = EvidenceSummary(r)
      BY DEF WrittenReceipt
    <3>2. DOMAIN OutcomeEvidence(r) = {"idempotency_verdict", "stream_admission_verdict",
                                       "validation_action", "append_admission_verdict"}
      BY DEF OutcomeEvidence
    <3>3. /\ OutcomeEvidence(r).idempotency_verdict = EvidenceSummary(r).idempotency_verdict
          /\ OutcomeEvidence(r).stream_admission_verdict
               = EvidenceSummary(r).stream_admission_verdict
          /\ OutcomeEvidence(r).validation_action = EvidenceSummary(r).validation_action
          /\ OutcomeEvidence(r).append_admission_verdict
               = EvidenceSummary(r).append_admission_verdict
      BY DEF OutcomeEvidence, EvidenceSummary
    <3> HIDE DEF o1, x1
    <3> QED BY <3>1, <3>2, <3>3
  <2>7. STATUS_MAPPINGS[x1.evidence_summary.technical_status] = o1.semantic_code
    <3>1. x1.evidence_summary.technical_status = TechnicalStatus(r)
      BY <2>1 DEF EvidenceSummary, WrittenReceipt, Explains
    <3> QED BY <3>1
  <2> HIDE DEF o1, x1
  <2> QED BY <2>2, <2>3, <2>4, <2>5, <2>6, <2>7
<1> QED BY <1>1, Invariance, Answers, Traces, ToldAlways, Kept, PTL

----------------------------------------------------------------------------
(* The runtime owner.                                                      *)

Durabilities == {"COMMITTED", "NOT_COMMITTED", "UNKNOWN"}
Deliveries == Durabilities \cup {"PERSISTENCE_INELIGIBLE", "UNEXPECTED_COMPOSITION_EXCEPTION",
                                 "MATERIALIZATION_FAILED"}

\* A receipt of the attempt w, once materialized, says what happened to w and
\* names events that are there.
Tells(w, x) ==
  \/ /\ x.disposition = "ADMITTED_TO_ACCEPTED_HISTORY" /\ result[w].outcome = "ACCEPTED"
     /\ x.accepted_event_id = w /\ x.subject = [type |-> "ACCEPTED_EVENT", id |-> {w}]
  \/ /\ x.disposition \in {"MATCHED_EXISTING_ACCEPTED_EVENT",
                           "IDEMPOTENCY_CONFLICT_WITH_ACCEPTED_HISTORY"}
     /\ result[w].outcome # "ACCEPTED"
     /\ \E s \in order_events : /\ s.event.event_id = x.accepted_event_id
                                /\ s.event.request_id = request_signature.request_id
     /\ x.subject \in {[type |-> "ACCEPTED_EVENT", id |-> {x.accepted_event_id}],
                       [type |-> "REQUEST", id |-> {request_signature.request_id}]}
  \/ /\ x.disposition \in {"SEMANTIC_ADMISSION_REJECTED", "APPEND_CONCURRENCY_CONFLICT",
                           "APPEND_TECHNICAL_FAILURE", "APPEND_ADMISSION_NOT_REACHED"}
     /\ result[w].outcome # "ACCEPTED"
     /\ x.subject.type # "ACCEPTED_EVENT" /\ x.subject.id \in {{w}, {request_signature.order_id}}

\* Which handles there are, and who composes their receipts.
HandlesInv ==
  /\ receipt_lock \in [Handles -> SUBSET Threads]
  /\ cached_receipt_delivery \in [Handles -> SUBSET Deliveries]
  /\ completions \subseteq Handles
  /\ \A h \in completions : ReturnedNormally(h) /\ command[h] = {request_signature}

\* A handle asks for one transaction at most, and holds its lock or has cached
\* its delivery from then on.
AskedInv ==
  /\ asked = [k \in PersistCalls |-> asked[k]]
  /\ \A k \in PersistCalls : asked[k] # {} =>
       /\ k[1] \in completions
       /\ receipt_lock[k[1]] # {} \/ cached_receipt_delivery[k[1]] # {}
  /\ \A k, l \in PersistCalls : asked[k] # {} /\ asked[l] # {} /\ k[1] = l[1] => k = l
  /\ \A k \in PersistCalls : \A x \in asked[k] : Tells(k[1], x)

\* The rows are those of the calls that were made.
RowsInv ==
  /\ \A row \in decision_receipts : row.by \in PersistCalls /\ row.receipt \in asked[row.by]
  /\ \A s, t \in decision_receipts : s.by = t.by => s = t

CustodyInv == HandlesInv /\ AskedInv /\ RowsInv

\* Every step of the runtime owner is a step of the invocation owner, or none.
LEMMA RuntimeRefines ==
  ASSUME [RuntimeNext]_runtimeVars
  PROVE  [OwnerNext]_ownerVars
<1>1. CASE WriterNext /\ UNCHANGED runtime
  BY <1>1 DEF OwnerNext
<1>2. ASSUME NEW t \in Threads,
             \/ RuntimeInvokeInitial(t) \/ RuntimeCompleteInitial(t) \/ RuntimeEvaluate(t)
             \/ RuntimeInvokeReinvocation(t) \/ RuntimeCompleteReinvocation(t)
      PROVE  OwnerNext
  BY <1>2, Zenon DEF RuntimeInvokeInitial, RuntimeCompleteInitial, RuntimeEvaluate,
     RuntimeInvokeReinvocation, RuntimeCompleteReinvocation, OwnerNext
<1>3. ASSUME NEW t \in Threads, NEW h \in Handles, ComposeReceipt(t, h) \/ ReceiptReported(t, h)
      PROVE  UNCHANGED ownerVars
  BY <1>3, Zenon DEF ComposeReceipt, StartPersist, ReceiptReported
<1>4. ASSUME NEW k \in PersistCalls, ReceiptStored(k) PROVE UNCHANGED ownerVars
  BY <1>4, Zenon DEF ReceiptStored
<1>5. CASE UNCHANGED runtimeVars
  BY <1>5 DEF runtimeVars
<1> QED BY <1>1, <1>2, <1>3, <1>4, <1>5 DEF RuntimeNext

\* The runtime owner implements the invocation owner, and with it the write
\* side: composing receipts changes nothing they see.
THEOREM RuntimeImplements == RuntimeSpec => OwnerSpec
<1>1. RuntimeInit => OwnerInit
  BY DEF RuntimeInit
<1>2. [RuntimeNext]_runtimeVars => [OwnerNext]_ownerVars
  BY RuntimeRefines
<1> QED BY <1>1, <1>2, PTL DEF RuntimeSpec, OwnerSpec

\* What a receipt tells stays so.
LEMMA TellsStays ==
  ASSUME IInv, [Next]_vars, NEW w \in Invocations, ReturnedNormally(w), pc[w] = "done",
         request_signature' = request_signature, NEW x, Tells(w, x)
  PROVE  Tells(w, x)'
<1>1. result'[w] = result[w]
  BY EndedStays
<1>2. order_events \subseteq order_events'
  BY RecordsStay
<1>3. \A s : s \in order_events => s \in order_events'
  BY <1>2
<1> QED BY <1>1, <1>3 DEF Tells

\* A materialized receipt tells what happened to its attempt.
LEMMA MaterializedTells ==
  ASSUME IInv, AnswersInv, TraceInv, ToldInv, KeptInv, NEW w \in Invocations, ReturnedNormally(w),
         command[w] = {request_signature}, NEW id, NEW x \in ReceiptOf(PostgresWriteSideResult(w), id)
  PROVE  Tells(w, x)
<1>1. PICK r : r = PostgresWriteSideResult(w)
  OBVIOUS
<1>2. r.outcome = result[w].outcome
  BY <1>1 DEF PostgresWriteSideResult
<1>3. CommandOf(w) = request_signature
  BY DEF CommandOf
<1>4. /\ x.disposition = AdmissionDisposition(r)
      /\ x.accepted_event_id = OneOrNone(SelectedIdentity(r).accepted_event_id)
      /\ x.subject = Subject(r, SelectedIdentity(r))
  BY <1>1, ReceiptFields
<1>5. ASSUME Fated(r, w),
             r.outcome = "ADMISSION_REJECTED" => SelectedIdentity(r).order_id = {request_signature.order_id}
      PROVE  Tells(w, x)
  <2>1. CASE AdmissionDisposition(r) = "ADMITTED_TO_ACCEPTED_HISTORY"
    <3>1. /\ r.outcome = "ACCEPTED" /\ SelectedIdentity(r).accepted_event_id = {w}
          /\ x.subject = [type |-> "ACCEPTED_EVENT", id |-> {w}]
      BY <1>4, <1>5, <2>1 DEF Fated
    <3> QED BY <1>2, <1>4, <2>1, <3>1, OneIdentity DEF Tells
  <2>2. CASE AdmissionDisposition(r) # "ADMITTED_TO_ACCEPTED_HISTORY"
    <3>1. /\ AdmissionDisposition(r) \in {"SEMANTIC_ADMISSION_REJECTED", "APPEND_CONCURRENCY_CONFLICT",
                                 "APPEND_TECHNICAL_FAILURE", "APPEND_ADMISSION_NOT_REACHED"}
          /\ r.outcome # "ACCEPTED"
          /\ x.subject \in {[type |-> "CANDIDATE_EVENT", id |-> {w}],
                            [type |-> "ORDER", id |-> {request_signature.order_id}]}
      BY <1>4, <1>5, <2>2 DEF Fated
    <3>2. x.subject.type # "ACCEPTED_EVENT" /\ x.subject.id \in {{w}, {request_signature.order_id}}
      BY <3>1
    <3> QED BY <1>2, <1>4, <3>1, <3>2 DEF Tells
  <2> QED BY <2>1, <2>2
<1>6. CASE AcceptedParts(r, w)
  <2>1. r.outcome = "ACCEPTED"
    BY <1>6 DEF AcceptedParts
  <2> QED BY <1>5, <1>6, <2>1, AcceptedExplained
<1>7. ASSUME NEW i, NEW s \in order_events, FoundParts(r, w, i), i.accepted_event = s.event,
             s.event.request_id = CommandOf(w).request_id
      PROVE  Tells(w, x)
  <2>1. FatedByRecord(r, s.event)
    BY <1>7, FoundExplained
  <2>2. x.accepted_event_id = s.event.event_id
    BY <1>4, <2>1, OneIdentity DEF FatedByRecord
  <2>3. /\ x.disposition \in {"MATCHED_EXISTING_ACCEPTED_EVENT",
                              "IDEMPOTENCY_CONFLICT_WITH_ACCEPTED_HISTORY"}
        /\ r.outcome # "ACCEPTED"
        /\ x.subject \in {[type |-> "ACCEPTED_EVENT", id |-> {s.event.event_id}],
                          [type |-> "REQUEST", id |-> {s.event.request_id}]}
    BY <1>4, <2>1 DEF FatedByRecord
  <2> QED BY <1>2, <1>3, <1>7, <2>2, <2>3 DEF Tells
<1>8. CASE BlockedParts(r, w)
  <2>1. r.outcome # "ADMISSION_REJECTED"
    BY <1>8 DEF BlockedParts
  <2> QED BY <1>5, <1>8, <2>1, BlockedExplained
<1>9. CASE RejectedParts(r, w, CommandOf(w).order_id)
  BY <1>3, <1>5, <1>9, RejectedExplained
<1> QED BY <1>1, <1>6, <1>7, <1>8, <1>9, PartsOfResult

\* The request of the owner never changes.
LEMMA SameRequest ==
  ASSUME [OwnerNext]_ownerVars
  PROVE  request_signature' = request_signature
<1>1. CASE WriterNext \/ UNCHANGED ownerVars
  BY <1>1 DEF WriterNext, ownerVars, owner, retained
<1>2. ASSUME NEW t \in Threads,
             \/ InvokeInitial(t) \/ CompleteInitial(t)
             \/ EvaluateCurrentResponse(t) \/ EvaluateReinvocationAuthority(t)
             \/ InvokeAuthorizedReinvocation(t) \/ CompleteReinvocation(t)
      PROVE  request_signature' = request_signature
  <2>1. UNCHANGED retained
    BY <1>2, Zenon DEF InvokeInitial, CompleteInitial, EvaluateCurrentResponse,
       EvaluateReinvocationAuthority, InvokeAuthorizedReinvocation, CompleteReinvocation
  <2> QED BY <2>1 DEF retained
<1> QED BY <1>1, <1>2 DEF OwnerNext

\* What a published handle rests on stays, and so does what was asked for it.
LEMMA HandlesStay ==
  ASSUME IInv, AnswersInv, HandlesInv, AskedInv, [Next]_vars, request_signature' = request_signature
  PROVE  /\ \A h \in completions : ReturnedNormally(h)' /\ command'[h] = {request_signature'}
         /\ \A k \in PersistCalls : \A x \in asked[k] : Tells(k[1], x)'
<1>1. ASSUME NEW h \in completions PROVE h \in Invocations /\ pc[h] = "done" /\ ReturnedNormally(h)
  <2>1. h \in Invocations /\ ReturnedNormally(h)
    BY OwnerAssumption DEF HandlesInv, Handles
  <2>2. result[h] # NoResult
    BY <2>1 DEF ReturnedNormally, NoResult, Result
  <2> QED BY <2>1, <2>2 DEF AnswersInv
<1>2. ASSUME NEW h \in completions PROVE ReturnedNormally(h)' /\ command'[h] = {request_signature'}
  <2>1. result'[h] = result[h] /\ command'[h] = command[h]
    BY <1>1, EndedStays
  <2> QED BY <1>1, <2>1 DEF HandlesInv, ReturnedNormally
<1>3. ASSUME NEW k \in PersistCalls, NEW x \in asked[k] PROVE Tells(k[1], x)'
  <2>1. k[1] \in completions /\ Tells(k[1], x)
    BY DEF AskedInv
  <2> QED BY <1>1, <2>1, TellsStays
<1> QED BY <1>2, <1>3

\* A step that leaves the receipts alone, and may publish one more handle.
LEMMA PublishCustody ==
  ASSUME IInv, AnswersInv, CustodyInv, [Next]_vars, request_signature' = request_signature,
         UNCHANGED custody, NEW h \in Handles,
         completions' = completions \/ completions' = completions \cup {h},
         h \in completions' => ReturnedNormally(h)' /\ command'[h] = {request_signature'}
  PROVE  CustodyInv'
<1> USE DEF CustodyInv
<1>1. /\ \A g \in completions : ReturnedNormally(g)' /\ command'[g] = {request_signature'}
      /\ \A k \in PersistCalls : \A x \in asked[k] : Tells(k[1], x)'
  BY HandlesStay
<1>2. /\ receipt_lock' = receipt_lock /\ cached_receipt_delivery' = cached_receipt_delivery
      /\ decision_receipts' = decision_receipts /\ asked' = asked
  BY DEF custody
<1>3. HandlesInv'
  BY <1>1, <1>2 DEF HandlesInv
<1>4. AskedInv'
  BY <1>1, <1>2 DEF AskedInv
<1>5. RowsInv'
  BY <1>2 DEF RowsInv
<1> QED BY <1>3, <1>4, <1>5

\* The writers and the methods of the runtime owner keep the custody.
LEMMA OwnerStepCustody ==
  ASSUME IInv, AnswersInv, ToldInv, OwnerInv, CustodyInv, [OwnerNext]_ownerVars,
         UNCHANGED custody,
         \/ completions' = completions
         \/ \E t \in Threads : RuntimeCompleteInitial(t) \/ RuntimeCompleteReinvocation(t)
  PROVE  CustodyInv'
<1>1. [Next]_vars /\ request_signature' = request_signature
  BY OwnerRefines, SameRequest
<1>2. CASE completions' = completions
  <2>1. A1 \in Handles
    BY DEF Handles
  <2>2. \A g \in completions : ReturnedNormally(g)' /\ command'[g] = {request_signature'}
    BY <1>1, HandlesStay DEF CustodyInv
  <2> QED BY <1>1, <1>2, <2>1, <2>2, PublishCustody
<1>3. ASSUME NEW w \in {A1, A2}, pc[w] = "done", UNCHANGED vars, PublishCompletion(w)
      PROVE  CustodyInv'
  <2>1. w \in Handles /\ w \in Invocations
    BY OwnerAssumption DEF Handles
  <2>2. command[w] = {request_signature} /\ result[w].outcome # "none"
    BY <1>3, <2>1 DEF OwnerInv, ResultsInv, ToldInv, Told
  <2>3. command' = command /\ result' = result
    BY <1>3 DEF vars, call
  <2>4. CASE result[w].outcome = "RAISED"
    BY <1>2, <1>3, <2>4 DEF PublishCompletion
  <2>5. CASE result[w].outcome # "RAISED"
    <3>1. ReturnedNormally(w)' /\ command'[w] = {request_signature'}
      BY <1>1, <2>2, <2>3, <2>5 DEF ReturnedNormally
    <3>2. completions' = completions \cup {w}
      BY <1>3, <2>5 DEF PublishCompletion
    <3> QED BY <1>1, <2>1, <3>1, <3>2, PublishCustody
  <2> QED BY <2>4, <2>5
<1>4. ASSUME NEW t \in Threads, RuntimeCompleteInitial(t) PROVE CustodyInv'
  <2>1. pc[A1] = "done" /\ UNCHANGED vars /\ PublishCompletion(A1)
    BY <1>4, Zenon DEF RuntimeCompleteInitial, CompleteInitial
  <2> QED BY <1>3, <2>1
<1>5. ASSUME NEW t \in Threads, RuntimeCompleteReinvocation(t) PROVE CustodyInv'
  <2>1. pc[A2] = "done" /\ UNCHANGED vars /\ PublishCompletion(A2)
    BY <1>5, Zenon DEF RuntimeCompleteReinvocation, CompleteReinvocation
  <2> QED BY <1>3, <2>1
<1> QED BY <1>2, <1>4, <1>5

\* The first receipt of a handle is asked for: nothing was asked for it before,
\* since its lock is free and nothing is cached.
LEMMA StartPersistCustody ==
  ASSUME IInv, AnswersInv, TraceInv, ToldInv, KeptInv, CustodyInv, NEW t \in Threads, NEW h \in Handles,
         h \in completions, receipt_lock[h] = {}, cached_receipt_delivery[h] = {},
         StartPersist(t, h)
  PROVE  CustodyInv'
<1> USE DEF CustodyInv
<1>1. PICK k : k = NextCall(h)
  OBVIOUS
<1>2. PICK x \in Materialized(h) : Persistence!Ask(k, x)
  BY <1>1 DEF StartPersist
<1>3. /\ k \in PersistCalls /\ k[1] = h
      /\ receipt_lock' = [receipt_lock EXCEPT ![h] = {t}]
  BY <1>1 DEF StartPersist, NextCall
<1>4. asked' = [asked EXCEPT ![k] = {x}] /\ decision_receipts' = decision_receipts
  BY <1>2 DEF Persistence!Ask
<1>5. UNCHANGED ownerVars /\ completions' = completions
      /\ cached_receipt_delivery' = cached_receipt_delivery
  BY Zenon DEF StartPersist
<1>6. UNCHANGED vars /\ request_signature' = request_signature
  BY <1>5 DEF ownerVars, owner, retained
<1>7. /\ \A g \in completions : ReturnedNormally(g)' /\ command'[g] = {request_signature'}
      /\ \A l \in PersistCalls : \A y \in asked[l] : Tells(l[1], y)'
  BY <1>6, HandlesStay
<1>8. Tells(h, x)'
  <2>1. h \in Invocations /\ ReturnedNormally(h) /\ command[h] = {request_signature}
    BY OwnerAssumption DEF HandlesInv, Handles
  <2>2. Tells(h, x)
    BY <1>2, <2>1, MaterializedTells DEF Materialized
  <2>3. result' = result /\ order_events' = order_events
    BY <1>6 DEF vars, database, call
  <2> QED BY <1>6, <2>2, <2>3 DEF Tells
<1>9. \A l \in PersistCalls : l[1] = h => asked[l] = {}
  BY DEF AskedInv
<1>10. /\ \A l \in PersistCalls : asked'[l] = IF l = k THEN {x} ELSE asked[l]
       /\ asked' = [l \in PersistCalls |-> asked'[l]]
  BY <1>3, <1>4 DEF AskedInv
<1>11. /\ receipt_lock' \in [Handles -> SUBSET Threads] /\ receipt_lock'[h] # {}
       /\ \A g \in Handles \ {h} : receipt_lock'[g] = receipt_lock[g]
  BY <1>3 DEF HandlesInv
<1>12. HandlesInv'
  BY <1>5, <1>7, <1>11 DEF HandlesInv
<1>13. AskedInv'
  <2>1. \A l \in PersistCalls : l[1] \in Handles
    BY DEF PersistCalls
  <2>2. ASSUME NEW l \in PersistCalls, asked'[l] # {}
        PROVE  /\ l[1] \in completions'
               /\ receipt_lock'[l[1]] # {} \/ cached_receipt_delivery'[l[1]] # {}
    <3>1. CASE l = k
      BY <1>3, <1>5, <1>11, <3>1
    <3>2. CASE l # k
      BY <1>5, <1>9, <1>10, <1>11, <2>1, <2>2, <3>2 DEF AskedInv
    <3> QED BY <3>1, <3>2
  <2>3. ASSUME NEW l \in PersistCalls, NEW m \in PersistCalls,
               asked'[l] # {}, asked'[m] # {}, l[1] = m[1]
        PROVE  l = m
    BY <1>3, <1>9, <1>10, <2>3 DEF AskedInv
  <2>4. ASSUME NEW l \in PersistCalls, NEW y \in asked'[l] PROVE Tells(l[1], y)'
    <3>1. CASE l = k
      BY <1>3, <1>8, <1>10, <2>4, <3>1
    <3>2. CASE l # k
      BY <1>7, <1>10, <2>4, <3>2
    <3> QED BY <3>1, <3>2
  <2> QED BY <1>10, <2>2, <2>3, <2>4 DEF AskedInv
<1>14. RowsInv'
  <2>1. \A l \in PersistCalls : asked[l] # {} => asked'[l] = asked[l]
    BY <1>3, <1>9, <1>10
  <2> QED BY <1>4, <2>1 DEF RowsInv
<1> QED BY <1>12, <1>13, <1>14

\* Composing, storing and reporting receipts keep the custody.
LEMMA ReceiptStepCustody ==
  ASSUME IInv, AnswersInv, TraceInv, ToldInv, KeptInv, CustodyInv,
         \/ \E t \in Threads, h \in Handles : ComposeReceipt(t, h) \/ ReceiptReported(t, h)
         \/ \E k \in PersistCalls : ReceiptStored(k)
  PROVE  CustodyInv'
<1> USE DEF CustodyInv
<1>1. ASSUME UNCHANGED <<ownerVars, completions>>
      PROVE  /\ \A g \in completions' : ReturnedNormally(g)' /\ command'[g] = {request_signature'}
             /\ \A l \in PersistCalls : \A y \in asked[l] : Tells(l[1], y)'
  <2>1. UNCHANGED vars /\ request_signature' = request_signature
    BY <1>1 DEF ownerVars, owner, retained
  <2> QED BY <1>1, <2>1, HandlesStay
<1>2. ASSUME NEW h \in Handles, NEW status \in Deliveries, Deliver(h, status),
             UNCHANGED <<ownerVars, completions, decision_receipts, asked>>,
             receipt_lock' = receipt_lock \/ receipt_lock' = [receipt_lock EXCEPT ![h] = {}]
      PROVE  CustodyInv'
  <2>1. /\ cached_receipt_delivery' \in [Handles -> SUBSET Deliveries]
        /\ cached_receipt_delivery'[h] # {}
        /\ \A g \in Handles \ {h} : cached_receipt_delivery'[g] = cached_receipt_delivery[g]
    BY <1>2 DEF Deliver, HandlesInv
  <2>2. /\ receipt_lock' \in [Handles -> SUBSET Threads]
        /\ \A g \in Handles \ {h} : receipt_lock'[g] = receipt_lock[g]
    BY <1>2 DEF HandlesInv
  <2>3. HandlesInv'
    BY <1>1, <1>2, <2>1, <2>2 DEF HandlesInv
  <2>4. ASSUME NEW l \in PersistCalls, asked[l] # {}
        PROVE  /\ l[1] \in completions'
               /\ receipt_lock'[l[1]] # {} \/ cached_receipt_delivery'[l[1]] # {}
    <3>1. l[1] \in Handles
      BY DEF PersistCalls
    <3> QED BY <1>2, <2>1, <2>2, <2>4, <3>1 DEF AskedInv
  <2>5. AskedInv'
    BY <1>1, <1>2, <2>4 DEF AskedInv
  <2>6. RowsInv'
    BY <1>2 DEF RowsInv
  <2> QED BY <2>3, <2>5, <2>6
<1>3. ASSUME NEW t \in Threads, NEW h \in Handles, ComposeReceipt(t, h) PROVE CustodyInv'
  <2>1. h \in completions /\ receipt_lock[h] = {} /\ cached_receipt_delivery[h] = {}
    BY <1>3 DEF ComposeReceipt
  <2>2. CASE StartPersist(t, h)
    BY <2>1, <2>2, StartPersistCustody
  <2>3. ASSUME NEW status \in ImmediateEnds(h), Deliver(h, status),
               UNCHANGED <<ownerVars, lifecycle_lock, completions, receipt_lock,
                           decision_receipts, asked, report>>
        PROVE  CustodyInv'
    <3>1. status \in Deliveries
      BY DEF ImmediateEnds, Deliveries
    <3>2. UNCHANGED <<ownerVars, completions, decision_receipts, asked>> /\ receipt_lock' = receipt_lock
      BY <2>3, Zenon
    <3> QED BY <1>2, <2>3, <3>1, <3>2
  <2> QED BY <1>3, <2>2, <2>3 DEF ComposeReceipt
<1>4. ASSUME NEW t \in Threads, NEW h \in Handles, ReceiptReported(t, h) PROVE CustodyInv'
  <2>1. PICK n \in 1..MaxPersists, status \in Durabilities :
          Persistence!Report(<<h, n>>, status) /\ Deliver(h, status)
    BY <1>4 DEF ReceiptReported, Durabilities
  <2>2. status \in Deliveries
    BY DEF Deliveries
  <2>3. UNCHANGED <<decision_receipts, asked>>
    BY <2>1 DEF Persistence!Report
  <2>4. UNCHANGED <<ownerVars, completions>> /\ receipt_lock' = [receipt_lock EXCEPT ![h] = {}]
    BY <1>4, Zenon DEF ReceiptReported
  <2> QED BY <1>2, <2>1, <2>2, <2>3, <2>4
<1>5. ASSUME NEW k \in PersistCalls, ReceiptStored(k) PROVE CustodyInv'
  <2>1. UNCHANGED <<ownerVars, completions, receipt_lock, cached_receipt_delivery>>
    BY <1>5, Zenon DEF ReceiptStored
  <2>2. PICK x \in asked[k] :
          /\ \A row \in decision_receipts : row.by # k
          /\ decision_receipts' = decision_receipts \cup {[receipt |-> x, by |-> k]}
          /\ asked' = asked
    BY <1>5 DEF ReceiptStored, Persistence!Store, Persistence!Row
  <2>3. HandlesInv'
    BY <1>1, <2>1 DEF HandlesInv
  <2>4. AskedInv'
    BY <1>1, <2>1, <2>2 DEF AskedInv
  <2>5. RowsInv'
    BY <2>2 DEF RowsInv
  <2> QED BY <2>3, <2>4, <2>5
<1> QED BY <1>3, <1>4, <1>5

\* Who holds which receipt, in every behaviour.
LEMMA Custody == RuntimeSpec => []CustodyInv
<1>1. RuntimeInit => CustodyInv
  <2> SUFFICES ASSUME RuntimeInit PROVE CustodyInv
    OBVIOUS
  <2>1. asked = [k \in PersistCalls |-> {}] /\ decision_receipts = {}
    BY DEF RuntimeInit, Persistence!ContractInit
  <2>2. HandlesInv
    BY DEF RuntimeInit, HandlesInv
  <2>3. AskedInv
    BY <2>1 DEF AskedInv
  <2>4. RowsInv
    BY <2>1 DEF RowsInv
  <2> QED BY <2>2, <2>3, <2>4 DEF CustodyInv
<1>2. ASSUME IInv, AnswersInv, TraceInv, ToldInv, KeptInv, OwnerInv, CustodyInv,
             [RuntimeNext]_runtimeVars
      PROVE  CustodyInv'
  <2>1. [OwnerNext]_ownerVars
    BY <1>2, RuntimeRefines
  <2>2. CASE WriterNext /\ UNCHANGED runtime
    <3>1. UNCHANGED custody /\ completions' = completions
      BY <2>2, Zenon DEF runtime
    <3> QED BY <1>2, <2>1, <3>1, OwnerStepCustody
  <2>3. CASE UNCHANGED runtimeVars
    <3>1. UNCHANGED custody /\ completions' = completions
      BY <2>3, Zenon DEF runtime, runtimeVars
    <3> QED BY <1>2, <2>1, <3>1, OwnerStepCustody
  <2>4. ASSUME NEW t \in Threads,
               RuntimeInvokeInitial(t) \/ RuntimeEvaluate(t) \/ RuntimeInvokeReinvocation(t)
        PROVE  CustodyInv'
    <3>1. UNCHANGED custody /\ completions' = completions
      BY <2>4, Zenon DEF RuntimeInvokeInitial, RuntimeEvaluate, RuntimeInvokeReinvocation, runtime
    <3> QED BY <1>2, <2>1, <3>1, OwnerStepCustody
  <2>5. ASSUME NEW t \in Threads, RuntimeCompleteInitial(t) \/ RuntimeCompleteReinvocation(t)
        PROVE  CustodyInv'
    <3>1. UNCHANGED custody
      BY <2>5, Zenon DEF RuntimeCompleteInitial, RuntimeCompleteReinvocation
    <3> QED BY <1>2, <2>1, <2>5, <3>1, OwnerStepCustody
  <2>6. CASE \/ \E t \in Threads, h \in Handles : ComposeReceipt(t, h) \/ ReceiptReported(t, h)
             \/ \E k \in PersistCalls : ReceiptStored(k)
    BY <1>2, <2>6, ReceiptStepCustody
  <2> QED BY <1>2, <2>2, <2>3, <2>4, <2>5, <2>6 DEF RuntimeNext
<1>3. IInv /\ AnswersInv /\ TraceInv /\ ToldInv /\ KeptInv /\ OwnerInv /\ CustodyInv
        /\ [RuntimeNext]_runtimeVars => CustodyInv'
  BY <1>2
<1> QED BY <1>1, <1>3, RuntimeImplements, OwnerImplements, OwnerInvariance, Invariance, Answers,
    Traces, ToldAlways, Kept, PTL DEF RuntimeSpec

\* An attempt has at most one durable receipt, however many threads compose it
\* and also when its transaction commits after it was reported UNKNOWN.
THEOREM OneReceipt == RuntimeSpec => []OneReceiptPerAttempt
<1>1. CustodyInv => OneReceiptPerAttempt
  <2> SUFFICES ASSUME CustodyInv, NEW s \in decision_receipts, NEW t \in decision_receipts,
                      s.by[1] = t.by[1]
               PROVE  s = t
    BY DEF OneReceiptPerAttempt
  <2>1. /\ s.by \in PersistCalls /\ asked[s.by] # {}
        /\ t.by \in PersistCalls /\ asked[t.by] # {}
    BY DEF CustodyInv, RowsInv
  <2>2. s.by = t.by
    BY <2>1 DEF CustodyInv, AskedInv
  <2> QED BY <2>2 DEF CustodyInv, RowsInv
<1> QED BY <1>1, Custody, PTL

\* Durable receipts tell what accepted history tells, whenever they are read.
THEOREM ReceiptsAreTrue == RuntimeSpec => []ReceiptsMatchHistory
<1>1. IInv /\ AnswersInv /\ ToldInv /\ OwnerInv /\ CustodyInv => ReceiptsMatchHistory
  <2> SUFFICES ASSUME IInv, AnswersInv, ToldInv, OwnerInv, CustodyInv, NEW row \in decision_receipts
               PROVE  LET rcpt == row.receipt
                          mine == EventsNamed({row.by[1]})
                          its  == EventsNamed({rcpt.accepted_event_id})
                      IN  /\ CASE rcpt.disposition = "ADMITTED_TO_ACCEPTED_HISTORY" ->
                                    its = mine /\ mine # {}
                               [] rcpt.disposition \in {"MATCHED_EXISTING_ACCEPTED_EVENT",
                                                        "IDEMPOTENCY_CONFLICT_WITH_ACCEPTED_HISTORY"} ->
                                    mine = {} /\ \E e \in its : e.request_id = request_signature.request_id
                               [] OTHER -> mine = {}
                          /\ rcpt.subject.type = "ACCEPTED_EVENT" <=> EventsNamed(rcpt.subject.id) # {}
    BY DEF ReceiptsMatchHistory
  <2>1. PICK w, x : w = row.by[1] /\ x = row.receipt
    OBVIOUS
  <2>2. Tells(w, x) /\ w \in completions
    BY <2>1 DEF CustodyInv, RowsInv, AskedInv
  <2>3. w \in Invocations /\ ReturnedNormally(w)
    BY <2>2, OwnerAssumption DEF CustodyInv, HandlesInv, Handles
  <2>4. result[w].outcome = "ACCEPTED" <=> EventsNamed({w}) # {}
    BY <2>3, AcceptedMeansRow
  <2>5. \A ids : EventsNamed(ids) # {} => \E i \in ids : i \in Invocations
    BY DEF EventsNamed, IInv, TypeOK, EventRow, EventRecord
  <2>6. request_signature.request_id \notin Invocations /\ request_signature.order_id \notin Invocations
    <3>1. request_signature \in CommandRecord
      BY ConstantsAssumption DEF OwnerInv, ResultsInv
    <3> QED BY <3>1, IdentityAssumption DEF CommandRecord
  <2>7. CASE /\ x.disposition = "ADMITTED_TO_ACCEPTED_HISTORY" /\ result[w].outcome = "ACCEPTED"
             /\ x.accepted_event_id = w /\ x.subject = [type |-> "ACCEPTED_EVENT", id |-> {w}]
    <3>1. x.subject.type = "ACCEPTED_EVENT" /\ x.subject.id = {w}
      BY <2>7
    <3> QED BY <2>1, <2>4, <2>7, <3>1
  <2>8. CASE /\ x.disposition \in {"MATCHED_EXISTING_ACCEPTED_EVENT",
                                   "IDEMPOTENCY_CONFLICT_WITH_ACCEPTED_HISTORY"}
             /\ result[w].outcome # "ACCEPTED"
             /\ \E s \in order_events : /\ s.event.event_id = x.accepted_event_id
                                        /\ s.event.request_id = request_signature.request_id
             /\ x.subject \in {[type |-> "ACCEPTED_EVENT", id |-> {x.accepted_event_id}],
                               [type |-> "REQUEST", id |-> {request_signature.request_id}]}
    <3>1. \E e \in EventsNamed({x.accepted_event_id}) : e.request_id = request_signature.request_id
      BY <2>8 DEF EventsNamed
    <3>2. \/ x.subject.type = "ACCEPTED_EVENT" /\ x.subject.id = {x.accepted_event_id}
          \/ x.subject.type = "REQUEST" /\ x.subject.id = {request_signature.request_id}
      BY <2>8
    <3>3. x.subject.type = "ACCEPTED_EVENT" <=> EventsNamed(x.subject.id) # {}
      BY <2>5, <2>6, <3>1, <3>2
    <3>4. EventsNamed({w}) = {}
      BY <2>4, <2>8
    <3> QED BY <2>1, <2>8, <3>1, <3>3, <3>4
  <2>9. CASE /\ x.disposition \in {"SEMANTIC_ADMISSION_REJECTED", "APPEND_CONCURRENCY_CONFLICT",
                                   "APPEND_TECHNICAL_FAILURE", "APPEND_ADMISSION_NOT_REACHED"}
             /\ result[w].outcome # "ACCEPTED"
             /\ x.subject.type # "ACCEPTED_EVENT" /\ x.subject.id \in {{w}, {request_signature.order_id}}
    <3>1. EventsNamed({w}) = {} /\ EventsNamed({request_signature.order_id}) = {}
      BY <2>4, <2>5, <2>6, <2>9
    <3> QED BY <2>1, <2>9, <3>1
  <2> QED BY <2>2, <2>7, <2>8, <2>9 DEF Tells
<1> QED BY <1>1, Custody, RuntimeImplements, OwnerImplements, OwnerInvariance, Invariance, Answers,
    ToldAlways, PTL

----------------------------------------------------------------------------
(* The lanes of a burst.                                                   *)

\* A transaction that has been prepared, and one that has a candidate as well.
AfterPreparation == {"load", "version", "insert", "waiting", "record", "commit"}
Appending == AfterPreparation \ {"load"}

\* The stream is locked before its history is loaded.
LocksFirst(w) == ~IsPre(w) /\ ConfigOf(w).gate = "pessimistic"

SameKey(x, w) == StreamKey[CommandOf(x).order_id] = StreamKey[CommandOf(w).order_id]

\* Who holds a lock is past its preparation, holds it alone and, where the lock
\* comes first, holds it to the end.
LocksInv ==
  /\ \A x \in locked : pc[x] \in AfterPreparation /\ ~(pc[x] = "load" /\ IsPre(x))
  /\ \A x, y \in locked : x # y => ~SameKey(x, y)
  /\ \A w \in Invocations : pc[w] \in AfterPreparation /\ LocksFirst(w) => w \in locked

\* A committed event is the candidate of the invocation that committed it.
AuthorsInv == \A r \in order_events : r.event \in candidate[r.event.event_id]

\* What a block and a rejection are due to.
DueTo(w) ==
  /\ result[w].verdict # "none" => result[w].outcome = "ADMISSION_REJECTED"
  /\ result[w].outcome = "VALIDATION_BLOCKED" => ConfigOf(w).validator # "FullProof"
  /\ result[w].outcome = "ADMISSION_REJECTED" /\ ~AppendReached(w) =>
       /\ result[w].verdict = "LOCK_TIMEOUT" /\ ConfigOf(w).gate = "pessimistic"
       /\ \E x \in Lanes \ {w} : SameKey(x, w)

DueInv == \A w \in Invocations : DueTo(w)

\* Nothing has been committed that the candidate of w does not know of.
UpToDate(w) ==
  \A e \in candidate[w], r \in order_events :
    r.event.order_id = e.order_id => r.event.sequence < e.sequence

AllLockFirst   == \A x \in Lanes : LocksFirst(x)
SeparateOrders == \A x, y \in Lanes : x # y => CommandOf(x).order_id # CommandOf(y).order_id

\* Lanes that lock first are never overtaken, nor are lanes with an order each.
FreshInv ==
  /\ AllLockFirst => \A w \in Invocations : pc[w] \in Appending => UpToDate(w)
  /\ AllLockFirst \/ SeparateOrders => \A w \in Invocations : result[w].verdict # "STALE_WRITE"

BurstInv == IsFiniteSet(Lanes) /\ LocksInv /\ AuthorsInv /\ DueInv /\ FreshInv

----------------------------------------------------------------------------
(* What a step may do to the lanes and to the locks.                       *)

\* A step of the write side, by the invocation w.
Acts(w) == Begin(w) \/ Step(w) \/ InsertLockTimeout(w) \/ CommitUnacknowledged(w) \/ Fail(w)

\* An invocation is called once.
LEMMA CalledOnce ==
  ASSUME NEW w, Acts(w), pc[w] # "new"
  PROVE  command' = command /\ config' = config
<1>1. Step(w) \/ InsertLockTimeout(w) \/ CommitUnacknowledged(w) \/ Fail(w)
  BY DEF Acts, Begin
<1> QED BY <1>1 DEF Step, PreliminaryCheck, Load, AuthoritativeCheck, PrepareStream,
         AppendVersionCheck, InsertEvent, InsertWaits, InsertResumes, RecordIdempotency, Commit,
         InsertLockTimeout, CommitUnacknowledged, Fail, call

\* A lane joins by its first step and stays as it was called.
LEMMA LanesGrow ==
  ASSUME IInv, AnswersInv, NEW w \in Invocations, Acts(w)
  PROVE  /\ Lanes' = Lanes \cup {w}
         /\ \A x \in Lanes : /\ CommandOf(x)' = CommandOf(x) /\ ConfigOf(x)' = ConfigOf(x)
                             /\ IsPre(x)' = IsPre(x) /\ LocksFirst(x)' = LocksFirst(x)
<1>1. pc'[w] # "new"
  BY BegunStays DEF Acts
<1>2. ASSUME NEW x \in Invocations \ {w}
      PROVE  pc'[x] = pc[x] /\ command'[x] = command[x] /\ config'[x] = config[x]
  BY OthersUntouched, OthersCall DEF Acts
<1>3. Lanes' = Lanes \cup {w}
  BY <1>1, <1>2 DEF Lanes
<1>4. ASSUME NEW x \in Lanes
      PROVE  command'[x] = command[x] /\ config'[x] = config[x]
  <2>1. CASE x = w
    BY <2>1, <1>4, CalledOnce DEF Lanes
  <2>2. CASE x # w
    BY <2>2, <1>2 DEF Lanes
  <2> QED BY <2>1, <2>2
<1>5. ASSUME NEW x \in Lanes
      PROVE  /\ CommandOf(x)' = CommandOf(x) /\ ConfigOf(x)' = ConfigOf(x)
             /\ IsPre(x)' = IsPre(x) /\ LocksFirst(x)' = LocksFirst(x)
  <2>1. CommandOf(x)' = CommandOf(x) /\ ConfigOf(x)' = ConfigOf(x)
    BY <1>4 DEF CommandOf, ConfigOf
  <2>2. IsPre(x)' = IsPre(x)
    BY <2>1 DEF IsPre
  <2> QED BY <2>1, <2>2 DEF LocksFirst
<1> QED BY <1>3, <1>5

\* A transaction ends and lets its lock go.
LetsGo(w) == locked' = locked \ {w} /\ pc'[w] = "done"

\* A transaction goes on with the lock it has, or without one.
GoesOnWith(w) ==
  /\ locked' = locked /\ pc[w] \in AfterPreparation /\ ~(pc[w] = "load" /\ IsPre(w))
  /\ pc'[w] \in Appending

\* An invocation is not yet prepared after the step either.
StaysUnprepared(w) ==
  /\ locked' = locked
  /\ pc[w] \notin AfterPreparation \/ (pc[w] = "load" /\ IsPre(w))
  /\ pc'[w] \notin AfterPreparation \/ (pc'[w] = "load" /\ IsPre(w)')

\* A stream is prepared, and locked by the pessimistic gate.
Prepares(w) ==
  /\ pc[w] = "prepare" /\ pc'[w] = IF IsPre(w) THEN "version" ELSE "load"
  /\ \/ ConfigOf(w).gate # "pessimistic" /\ locked' = locked
     \/ locked' = locked \cup {w} /\ \A x \in locked \ {w} : ~SameKey(x, w)

\* Every step does one of the four to the locks.
LEMMA LockShape ==
  ASSUME IInv, TraceInv, NEW w \in Invocations, Acts(w)
  PROVE  LetsGo(w) \/ GoesOnWith(w) \/ StaysUnprepared(w) \/ Prepares(w)
<1> DEFINE Shape == LetsGo(w) \/ GoesOnWith(w) \/ StaysUnprepared(w) \/ Prepares(w)
<1> SUFFICES Shape
  OBVIOUS
<1>1. pc \in [Invocations -> ControlPoints]
  BY DEF IInv, TypeOK
<1>2. ASSUME NEW r, RollbackAndReturn(w, r) PROVE Shape
  BY <1>1, <1>2 DEF RollbackAndReturn, EndTransaction, LetsGo
<1>3. ASSUME NEW next, Goto(w, next) PROVE pc'[w] = next
  BY <1>1, <1>3 DEF Goto
<1>4. CASE Begin(w)
  <2>1. pc[w] = "new" /\ locked' = locked /\ (Goto(w, "check") \/ Goto(w, "preliminary"))
    BY <1>4, Zenon DEF Begin, transaction
  <2>2. pc'[w] \in {"check", "preliminary"}
    BY <1>3, <2>1
  <2>3. StaysUnprepared(w)
    BY <2>1, <2>2 DEF StaysUnprepared, AfterPreparation
  <2> QED BY <2>3
<1>5. CASE PreliminaryCheck(w)
  <2>1. /\ pc[w] = "preliminary" /\ config' = config
        /\ (locked' = locked /\ Goto(w, "load")) \/ \E r : RollbackAndReturn(w, r)
    BY <1>5, Zenon DEF PreliminaryCheck, CheckIdempotency, transaction, call
  <2>2. IsPre(w)'
    BY <2>1 DEF TraceInv, TracedAt, IsPre, ConfigOf
  <2>3. CASE locked' = locked /\ Goto(w, "load")
    <3>1. pc'[w] = "load"
      BY <1>3, <2>3
    <3>2. StaysUnprepared(w)
      BY <2>1, <2>2, <2>3, <3>1 DEF StaysUnprepared, AfterPreparation
    <3> QED BY <3>2
  <2> QED BY <1>2, <2>1, <2>3
<1>6. CASE AuthoritativeCheck(w)
  <2>1. /\ pc[w] = "check"
        /\ (locked' = locked /\ Goto(w, "prepare")) \/ \E r : RollbackAndReturn(w, r)
    BY <1>6, Zenon DEF AuthoritativeCheck, CheckIdempotency, transaction
  <2>2. CASE locked' = locked /\ Goto(w, "prepare")
    <3>1. pc'[w] = "prepare"
      BY <1>3, <2>2
    <3>2. StaysUnprepared(w)
      BY <2>1, <2>2, <3>1 DEF StaysUnprepared, AfterPreparation
    <3> QED BY <3>2
  <2> QED BY <1>2, <2>1, <2>2
<1>7. CASE PrepareStream(w)
  <2>1. /\ pc[w] = "prepare"
        /\ \/ \E r : RollbackAndReturn(w, r)
           \/ /\ ~(ConfigOf(w).gate = "pessimistic" /\ LockBusy(w))
              /\ locked' = IF ConfigOf(w).gate = "pessimistic" THEN locked \cup {w} ELSE locked
              /\ Goto(w, IF IsPre(w) THEN "version" ELSE "load")
    BY <1>7, Zenon DEF PrepareStream
  <2>2. CASE /\ ~(ConfigOf(w).gate = "pessimistic" /\ LockBusy(w))
             /\ locked' = IF ConfigOf(w).gate = "pessimistic" THEN locked \cup {w} ELSE locked
             /\ Goto(w, IF IsPre(w) THEN "version" ELSE "load")
    BY <1>3, <2>1, <2>2 DEF Prepares, LockBusy, SameKey
  <2> QED BY <1>2, <2>1, <2>2
<1>8. CASE Load(w)
  <2>1. /\ pc[w] = "load" /\ config' = config
        /\ \/ \E r : RollbackAndReturn(w, r)
           \/ IsPre(w) /\ Goto(w, "check") /\ locked' = locked
           \/ ~IsPre(w) /\ Goto(w, "version") /\ locked' = locked
    BY <1>8, Zenon DEF Load, Raise, transaction, call
  <2>2. CASE IsPre(w) /\ Goto(w, "check") /\ locked' = locked
    <3>1. pc'[w] = "check"
      BY <1>3, <2>2
    <3>2. StaysUnprepared(w)
      BY <2>1, <2>2, <3>1 DEF StaysUnprepared, AfterPreparation
    <3> QED BY <3>2
  <2>3. CASE ~IsPre(w) /\ Goto(w, "version") /\ locked' = locked
    BY <1>3, <2>1, <2>3 DEF GoesOnWith, AfterPreparation, Appending
  <2> QED BY <1>2, <2>1, <2>2, <2>3
<1>9. CASE \/ AppendVersionCheck(w) \/ InsertEvent(w) \/ InsertWaits(w) \/ InsertResumes(w)
           \/ InsertLockTimeout(w) \/ RecordIdempotency(w)
  <2>1. pc[w] \in {"version", "insert", "waiting", "record"}
    BY <1>9 DEF AppendVersionCheck, InsertEvent, InsertWaits, InsertResumes, InsertLockTimeout,
                RecordIdempotency
  <2>2. \/ \E r : RollbackAndReturn(w, r)
        \/ \E next \in {"insert", "waiting", "record", "commit"} :
             Goto(w, next) /\ locked' = locked
    <3>1. CASE AppendVersionCheck(w) \/ InsertWaits(w) \/ InsertLockTimeout(w)
      BY <3>1, Zenon DEF AppendVersionCheck, InsertWaits, InsertLockTimeout, transaction
    <3>2. CASE InsertEvent(w) \/ InsertResumes(w)
      BY <3>2, Zenon DEF InsertEvent, InsertResumes, FinishInsert
    <3>3. CASE RecordIdempotency(w)
      BY <3>3, Zenon DEF RecordIdempotency, Raise
    <3> QED BY <1>9, <3>1, <3>2, <3>3
  <2>3. ASSUME NEW next \in {"insert", "waiting", "record", "commit"},
               Goto(w, next), locked' = locked
        PROVE  Shape
    BY <1>3, <2>1, <2>3 DEF GoesOnWith, AfterPreparation, Appending
  <2> HIDE DEF Shape
  <2> QED BY <1>2, <2>2, <2>3
<1>10. CASE Commit(w) \/ CommitUnacknowledged(w) \/ Fail(w)
  BY <1>1, <1>10 DEF Commit, CommitUnacknowledged, Fail, Raise, RollbackAndReturn, Publish,
                     EndTransaction, LetsGo
<1> HIDE DEF Shape
<1>11. ASSUME Step(w) PROVE Shape
  BY <1>11, <1>5, <1>6, <1>7, <1>8, <1>9, <1>10 DEF Step
<1> QED BY <1>4, <1>9, <1>10, <1>11 DEF Acts

\* Lanes are finitely many: each has begun by a step of its own.
LEMMA NextLanesFinite ==
  ASSUME IInv, AnswersInv, IsFiniteSet(Lanes), NEW w \in Invocations, Acts(w)
  PROVE  IsFiniteSet(Lanes)'
<1>1. Lanes' = Lanes \cup {w}
  BY LanesGrow
<1>2. IsFiniteSet(Lanes \cup {w})
  BY FS_AddElement
<1> QED BY <1>1, <1>2

\* A lane keeps its lock key.
LEMMA KeysStay ==
  ASSUME IInv, AnswersInv, NEW w \in Invocations, Acts(w), NEW x \in Lanes, NEW y \in Lanes
  PROVE  SameKey(x, y)' = SameKey(x, y)
<1>1. CommandOf(x)' = CommandOf(x) /\ CommandOf(y)' = CommandOf(y)
  BY LanesGrow
<1> QED BY <1>1 DEF SameKey

\* Every step keeps the discipline of the locks.
LEMMA NextLocks ==
  ASSUME IInv, AnswersInv, TraceInv, LocksInv, NEW w \in Invocations, Acts(w)
  PROVE  LocksInv'
<1>1. LetsGo(w) \/ GoesOnWith(w) \/ StaysUnprepared(w) \/ Prepares(w)
  BY LockShape
<1>2. ASSUME NEW x \in Invocations, pc[x] # "new"
      PROVE  x \in Lanes /\ IsPre(x)' = IsPre(x) /\ LocksFirst(x)' = LocksFirst(x)
             /\ CommandOf(x)' = CommandOf(x) /\ ConfigOf(x)' = ConfigOf(x)
  BY <1>2, LanesGrow DEF Lanes
<1>3. ASSUME NEW x \in Invocations \ {w} PROVE pc'[x] = pc[x]
  BY OthersUntouched DEF Acts
<1>4. locked \subseteq Lanes
  BY DEF LocksInv, Lanes, AfterPreparation, IInv, TypeOK
<1>5. locked' \subseteq locked \cup {w} /\ Lanes \subseteq Invocations
  BY <1>1 DEF LetsGo, GoesOnWith, StaysUnprepared, Prepares, Lanes
<1>6. ASSUME NEW x \in locked'
      PROVE  pc'[x] \in AfterPreparation /\ ~(pc'[x] = "load" /\ IsPre(x)')
  <2>1. CASE x # w
    <3>1. x \in locked /\ x \in Lanes /\ x \in Invocations /\ pc'[x] = pc[x]
      BY <1>3, <1>4, <1>5, <1>6, <2>1
    <3>2. IsPre(x)' = IsPre(x)
      BY <3>1, LanesGrow
    <3> QED BY <3>1, <3>2 DEF LocksInv
  <2>2. CASE x = w
    <3>1. CASE LetsGo(w)
      BY <1>6, <2>2, <3>1 DEF LetsGo
    <3>2. CASE GoesOnWith(w)
      BY <2>2, <3>2 DEF GoesOnWith, Appending
    <3>3. CASE StaysUnprepared(w)
      BY <1>6, <2>2, <3>3 DEF StaysUnprepared, LocksInv
    <3>4. CASE Prepares(w)
      <4>1. pc[w] = "prepare" /\ IsPre(w)' = IsPre(w)
        BY <1>2, <3>4 DEF Prepares
      <4> QED BY <2>2, <3>4, <4>1 DEF Prepares, AfterPreparation
    <3> QED BY <1>1, <3>1, <3>2, <3>3, <3>4
  <2> QED BY <2>1, <2>2
<1>7. ASSUME NEW x \in locked', NEW y \in locked', x # y PROVE ~SameKey(x, y)'
  <2>1. CASE Prepares(w)
    <3>1. w \in Lanes
      BY <2>1 DEF Prepares, Lanes
    <3>2. x \in Lanes /\ y \in Lanes
      BY <1>4, <1>5, <1>7, <3>1
    <3>3. SameKey(x, y)' = SameKey(x, y)
      BY <3>2, KeysStay
    <3>4. CASE x \in locked /\ y \in locked
      BY <1>7, <3>3, <3>4 DEF LocksInv
    <3>5. CASE ~(x \in locked /\ y \in locked)
      <4>1. \A z \in locked \ {w} : ~SameKey(z, w)
        BY <1>5, <1>7, <2>1, <3>5 DEF Prepares
      <4>2. (x = w /\ y \in locked \ {w}) \/ (y = w /\ x \in locked \ {w})
        BY <1>5, <1>7, <3>5
      <4>3. ~SameKey(x, y)
        BY <4>1, <4>2 DEF SameKey
      <4> QED BY <3>3, <4>3
    <3> QED BY <3>4, <3>5
  <2>2. CASE ~Prepares(w)
    <3>1. x \in locked /\ y \in locked
      BY <1>1, <1>7, <2>2 DEF LetsGo, GoesOnWith, StaysUnprepared
    <3>2. ~SameKey(x, y) /\ x \in Lanes /\ y \in Lanes
      BY <1>4, <1>7, <3>1 DEF LocksInv
    <3>3. SameKey(x, y)' = SameKey(x, y)
      BY <3>2, KeysStay
    <3> QED BY <3>2, <3>3
  <2> QED BY <2>1, <2>2
<1>8. ASSUME NEW x \in Invocations, pc'[x] \in AfterPreparation, LocksFirst(x)'
      PROVE  x \in locked'
  <2>1. CASE x # w
    <3>1. pc'[x] = pc[x]
      BY <1>3, <2>1
    <3>2. pc[x] # "new" /\ pc[x] \in AfterPreparation
      BY <1>8, <3>1 DEF AfterPreparation
    <3>3. LocksFirst(x)
      BY <1>2, <1>8, <3>2
    <3>4. x \in locked
      BY <3>2, <3>3 DEF LocksInv
    <3> QED BY <1>1, <2>1, <3>4 DEF LetsGo, GoesOnWith, StaysUnprepared, Prepares
  <2>2. CASE x = w
    <3>1. CASE LetsGo(w)
      BY <1>8, <2>2, <3>1 DEF LetsGo, AfterPreparation
    <3>2. CASE GoesOnWith(w)
      <4>1. pc[w] # "new" /\ pc[w] \in AfterPreparation /\ locked' = locked
        BY <3>2 DEF GoesOnWith, AfterPreparation
      <4>2. LocksFirst(w)
        BY <1>2, <1>8, <2>2, <4>1
      <4> QED BY <2>2, <4>1, <4>2 DEF LocksInv
    <3>3. CASE StaysUnprepared(w)
      <4>1. ~IsPre(w)'
        BY <1>8, <2>2 DEF LocksFirst
      <4> QED BY <1>8, <2>2, <3>3, <4>1 DEF StaysUnprepared
    <3>4. CASE Prepares(w)
      <4>1. pc[w] # "new"
        BY <3>4 DEF Prepares
      <4>2. ConfigOf(w).gate = "pessimistic"
        BY <1>2, <1>8, <2>2, <4>1 DEF LocksFirst
      <4> QED BY <2>2, <3>4, <4>2 DEF Prepares
    <3> QED BY <1>1, <3>1, <3>2, <3>3, <3>4
  <2> QED BY <2>1, <2>2
<1> QED BY <1>6, <1>7, <1>8 DEF LocksInv

\* A committed event stays the candidate of its author, who has ended.
LEMMA NextAuthors ==
  ASSUME IInv, AuthorsInv, NEW w \in Invocations, Acts(w)
  PROVE  AuthorsInv'
<1>1. MovesOn(w) \/ (\E r : Returns(w, r)) \/ Publishes(w)
  BY StepShape DEF Acts
<1>2. pc[w] # "done"
  BY <1>1 DEF MovesOn, Returns, Publishes
<1>3. ASSUME NEW r \in order_events PROVE r.event \in candidate'[r.event.event_id]
  <2>1. r.event.event_id \in Invocations /\ pc[r.event.event_id] = "done"
    BY DEF IInv, TypeOK, EventRow, EventRecord, StreamsInv
  <2>2. r.event.event_id \in Invocations \ {w}
    BY <1>2, <2>1
  <2>3. candidate'[r.event.event_id] = candidate[r.event.event_id]
    BY <2>2, OthersCall DEF Acts
  <2> QED BY <2>3 DEF AuthorsInv
<1>4. CASE order_events' = order_events
  BY <1>3, <1>4 DEF AuthorsInv
<1>5. CASE Publishes(w)
  <2>1. PICK row \in EventRow : /\ order_events' = order_events \cup {row}
                                /\ row.event = TheCandidate(w) /\ row.event.event_id = w
    BY <1>5, PublishedRows DEF Publishes
  <2>2. candidate' = candidate /\ TheCandidate(w) \in candidate[w]
    BY <1>5, HeldCandidate DEF Publishes, IInv, Coupled
  <2> QED BY <1>3, <2>1, <2>2 DEF AuthorsInv
<1> QED BY <1>1, <1>4, <1>5 DEF MovesOn, Returns, NothingCommitted
----------------------------------------------------------------------------
(* What blocks and rejects.                                                *)

\* The FullProof validator does not fail a candidate that was built from the
\* history it is compared with.
LEMMA OwnProofHolds ==
  ASSUME NEW o, NEW c, NEW id, NEW S, NEW h \in Seq(S), c.command_type \in CommandTypes,
         IsLegal(Rehydrate(o, h), c)
  PROVE  LET a == Rehydrate(o, h)
         IN  ObservedViolation(CandidateEvent(a, c, id), ValidationContext(a, h)) = 0
<1> DEFINE a == Rehydrate(o, h)
           e == CandidateEvent(a, c, id)
           ctx == ValidationContext(a, h)
           t == IF c.command_type = "create" THEN "CREATED" ELSE "PAID"
<1>1. /\ e.sequence = a.current_version + 1 /\ e.event_type = t
      /\ e.proof.prev_event_id = a.last_event_id
      /\ e.proof.prev_version = a.current_version /\ e.proof.prev_status = a.status
  BY DEF CandidateEvent
<1>2. ctx.actual_prev_version = a.current_version /\ ctx.actual_prev_status = a.status
  BY DEF ValidationContext
<1>3. ctx.actual_prev_event_id = a.last_event_id
  <2>1. Len(h) = 0 <=> h = <<>>
    BY EmptySeq
  <2>2. /\ a.last_event_id = IF Len(h) = 0 THEN NoEvent ELSE h[Len(h)].event_id
        /\ ctx.actual_prev_event_id = IF h = <<>> THEN NoEvent ELSE h[Len(h)].event_id
    BY DEF Rehydrate, ValidationContext
  <2> QED BY <2>1, <2>2
<1>4. t \in EventTypes /\ a.status = REQUIRED_PREV_STATUS_BY_EVENT_TYPE[t]
  <2>1. /\ REQUIRED_PREV_STATUS_BY_EVENT_TYPE["CREATED"] = "INIT"
        /\ REQUIRED_PREV_STATUS_BY_EVENT_TYPE["PAID"] = "CREATED"
    BY DEF REQUIRED_PREV_STATUS_BY_EVENT_TYPE
  <2>2. \/ c.command_type = "create" /\ t = "CREATED" /\ a.status = "INIT"
        \/ c.command_type = "pay" /\ t = "PAID" /\ a.status = "CREATED"
    BY DEF IsLegal, CommandTypes
  <2> QED BY <2>1, <2>2 DEF EventTypes
<1> HIDE DEF a, e, ctx, t
<1>5. \A i \in 1..6 : FullProofRules(e, ctx)[i]
  <2> DEFINE rules == FullProofRules(e, ctx)
  <2>1. /\ rules[1] <=> e.sequence = ctx.actual_prev_version + 1
        /\ rules[2] <=> e.proof.prev_event_id = ctx.actual_prev_event_id
        /\ rules[3] <=> e.proof.prev_version = ctx.actual_prev_version
        /\ rules[4] <=> e.proof.prev_status = ctx.actual_prev_status
        /\ rules[5] <=> e.event_type \in EventTypes
        /\ rules[6] <=> /\ e.event_type \in EventTypes
                        /\ ctx.actual_prev_status = REQUIRED_PREV_STATUS_BY_EVENT_TYPE[e.event_type]
    BY DEF FullProofRules
  <2>2. rules[1] /\ rules[2] /\ rules[3] /\ rules[4] /\ rules[5] /\ rules[6]
    BY <1>1, <1>2, <1>3, <1>4, <2>1
  <2> HIDE DEF rules
  <2>3. ASSUME NEW i \in 1..6 PROVE rules[i]
    <3>1. i = 1 \/ i = 2 \/ i = 3 \/ i = 4 \/ i = 5 \/ i = 6
      OBVIOUS
    <3> QED BY <2>2, <3>1
  <2> QED BY <2>3 DEF rules
<1>6. {i \in 1..6 : ~FullProofRules(e, ctx)[i]} = {}
  BY <1>5
<1>7. ObservedViolation(e, ctx) = 0
  BY <1>6 DEF ObservedViolation
<1> QED BY <1>7 DEF a, e, ctx

\* A validation block does not come from the FullProof validator.
LEMMA BlockOrigin ==
  ASSUME IInv, NEW w \in Invocations, Load(w)
  PROVE  \/ \E next : Goto(w, next)
         \/ RollbackAndReturn(w, Outcome("RAISED", NoEvent))
         \/ /\ RollbackAndReturn(w, Outcome("VALIDATION_BLOCKED", NoEvent))
            /\ ConfigOf(w).validator # "FullProof"
<1> DEFINE c == CommandOf(w)
           h == load(c.order_id)
           a == Rehydrate(c.order_id, h)
           e == CandidateEvent(a, c, w)
           ctx == ValidationContext(a, h)
<1>1. \/ \E next : Goto(w, next)
      \/ RollbackAndReturn(w, Outcome("RAISED", NoEvent))
      \/ /\ RollbackAndReturn(w, Outcome("VALIDATION_BLOCKED", NoEvent))
         /\ IsLegal(a, c)
         /\ \E allow \in AllowedDecisions(ConfigOf(w).validator, e, ctx) : ~allow
  BY Zenon DEF Load, Raise
<1>2. pc[w] = "load"
  BY DEF Load
<1>3. c \in CommandRecord
  BY <1>2, HeldCall DEF IInv
<1>4. c.order_id \in Orders /\ c.command_type \in CommandTypes
  BY <1>3 DEF CommandRecord
<1>5. PICK v \in Nat : IsContiguous(Stream(c.order_id), v)
  BY <1>4 DEF IInv, StreamsInv
<1>6. h \in Seq(Stream(c.order_id))
  BY <1>5, InSequenceOrderContiguous DEF load
<1> HIDE DEF h, c
<1>7. IsLegal(a, c) => ObservedViolation(e, ctx) = 0
  BY <1>4, <1>6, OwnProofHolds
<1> HIDE DEF a, e, ctx
<1>8. ConfigOf(w).validator = "FullProof" =>
        AllowedDecisions(ConfigOf(w).validator, e, ctx) = {ObservedViolation(e, ctx) = 0}
  BY Zenon DEF AllowedDecisions
<1>9. ASSUME IsLegal(a, c), \E allow \in AllowedDecisions(ConfigOf(w).validator, e, ctx) : ~allow
      PROVE  ConfigOf(w).validator # "FullProof"
  <2>1. SUFFICES ASSUME ConfigOf(w).validator = "FullProof" PROVE FALSE
    OBVIOUS
  <2>2. PICK allow \in {ObservedViolation(e, ctx) = 0} : ~allow
    BY <1>8, <1>9, <2>1
  <2>3. allow = (ObservedViolation(e, ctx) = 0)
    BY <2>2
  <2> QED BY <1>7, <1>9, <2>2, <2>3
<1> QED BY <1>1, <1>9

\* A stale candidate does not know of a committed event.
LEMMA StaleMeansOvertaken ==
  ASSUME IInv, NEW w \in Invocations, pc[w] = "version", NEW e, e = TheCandidate(w),
         \/ current_version(e.order_id) # e.proof.prev_version
         \/ e.sequence # e.proof.prev_version + 1
  PROVE  ~UpToDate(w)
<1>1. candidate[w] # {}
  BY DEF IInv, Coupled
<1>2. e \in candidate[w] /\ e \in EventRecord
  BY <1>1, HeldCandidate DEF IInv
<1>3. FollowsHistory(e)
  BY <1>2 DEF IInv, Coupled
<1>4. e.order_id \in Orders /\ e.sequence \in Nat \ {0} /\ e.proof.prev_version \in Nat
  BY <1>2 DEF EventRecord
<1>5. PICK v \in Nat : IsContiguous(Stream(e.order_id), v) /\ current_version(e.order_id) = v
  BY <1>4, StreamFacts DEF IInv
<1>6. e.proof.prev_version = e.sequence - 1
  BY <1>3 DEF FollowsHistory
<1>7. v # e.sequence - 1
  BY <1>4, <1>5, <1>6
<1>8. e.sequence - 1 <= v
  <2>1. CASE e.sequence = 1
    BY <2>1
  <2>2. CASE e.sequence # 1
    <3>1. PICK r \in order_events :
            r.event.order_id = e.order_id /\ r.event.sequence = e.sequence - 1
      BY <1>3, <2>2 DEF FollowsHistory
    <3>2. r.event \in Stream(e.order_id)
      BY <3>1 DEF Stream
    <3>3. r.event.sequence \in 1..v
      BY <1>5, <3>2 DEF IsContiguous
    <3> QED BY <1>4, <3>1, <3>3
  <2> QED BY <2>1, <2>2
<1>9. v \in 1..v /\ v >= e.sequence
  BY <1>4, <1>7, <1>8
<1>10. PICK f \in Stream(e.order_id) : f.sequence = v
  BY <1>5, <1>9 DEF IsContiguous
<1>11. PICK r \in order_events : r.event = f /\ f.order_id = e.order_id
  BY <1>10 DEF Stream
<1> QED BY <1>2, <1>4, <1>9, <1>10, <1>11 DEF UpToDate

\* Where a verdict comes from: the lock is busy, or append finds a row, or
\* waits too long for one.
RejectedBy(w, r) ==
  \/ /\ pc[w] = "prepare" /\ r.verdict = "LOCK_TIMEOUT"
     /\ ConfigOf(w).gate = "pessimistic" /\ LockBusy(w)
  \/ /\ pc[w] \in {"version", "insert", "waiting"}
     /\ RecordCheckpoints(w, <<"APPEND_ADMISSION_RETURNED">>)
     /\ r.verdict = "STALE_WRITE" => ~UpToDate(w)

\* What the step of w makes of its result.
Originates(w, r) ==
  /\ result' = [result EXCEPT ![w] = r] /\ pc[w] # "new"
  /\ r.verdict # "none" => r.outcome = "ADMISSION_REJECTED"
  /\ r.outcome = "VALIDATION_BLOCKED" => ConfigOf(w).validator # "FullProof"
  /\ r.outcome = "ADMISSION_REJECTED" => RejectedBy(w, r)

\* Every result originates so.
LEMMA ResultOrigin ==
  ASSUME IInv, NEW w \in Invocations, Acts(w)
  PROVE  result' = result \/ \E r : Originates(w, r)
<1> DEFINE Shape == result' = result \/ \E r : Originates(w, r)
<1> SUFFICES Shape
  OBVIOUS
<1>1. ASSUME NEW o, NEW e PROVE Outcome(o, e).verdict = "none" /\ Outcome(o, e).outcome = o
  BY DEF Outcome, Result
<1>2. ASSUME NEW v, NEW m
      PROVE  /\ AdmissionRejected(v, m).verdict = v
             /\ AdmissionRejected(v, m).outcome = "ADMISSION_REJECTED"
  BY DEF AdmissionRejected, Result
<1>3. ASSUME NEW o, o # "ADMISSION_REJECTED",
             o = "VALIDATION_BLOCKED" => ConfigOf(w).validator # "FullProof", NEW e,
             result' = [result EXCEPT ![w] = Outcome(o, e)], pc[w] # "new"
      PROVE  Shape
  <2>1. Originates(w, Outcome(o, e))
    BY <1>1, <1>3 DEF Originates
  <2> QED BY <2>1
<1>4. ASSUME NEW v, NEW m, result' = [result EXCEPT ![w] = AdmissionRejected(v, m)],
             pc[w] # "new", RejectedBy(w, AdmissionRejected(v, m))
      PROVE  Shape
  <2>1. Originates(w, AdmissionRejected(v, m))
    BY <1>2, <1>4 DEF Originates
  <2> QED BY <2>1
<1>5. ASSUME NEW next, Goto(w, next) PROVE Shape
  BY <1>5 DEF Goto
<1>6. ASSUME NEW r, RollbackAndReturn(w, r) PROVE result' = [result EXCEPT ![w] = r]
  BY <1>6 DEF RollbackAndReturn
<1> HIDE DEF Shape
<1>7. CASE Begin(w)
  <2>1. \E next : Goto(w, next)
    BY <1>7, Zenon DEF Begin
  <2> QED BY <1>5, <2>1
<1>8. CASE PreliminaryCheck(w) \/ AuthoritativeCheck(w)
  <2>1. /\ pc[w] # "new"
        /\ \/ Goto(w, "load") \/ Goto(w, "prepare")
           \/ \E e : RollbackAndReturn(w, Outcome("REPLAY", e))
           \/ RollbackAndReturn(w, Outcome("CONFLICT", NoEvent))
    BY <1>8, Zenon DEF PreliminaryCheck, AuthoritativeCheck, CheckIdempotency
  <2> QED BY <1>3, <1>5, <1>6, <2>1
<1>9. CASE Load(w)
  <2>1. pc[w] # "new"
    BY <1>9 DEF Load
  <2> QED BY <1>3, <1>5, <1>6, <1>9, <2>1, BlockOrigin
<1>10. CASE PrepareStream(w)
  <2>1. /\ pc[w] = "prepare"
        /\ \/ \E next : Goto(w, next)
           \/ /\ ConfigOf(w).gate = "pessimistic" /\ LockBusy(w)
              /\ RollbackAndReturn(w, AdmissionRejected("LOCK_TIMEOUT", <<>>))
    BY <1>10, Zenon DEF PrepareStream
  <2>2. ASSUME ConfigOf(w).gate = "pessimistic", LockBusy(w)
        PROVE  RejectedBy(w, AdmissionRejected("LOCK_TIMEOUT", <<>>))
    BY <1>2, <2>1, <2>2 DEF RejectedBy
  <2> QED BY <1>4, <1>5, <1>6, <2>1, <2>2
<1>11. CASE AppendVersionCheck(w)
  <2>1. PICK e : e = TheCandidate(w)
    OBVIOUS
  <2>2. /\ pc[w] = "version"
        /\ \/ \E next : Goto(w, next)
           \/ /\ \/ current_version(e.order_id) # e.proof.prev_version
                 \/ e.sequence # e.proof.prev_version + 1
              /\ RecordCheckpoints(w, <<"APPEND_ADMISSION_RETURNED">>)
              /\ \E m : RollbackAndReturn(w, AdmissionRejected("STALE_WRITE", m))
    BY <1>11, <2>1, Zenon DEF AppendVersionCheck
  <2>3. ASSUME \/ current_version(e.order_id) # e.proof.prev_version
               \/ e.sequence # e.proof.prev_version + 1,
               RecordCheckpoints(w, <<"APPEND_ADMISSION_RETURNED">>), NEW m
        PROVE  RejectedBy(w, AdmissionRejected("STALE_WRITE", m))
    <3>1. ~UpToDate(w)
      BY <2>1, <2>2, <2>3, StaleMeansOvertaken
    <3> QED BY <2>2, <2>3, <3>1 DEF RejectedBy
  <2> QED BY <1>4, <1>5, <1>6, <2>2, <2>3
<1>12. CASE InsertEvent(w) \/ InsertResumes(w) \/ InsertWaits(w)
  <2>1. /\ pc[w] \in {"insert", "waiting"}
        /\ \/ \E next : Goto(w, next)
           \/ /\ RecordCheckpoints(w, <<"APPEND_ADMISSION_RETURNED">>)
              /\ \E r \in order_events : SamePosition(r.event, TheCandidate(w))
              /\ RollbackAndReturn(w, AdmissionRejected("STALE_WRITE", <<>>))
    BY <1>12, Zenon DEF InsertEvent, InsertResumes, InsertWaits, FinishInsert
  <2>2. ASSUME RecordCheckpoints(w, <<"APPEND_ADMISSION_RETURNED">>),
               \E r \in order_events : SamePosition(r.event, TheCandidate(w))
        PROVE  RejectedBy(w, AdmissionRejected("STALE_WRITE", <<>>))
    <3>1. TheCandidate(w) \in candidate[w] /\ TheCandidate(w).sequence \in Nat
      BY <2>1, HeldCandidate DEF IInv, Coupled, EventRecord
    <3>2. ~UpToDate(w)
      BY <2>2, <3>1 DEF UpToDate, SamePosition
    <3> QED BY <2>1, <2>2, <3>2 DEF RejectedBy
  <2> QED BY <1>4, <1>5, <1>6, <2>1, <2>2
<1>13. CASE InsertLockTimeout(w)
  <2>1. /\ pc[w] = "waiting" /\ RecordCheckpoints(w, <<"APPEND_ADMISSION_RETURNED">>)
        /\ RollbackAndReturn(w, AdmissionRejected("LOCK_TIMEOUT", <<>>))
    BY <1>13 DEF InsertLockTimeout
  <2>2. RejectedBy(w, AdmissionRejected("LOCK_TIMEOUT", <<>>))
    BY <1>2, <2>1 DEF RejectedBy
  <2> QED BY <1>4, <1>6, <2>1, <2>2
<1>14. CASE RecordIdempotency(w) \/ Fail(w)
  <2>1. /\ pc[w] # "new"
        /\ (\E next : Goto(w, next)) \/ RollbackAndReturn(w, Outcome("RAISED", NoEvent))
    BY <1>14, Zenon DEF RecordIdempotency, Fail, Raise
  <2> QED BY <1>3, <1>5, <1>6, <2>1
<1>15. CASE Commit(w) \/ CommitUnacknowledged(w)
  <2>1. /\ pc[w] # "new"
        /\ \/ result' = [result EXCEPT ![w] = Outcome("ACCEPTED", TheCandidate(w).event_id)]
           \/ result' = [result EXCEPT ![w] = Outcome("RAISED", NoEvent)]
    BY <1>15 DEF Commit, CommitUnacknowledged
  <2> QED BY <1>3, <2>1
<1>16. ASSUME Step(w) PROVE Shape
  BY <1>16, <1>8, <1>9, <1>10, <1>11, <1>12, <1>14, <1>15 DEF Step
<1> QED BY <1>7, <1>13, <1>14, <1>15, <1>16 DEF Acts
\* A checkpoint that has just been recorded is reached.
LEMMA JustReached ==
  ASSUME IInv, NEW w \in Invocations, NEW c \in Checkpoints, RecordCheckpoints(w, <<c>>)
  PROVE  Reached(w, c)'
<1>1. PICK s \in Seq(Checkpoints) : s = checkpoints[w]
  BY DEF IInv, TypeOK
<1>2. checkpoints'[w] = s \o <<c>>
  BY <1>1, RecordedTrace
<1>3. <<c>> \in Seq(Checkpoints) /\ Len(<<c>>) = 1 /\ <<c>>[1] = c
  OBVIOUS
<1>4. PICK t \in Seq(Checkpoints) : t = <<c>> /\ Len(t) = 1 /\ t[1] = c
  BY <1>3
<1>5. Len(s \o t) = Len(s) + 1 /\ (s \o t)[Len(s) + 1] = c /\ s \o t \in Seq(Checkpoints)
  BY <1>4, ConcatProperties
<1>6. Len(s) + 1 \in DOMAIN (s \o t)
  BY <1>5
<1>7. checkpoints'[w] = s \o t
  BY <1>2, <1>4
<1> QED BY <1>5, <1>6, <1>7 DEF Reached

\* Every step keeps what blocks and rejections are due to.
LEMMA NextDue ==
  ASSUME IInv, AnswersInv, LocksInv, DueInv, NEW w \in Invocations, Acts(w)
  PROVE  DueInv'
<1>1. Lanes \subseteq Lanes' /\ Lanes \subseteq Invocations
  BY LanesGrow DEF Lanes
<1>2. ASSUME NEW x \in Invocations, pc[x] # "new" PROVE x \in Lanes
  BY <1>2 DEF Lanes
<1>3. ASSUME NEW x \in Lanes, NEW y \in Lanes \ {x}, SameKey(y, x)
      PROVE  \E z \in Lanes' \ {x} : SameKey(z, x)'
  <2>1. SameKey(y, x)' = SameKey(y, x)
    BY KeysStay
  <2> QED BY <1>1, <1>3, <2>1
<1>4. ASSUME NEW x \in Invocations, result'[x] = result[x],
             x # w \/ pc[x] = "new" \/ result[x] = NoResult
      PROVE  DueTo(x)'
  <2>1. CASE result[x] = NoResult
    BY <1>4, <2>1 DEF DueTo, NoResult, Result
  <2>2. CASE result[x] # NoResult
    <3>1. pc[x] = "done" /\ x # w
      BY <1>4, <2>2 DEF AnswersInv
    <3>2. x \in Lanes
      BY <1>2, <3>1
    <3>3. checkpoints'[x] = checkpoints[x]
      BY <3>1, OthersUntouched DEF Acts
    <3>4. AppendReached(x)' = AppendReached(x)
      BY <3>3 DEF AppendReached, Reached
    <3>5. ConfigOf(x)' = ConfigOf(x)
      BY <3>2, LanesGrow
    <3>6. DueTo(x)
      BY DEF DueInv
    <3>7. (\E y \in Lanes \ {x} : SameKey(y, x)) => \E z \in Lanes' \ {x} : SameKey(z, x)'
      BY <1>3, <3>2
    <3> QED BY <1>4, <3>4, <3>5, <3>6, <3>7 DEF DueTo
  <2> QED BY <2>1, <2>2
<1>5. ASSUME NEW x \in Invocations \ {w} PROVE DueTo(x)'
  <2>1. result'[x] = result[x]
    BY OthersUntouched DEF Acts
  <2> QED BY <1>4, <2>1
<1>6. DueTo(w)'
  <2>1. MovesOn(w) \/ (\E r : Returns(w, r)) \/ Publishes(w)
    BY StepShape DEF Acts
  <2>2. result[w] = NoResult /\ DOMAIN result = Invocations
    BY <2>1 DEF MovesOn, Returns, Publishes, AnswersInv, IInv, TypeOK
  <2>3. CASE result' = result
    BY <1>4, <2>2, <2>3
  <2>4. ASSUME NEW r, Originates(w, r) PROVE DueTo(w)'
    <3>1. result'[w] = r /\ pc[w] # "new"
      BY <2>2, <2>4 DEF Originates
    <3>2. w \in Lanes /\ ConfigOf(w)' = ConfigOf(w)
      BY <1>2, <3>1, LanesGrow
    <3>3. ASSUME r.outcome = "ADMISSION_REJECTED", ~AppendReached(w)'
          PROVE  /\ r.verdict = "LOCK_TIMEOUT" /\ ConfigOf(w).gate = "pessimistic"
                 /\ \E x \in Lanes' \ {w} : SameKey(x, w)'
      <4>1. ~RecordCheckpoints(w, <<"APPEND_ADMISSION_RETURNED">>)
        BY <3>3, JustReached DEF AppendReached, Checkpoints
      <4>2. r.verdict = "LOCK_TIMEOUT" /\ ConfigOf(w).gate = "pessimistic" /\ LockBusy(w)
        BY <2>4, <3>3, <4>1 DEF Originates, RejectedBy
      <4>3. PICK x \in locked \ {w} : SameKey(x, w)
        BY <4>2 DEF LockBusy, SameKey
      <4>4. x \in Lanes
        BY <1>2 DEF LocksInv, AfterPreparation, IInv, TypeOK
      <4> QED BY <1>3, <3>2, <4>2, <4>3, <4>4
    <3> QED BY <2>4, <3>1, <3>2, <3>3 DEF DueTo, Originates
  <2> QED BY <2>3, <2>4, ResultOrigin
<1> QED BY <1>5, <1>6 DEF DueInv

\* What Load builds knows every committed event of its order.
LEMMA LoadedIsUpToDate ==
  ASSUME IInv, NEW w \in Invocations, Load(w), pc'[w] # "done"
  PROVE  UpToDate(w)'
<1> DEFINE c == CommandOf(w)
           o == c.order_id
           S == Stream(o)
           a == Rehydrate(o, InSequenceOrder(S))
           e == CandidateEvent(a, c, w)
<1>1. /\ pc[w] = "load" /\ order_events' = order_events
      /\ \/ \E r : RollbackAndReturn(w, r)
         \/ IsLegal(a, c) /\ candidate' = [candidate EXCEPT ![w] = {e}]
  BY Zenon DEF Load, Raise, load, database
<1>2. ASSUME NEW r, RollbackAndReturn(w, r) PROVE FALSE
  BY <1>2 DEF RollbackAndReturn, IInv, TypeOK
<1>3. IsLegal(a, c) /\ candidate'[w] = {e}
  BY <1>1, <1>2 DEF IInv, TypeOK
<1>4. c \in CommandRecord
  BY <1>1, HeldCall DEF IInv
<1>5. o \in Orders /\ c.amount \in Int /\ c.command_type \in CommandTypes
  BY <1>4, ConstantsAssumption DEF CommandRecord
<1>6. PICK v \in Nat : IsContiguous(S, v) /\ \A f \in S : f \in EventRecord /\ f.order_id = o
  BY <1>5, StreamFacts DEF IInv
<1>7. \A f \in S : f.event_type \in EventTypes
  BY <1>6 DEF EventRecord
<1> HIDE DEF c, o
<1>8. e.sequence = v + 1 /\ e.order_id = o
  <2> HIDE DEF S
  <2> QED BY <1>3, <1>5, <1>6, <1>7, LegalCandidate
<1> HIDE DEF e
<1>9. ASSUME NEW r \in order_events, r.event.order_id = e.order_id
      PROVE  r.event.sequence < e.sequence
  <2>1. r.event \in S
    BY <1>8, <1>9 DEF Stream
  <2>2. r.event.sequence \in 1..v
    BY <1>6, <2>1 DEF IsContiguous
  <2> QED BY <1>8, <2>2
<1> QED BY <1>1, <1>3, <1>9 DEF UpToDate

\* Lanes that lock first, and lanes with an order each, stay so only when they
\* were so.
LEMMA BurstsShrink ==
  ASSUME IInv, AnswersInv, NEW w \in Invocations, Acts(w)
  PROVE  (AllLockFirst' => AllLockFirst) /\ (SeparateOrders' => SeparateOrders)
<1>1. Lanes \subseteq Lanes'
  BY LanesGrow
<1>2. ASSUME AllLockFirst', NEW x \in Lanes PROVE LocksFirst(x)
  <2>1. LocksFirst(x)'
    BY <1>1, <1>2 DEF AllLockFirst
  <2>2. LocksFirst(x)' = LocksFirst(x)
    BY LanesGrow
  <2> QED BY <2>1, <2>2
<1>3. ASSUME SeparateOrders', NEW x \in Lanes, NEW y \in Lanes, x # y
      PROVE  CommandOf(x).order_id # CommandOf(y).order_id
  <2>1. CommandOf(x)' = CommandOf(x) /\ CommandOf(y)' = CommandOf(y)
    BY LanesGrow
  <2>2. CommandOf(x)'.order_id # CommandOf(y)'.order_id
    BY <1>1, <1>3 DEF SeparateOrders
  <2> QED BY <2>1, <2>2
<1> QED BY <1>2, <1>3 DEF AllLockFirst, SeparateOrders

\* Lanes with an order each know of every event of theirs.
LEMMA SeparateIsUpToDate ==
  ASSUME IInv, AuthorsInv, SeparateOrders, NEW w \in Invocations, pc[w] \notin {"new", "done"}
  PROVE  UpToDate(w)
<1> SUFFICES ASSUME NEW e \in candidate[w], NEW r \in order_events,
                    r.event.order_id = e.order_id
             PROVE  FALSE
  BY DEF UpToDate
<1> DEFINE x == r.event.event_id
<1>1. x \in Invocations /\ pc[x] = "done"
  BY DEF IInv, TypeOK, EventRow, EventRecord, StreamsInv
<1>2. r.event \in candidate[x]
  BY DEF AuthorsInv
<1> HIDE DEF x
<1>3. r.event.order_id = CommandOf(x).order_id
  BY <1>1, <1>2 DEF IInv, Coupled
<1>4. e.order_id = CommandOf(w).order_id
  BY DEF IInv, Coupled
<1>5. x \in Lanes /\ w \in Lanes /\ x # w
  BY <1>1 DEF Lanes
<1> QED BY <1>3, <1>4, <1>5 DEF SeparateOrders
\* Every step keeps the lanes from being overtaken.
LEMMA NextFresh ==
  ASSUME IInv, AnswersInv, TraceInv, LocksInv, AuthorsInv, FreshInv,
         NEW w \in Invocations, Acts(w)
  PROVE  FreshInv'
<1>1. (AllLockFirst' => AllLockFirst) /\ (SeparateOrders' => SeparateOrders)
  BY BurstsShrink
<1>2. MovesOn(w) \/ (\E r : Returns(w, r)) \/ Publishes(w)
  BY StepShape DEF Acts
<1>3. ASSUME AllLockFirst', NEW x \in Invocations \ {w}, pc'[x] \in Appending
      PROVE  UpToDate(x)'
  <2>1. pc'[x] = pc[x] /\ candidate'[x] = candidate[x]
    BY OthersUntouched, OthersCall DEF Acts
  <2>2. UpToDate(x)
    BY <1>1, <1>3, <2>1 DEF FreshInv
  <2>3. CASE order_events' = order_events
    BY <2>1, <2>2, <2>3 DEF UpToDate
  <2>4. CASE Publishes(w)
    <3>1. PICK row \in EventRow : /\ order_events' = order_events \cup {row}
                                  /\ row.event = TheCandidate(w)
      BY <2>4, PublishedRows DEF Publishes
    <3>2. /\ pc[w] = "commit" /\ pc[w] \in AfterPreparation /\ w \in Lanes
          /\ pc[x] \in AfterPreparation /\ x \in Lanes
      BY <1>3, <2>1, <2>4 DEF Publishes, AfterPreparation, Appending, Lanes
    <3>3. w \in locked /\ x \in locked
      BY <1>1, <1>3, <3>2 DEF AllLockFirst, LocksInv
    <3>4. CommandOf(w).order_id # CommandOf(x).order_id
      BY <3>3 DEF LocksInv, SameKey
    <3>5. row.event.order_id = CommandOf(w).order_id
      BY <3>1, <3>2, HeldCandidate DEF IInv, Coupled
    <3>6. \A e \in candidate[x] : e.order_id = CommandOf(x).order_id
      BY DEF IInv, Coupled
    <3> QED BY <2>1, <2>2, <3>1, <3>4, <3>5, <3>6 DEF UpToDate
  <2> QED BY <1>2, <2>3, <2>4 DEF MovesOn, Returns, NothingCommitted
<1>4. ASSUME AllLockFirst', pc'[w] \in Appending PROVE UpToDate(w)'
  <2>1. pc'[w] # "done" /\ pc'[w] # "load"
    BY <1>4 DEF Appending, AfterPreparation
  <2>2. order_events' = order_events
    BY <1>2, <2>1 DEF MovesOn, Returns, Publishes, NothingCommitted, RollbackAndReturn, Publish,
                      IInv, TypeOK
  <2>3. CASE Load(w)
    BY <2>1, <2>3, LoadedIsUpToDate
  <2>4. CASE ~Load(w)
    <3>1. pc[w] # "load"
      <4>1. SUFFICES ASSUME pc[w] = "load" PROVE FALSE
        OBVIOUS
      <4>2. CASE Fail(w)
        BY <2>1, <4>2 DEF Fail, Raise, RollbackAndReturn, IInv, TypeOK
      <4> QED BY <2>4, <4>1, <4>2 DEF Acts, Begin, Step, PreliminaryCheck, AuthoritativeCheck,
                 PrepareStream, AppendVersionCheck, InsertEvent, InsertWaits, InsertResumes,
                 RecordIdempotency, Commit, InsertLockTimeout, CommitUnacknowledged
    <3>2. LetsGo(w) \/ GoesOnWith(w) \/ StaysUnprepared(w) \/ Prepares(w)
      BY LockShape
    <3>3. pc[w] \in Appending
      <4>1. CASE LetsGo(w)
        BY <2>1, <4>1 DEF LetsGo
      <4>2. CASE GoesOnWith(w)
        BY <3>1, <4>2 DEF GoesOnWith, Appending
      <4>3. CASE StaysUnprepared(w)
        BY <1>4, <2>1, <4>3 DEF StaysUnprepared, Appending
      <4>4. CASE Prepares(w)
        <5>1. w \in Lanes
          BY <4>4 DEF Prepares, Lanes
        <5>2. ~IsPre(w)
          BY <1>1, <1>4, <5>1 DEF AllLockFirst, LocksFirst
        <5> QED BY <2>1, <4>4, <5>2 DEF Prepares
      <4> QED BY <3>2, <4>1, <4>2, <4>3, <4>4
    <3>4. candidate' = candidate
      BY <3>1, OwnCandidate DEF Acts
    <3>5. UpToDate(w)
      BY <1>1, <1>4, <3>3 DEF FreshInv
    <3> QED BY <2>2, <3>4, <3>5 DEF UpToDate
  <2> QED BY <2>3, <2>4
<1>5. ASSUME AllLockFirst' \/ SeparateOrders', NEW x \in Invocations
      PROVE  result'[x].verdict # "STALE_WRITE"
  <2>1. result[x].verdict # "STALE_WRITE"
    BY <1>1, <1>5 DEF FreshInv
  <2>2. CASE x # w
    <3>1. result'[x] = result[x]
      BY <2>2, OthersUntouched DEF Acts
    <3> QED BY <2>1, <3>1
  <2>3. CASE x = w /\ result' = result
    BY <2>1, <2>3
  <2>4. ASSUME x = w, NEW r, Originates(w, r) PROVE result'[x].verdict # "STALE_WRITE"
    <3>1. result'[w] = r
      BY <2>4 DEF Originates, IInv, TypeOK
    <3>2. SUFFICES ASSUME r.verdict = "STALE_WRITE" PROVE FALSE
      BY <2>4, <3>1
    <3>3. pc[w] \in {"version", "insert", "waiting"} /\ ~UpToDate(w)
      BY <2>4, <3>2 DEF Originates, RejectedBy
    <3>4. CASE AllLockFirst'
      BY <1>1, <3>3, <3>4 DEF FreshInv, Appending, AfterPreparation
    <3>5. CASE SeparateOrders'
      BY <1>1, <3>3, <3>5, SeparateIsUpToDate
    <3> QED BY <1>5, <3>4, <3>5
  <2> QED BY <2>2, <2>3, <2>4, ResultOrigin
<1> QED BY <1>3, <1>4, <1>5 DEF FreshInv

\* The invariant of the lanes holds in every behaviour of the write side.
LEMMA BurstInvariance == Spec => []BurstInv
<1>1. Init => BurstInv
  <2> SUFFICES ASSUME Init PROVE BurstInv
    OBVIOUS
  <2>1. \A w \in Invocations : pc[w] = "new" /\ candidate[w] = {} /\ result[w] = NoResult
    BY DEF Init
  <2>2. Lanes = {}
    BY <2>1 DEF Lanes
  <2>3. IsFiniteSet(Lanes)
    BY <2>2, FS_EmptySet
  <2>4. LocksInv
    BY <2>1 DEF Init, LocksInv, AfterPreparation
  <2>5. AuthorsInv
    BY DEF Init, AuthorsInv
  <2>6. NoResult.outcome = "none" /\ NoResult.verdict = "none"
    BY DEF NoResult, Result
  <2>7. DueInv
    BY <2>1, <2>6 DEF DueInv, DueTo
  <2>8. FreshInv
    BY <2>1, <2>6 DEF FreshInv, Appending, AfterPreparation
  <2> QED BY <2>3, <2>4, <2>5, <2>7, <2>8 DEF BurstInv
<1>2. IInv /\ AnswersInv /\ TraceInv /\ BurstInv /\ [Next]_vars => BurstInv'
  <2> SUFFICES ASSUME IInv, AnswersInv, TraceInv, BurstInv, [Next]_vars PROVE BurstInv'
    OBVIOUS
  <2>1. CASE UNCHANGED vars
    <3>1. /\ order_events' = order_events /\ locked' = locked /\ pc' = pc /\ command' = command
          /\ config' = config /\ candidate' = candidate /\ checkpoints' = checkpoints
          /\ result' = result
      BY <2>1 DEF vars, database, transaction, call
    <3>2. Lanes' = Lanes
      BY <3>1 DEF Lanes
    <3>3. ASSUME NEW x
          PROVE  /\ CommandOf(x)' = CommandOf(x) /\ ConfigOf(x)' = ConfigOf(x)
                 /\ IsPre(x)' = IsPre(x) /\ LocksFirst(x)' = LocksFirst(x)
                 /\ AppendReached(x)' = AppendReached(x) /\ UpToDate(x)' = UpToDate(x)
      BY <3>1 DEF CommandOf, ConfigOf, IsPre, LocksFirst, AppendReached, Reached, UpToDate
    <3>4. \A x, y : SameKey(x, y)' = SameKey(x, y)
      BY <3>3 DEF SameKey
    <3>5. LocksInv'
      BY <3>1, <3>3, <3>4 DEF BurstInv, LocksInv
    <3>6. AuthorsInv'
      BY <3>1 DEF BurstInv, AuthorsInv
    <3>7. DueInv'
      BY <3>1, <3>2, <3>3, <3>4 DEF BurstInv, DueInv, DueTo
    <3>8. AllLockFirst' = AllLockFirst /\ SeparateOrders' = SeparateOrders
      BY <3>2, <3>3 DEF AllLockFirst, SeparateOrders
    <3>9. FreshInv'
      BY <3>1, <3>3, <3>8 DEF BurstInv, FreshInv
    <3> QED BY <3>2, <3>5, <3>6, <3>7, <3>9 DEF BurstInv
  <2>2. CASE Next
    <3>1. PICK w \in Invocations : Acts(w)
      BY <2>2 DEF Next, Acts
    <3> QED BY <3>1, NextLanesFinite, NextLocks, NextAuthors, NextDue, NextFresh DEF BurstInv
  <2> QED BY <2>1, <2>2
<1> QED BY <1>1, <1>2, Invariance, Answers, Traces, PTL DEF Spec

----------------------------------------------------------------------------
(* What the lanes of a burst may have been told.                           *)

\* What holds of the write side in every state, with what its lanes add.
BurstFacts ==
  IInv /\ AnswersInv /\ TraceInv /\ ToldInv /\ KeptInv /\ PayloadInv /\ BurstInv

\* A lane of either composition.
OccLane(w) ==
  /\ CompositionOf(w) = "PRE_OCC" /\ IsPre(w) /\ ConfigOf(w).placement = "PRE_TRANSACTION"
  /\ ConfigOf(w).gate = "optimistic" /\ ConfigOf(w).validator = "FullProof"
LockLane(w) ==
  /\ CompositionOf(w) = "IN_PESSIMISTIC" /\ ~IsPre(w) /\ ConfigOf(w).placement = "IN_TRANSACTION"
  /\ ConfigOf(w).gate = "pessimistic" /\ ConfigOf(w).validator = "FullProof"

\* The lanes of a burst have one composition.
LEMMA CompositionIs ==
  ASSUME Burst
  PROVE  (\A w \in Lanes : OccLane(w)) \/ (\A w \in Lanes : LockLane(w))
<1>1. PICK name \in DOMAIN Compositions : \A w \in Lanes : ConfigOf(w) = Compositions[name]
  BY DEF Burst
<1>2. /\ DOMAIN Compositions = {"PRE_OCC", "IN_PESSIMISTIC"}
      /\ Compositions["PRE_OCC"].placement = "PRE_TRANSACTION"
      /\ Compositions["PRE_OCC"].gate = "optimistic"
      /\ Compositions["PRE_OCC"].validator = "FullProof"
      /\ Compositions["IN_PESSIMISTIC"].placement = "IN_TRANSACTION"
      /\ Compositions["IN_PESSIMISTIC"].gate = "pessimistic"
      /\ Compositions["IN_PESSIMISTIC"].validator = "FullProof"
  BY DEF Compositions
<1> HIDE DEF Compositions
<1>3. \A n, m \in DOMAIN Compositions : Compositions[n] = Compositions[m] => n = m
  BY <1>2
<1>4. \A w \in Lanes : CompositionOf(w) = name
  BY <1>1, <1>3 DEF CompositionOf
<1>5. CASE name = "PRE_OCC"
  BY <1>1, <1>2, <1>4, <1>5 DEF OccLane, IsPre
<1>6. CASE name = "IN_PESSIMISTIC"
  BY <1>1, <1>2, <1>4, <1>6 DEF LockLane, IsPre
<1> QED BY <1>2, <1>5, <1>6

\* A committed event is that of a lane, and says what its lane was called with.
LEMMA AuthorIsLane ==
  ASSUME BurstFacts, NEW s \in order_events
  PROVE  /\ s.event.event_id \in Lanes /\ s.event \in candidate[s.event.event_id]
         /\ s.event.request_id = CommandOf(s.event.event_id).request_id
         /\ s.event.order_id = CommandOf(s.event.event_id).order_id
<1>1. s.event.event_id \in Invocations
  BY DEF BurstFacts, IInv, TypeOK, EventRow, EventRecord
<1>2. s.event \in candidate[s.event.event_id]
  BY DEF BurstFacts, BurstInv, AuthorsInv
<1>3. Coupled(s.event.event_id)
  BY <1>1 DEF BurstFacts, IInv
<1> QED BY <1>1, <1>2, <1>3 DEF Coupled, Lanes

\* In a burst, the event of a request is that of its own lane.
LEMMA OwnRequest ==
  ASSUME BurstFacts, Burst, NEW w \in Lanes, NEW s \in order_events,
         s.event.request_id = CommandOf(w).request_id
  PROVE  s.event.event_id = w
BY AuthorIsLane DEF Burst

\* The ways in which a lane returns.
AcceptedLane(w) == result[w].outcome = "ACCEPTED" /\ result[w].verdict = "none"
StaleLane(w) ==
  /\ result[w].outcome = "ADMISSION_REJECTED" /\ result[w].verdict = "STALE_WRITE"
  /\ AppendReached(w) /\ OccLane(w) /\ ~SeparateOrders
TimedOutLane(w) ==
  /\ result[w].outcome = "ADMISSION_REJECTED" /\ result[w].verdict = "LOCK_TIMEOUT"
  /\ AppendReached(w)
LockedOutLane(w) ==
  /\ result[w].outcome = "ADMISSION_REJECTED" /\ result[w].verdict = "LOCK_TIMEOUT"
  /\ ~AppendReached(w) /\ LockLane(w) /\ \E x \in Lanes \ {w} : SameKey(x, w)

\* Lanes find no record of their request, their candidates pass validation, and
\* only lanes that do not lock first are overtaken.
LEMMA LaneKinds ==
  ASSUME BurstFacts, Burst, NEW w \in Lanes, ReturnedNormally(w)
  PROVE  AcceptedLane(w) \/ StaleLane(w) \/ TimedOutLane(w) \/ LockedOutLane(w)
<1>1. w \in Invocations
  BY DEF Lanes
<1>2. result[w].outcome \in {"ACCEPTED", "REPLAY", "CONFLICT", "VALIDATION_BLOCKED",
                             "ADMISSION_REJECTED"}
      /\ result[w].verdict \in {"none", "LOCK_TIMEOUT", "STALE_WRITE"}
  BY <1>1 DEF BurstFacts, IInv, TypeOK, ResultRecord, Outcomes, ReturnedNormally
<1>3. DueTo(w)
  BY <1>1 DEF BurstFacts, BurstInv, DueInv
<1>4. OccLane(w) \/ LockLane(w)
  BY CompositionIs
<1>5. result[w].outcome \notin {"REPLAY", "CONFLICT"}
  <2> SUFFICES ASSUME result[w].outcome \in {"REPLAY", "CONFLICT"} PROVE FALSE
    OBVIOUS
  <2>1. PICK s \in order_events :
          s.event.event_id # w /\ s.event.request_id = CommandOf(w).request_id
    BY <1>1, FoundRecord DEF BurstFacts
  <2> QED BY <2>1, OwnRequest
<1>6. result[w].outcome # "VALIDATION_BLOCKED"
  BY <1>3, <1>4 DEF DueTo, OccLane, LockLane
<1>7. CASE result[w].outcome = "ACCEPTED"
  BY <1>3, <1>7 DEF DueTo, AcceptedLane
<1>8. CASE result[w].outcome = "ADMISSION_REJECTED" /\ ~AppendReached(w)
  BY <1>3, <1>4, <1>8 DEF DueTo, LockedOutLane, OccLane
<1>9. CASE result[w].outcome = "ADMISSION_REJECTED" /\ AppendReached(w)
  <2>1. result[w].verdict \in {"LOCK_TIMEOUT", "STALE_WRITE"}
    BY <1>1, <1>2, <1>9 DEF BurstFacts, ToldInv, Told
  <2>2. CASE result[w].verdict = "STALE_WRITE"
    <3>1. ~AllLockFirst /\ ~SeparateOrders
      BY <1>1, <2>2 DEF BurstFacts, BurstInv, FreshInv
    <3>2. OccLane(w)
      BY <3>1, CompositionIs DEF AllLockFirst, LocksFirst, LockLane
    <3> QED BY <1>9, <2>2, <3>1, <3>2 DEF StaleLane
  <2>3. CASE result[w].verdict = "LOCK_TIMEOUT"
    BY <1>9, <2>3 DEF TimedOutLane
  <2> QED BY <2>1, <2>2, <2>3
<1> QED BY <1>2, <1>5, <1>6, <1>7, <1>8, <1>9

\* What the scenario says of the orders of the lanes.
LEMMA ScenarioIs ==
  ASSUME IsFiniteSet(Lanes), Burst, NEW w \in Lanes
  PROVE  \/ Scenario = "A_UNCONTENDED" /\ Lanes = {w}
         \/ /\ Scenario = "B_SAME_ORDER"
            /\ \A x, y \in Lanes : CommandOf(x).order_id = CommandOf(y).order_id
         \/ Scenario = "C_DIFFERENT_ORDER" /\ SeparateOrders
<1> DEFINE orders == {CommandOf(x).order_id : x \in Lanes}
           n == Cardinality(Lanes)
           f == [x \in Lanes |-> CommandOf(x).order_id]
<1>1. n \in Nat /\ (n = 0 <=> Lanes = {})
  BY FS_CardinalityType, FS_EmptySet
<1>2. Cardinality(orders) \in {1, n}
  BY DEF Burst
<1>3. f \in Surjection(Lanes, orders)
  BY DEF Surjection
<1>4. /\ IsFiniteSet(orders)
      /\ Cardinality(orders) = n <=> f \in Injection(Lanes, orders)
  BY <1>3, FS_Surjection
<1>5. /\ Cardinality(orders) = 1 <=> \E o : orders = {o}
      /\ n = 1 <=> \E x : Lanes = {x}
  BY <1>4, FS_Singleton
<1>6. CASE n = 1
  BY <1>5, <1>6 DEF Scenario
<1>7. CASE n # 1 /\ Cardinality(orders) = 1
  <2>1. n > 1
    BY <1>1, <1>7
  <2>2. Scenario = "B_SAME_ORDER"
    BY <1>7, <2>1 DEF Scenario
  <2> QED BY <1>5, <1>7, <2>2
<1>8. CASE n # 1 /\ Cardinality(orders) # 1
  <2>1. Scenario = "C_DIFFERENT_ORDER"
    BY <1>8 DEF Scenario
  <2>2. f \in Injection(Lanes, orders)
    BY <1>2, <1>4, <1>8
  <2>3. \A x, y \in Lanes : f[x] = f[y] => x = y
    BY <2>2 DEF Injection, IsInjective
  <2> QED BY <2>1, <2>3 DEF SeparateOrders
<1> QED BY <1>6, <1>7, <1>8

----------------------------------------------------------------------------
(* The record of a lane.                                                   *)

\* The row of each cohort.
CohortRow(cohort) ==
  CASE cohort = "ACCEPTED" -> <<"ACCEPTED", {}, {"ADMITTED"}, {"ADMITTED"}>>
    [] cohort = "APPEND_STALE_WRITE" ->
         <<"ADMISSION_REJECTED", {"append"}, {"ADMITTED"}, {"STALE_WRITE"}>>
    [] cohort = "PREPARE_LOCK_TIMEOUT" ->
         <<"ADMISSION_REJECTED", {"prepare_stream"}, {"LOCK_TIMEOUT"}, {}>>

\* The four combinations that lanes meet, three of which are retained.
LEMMA CohortsAre ==
  /\ classify_cohort("ACCEPTED", {}, {"ADMITTED"}, {"ADMITTED"}) = {"ACCEPTED"}
  /\ classify_cohort("ADMISSION_REJECTED", {"append"}, {"ADMITTED"}, {"STALE_WRITE"})
       = {"APPEND_STALE_WRITE"}
  /\ classify_cohort("ADMISSION_REJECTED", {"append"}, {"ADMITTED"}, {"LOCK_TIMEOUT"}) = {}
  /\ classify_cohort("ADMISSION_REJECTED", {"prepare_stream"}, {"LOCK_TIMEOUT"}, {})
       = {"PREPARE_LOCK_TIMEOUT"}
<1>1. \A o, s, v, a : classify_cohort(o, s, v, a) =
        {c \in {"ACCEPTED", "APPEND_STALE_WRITE", "PREPARE_LOCK_TIMEOUT"} :
           <<o, s, v, a>> = CohortRow(c)}
  BY Zenon DEF classify_cohort, CohortRow
<1>2. CohortRow("ACCEPTED") = <<"ACCEPTED", {}, {"ADMITTED"}, {"ADMITTED"}>>
  BY DEF CohortRow
<1>3. CohortRow("APPEND_STALE_WRITE") =
        <<"ADMISSION_REJECTED", {"append"}, {"ADMITTED"}, {"STALE_WRITE"}>>
  BY DEF CohortRow
<1>4. CohortRow("PREPARE_LOCK_TIMEOUT") =
        <<"ADMISSION_REJECTED", {"prepare_stream"}, {"LOCK_TIMEOUT"}, {}>>
  BY DEF CohortRow
<1>5. ASSUME NEW o, NEW s, NEW v, NEW a, NEW p, NEW q, NEW b, NEW c,
             <<o, s, v, a>> = <<p, q, b, c>>
      PROVE  o = p /\ s = q /\ v = b /\ a = c
  BY <1>5
<1>6. /\ "append" \in {"append"} /\ "append" \notin {"prepare_stream"}
      /\ "STALE_WRITE" \in {"STALE_WRITE"} /\ "STALE_WRITE" \notin {"LOCK_TIMEOUT"}
  OBVIOUS
<1> DEFINE T1 == <<"ACCEPTED", {}, {"ADMITTED"}, {"ADMITTED"}>>
           T2 == <<"ADMISSION_REJECTED", {"append"}, {"ADMITTED"}, {"STALE_WRITE"}>>
           T3 == <<"ADMISSION_REJECTED", {"append"}, {"ADMITTED"}, {"LOCK_TIMEOUT"}>>
           T4 == <<"ADMISSION_REJECTED", {"prepare_stream"}, {"LOCK_TIMEOUT"}, {}>>
<1>7. T1 # T2 /\ T1 # T3 /\ T1 # T4
  BY <1>5
<1>8. T2 # T3
  BY <1>5, <1>6
<1>9. T2 # T4 /\ T3 # T4
  BY <1>5, <1>6
<1> HIDE DEF T1, T2, T3, T4
<1>10. \A c \in {"ACCEPTED", "APPEND_STALE_WRITE", "PREPARE_LOCK_TIMEOUT"} :
         /\ T1 = CohortRow(c) <=> c = "ACCEPTED"
         /\ T2 = CohortRow(c) <=> c = "APPEND_STALE_WRITE"
         /\ T3 # CohortRow(c)
         /\ T4 = CohortRow(c) <=> c = "PREPARE_LOCK_TIMEOUT"
  <2>1. /\ CohortRow("ACCEPTED") = T1 /\ CohortRow("APPEND_STALE_WRITE") = T2
        /\ CohortRow("PREPARE_LOCK_TIMEOUT") = T4
    BY <1>2, <1>3, <1>4 DEF T1, T2, T4
  <2> QED BY <1>7, <1>8, <1>9, <2>1
<1>11. classify_cohort("ACCEPTED", {}, {"ADMITTED"}, {"ADMITTED"}) = {"ACCEPTED"}
  BY <1>1, <1>10 DEF T1
<1>12. classify_cohort("ADMISSION_REJECTED", {"append"}, {"ADMITTED"}, {"STALE_WRITE"})
         = {"APPEND_STALE_WRITE"}
  BY <1>1, <1>10 DEF T2
<1>13. classify_cohort("ADMISSION_REJECTED", {"append"}, {"ADMITTED"}, {"LOCK_TIMEOUT"}) = {}
  BY <1>1, <1>10 DEF T3
<1>14. classify_cohort("ADMISSION_REJECTED", {"prepare_stream"}, {"LOCK_TIMEOUT"}, {})
         = {"PREPARE_LOCK_TIMEOUT"}
  BY <1>1, <1>10 DEF T4
<1> QED BY <1>11, <1>12, <1>13, <1>14

\* Each way of returning has its cohort.
LEMMA RecordIs ==
  ASSUME BurstFacts, NEW w \in Lanes, ReturnedNormally(w), NEW lost
  PROVE  LET record == InvocationRecord(w, lost)
         IN  /\ record.composition = CompositionOf(w)
             /\ record.measurement_availability =
                  IF "producer_write_invocation" \in lost THEN "UNAVAILABLE" ELSE "AVAILABLE"
             /\ record.phases =
                  IF "producer_write_invocation" \in lost THEN {} ELSE {Measurement(w, lost)}
             /\ AcceptedLane(w) => record.cohort = {"ACCEPTED"}
             /\ StaleLane(w) => record.cohort = {"APPEND_STALE_WRITE"}
             /\ TimedOutLane(w) => record.cohort = {}
             /\ LockedOutLane(w) => record.cohort = {"PREPARE_LOCK_TIMEOUT"}
<1> DEFINE record == InvocationRecord(w, lost)
           snapshot == {m \in {Measurement(w, lost)} : Constructs(m)}
<1>1. w \in Invocations
  BY DEF Lanes
<1>2. snapshot = IF "producer_write_invocation" \in lost THEN {} ELSE {Measurement(w, lost)}
  BY <1>1, ConstructsIs DEF BurstFacts
<1>3. Delivery(w, lost) = MeasurementDelivery(snapshot)
  BY DEF Delivery
<1> HIDE DEF snapshot
<1>4. /\ Delivery(w, lost).availability = IF snapshot = {} THEN "UNAVAILABLE" ELSE "AVAILABLE"
      /\ Delivery(w, lost).measurement = snapshot
  BY <1>3 DEF MeasurementDelivery
<1>5. PICK r : r = PostgresWriteSideResult(w)
  OBVIOUS
<1>6. /\ record.composition = CompositionOf(w)
      /\ record.measurement_availability = Delivery(w, lost).availability
      /\ record.phases = Delivery(w, lost).measurement
      /\ record.cohort = classify_cohort(r.outcome, RejectionStage(r),
                           VerdictOf(r.stream_admission_result), VerdictOf(r.admission_result))
  BY <1>5 DEF InvocationRecord
<1> HIDE DEF record
<1>7. PICK n \in 1..8 : ReachedBy(w, n) /\ ReturnedAt(w, n)
  BY <1>1, ReturnedTrace DEF BurstFacts
<1>8. result[w].outcome \in {"ACCEPTED", "ADMISSION_REJECTED"} =>
        Reached(w, "CONCURRENCY_PREPARATION_RETURNED")
  BY <1>7 DEF ReachedBy, ReturnedAt
<1>9. result[w].outcome = "ACCEPTED" => AppendReached(w)
  BY <1>7 DEF ReachedBy, ReturnedAt, AppendReached
<1>10. \A v, o : VerdictOf(StreamPart(v, o)) = {v}
  BY DEF VerdictOf, StreamPart
<1>11. r.outcome = result[w].outcome
  BY <1>5, TracedParts
<1>12. AcceptedLane(w) => record.cohort = {"ACCEPTED"}
  <2> SUFFICES ASSUME AcceptedLane(w) PROVE record.cohort = {"ACCEPTED"}
    OBVIOUS
  <2>1. PICK p : p.verdict = "ADMITTED" /\ r.admission_result = {p}
    BY <1>5, <1>9, TracedParts DEF AcceptedLane
  <2>2. VerdictOf(r.stream_admission_result) = {"ADMITTED"}
    <3>1. r.stream_admission_result = StreamPart("ADMITTED", CommandOf(w).order_id)
      BY <1>5, <1>8, TracedParts DEF AcceptedLane
    <3> QED BY <1>10, <3>1
  <2>3. VerdictOf(r.admission_result) = {"ADMITTED"}
    BY <2>1 DEF VerdictOf
  <2>4. r.outcome = "ACCEPTED" /\ RejectionStage(r) = {}
    BY <1>11 DEF AcceptedLane, RejectionStage
  <2> QED BY <1>6, <2>2, <2>3, <2>4, CohortsAre
<1>13. ASSUME result[w].outcome = "ADMISSION_REJECTED", AppendReached(w)
       PROVE  /\ r.outcome = "ADMISSION_REJECTED" /\ RejectionStage(r) = {"append"}
              /\ VerdictOf(r.stream_admission_result) = {"ADMITTED"}
              /\ VerdictOf(r.admission_result) = {result[w].verdict}
  <2>1. PICK p : p.verdict = result[w].verdict /\ r.admission_result = {p}
    BY <1>5, <1>13, TracedParts
  <2>2. VerdictOf(r.stream_admission_result) = {"ADMITTED"}
    BY <1>5, <1>8, <1>10, <1>13, TracedParts
  <2>3. VerdictOf(r.admission_result) = {result[w].verdict}
    BY <2>1 DEF VerdictOf
  <2>4. r.outcome = "ADMISSION_REJECTED" /\ r.admission_result # {}
    BY <1>11, <1>13, <2>1
  <2> QED BY <2>2, <2>3, <2>4 DEF RejectionStage
<1>14. StaleLane(w) => record.cohort = {"APPEND_STALE_WRITE"}
  BY <1>6, <1>13, CohortsAre DEF StaleLane
<1>15. TimedOutLane(w) => record.cohort = {}
  BY <1>6, <1>13, CohortsAre DEF TimedOutLane
<1>16. LockedOutLane(w) => record.cohort = {"PREPARE_LOCK_TIMEOUT"}
  <2> SUFFICES ASSUME LockedOutLane(w) PROVE record.cohort = {"PREPARE_LOCK_TIMEOUT"}
    OBVIOUS
  <2>1. r.admission_result = {}
    BY <1>5, TracedParts DEF LockedOutLane
  <2>2. r.stream_admission_result = StreamPart("LOCK_TIMEOUT", CommandOf(w).order_id)
    BY <1>5, <1>8, TracedParts DEF LockedOutLane
  <2>3. VerdictOf(r.stream_admission_result) = {"LOCK_TIMEOUT"} /\ r.stream_admission_result # {}
    BY <1>10, <2>2 DEF StreamPart
  <2>4. VerdictOf(r.admission_result) = {}
    BY <2>1 DEF VerdictOf
  <2>5. r.outcome = "ADMISSION_REJECTED" /\ RejectionStage(r) = {"prepare_stream"}
    BY <1>11, <2>1, <2>3 DEF LockedOutLane, RejectionStage
  <2> QED BY <1>6, <2>3, <2>4, <2>5, CohortsAre
<1> QED BY <1>2, <1>4, <1>6, <1>12, <1>14, <1>15, <1>16 DEF record

\* A measurement without a lost reading is the matrix of what does not belong
\* to the composition and of what was not reached.
LEMMA MatrixIs ==
  ASSUME NEW w, NEW na, NEW nr,
         \A phase \in Phases :
           /\ phase \in na => ~Applicable(w, phase) /\ phase \notin nr
           /\ phase \notin na /\ phase \in nr => Applicable(w, phase) /\ ~Entered(w, phase)
           /\ phase \notin na /\ phase \notin nr => Entered(w, phase)
  PROVE  Measurement(w, {}) = Matrix(na, nr)
<1>1. ASSUME NEW phase \in Phases
      PROVE  Measurement(w, {})[phase] = Matrix(na, nr)[phase]
  <2>1. Measurement(w, {})[phase] = PhaseMeasurement(w, phase, {})
    BY DEF Measurement
  <2>2. Matrix(na, nr)[phase] = CASE phase \in na -> "NOT_APPLICABLE"
                                  [] phase \in nr -> "NOT_REACHED"
                                  [] OTHER -> "MEASURED"
    BY DEF Matrix
  <2>3. Entered(w, phase) => Applicable(w, phase)
    BY DEF Applicable
  <2> HIDE DEF Entered, Applicable
  <2>4. CASE phase \in na
    <3>1. ~Applicable(w, phase) /\ ~Entered(w, phase)
      BY <2>3, <2>4
    <3>2. PhaseMeasurement(w, phase, {}) = "NOT_APPLICABLE"
      BY <3>1 DEF PhaseMeasurement
    <3>3. Matrix(na, nr)[phase] = "NOT_APPLICABLE"
      BY <2>2, <2>4
    <3> QED BY <2>1, <3>2, <3>3
  <2>5. CASE phase \notin na /\ phase \in nr
    <3>1. Applicable(w, phase) /\ ~Entered(w, phase)
      BY <2>5
    <3>2. PhaseMeasurement(w, phase, {}) = "NOT_REACHED"
      BY <3>1 DEF PhaseMeasurement
    <3>3. Matrix(na, nr)[phase] = "NOT_REACHED"
      BY <2>2, <2>5
    <3> QED BY <2>1, <3>2, <3>3
  <2>6. CASE phase \notin na /\ phase \notin nr
    <3>1. Entered(w, phase)
      BY <2>6
    <3>2. PhaseMeasurement(w, phase, {}) = "MEASURED"
      BY <2>3, <3>1 DEF PhaseMeasurement
    <3>3. Matrix(na, nr)[phase] = "MEASURED"
      BY <2>2, <2>6
    <3> QED BY <2>1, <3>2, <3>3
  <2> QED BY <2>4, <2>5, <2>6
<1> QED
  <2>1. Measurement(w, {}) = [phase \in Phases |-> Measurement(w, {})[phase]]
    BY Zenon DEF Measurement
  <2>2. Matrix(na, nr) = [phase \in Phases |-> Matrix(na, nr)[phase]]
    BY DEF Matrix
  <2> HIDE DEF Measurement, Matrix
  <2> QED BY <1>1, <2>1, <2>2, Zenon

\* The phases that a lane's composition does not have.
LEMMA LaneApplicable ==
  ASSUME NEW w, NEW n \in 1..8, ReachedBy(w, n), OccLane(w) \/ LockLane(w), NEW phase \in Phases
  PROVE  /\ OccLane(w) => (~Applicable(w, phase) <=> phase = TryLock)
         /\ LockLane(w) => (~Applicable(w, phase) <=> phase \in PreliminaryPhases)
<1>1. TryLock \notin PreliminaryPhases
  BY DEF PreliminaryPhases, TryLock
<1>2. CASE phase \in PreliminaryPhases
  <2>1. InitialApplicability(ConfigOf(w).placement, phase) <=> OccLane(w)
    BY <1>1, <1>2 DEF InitialApplicability, OccLane, LockLane
  <2>2. Entered(w, phase) <=> IsPre(w)
    BY <1>2, PhasesEntered DEF PreliminaryPhases, ReachedBy, OccLane, LockLane
  <2> HIDE DEF Entered, InitialApplicability
  <2> QED BY <1>1, <1>2, <2>1, <2>2 DEF Applicable, OccLane, LockLane
<1>3. CASE phase = TryLock
  <2>1. InitialApplicability(ConfigOf(w).placement, phase) <=> LockLane(w)
    BY <1>1, <1>3 DEF InitialApplicability, OccLane, LockLane
  <2>2. Entered(w, phase) <=> /\ ConfigOf(w).gate = "pessimistic"
                              /\ Reached(w, "CONCURRENCY_PREPARATION_RETURNED")
    BY <1>3, PhasesEntered
  <2> HIDE DEF Entered, InitialApplicability
  <2> QED BY <1>1, <1>3, <2>1, <2>2 DEF Applicable, OccLane, LockLane
<1>4. CASE phase \notin PreliminaryPhases /\ phase # TryLock
  <2>1. InitialApplicability(ConfigOf(w).placement, phase)
    BY <1>4 DEF InitialApplicability
  <2> QED BY <1>4, <2>1 DEF Applicable
<1> QED BY <1>2, <1>3, <1>4

\* What a lane has gone through is what its cohort is expected to have gone
\* through.
LEMMA MatricesFit ==
  ASSUME BurstFacts, NEW w \in Lanes, ReturnedNormally(w)
  PROVE  /\ OccLane(w) /\ AcceptedLane(w) =>
              Measurement(w, {}) = Matrix({TryLock}, {"rollback_finalization"})
         /\ StaleLane(w) =>
              Measurement(w, {})
                = Matrix({TryLock}, {"idempotency_record_call", "commit_finalization"})
         /\ LockLane(w) /\ AcceptedLane(w) =>
              Measurement(w, {}) = Matrix(PreliminaryPhases, {"rollback_finalization"})
         /\ LockedOutLane(w) =>
              Measurement(w, {}) = Matrix(PreliminaryPhases,
                {"validation_runtime_call", "accepted_history_load", "append_admission_call",
                 "idempotency_record_call", "commit_finalization"})
<1>1. w \in Invocations
  BY DEF Lanes
<1>2. PICK n \in 1..8 : ReachedBy(w, n) /\ ReturnedAt(w, n)
  BY <1>1, ReturnedTrace DEF BurstFacts
<1>3. /\ Entered(w, TryLock) => Applicable(w, TryLock)
      /\ \A phase \in Phases : Entered(w, phase) => Applicable(w, phase)
  BY DEF Applicable
<1>4. /\ OccLane(w) => \A phase \in Phases : ~Applicable(w, phase) <=> phase = TryLock
      /\ LockLane(w) => \A phase \in Phases : ~Applicable(w, phase) <=> phase \in PreliminaryPhases
  BY <1>2, LaneApplicable
<1> HIDE DEF Applicable, Entered
<1>5. ASSUME OccLane(w), AcceptedLane(w)
      PROVE  Measurement(w, {}) = Matrix({TryLock}, {"rollback_finalization"})
  <2>1. n = 8 /\ IsPre(w)
    BY <1>2, <1>5 DEF ReturnedAt, OccLane, AcceptedLane
  <2>2. \A phase \in Phases \ {TryLock} : Entered(w, phase) <=> phase # "rollback_finalization"
    BY <1>2, <1>5, <2>1, PhasesEntered, PhaseNames DEF ReachedBy, AcceptedLane
  <2>3. TryLock # "rollback_finalization"
    BY DEF TryLock
  <2> QED BY <1>4, <1>5, <2>2, <2>3, MatrixIs
<1>6. ASSUME StaleLane(w)
      PROVE  Measurement(w, {})
               = Matrix({TryLock}, {"idempotency_record_call", "commit_finalization"})
  <2>1. n = 7 /\ IsPre(w) /\ OccLane(w) /\ result[w].outcome = "ADMISSION_REJECTED"
    BY <1>2, <1>6 DEF ReturnedAt, ReachedBy, OccLane, StaleLane, AppendReached
  <2>2. \A phase \in Phases \ {TryLock} :
          Entered(w, phase) <=> phase \notin {"idempotency_record_call", "commit_finalization"}
    BY <1>2, <2>1, PhasesEntered, PhaseNames DEF ReachedBy
  <2>3. TryLock \notin {"idempotency_record_call", "commit_finalization"}
    BY DEF TryLock
  <2> QED BY <1>4, <2>1, <2>2, <2>3, MatrixIs
<1>7. ASSUME LockLane(w), AcceptedLane(w)
      PROVE  Measurement(w, {}) = Matrix(PreliminaryPhases, {"rollback_finalization"})
  <2>1. n = 7 /\ ~IsPre(w) /\ ConfigOf(w).gate = "pessimistic"
    BY <1>2, <1>7 DEF ReturnedAt, LockLane, AcceptedLane
  <2>2. \A phase \in Phases \ PreliminaryPhases :
          Entered(w, phase) <=> phase # "rollback_finalization"
    BY <1>2, <1>7, <2>1, PhasesEntered, PhaseNames DEF ReachedBy, AcceptedLane, PreliminaryPhases,
       TryLock
  <2>3. "rollback_finalization" \notin PreliminaryPhases
    BY DEF PreliminaryPhases
  <2> QED BY <1>4, <1>7, <2>2, <2>3, MatrixIs
<1>8. ASSUME LockedOutLane(w)
      PROVE  Measurement(w, {}) = Matrix(PreliminaryPhases,
               {"validation_runtime_call", "accepted_history_load", "append_admission_call",
                "idempotency_record_call", "commit_finalization"})
  <2> DEFINE nr == {"validation_runtime_call", "accepted_history_load", "append_admission_call",
                    "idempotency_record_call", "commit_finalization"}
  <2>1. /\ n = 3 /\ ~IsPre(w) /\ ConfigOf(w).gate = "pessimistic" /\ LockLane(w)
        /\ result[w].outcome = "ADMISSION_REJECTED"
    BY <1>2, <1>8 DEF ReturnedAt, ReachedBy, LockLane, LockedOutLane, AppendReached
  <2>2. \A phase \in Phases \ PreliminaryPhases : Entered(w, phase) <=> phase \notin nr
    BY <1>2, <2>1, PhasesEntered, PhaseNames DEF ReachedBy, PreliminaryPhases, TryLock
  <2>3. \A phase \in PreliminaryPhases : phase \notin nr
    BY DEF PreliminaryPhases
  <2> HIDE DEF nr
  <2>4. Measurement(w, {}) = Matrix(PreliminaryPhases, nr)
    BY <1>4, <2>1, <2>2, <2>3, MatrixIs
  <2> QED BY <2>4 DEF nr
<1> QED BY <1>5, <1>6, <1>7, <1>8

----------------------------------------------------------------------------
(* What the two experiments object to.                                     *)

\* Both experiments retain the cohort c of this composition: na does not belong to
\* it, nr is not reached, and the phases it must have measured are others.
Retained(name, c, na, nr) ==
  LET expected == EXPECTED_PHASE_STATE_MATRICES[name]
      required == REQUIRED_MEASURED_PHASES[name]
  IN  /\ c \in DOMAIN expected /\ c \in DOMAIN required
      /\ expected[c] = Matrix(na, nr)
      /\ required[c] \subseteq Phases \ (na \cup nr) /\ "business_uow" \in required[c]

NotReachedAfterLock ==
  {"validation_runtime_call", "accepted_history_load", "append_admission_call",
   "idempotency_record_call", "commit_finalization"}

\* The cohorts of each composition, which the two experiments list apart.
LEMMA TablesAgree ==
  /\ Retained("PRE_OCC", "ACCEPTED", {TryLock}, {"rollback_finalization"})
  /\ Retained("PRE_OCC", "APPEND_STALE_WRITE", {TryLock},
              {"idempotency_record_call", "commit_finalization"})
  /\ Retained("IN_PESSIMISTIC", "ACCEPTED", PreliminaryPhases, {"rollback_finalization"})
  /\ Retained("IN_PESSIMISTIC", "PREPARE_LOCK_TIMEOUT", PreliminaryPhases, NotReachedAfterLock)
<1> DEFINE E == EXPECTED_PHASE_STATE_MATRICES
           R == REQUIRED_MEASURED_PHASES
<1>1. /\ "ACCEPTED" \in DOMAIN E["PRE_OCC"] /\ "APPEND_STALE_WRITE" \in DOMAIN E["PRE_OCC"]
      /\ E["PRE_OCC"]["ACCEPTED"] = Matrix({TryLock}, {"rollback_finalization"})
      /\ E["PRE_OCC"]["APPEND_STALE_WRITE"]
           = Matrix({TryLock}, {"idempotency_record_call", "commit_finalization"})
  BY DEF EXPECTED_PHASE_STATE_MATRICES
<1>2. /\ "ACCEPTED" \in DOMAIN E["IN_PESSIMISTIC"]
      /\ "PREPARE_LOCK_TIMEOUT" \in DOMAIN E["IN_PESSIMISTIC"]
      /\ E["IN_PESSIMISTIC"]["ACCEPTED"] = Matrix(PreliminaryPhases, {"rollback_finalization"})
      /\ E["IN_PESSIMISTIC"]["PREPARE_LOCK_TIMEOUT"]
           = Matrix(PreliminaryPhases, NotReachedAfterLock)
  BY DEF EXPECTED_PHASE_STATE_MATRICES, NotReachedAfterLock
<1>3. /\ "ACCEPTED" \in DOMAIN R["PRE_OCC"] /\ "APPEND_STALE_WRITE" \in DOMAIN R["PRE_OCC"]
      /\ R["PRE_OCC"]["ACCEPTED"] = Phases \ {TryLock, "rollback_finalization"}
      /\ R["PRE_OCC"]["APPEND_STALE_WRITE"]
           = Phases \ ({TryLock} \cup {"idempotency_record_call", "commit_finalization"})
  BY DEF REQUIRED_MEASURED_PHASES
<1>4. /\ "ACCEPTED" \in DOMAIN R["IN_PESSIMISTIC"]
      /\ "PREPARE_LOCK_TIMEOUT" \in DOMAIN R["IN_PESSIMISTIC"]
      /\ R["IN_PESSIMISTIC"]["ACCEPTED"]
           = Phases \ (PreliminaryPhases \cup {"rollback_finalization"})
      /\ R["IN_PESSIMISTIC"]["PREPARE_LOCK_TIMEOUT"]
           = {"producer_write_invocation", "business_uow", "authoritative_idempotency_check",
              "concurrency_preparation_call", TryLock, "rollback_finalization"}
  BY DEF REQUIRED_MEASURED_PHASES
<1> HIDE DEF E, R
<1>5. "business_uow" \in Phases /\ "business_uow" # TryLock /\ "business_uow" \notin PreliminaryPhases
  BY PhaseNames DEF PreliminaryPhases, TryLock
<1>6. /\ "business_uow" \in R["PRE_OCC"]["ACCEPTED"]
      /\ "business_uow" \in R["PRE_OCC"]["APPEND_STALE_WRITE"]
      /\ "business_uow" \in R["IN_PESSIMISTIC"]["ACCEPTED"]
      /\ "business_uow" \in R["IN_PESSIMISTIC"]["PREPARE_LOCK_TIMEOUT"]
  BY <1>3, <1>4, <1>5
<1>7. R["IN_PESSIMISTIC"]["PREPARE_LOCK_TIMEOUT"]
        \subseteq Phases \ (PreliminaryPhases \cup NotReachedAfterLock)
  BY <1>4, PhaseNames DEF PreliminaryPhases, NotReachedAfterLock, TryLock
<1>8. /\ R["PRE_OCC"]["ACCEPTED"] \subseteq Phases \ ({TryLock} \cup {"rollback_finalization"})
      /\ R["PRE_OCC"]["APPEND_STALE_WRITE"]
           \subseteq Phases \ ({TryLock} \cup {"idempotency_record_call", "commit_finalization"})
      /\ R["IN_PESSIMISTIC"]["ACCEPTED"]
           \subseteq Phases \ (PreliminaryPhases \cup {"rollback_finalization"})
  BY <1>3, <1>4
<1>9. Retained("PRE_OCC", "ACCEPTED", {TryLock}, {"rollback_finalization"})
  BY <1>1, <1>3, <1>6, <1>8 DEF Retained, E, R
<1>10. Retained("PRE_OCC", "APPEND_STALE_WRITE", {TryLock},
                {"idempotency_record_call", "commit_finalization"})
  BY <1>1, <1>3, <1>6, <1>8 DEF Retained, E, R
<1>11. Retained("IN_PESSIMISTIC", "ACCEPTED", PreliminaryPhases, {"rollback_finalization"})
  BY <1>2, <1>4, <1>6, <1>8 DEF Retained, E, R
<1>12. Retained("IN_PESSIMISTIC", "PREPARE_LOCK_TIMEOUT", PreliminaryPhases, NotReachedAfterLock)
  BY <1>2, <1>4, <1>6, <1>7 DEF Retained, E, R
<1> QED BY <1>9, <1>10, <1>11, <1>12

\* What the bounded-concurrency experiment objects to, as one formula.
EvidenceFlaw(record) ==
  LET expected == EXPECTED_PHASE_STATE_MATRICES[record.composition]
  IN  \/ record.cohort = {}
      \/ ~(record.cohort \subseteq DOMAIN expected)
      \/ Scenario = "C_DIFFERENT_ORDER" /\ ~(record.cohort \subseteq {"ACCEPTED"})
      \/ record.measurement_availability # "AVAILABLE"
      \/ \E c \in record.cohort \cap DOMAIN expected : \E m \in record.phases : m # expected[c]

\* What the strategy comparison objects to, as one formula.
SampleFlaw(record) ==
  LET required == REQUIRED_MEASURED_PHASES[record.composition]
  IN  \/ record.cohort = {}
      \/ ~CohortAllowedForScenario(Scenario, record)
      \/ record.measurement_availability # "AVAILABLE"
      \/ \E c \in record.cohort \cap DOMAIN required : \E m \in record.phases :
           \E phase \in required[c] : m[phase] # "MEASURED"

\* There are issues exactly when there is something to object to.
LEMMA IssuesAre ==
  ASSUME NEW record
  PROVE  /\ InvocationEvidenceIssues(record) # {} <=> EvidenceFlaw(record)
         /\ SampleIssues(record) # {} <=> SampleFlaw(record)
<1>1. InvocationEvidenceIssues(record) # {} <=> EvidenceFlaw(record)
  <2> DEFINE expected == EXPECTED_PHASE_STATE_MATRICES[record.composition]
             I == InvocationEvidenceIssues(record)
             P1 == record.cohort = {}
             P2 == ~(record.cohort \subseteq DOMAIN expected)
             P3 == /\ record.cohort \subseteq DOMAIN expected
                   /\ Scenario = "C_DIFFERENT_ORDER" /\ ~(record.cohort \subseteq {"ACCEPTED"})
             P4 == record.measurement_availability # "AVAILABLE"
             P5 == \E c \in record.cohort \cap DOMAIN expected : \E m \in record.phases :
                     m # expected[c]
  <2>1. I = {issue \in {"UNSUPPORTED_OUTCOME", "UNSUPPORTED_COMPOSITION_COHORT",
                        "UNSUPPORTED_WORKLOAD_COHORT", "MEASUREMENT_UNAVAILABLE",
                        "PHASE_STATE_MISMATCH"} :
               CASE issue = "UNSUPPORTED_OUTCOME" -> P1
                 [] issue = "UNSUPPORTED_COMPOSITION_COHORT" -> P2
                 [] issue = "UNSUPPORTED_WORKLOAD_COHORT" -> P3
                 [] issue = "MEASUREMENT_UNAVAILABLE" -> P4
                 [] issue = "PHASE_STATE_MISMATCH" -> P5}
    BY DEF InvocationEvidenceIssues
  <2>2. EvidenceFlaw(record) <=> P1 \/ P2 \/ P3 \/ P4 \/ P5
    BY DEF EvidenceFlaw
  <2> HIDE DEF I, P1, P2, P3, P4, P5
  <2>3. /\ "UNSUPPORTED_OUTCOME" \in I <=> P1
        /\ "UNSUPPORTED_COMPOSITION_COHORT" \in I <=> P2
        /\ "UNSUPPORTED_WORKLOAD_COHORT" \in I <=> P3
        /\ "MEASUREMENT_UNAVAILABLE" \in I <=> P4
        /\ "PHASE_STATE_MISMATCH" \in I <=> P5
        /\ I \subseteq {"UNSUPPORTED_OUTCOME", "UNSUPPORTED_COMPOSITION_COHORT",
                        "UNSUPPORTED_WORKLOAD_COHORT", "MEASUREMENT_UNAVAILABLE",
                        "PHASE_STATE_MISMATCH"}
    BY <2>1
  <2>4. I # {} <=> P1 \/ P2 \/ P3 \/ P4 \/ P5
    BY <2>3
  <2> QED BY <2>2, <2>4 DEF I
<1>2. SampleIssues(record) # {} <=> SampleFlaw(record)
  <2> DEFINE required == REQUIRED_MEASURED_PHASES[record.composition]
             I == SampleIssues(record)
             P1 == record.cohort = {}
             P2 == ~CohortAllowedForScenario(Scenario, record)
             P3 == record.measurement_availability # "AVAILABLE"
             P4 == \E c \in record.cohort \cap DOMAIN required : \E m \in record.phases :
                     \E phase \in required[c] : m[phase] # "MEASURED"
  <2>1. I = {issue \in {"UNSUPPORTED_OUTCOME", "UNEXPECTED_SCENARIO_COHORT",
                        "MEASUREMENT_UNAVAILABLE", "REQUIRED_PHASE_NOT_COLLECTED"} :
               CASE issue = "UNSUPPORTED_OUTCOME" -> P1
                 [] issue = "UNEXPECTED_SCENARIO_COHORT" -> P2
                 [] issue = "MEASUREMENT_UNAVAILABLE" -> P3
                 [] issue = "REQUIRED_PHASE_NOT_COLLECTED" -> P4}
    BY DEF SampleIssues
  <2>2. SampleFlaw(record) <=> P1 \/ P2 \/ P3 \/ P4
    BY DEF SampleFlaw
  <2> HIDE DEF I, P1, P2, P3, P4
  <2>3. /\ "UNSUPPORTED_OUTCOME" \in I <=> P1
        /\ "UNEXPECTED_SCENARIO_COHORT" \in I <=> P2
        /\ "MEASUREMENT_UNAVAILABLE" \in I <=> P3
        /\ "REQUIRED_PHASE_NOT_COLLECTED" \in I <=> P4
        /\ I \subseteq {"UNSUPPORTED_OUTCOME", "UNEXPECTED_SCENARIO_COHORT",
                        "MEASUREMENT_UNAVAILABLE", "REQUIRED_PHASE_NOT_COLLECTED"}
    BY <2>1
  <2>4. I # {} <=> P1 \/ P2 \/ P3 \/ P4
    BY <2>3
  <2> QED BY <2>2, <2>4 DEF I
<1> QED BY <1>1, <1>2

\* The cohort c of a lane that returned, and what its measurement shows.
HasCohort(w, c, na, nr) ==
  /\ Retained(CompositionOf(w), c, na, nr) /\ Measurement(w, {}) = Matrix(na, nr)
  /\ \/ AcceptedLane(w) /\ c = "ACCEPTED"
     \/ StaleLane(w) /\ c = "APPEND_STALE_WRITE"
     \/ LockedOutLane(w) /\ c = "PREPARE_LOCK_TIMEOUT"

\* Every lane but one whose INSERT timed out has a retained cohort.
LEMMA LaneIsRetained ==
  ASSUME BurstFacts, Burst, NEW w \in Lanes, ReturnedNormally(w), ~TimedOutLane(w)
  PROVE  \E c, na, nr : HasCohort(w, c, na, nr)
<1>1. OccLane(w) \/ LockLane(w)
  BY CompositionIs
<1>2. CASE AcceptedLane(w) /\ OccLane(w)
  <2>1. CompositionOf(w) = "PRE_OCC"
    BY <1>2 DEF OccLane
  <2>2. HasCohort(w, "ACCEPTED", {TryLock}, {"rollback_finalization"})
    BY <1>2, <2>1, MatricesFit, TablesAgree DEF HasCohort
  <2> QED BY <2>2
<1>3. CASE AcceptedLane(w) /\ LockLane(w)
  <2>1. CompositionOf(w) = "IN_PESSIMISTIC"
    BY <1>3 DEF LockLane
  <2>2. HasCohort(w, "ACCEPTED", PreliminaryPhases, {"rollback_finalization"})
    BY <1>3, <2>1, MatricesFit, TablesAgree DEF HasCohort
  <2> QED BY <2>2
<1>4. CASE StaleLane(w)
  <2>1. CompositionOf(w) = "PRE_OCC"
    BY <1>4 DEF StaleLane, OccLane
  <2>2. HasCohort(w, "APPEND_STALE_WRITE", {TryLock},
                  {"idempotency_record_call", "commit_finalization"})
    BY <1>4, <2>1, MatricesFit, TablesAgree DEF HasCohort
  <2> QED BY <2>2
<1>5. CASE LockedOutLane(w)
  <2>1. CompositionOf(w) = "IN_PESSIMISTIC"
    BY <1>5 DEF LockedOutLane, LockLane
  <2>2. Measurement(w, {}) = Matrix(PreliminaryPhases, NotReachedAfterLock)
    BY <1>5, MatricesFit DEF NotReachedAfterLock
  <2>3. HasCohort(w, "PREPARE_LOCK_TIMEOUT", PreliminaryPhases, NotReachedAfterLock)
    BY <1>5, <2>1, <2>2, TablesAgree DEF HasCohort
  <2> QED BY <2>3
<1> QED BY <1>1, <1>2, <1>3, <1>4, <1>5, LaneKinds

\* The phases of a matrix that were measured.
LEMMA MatrixMeasured ==
  ASSUME NEW na, NEW nr, NEW phase \in Phases \ (na \cup nr)
  PROVE  Matrix(na, nr)[phase] = "MEASURED"
<1>1. Matrix(na, nr)[phase] = CASE phase \in na -> "NOT_APPLICABLE"
                                [] phase \in nr -> "NOT_REACHED"
                                [] OTHER -> "MEASURED"
  BY DEF Matrix
<1> QED BY <1>1

\* What the strategy comparison allows in each scenario.
LEMMA AllowedCohorts ==
  ASSUME NEW record
  PROVE  /\ record.cohort = {"ACCEPTED"} => CohortAllowedForScenario(Scenario, record)
         /\ (/\ Scenario = "B_SAME_ORDER" /\ record.composition = "PRE_OCC"
             /\ record.cohort = {"APPEND_STALE_WRITE"}) =>
              CohortAllowedForScenario(Scenario, record)
         /\ (/\ Scenario = "B_SAME_ORDER" /\ record.composition = "IN_PESSIMISTIC"
             /\ record.cohort = {"PREPARE_LOCK_TIMEOUT"}) =>
              CohortAllowedForScenario(Scenario, record)
<1>1. CASE Scenario \in {"A_UNCONTENDED", "C_DIFFERENT_ORDER"}
  BY <1>1 DEF CohortAllowedForScenario
<1>2. CASE Scenario = "B_SAME_ORDER" /\ record.composition = "PRE_OCC"
  BY <1>2 DEF CohortAllowedForScenario
<1>3. CASE /\ Scenario \notin {"A_UNCONTENDED", "C_DIFFERENT_ORDER"}
           /\ ~(Scenario = "B_SAME_ORDER" /\ record.composition = "PRE_OCC")
  BY <1>3 DEF CohortAllowedForScenario
<1> QED BY <1>1, <1>2, <1>3

\* With a sound clock the experiments object to a lane exactly when its INSERT
\* timed out or it was locked out by a lane of another order.
LEMMA SoundEvidence ==
  ASSUME BurstFacts, Burst, NEW w \in Lanes, ReturnedNormally(w),
         NEW record, record = InvocationRecord(w, {})
  PROVE  EvidenceFlaw(record) \/ SampleFlaw(record) <=> AppendTimedOut(w) \/ LockedOutByCollision(w)
<1>1. CASE TimedOutLane(w)
  <2>1. record.cohort = {}
    BY <1>1, RecordIs
  <2> QED BY <1>1, <2>1 DEF EvidenceFlaw, AppendTimedOut, TimedOutLane
<1>2. CASE ~TimedOutLane(w)
  <2>1. PICK c, na, nr : HasCohort(w, c, na, nr)
    BY <1>2, LaneIsRetained
  <2>2. record.cohort = {c}
    <3>1. CASE AcceptedLane(w) /\ c = "ACCEPTED"
      BY <3>1, RecordIs
    <3>2. CASE StaleLane(w) /\ c = "APPEND_STALE_WRITE"
      BY <3>2, RecordIs
    <3>3. CASE LockedOutLane(w) /\ c = "PREPARE_LOCK_TIMEOUT"
      BY <3>3, RecordIs
    <3> QED BY <2>1, <3>1, <3>2, <3>3, Zenon DEF HasCohort
  <2>3. /\ record.composition = CompositionOf(w) /\ record.measurement_availability = "AVAILABLE"
        /\ record.phases = {Measurement(w, {})}
    BY RecordIs
  <2> DEFINE expected == EXPECTED_PHASE_STATE_MATRICES[record.composition]
             required == REQUIRED_MEASURED_PHASES[record.composition]
  <2>4. /\ c \in DOMAIN expected /\ expected[c] = Matrix(na, nr) /\ c \in DOMAIN required
        /\ required[c] \subseteq Phases \ (na \cup nr) /\ Measurement(w, {}) = Matrix(na, nr)
    BY <2>1, <2>3 DEF HasCohort, Retained
  <2> HIDE DEF expected, required
  <2>5. \A phase \in required[c] : Measurement(w, {})[phase] = "MEASURED"
    BY <2>4, MatrixMeasured
  <2>6. EvidenceFlaw(record) <=> Scenario = "C_DIFFERENT_ORDER" /\ c # "ACCEPTED"
    <3>1. EvidenceFlaw(record) <=>
            \/ record.cohort = {}
            \/ ~(record.cohort \subseteq DOMAIN expected)
            \/ Scenario = "C_DIFFERENT_ORDER" /\ ~(record.cohort \subseteq {"ACCEPTED"})
            \/ record.measurement_availability # "AVAILABLE"
            \/ \E d \in record.cohort \cap DOMAIN expected : \E m \in record.phases : m # expected[d]
      BY DEF EvidenceFlaw, expected
    <3> QED BY <2>2, <2>3, <2>4, <3>1
  <2>7. SampleFlaw(record) <=> ~CohortAllowedForScenario(Scenario, record)
    <3>1. SampleFlaw(record) <=>
            \/ record.cohort = {}
            \/ ~CohortAllowedForScenario(Scenario, record)
            \/ record.measurement_availability # "AVAILABLE"
            \/ \E d \in record.cohort \cap DOMAIN required : \E m \in record.phases :
                 \E phase \in required[d] : m[phase] # "MEASURED"
      BY DEF SampleFlaw, required
    <3> HIDE DEF CohortAllowedForScenario
    <3> QED BY <2>2, <2>3, <2>5, <3>1
  <2>8. CASE AcceptedLane(w) /\ c = "ACCEPTED"
    <3>1. ~AppendTimedOut(w) /\ ~LockedOutByCollision(w)
      BY <2>8 DEF AcceptedLane, AppendTimedOut, LockedOutByCollision
    <3> QED BY <2>2, <2>6, <2>7, <2>8, <3>1, AllowedCohorts
  <2>9. \/ Scenario = "A_UNCONTENDED" /\ Lanes = {w}
        \/ /\ Scenario = "B_SAME_ORDER"
           /\ \A x, y \in Lanes : CommandOf(x).order_id = CommandOf(y).order_id
        \/ Scenario = "C_DIFFERENT_ORDER" /\ SeparateOrders
    BY ScenarioIs DEF BurstFacts, BurstInv
  <2>10. CASE StaleLane(w) /\ c = "APPEND_STALE_WRITE"
    <3>1. ~AppendTimedOut(w) /\ ~LockedOutByCollision(w)
      BY <2>10 DEF StaleLane, AppendTimedOut, LockedOutByCollision
    <3>2. Scenario = "B_SAME_ORDER"
      BY <2>9, <2>10 DEF StaleLane, SeparateOrders
    <3>3. record.composition = "PRE_OCC"
      BY <2>3, <2>10 DEF StaleLane, OccLane
    <3> QED BY <2>2, <2>6, <2>7, <2>10, <3>1, <3>2, <3>3, AllowedCohorts
  <2>11. CASE LockedOutLane(w) /\ c = "PREPARE_LOCK_TIMEOUT"
    <3>1. ~AppendTimedOut(w) /\ record.composition = "IN_PESSIMISTIC"
      BY <2>3, <2>11 DEF LockedOutLane, AppendTimedOut, LockLane
    <3>2. PICK x \in Lanes \ {w} : SameKey(x, w)
      BY <2>11 DEF LockedOutLane
    <3>3. CASE /\ Scenario = "B_SAME_ORDER"
               /\ \A y, z \in Lanes : CommandOf(y).order_id = CommandOf(z).order_id
      <4>1. ~LockedOutByCollision(w)
        BY <3>3 DEF LockedOutByCollision
      <4> QED BY <2>2, <2>6, <2>7, <2>11, <3>1, <3>3, <4>1, AllowedCohorts
    <3>4. CASE Scenario = "C_DIFFERENT_ORDER" /\ SeparateOrders
      <4>1. CommandOf(x).order_id # CommandOf(w).order_id
        BY <3>2, <3>4 DEF SeparateOrders
      <4>2. LockedOutByCollision(w)
        BY <2>11, <3>2, <4>1 DEF LockedOutByCollision, LockedOutLane, SameKey
      <4> QED BY <2>6, <2>11, <3>4, <4>2
    <3> QED BY <2>9, <3>2, <3>3, <3>4
  <2> QED BY <2>1, <2>8, <2>10, <2>11, Zenon DEF HasCohort
<1> QED BY <1>1, <1>2

\* Evidence that lost a reading is objected to by both.
LEMMA LostEvidence ==
  ASSUME BurstFacts, Burst, NEW w \in Lanes, ReturnedNormally(w),
         NEW lost \in ClockFailures \ {{}}, NEW record, record = InvocationRecord(w, lost)
  PROVE  EvidenceFlaw(record) /\ SampleFlaw(record)
<1>1. CASE "producer_write_invocation" \in lost
  <2>1. record.measurement_availability = "UNAVAILABLE"
    BY <1>1, RecordIs
  <2> QED BY <2>1 DEF EvidenceFlaw, SampleFlaw
<1>2. CASE TimedOutLane(w)
  <2>1. record.cohort = {}
    BY <1>2, RecordIs
  <2> QED BY <2>1 DEF EvidenceFlaw, SampleFlaw
<1>3. CASE "producer_write_invocation" \notin lost /\ ~TimedOutLane(w)
  <2>1. PICK c, na, nr : HasCohort(w, c, na, nr)
    BY <1>3, LaneIsRetained
  <2>2. record.cohort = {c}
    <3>1. CASE AcceptedLane(w) /\ c = "ACCEPTED"
      BY <3>1, RecordIs
    <3>2. CASE StaleLane(w) /\ c = "APPEND_STALE_WRITE"
      BY <3>2, RecordIs
    <3>3. CASE LockedOutLane(w) /\ c = "PREPARE_LOCK_TIMEOUT"
      BY <3>3, RecordIs
    <3> QED BY <2>1, <3>1, <3>2, <3>3, Zenon DEF HasCohort
  <2>3. record.composition = CompositionOf(w) /\ record.phases = {Measurement(w, lost)}
    BY <1>3, RecordIs
  <2>4. "business_uow" \in Phases /\ "business_uow" \in lost
    BY <1>3, PhaseNames DEF ClockFailures
  <2>5. Measurement(w, lost)["business_uow"] # "MEASURED"
    BY <2>4, MeasuredPhase
  <2> DEFINE expected == EXPECTED_PHASE_STATE_MATRICES[record.composition]
             required == REQUIRED_MEASURED_PHASES[record.composition]
  <2>6. /\ c \in DOMAIN expected /\ expected[c] = Matrix(na, nr) /\ c \in DOMAIN required
        /\ required[c] \subseteq Phases \ (na \cup nr) /\ "business_uow" \in required[c]
    BY <2>1, <2>3 DEF HasCohort, Retained
  <2> HIDE DEF expected, required
  <2>7. Matrix(na, nr)["business_uow"] = "MEASURED"
    BY <2>6, MatrixMeasured
  <2>8. \E d \in record.cohort \cap DOMAIN expected : \E m \in record.phases : m # expected[d]
    BY <2>2, <2>3, <2>5, <2>6, <2>7
  <2>9. \E d \in record.cohort \cap DOMAIN required : \E m \in record.phases :
          \E phase \in required[d] : m[phase] # "MEASURED"
    BY <2>2, <2>3, <2>5, <2>6
  <2> QED BY <2>8, <2>9 DEF EvidenceFlaw, SampleFlaw, expected, required
<1> QED BY <1>1, <1>2, <1>3

----------------------------------------------------------------------------
(* What the lanes left behind.                                             *)

\* The lanes create orders: their events open streams.
LEMMA LanesCreate ==
  ASSUME BurstFacts, Burst, NEW x \in Lanes, NEW e \in candidate[x]
  PROVE  e.sequence = 1
<1>1. x \in Invocations /\ CommandOf(x).command_type = "create"
  BY DEF Lanes, Burst
<1>2. e.event_type = "CREATED"
  BY <1>1 DEF BurstFacts, PayloadInv, EventTypeOf
<1>3. FollowsHistory(e)
  BY <1>1 DEF BurstFacts, IInv, Coupled
<1> QED BY <1>2, <1>3 DEF FollowsHistory

\* Durable history is what a lane was told.
LEMMA ObservationIsTrue ==
  ASSUME BurstFacts, Burst, NEW w \in Lanes, ReturnedNormally(w)
  PROVE  ObservationVerified(w)
<1>1. w \in Invocations
  BY DEF Lanes
<1>2. PICK r : r = PostgresWriteSideResult(w)
  OBVIOUS
<1> DEFINE rows == {t \in order_events : t.event.order_id = CommandOf(w).order_id}
           history == {s.event : s \in rows}
<1>3. r.outcome = result[w].outcome
  BY <1>2, TracedParts
<1>4. ASSUME result[w].outcome # "ACCEPTED", NEW e \in history
      PROVE  e.request_id # CommandOf(w).request_id
  <2> SUFFICES ASSUME e.request_id = CommandOf(w).request_id PROVE FALSE
    OBVIOUS
  <2>1. PICK s \in order_events : s.event = e
    BY <1>4
  <2>2. s.event.event_id = w
    BY <2>1, OwnRequest
  <2>3. EventsNamed({w}) # {}
    BY <2>2 DEF EventsNamed
  <2> QED BY <1>1, <1>4, <2>3, AcceptedMeansRow DEF BurstFacts
<1>5. ASSUME result[w].outcome = "ACCEPTED"
      PROVE  /\ r.validation_decision # {}
             /\ \A e \in r.accepted_event :
                  /\ e.request_id = CommandOf(w).request_id /\ e.sequence = 1
                  /\ e.amount = normalize_money(CommandOf(w).amount)
             /\ history = r.accepted_event
  <2>1. PICK e : r.accepted_event = {e} /\ candidate[w] = {e}
    <3>1. candidate[w] = {TheCandidate(w)}
      BY <1>1, <1>5, HeldCandidate DEF BurstFacts, KeptInv, KeepsEvidence, IInv
    <3> QED BY <1>2, <1>5, <3>1, TracedParts
  <2>2. r.validation_decision # {}
    <3>1. Reached(w, "VALIDATION_RETURNED")
      BY <1>1, <2>1 DEF BurstFacts, ToldInv, Told
    <3> QED BY <1>2, <3>1, TracedParts DEF ValidationPart
  <2>3. /\ e.request_id = CommandOf(w).request_id /\ e.order_id = CommandOf(w).order_id
        /\ e.sequence = 1 /\ e.amount = normalize_money(CommandOf(w).amount)
    BY <1>1, <2>1, LanesCreate DEF BurstFacts, IInv, Coupled, PayloadInv
  <2>4. PICK t \in order_events : t.event.event_id = w
    BY <1>1, <1>5, AcceptedMeansRow DEF BurstFacts, EventsNamed
  <2>5. t.event = e
    BY <2>1, <2>4, AuthorIsLane
  <2>6. ASSUME NEW s \in rows PROVE s.event = e
    <3>1. s.event.sequence = 1
      BY AuthorIsLane, LanesCreate
    <3>2. SamePosition(s.event, t.event)
      BY <2>3, <2>5, <3>1 DEF SamePosition
    <3> QED BY <2>5, <3>2, OnePosition DEF BurstFacts
  <2>7. t \in rows
    BY <2>3, <2>5
  <2> HIDE DEF rows
  <2>8. history = {e}
    BY <2>5, <2>6, <2>7
  <2> HIDE DEF history
  <2> QED BY <2>1, <2>2, <2>3, <2>8
<1> HIDE DEF history
<1>6. ObservationVerified(w) <=>
        IF r.outcome = "ACCEPTED"
        THEN /\ r.validation_decision # {}
             /\ \A e \in r.accepted_event :
                  /\ e.request_id = CommandOf(w).request_id /\ e.sequence = 1
                  /\ e.amount = normalize_money(CommandOf(w).amount)
             /\ history = r.accepted_event
        ELSE \A e \in history : e.request_id # CommandOf(w).request_id
  BY <1>2 DEF ObservationVerified, history
<1>7. CASE r.outcome = "ACCEPTED"
  BY <1>3, <1>5, <1>6, <1>7
<1>8. CASE r.outcome # "ACCEPTED"
  BY <1>3, <1>4, <1>6, <1>8
<1> QED BY <1>7, <1>8

\* The frozen expectations of both experiments fit every race of every burst.
THEOREM BurstsAreValid == Spec => []BurstEvidenceIsValid
<1>1. Init => PayloadInv
  BY DEF Init, PayloadInv
<1>2. IInv /\ PayloadInv /\ [Next]_vars => PayloadInv'
  BY NextPayload
<1>3. BurstFacts => BurstEvidenceIsValid
  <2> SUFFICES ASSUME BurstFacts, Burst, NEW w \in Lanes, ReturnedNormally(w)
               PROVE  /\ LET record == InvocationRecord(w, {})
                         IN  (InvocationEvidenceIssues(record) \cup SampleIssues(record) # {})
                               = (AppendTimedOut(w) \/ LockedOutByCollision(w))
                      /\ \A lost \in ClockFailures \ {{}} :
                           LET record == InvocationRecord(w, lost)
                           IN  InvocationEvidenceIssues(record) # {} /\ SampleIssues(record) # {}
                      /\ (\A x \in Lanes : pc[x] = "done") => ObservationVerified(w)
    BY DEF BurstEvidenceIsValid
  <2>1. PICK record : record = InvocationRecord(w, {})
    OBVIOUS
  <2>2. InvocationEvidenceIssues(record) \cup SampleIssues(record) # {}
          <=> AppendTimedOut(w) \/ LockedOutByCollision(w)
    BY <2>1, IssuesAre, SoundEvidence
  <2>3. AppendTimedOut(w) \in BOOLEAN /\ LockedOutByCollision(w) \in BOOLEAN
    BY DEF AppendTimedOut, LockedOutByCollision, AppendReached, Reached
  <2>4. (InvocationEvidenceIssues(record) \cup SampleIssues(record) # {})
          = (AppendTimedOut(w) \/ LockedOutByCollision(w))
    BY <2>2, <2>3
  <2>5. ASSUME NEW lost \in ClockFailures \ {{}}, NEW lossy, lossy = InvocationRecord(w, lost)
        PROVE  InvocationEvidenceIssues(lossy) # {} /\ SampleIssues(lossy) # {}
    BY <2>5, IssuesAre, LostEvidence
  <2> QED BY <2>1, <2>4, <2>5, ObservationIsTrue
<1> QED BY <1>1, <1>2, <1>3, Invariance, Answers, Traces, ToldAlways, Kept, BurstInvariance, PTL
        DEF Spec, BurstFacts
=============================================================================
