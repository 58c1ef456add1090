--------------------------- MODULE InvocationOwner ---------------------------
(***************************************************************************)
(* PostgresWriteSideInvocationOwner: one request, invoked once (A1) and,   *)
(* when its result earns re-invocation authority, once more (A2), on the   *)
(* write side of PostgresWriteSide and among its other writers.  Several   *)
(* threads share the owner; each critical section of its lifecycle lock is *)
(* one step, and the lock is not held while the writer runs.               *)
(*                                                                         *)
(* A call the lifecycle does not admit raises and changes nothing, so it   *)
(* is no step.  A result is named by the invocation that returned it.      *)
(***************************************************************************)
EXTENDS WriteSideResult

CONSTANTS
  Threads,  \* threads that share the owner
  A1, A2    \* its two invocations

ASSUME OwnerAssumption == A1 \in Invocations /\ A2 \in Invocations /\ A1 # A2

VARIABLES
  request_signature,           \* the retained request
  composition,                 \* the configuration of the retained writer
  caller,                      \* what each thread is doing with the owner
  initial_invocation_started,
  initial_result,              \* {A1} once A1 has completed normally
  cached_evaluation,           \* the cached re-invocation evaluation
  authority_spent,
  current_response_result,     \* the published result, at most one
  current_response_outcome_id, \* 0 before the first evaluation of that result
  cached_delivery,             \* the delivery for that result, at most one
  identities                   \* every <<result, outcome_id>> ever minted

retained == <<request_signature, composition>>
authority == <<cached_evaluation, authority_spent>>
response  == <<current_response_result, current_response_outcome_id, cached_delivery, identities>>
owner     == <<retained, caller, initial_invocation_started, initial_result, authority, response>>
ownerVars == <<vars, owner>>

----------------------------------------------------------------------------
(* What the owner makes of a result.                                       *)

\* A mistake: any rejected admission may be tried again.
EligibleAnyRejection(w) == result[w].outcome = "ADMISSION_REJECTED"

\* _is_eligible_preparation_lock_timeout: the stream lock was busy before
\* anything was validated.
PreparationLockTimeout(r) ==
  /\ r.outcome = "ADMISSION_REJECTED" /\ r.accepted_event = {} /\ Missed(r)
  /\ \E s \in r.stream_admission_result :
       s.verdict = "LOCK_TIMEOUT" /\ s.order_id = request_signature.order_id
  /\ r.validation_decision = {} /\ r.admission_result = {}

\* _is_eligible_append_version_mismatch: the stream had moved on at append.
AppendVersionAdvanced(r) ==
  /\ r.outcome = "ADMISSION_REJECTED" /\ r.accepted_event = {} /\ Missed(r)
  /\ \E s \in r.stream_admission_result :
       s.verdict = "ADMITTED" /\ s.order_id = request_signature.order_id
  /\ Allowing(r)
  /\ \E p \in r.admission_result :
       /\ p.verdict = "STALE_WRITE" /\ p.accepted_event_id = {} /\ p.version_mismatch # <<>>
       /\ p.version_mismatch[2] > p.version_mismatch[1]
       /\ \A d \in r.validation_decision : d.candidate_event_id = p.candidate_event_id

\* evaluate_postgres_write_side_reinvocation_authority
Eligible(w) ==
  PreparationLockTimeout(PostgresWriteSideResult(w)) \/ AppendVersionAdvanced(PostgresWriteSideResult(w))

\* Order-rule feedback is complete: a validation block carries rule evidence,
\* which only the FullProof validator produces.
FeedbackComplete(w) ==
  result[w].outcome = "VALIDATION_BLOCKED" => composition.validator = "FullProof"

\* A mistake: a replay is taken for a current success.
ReplayIsCurrent ==
  [SEMANTICALLY_VALID         |-> "USE_CURRENT_RESULT",
   IDEMPOTENT_REPLAY_ALLOWED  |-> "USE_CURRENT_RESULT",
   SEMANTIC_CONFLICT_DETECTED |-> "BLOCK_CURRENT_CONTINUATION"]

\* The codes that have a response; the evaluator refuses every other.
SUPPORTED_RESPONSES ==
  [SEMANTICALLY_VALID         |-> "USE_CURRENT_RESULT",
   IDEMPOTENT_REPLAY_ALLOWED  |-> "RETURN_PRIOR_ACCEPTED_RESULT",
   SEMANTIC_CONFLICT_DETECTED |-> "BLOCK_CURRENT_CONTINUATION"]

\* evaluate_postgres_write_side_runtime_decision
Decision(outcome) ==
  IF outcome.semantic_code \in DOMAIN SUPPORTED_RESPONSES
  THEN SUPPORTED_RESPONSES[outcome.semantic_code] ELSE "refused"

\* _exact_prior_accepted_event raises unless the record carries the very
\* signature that is retained here.
SelectsPriorEvent(w) ==
  \E i \in RecordOf(CommandOf(w)) : RecordSignature(i) = request_signature

\* The response the caller is given, or nothing where the evaluation raises.
Responses(w) ==
  {a \in {Decision(o) : o \in SemanticOutcomes(PostgresWriteSideResult(w))} :
                         /\ FeedbackComplete(w)
                         /\ a = "RETURN_PRIOR_ACCEPTED_RESULT" => SelectsPriorEvent(w)}

----------------------------------------------------------------------------
(* The public methods.                                                     *)

\* _dispatch_retained_request enters the writer.
Dispatch(w) ==
  Begin(w) /\ command'[w] = {request_signature} /\ config'[w] = {composition}

\* _publish_current_response_result
PublishCurrentResponse(w) ==
  /\ current_response_result' = {w}
  /\ current_response_outcome_id' = 0
  /\ cached_delivery' = {}
  /\ UNCHANGED identities

\* A mistake: the result of A1 stays current while A2 runs.
KeepCurrentResponse == UNCHANGED response

\* _clear_current_response_state
ClearCurrentResponse ==
  /\ current_response_result' = {}
  /\ current_response_outcome_id' = 0
  /\ cached_delivery' = {}
  /\ UNCHANGED identities

\* invoke_initial up to the writer.
InvokeInitial(t) ==
  /\ caller[t] = "idle" /\ ~initial_invocation_started
  /\ initial_invocation_started' = TRUE
  /\ caller' = [caller EXCEPT ![t] = "initial"]
  /\ Dispatch(A1)
  /\ UNCHANGED <<retained, initial_result, authority, response>>

\* invoke_initial after the writer: a normal result is published, an
\* exception passes through.
CompleteInitial(t) ==
  /\ caller[t] = "initial" /\ pc[A1] = "done"
  /\ caller' = [caller EXCEPT ![t] = "idle"]
  /\ IF result[A1].outcome = "RAISED"
     THEN UNCHANGED <<initial_result, response>>
     ELSE initial_result' = {A1} /\ PublishCurrentResponse(A1)
  /\ UNCHANGED <<vars, retained, initial_invocation_started, authority>>

\* The outcome identity of a result: minted once, and kept before mapping so
\* that a failure cannot lose it.
OutcomeId(w) ==
  IF current_response_outcome_id # 0 THEN current_response_outcome_id
  ELSE Cardinality(identities) + 1

\* evaluate_current_response; a delivery that is already cached is returned
\* as it is, and a failed evaluation leaves only the identity behind.
EvaluateCurrentResponse(t) ==
  /\ caller[t] = "idle"
  /\ cached_delivery = {}
  /\ \E w \in current_response_result :
       /\ current_response_outcome_id' = OutcomeId(w)
       /\ identities' = identities \cup {<<w, OutcomeId(w)>>}
       /\ cached_delivery' = {[result |-> w, outcome_id |-> OutcomeId(w), response |-> a] :
                                a \in Responses(w)}
  /\ UNCHANGED <<vars, retained, caller, initial_invocation_started, initial_result,
                 authority, current_response_result>>

\* evaluate_reinvocation_authority
EvaluateReinvocationAuthority(t) ==
  /\ caller[t] = "idle"
  /\ initial_result = {A1} /\ cached_evaluation = "none"
  /\ cached_evaluation' = IF Eligible(A1) THEN "authorized" ELSE "no_authority"
  /\ UNCHANGED <<vars, retained, caller, initial_invocation_started, initial_result,
                 authority_spent, response>>

\* invoke_authorized_reinvocation up to the writer: authority is spent and A1
\* ceases to be the current result in one critical section.
InvokeAuthorizedReinvocation(t) ==
  /\ caller[t] = "idle"
  /\ initial_result = {A1} /\ cached_evaluation = "authorized" /\ ~authority_spent
  /\ authority_spent' = TRUE
  /\ ClearCurrentResponse
  /\ caller' = [caller EXCEPT ![t] = "reinvocation"]
  /\ Dispatch(A2)
  /\ UNCHANGED <<retained, initial_invocation_started, initial_result, cached_evaluation>>

\* invoke_authorized_reinvocation after the writer.
CompleteReinvocation(t) ==
  /\ caller[t] = "reinvocation" /\ pc[A2] = "done"
  /\ caller' = [caller EXCEPT ![t] = "idle"]
  /\ IF result[A2].outcome = "RAISED"
     THEN UNCHANGED response
     ELSE PublishCurrentResponse(A2)
  /\ UNCHANGED <<vars, retained, initial_invocation_started, initial_result, authority>>

----------------------------------------------------------------------------
OwnerInit ==
  /\ Init
  /\ request_signature \in Commands /\ composition \in Configs
  /\ caller = [t \in Threads |-> "idle"]
  /\ initial_invocation_started = FALSE /\ initial_result = {}
  /\ cached_evaluation = "none" /\ authority_spent = FALSE
  /\ current_response_result = {} /\ current_response_outcome_id = 0
  /\ cached_delivery = {} /\ identities = {}

\* The writers: those the owner has entered, and the others.
WriterNext ==
  /\ \E w \in Invocations :
       \/ w \notin {A1, A2} /\ Begin(w)
       \/ Step(w) \/ InsertLockTimeout(w) \/ CommitUnacknowledged(w) \/ Fail(w)
  /\ UNCHANGED owner

OwnerNext ==
  \/ WriterNext
  \/ \E t \in Threads :
       \/ InvokeInitial(t) \/ CompleteInitial(t)
       \/ EvaluateCurrentResponse(t) \/ EvaluateReinvocationAuthority(t)
       \/ InvokeAuthorizedReinvocation(t) \/ CompleteReinvocation(t)

OwnerSpec == OwnerInit /\ [][OwnerNext]_ownerVars
----------------------------------------------------------------------------
(* Properties.                                                             *)

\* Only a dead attempt is authorized to be repeated: when authority has been
\* issued, A1 left no row, committed or not, and it either had no candidate or
\* has one whose stream position is taken for good - whatever the rivals that
\* A1 lost to have done since.
AuthorityNeedsDeadAttempt ==
  cached_evaluation = "authorized" =>
    /\ inserted[A1] = {} /\ \A r \in order_events : r.event.event_id # A1
    /\ \A e \in candidate[A1] : \E r \in order_events : SamePosition(r.event, e)

\* A caller is never given the result of a superseded attempt: from the moment
\* authority is spent the current result is A2's or nothing, it is nothing as
\* long as A2 has not returned normally, and a cached delivery belongs to the
\* result that is current and carries the only outcome identity that result
\* ever had, also when an evaluation failed and another thread repeated it.
NoSupersededResponse ==
  /\ \A d \in cached_delivery : d.result \in current_response_result
  /\ \A p, q \in identities : p[1] = q[1] <=> p[2] = q[2]
  /\ authority_spent => A1 \notin current_response_result
  /\ A2 \in current_response_result =>
       pc[A2] = "done" /\ result[A2].outcome \notin {"none", "RAISED"}

\* What the owner tells its caller to do agrees with accepted history: "use
\* the current result" when this very attempt is in it, "return the prior
\* result" when another attempt of the same request is, and otherwise this
\* attempt left nothing behind.
ResponsesMatchHistory ==
  \A d \in cached_delivery :
    LET mine  == {r \in order_events : r.event.event_id = d.result}
        prior == {r \in order_events : r.event.request_id = request_signature.request_id
                                       /\ r.event.order_id = request_signature.order_id}
    IN  /\ d.response = "USE_CURRENT_RESULT" <=> mine # {}
        /\ d.response = "RETURN_PRIOR_ACCEPTED_RESULT" => prior # {}

\* A replay of a request with the same semantic fingerprint returns the prior
\* accepted result: evaluating a current REPLAY result yields a delivery.
ReplayReturnsPriorResult ==
  \A w \in current_response_result :
    result[w].outcome = "REPLAY" /\ current_response_outcome_id # 0 => cached_delivery # {}
=============================================================================
