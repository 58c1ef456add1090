-------------------------- MODULE WriteSideResult --------------------------
(***************************************************************************)
(* The typed result of a write-side invocation, and the pure functions     *)
(* that are evaluated on it: the semantic outcome, the re-invocation       *)
(* authority and the decision receipt.  Each of the three reads the parts  *)
(* of the result for itself and refuses the combinations it does not know; *)
(* a refusal is an empty set here and an exception in the code.            *)
(*                                                                         *)
(* A part that may be None is a set of at most one value.                  *)
(***************************************************************************)
EXTENDS PostgresWriteSide

----------------------------------------------------------------------------
(* The result.                                                             *)

Reached(w, checkpoint) == \E i \in DOMAIN checkpoints[w] : checkpoints[w][i] = checkpoint

EventsNamed(ids) == {r.event : r \in {s \in order_events : s.event.event_id \in ids}}

\* The signature of a stored record: the amount has been through NUMERIC(_, 2).
RecordSignature(i) ==
  [request_id |-> i.request_id, command_type |-> i.semantic_fingerprint[1],
   order_id |-> i.semantic_fingerprint[2], amount |-> 10 * i.semantic_fingerprint[3]]

\* The decision of the last idempotency check: the record where there is one.
IdempotencyDecision(w) ==
  IF result[w].outcome \notin {"REPLAY", "CONFLICT"} THEN [verdict |-> "MISS", record |-> {}]
  ELSE [verdict |-> result[w].outcome,
        record  |-> {[signature |-> RecordSignature(i),
                      accepted_event |-> CHOOSE e \in EventsNamed({i.accepted_event_id}) : TRUE] :
                        i \in RecordOf(CommandOf(w))}]

AppendReached(w) == Reached(w, "APPEND_ADMISSION_RETURNED")

\* The result object an invocation returns from the point it has reached.
PostgresWriteSideResult(w) ==
  LET rejected == result[w].outcome = "ADMISSION_REJECTED"
  IN  [outcome |-> result[w].outcome,
       idempotency_decision |-> IdempotencyDecision(w),
       accepted_event |->
         CASE result[w].outcome = "ACCEPTED" -> candidate[w]
           [] result[w].outcome = "REPLAY" -> {i.accepted_event : i \in IdempotencyDecision(w).record}
           [] OTHER -> {},
       stream_admission_result |->
         IF ~Reached(w, "CONCURRENCY_PREPARATION_RETURNED") THEN {}
         ELSE {[verdict  |-> IF rejected /\ ~AppendReached(w) THEN result[w].verdict ELSE "ADMITTED",
                order_id |-> CommandOf(w).order_id]},
       validation_decision |->
         IF ~Reached(w, "VALIDATION_RETURNED") THEN {}
         ELSE {[action |-> IF result[w].outcome = "VALIDATION_BLOCKED" THEN "BLOCK" ELSE "ALLOW",
                candidate_event_id |-> w]},
       admission_result |->
         IF ~AppendReached(w) THEN {}
         ELSE {[verdict |-> IF rejected THEN result[w].verdict ELSE "ADMITTED",
                candidate_event_id |-> w,
                accepted_event_id |-> IF rejected THEN {} ELSE {w},
                version_mismatch |-> result[w].version_mismatch]}]

Admitted(part) == \E p \in part : p.verdict = "ADMITTED"
Allowing(r)    == \E d \in r.validation_decision : d.action = "ALLOW"
Missed(r)      == r.idempotency_decision = [verdict |-> "MISS", record |-> {}]

----------------------------------------------------------------------------
(* map_postgres_write_side_result_to_semantic_outcome.                     *)

\* A mistake: the stream admission is looked at first.
StreamRejectionSource(r) == {p \in r.stream_admission_result : p.verdict # "ADMITTED"}

\* _admission_rejection_source: the append admission before the stream
\* admission, and neither when it was admitted.
AdmissionRejectionSource(r) ==
  {p \in IF r.admission_result # {} THEN r.admission_result ELSE r.stream_admission_result :
     p.verdict # "ADMITTED"}

\* _accepted_event_from_result
AcceptedEventFromResult(r) ==
  IF r.accepted_event # {} THEN r.accepted_event
  ELSE {i.accepted_event : i \in r.idempotency_decision.record}

\* _validate_postgres_write_side_result_shape
OutcomeShape(r) ==
  /\ r.outcome = "ACCEPTED" => r.accepted_event # {}
  /\ r.outcome = "REPLAY" => AcceptedEventFromResult(r) # {}
  /\ r.outcome = "VALIDATION_BLOCKED" => r.validation_decision # {}
  /\ \A p \in r.admission_result : p.verdict # "ADMITTED" => p.accepted_event_id = {}
  /\ r.outcome = "ADMISSION_REJECTED" => AdmissionRejectionSource(r) # {}

\* _technical_status_for_admission_verdict
VerdictStatus(verdict) ==
  CASE verdict = "STALE_WRITE"          -> "CONCURRENT_STATE_STALENESS"
    [] verdict = "LOCK_TIMEOUT"         -> "LOCK_TIMEOUT"
    [] verdict = "INFRASTRUCTURE_ERROR" -> "WRITE_SIDE_INFRASTRUCTURE_ERROR"

\* _technical_status_for_postgres_write_side_result
TechnicalStatus(r) ==
  CASE r.outcome = "ACCEPTED"           -> "WRITE_SIDE_ACCEPTED"
    [] r.outcome = "REPLAY"             -> "IDEMPOTENT_REPLAY"
    [] r.outcome = "CONFLICT"           -> "IDEMPOTENCY_CONFLICT"
    [] r.outcome = "VALIDATION_BLOCKED" -> "COMPASS_VALIDATION_BLOCKED"
    [] r.outcome = "ADMISSION_REJECTED" ->
         VerdictStatus((CHOOSE p \in AdmissionRejectionSource(r) : TRUE).verdict)

\* _order_id_from_result and _request_id_from_result: where the identities
\* come from; two different values raise.
OrderIds(r) ==
  {e.order_id : e \in AcceptedEventFromResult(r)} \cup {s.order_id : s \in r.stream_admission_result}
  \cup {i.signature.order_id : i \in r.idempotency_decision.record}

RequestIds(r) ==
  {e.request_id : e \in AcceptedEventFromResult(r)}
  \cup {i.signature.request_id : i \in r.idempotency_decision.record}

\* _candidate_event_id_from_result: append before validation.
CandidateOfContext(r) ==
  {p.candidate_event_id :
     p \in IF r.admission_result # {} THEN r.admission_result ELSE r.validation_decision}

\* _context_from_postgres_write_side_result
OutcomeContext(r) ==
  [write_side_outcome |-> r.outcome, order_id |-> OrderIds(r), request_id |-> RequestIds(r),
   candidate_event_id |-> CandidateOfContext(r),
   accepted_event_id |-> {e.event_id : e \in AcceptedEventFromResult(r)}]

\* _evidence_from_postgres_write_side_result: presence and verdict of each part.
OutcomeEvidence(r) ==
  [idempotency_verdict |-> r.idempotency_decision.verdict,
   stream_admission_verdict |-> {s.verdict : s \in r.stream_admission_result},
   validation_action |-> {d.action : d \in r.validation_decision},
   append_admission_verdict |-> {p.verdict : p \in r.admission_result}]

\* The semantic code of each status the write side produces.
STATUS_MAPPINGS ==
  [WRITE_SIDE_ACCEPTED             |-> "SEMANTICALLY_VALID",
   IDEMPOTENT_REPLAY               |-> "IDEMPOTENT_REPLAY_ALLOWED",
   IDEMPOTENCY_CONFLICT            |-> "SEMANTIC_CONFLICT_DETECTED",
   COMPASS_VALIDATION_BLOCKED      |-> "SEMANTIC_CONFLICT_DETECTED",
   CONCURRENT_STATE_STALENESS      |-> "CONCURRENCY_UNCERTAIN",
   LOCK_TIMEOUT                    |-> "CONCURRENCY_UNCERTAIN",
   WRITE_SIDE_INFRASTRUCTURE_ERROR |-> "REQUIRES_OPERATOR_REVIEW"]

\* The outcome of a result, or nothing where the mapping raises.
SemanticOutcomes(r) ==
  {[semantic_code |-> STATUS_MAPPINGS[TechnicalStatus(x)], context |-> OutcomeContext(x),
    evidence |-> OutcomeEvidence(x)] :
     x \in {y \in {r} : /\ OutcomeShape(y)
                        /\ Cardinality(OrderIds(y)) <= 1 /\ Cardinality(RequestIds(y)) <= 1}}
=============================================================================
