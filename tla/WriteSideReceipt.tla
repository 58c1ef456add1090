-------------------------- MODULE WriteSideReceipt --------------------------
(***************************************************************************)
(* map_postgres_write_side_result_to_decision_receipt: the receipt of a    *)
(* write-side result.  Pure operators on the result r of WriteSideResult;  *)
(* where the code raises, MappedReceipts is empty.                         *)
(***************************************************************************)
EXTENDS WriteSideResult

----------------------------------------------------------------------------
(* _validate_result_shape: the combinations of parts the mapper accepts.   *)

\* _validate_accepted_result
AcceptedShape(r) ==
  /\ Missed(r) /\ r.accepted_event # {} /\ Admitted(r.stream_admission_result) /\ Allowing(r)
  /\ Admitted(r.admission_result) /\ \A p \in r.admission_result : p.accepted_event_id # {}

\* _validate_replay_or_conflict_result
ReplayOrConflictShape(r) ==
  /\ r.idempotency_decision.verdict = r.outcome /\ r.idempotency_decision.record # {}
  /\ r.stream_admission_result = {} /\ r.admission_result = {}
  /\ r.validation_decision # {} => Allowing(r)
  /\ r.outcome = "CONFLICT" => r.accepted_event = {}

\* _validate_validation_blocked_result
BlockedShape(r) ==
  /\ Missed(r) /\ r.accepted_event = {}
  /\ \E d \in r.validation_decision : d.action = "BLOCK"
  /\ r.admission_result = {}
  /\ r.stream_admission_result # {} => Admitted(r.stream_admission_result)

\* _validate_admission_rejected_result: owned by the stream, or by append.
RejectedShape(r) ==
  /\ Missed(r) /\ r.accepted_event = {} /\ r.stream_admission_result # {}
  /\ \/ /\ r.admission_result = {}
        /\ ~Admitted(r.stream_admission_result)
        /\ r.validation_decision # {} => Allowing(r)
     \/ /\ r.admission_result # {}
        /\ Admitted(r.stream_admission_result) /\ ~Admitted(r.admission_result)
        /\ \A p \in r.admission_result : p.accepted_event_id = {}
        /\ Allowing(r)

ResultShape(r) ==
  CASE r.outcome = "ACCEPTED"               -> AcceptedShape(r)
    [] r.outcome \in {"REPLAY", "CONFLICT"} -> ReplayOrConflictShape(r)
    [] r.outcome = "VALIDATION_BLOCKED"     -> BlockedShape(r)
    [] r.outcome = "ADMISSION_REJECTED"     -> RejectedShape(r)
    [] OTHER                                -> FALSE

----------------------------------------------------------------------------
(* _select_identity: every source of an identity, and the refusal of two   *)
(* sources that disagree.                                                  *)

AcceptedEvents(r) ==
  r.accepted_event \cup {i.accepted_event : i \in r.idempotency_decision.record}

SelectedIdentity(r) ==
  [order_id |-> {e.order_id : e \in AcceptedEvents(r)}
                \cup {i.signature.order_id : i \in r.idempotency_decision.record}
                \cup {s.order_id : s \in r.stream_admission_result},
   request_id |-> {e.request_id : e \in AcceptedEvents(r)}
                  \cup {i.signature.request_id : i \in r.idempotency_decision.record},
   candidate_event_id |-> {d.candidate_event_id : d \in r.validation_decision}
                          \cup {p.candidate_event_id : p \in r.admission_result},
   accepted_event_id |-> {e.event_id : e \in AcceptedEvents(r)}]

\* _select_consistent_string and _select_consistent_uuid
Consistent(identity) == \A field \in DOMAIN identity : Cardinality(identity[field]) <= 1

\* _validate_accepted_identity: the admitted candidate is the event returned.
AcceptedIdentity(r, identity) ==
  /\ identity.candidate_event_id # {} /\ identity.accepted_event_id # {}
  /\ identity.candidate_event_id = identity.accepted_event_id
  /\ \A p \in r.admission_result : p.accepted_event_id = identity.accepted_event_id

----------------------------------------------------------------------------
(* What the receipt says.                                                  *)

\* _subject_for_result and _candidate_subject
Subject(r, identity) ==
  CASE r.outcome \in {"ACCEPTED", "REPLAY"} ->
         [type |-> "ACCEPTED_EVENT", id |-> identity.accepted_event_id]
    [] r.outcome = "CONFLICT" -> [type |-> "REQUEST", id |-> identity.request_id]
    [] r.outcome = "ADMISSION_REJECTED" /\ identity.candidate_event_id = {} ->
         [type |-> "ORDER", id |-> identity.order_id]
    [] OTHER -> [type |-> "CANDIDATE_EVENT", id |-> identity.candidate_event_id]

\* _identity_source_for_result
IdentitySource(r, identity) ==
  CASE r.outcome \in {"ACCEPTED", "REPLAY"} -> "ACCEPTED_HISTORY"
    [] r.outcome = "CONFLICT"               -> "WRITE_SIDE_CORRELATION"
    [] r.outcome = "ADMISSION_REJECTED" /\ identity.candidate_event_id = {} ->
         "WRITE_SIDE_CORRELATION"
    [] OTHER -> "CANDIDATE_EVENT_IDENTITY"

\* A mistake: an event that is found in accepted history is taken for a match.
AdmissionIsMatch(r) ==
  CASE r.outcome \in {"ACCEPTED", "REPLAY"} -> "MATCHED_EXISTING_ACCEPTED_EVENT"
    [] r.outcome = "CONFLICT"               -> "IDEMPOTENCY_CONFLICT_WITH_ACCEPTED_HISTORY"
    [] r.outcome = "VALIDATION_BLOCKED"     -> "SEMANTIC_ADMISSION_REJECTED"
    [] OTHER                                -> "APPEND_ADMISSION_NOT_REACHED"

\* _admission_disposition_for_result
AdmissionDisposition(r) ==
  CASE r.outcome = "ACCEPTED"           -> "ADMITTED_TO_ACCEPTED_HISTORY"
    [] r.outcome = "REPLAY"             -> "MATCHED_EXISTING_ACCEPTED_EVENT"
    [] r.outcome = "CONFLICT"           -> "IDEMPOTENCY_CONFLICT_WITH_ACCEPTED_HISTORY"
    [] r.outcome = "VALIDATION_BLOCKED" -> "SEMANTIC_ADMISSION_REJECTED"
    [] OTHER -> IF r.admission_result = {} THEN "APPEND_ADMISSION_NOT_REACHED"
                ELSE IF \E p \in r.admission_result : p.verdict = "STALE_WRITE"
                THEN "APPEND_CONCURRENCY_CONFLICT" ELSE "APPEND_TECHNICAL_FAILURE"

\* _owned_rejection_verdict: of the phase that rejected the attempt.
OwnedRejectionVerdict(r) ==
  (CHOOSE p \in IF r.admission_result # {} THEN r.admission_result
                ELSE r.stream_admission_result : TRUE).verdict

\* _technical_status_for_result: the status selection of the semantic outcome
\* once more, from the mapper's own reading of the result.
MirroredStatus(r) ==
  CASE r.outcome = "ACCEPTED"           -> "WRITE_SIDE_ACCEPTED"
    [] r.outcome = "REPLAY"             -> "IDEMPOTENT_REPLAY"
    [] r.outcome = "CONFLICT"           -> "IDEMPOTENCY_CONFLICT"
    [] r.outcome = "VALIDATION_BLOCKED" -> "COMPASS_VALIDATION_BLOCKED"
    [] OTHER -> CASE OwnedRejectionVerdict(r) = "STALE_WRITE"  -> "CONCURRENT_STATE_STALENESS"
                  [] OwnedRejectionVerdict(r) = "LOCK_TIMEOUT" -> "LOCK_TIMEOUT"
                  [] OTHER -> "WRITE_SIDE_INFRASTRUCTURE_ERROR"

\* _lifecycle_phase_for_result
LifecyclePhase(r) ==
  CASE r.outcome = "ACCEPTED"               -> "ACCEPTED_HISTORY"
    [] r.outcome \in {"REPLAY", "CONFLICT"} -> "IDEMPOTENCY_CHECK"
    [] r.outcome = "VALIDATION_BLOCKED"     -> "VALIDATION"
    [] OTHER -> IF r.admission_result = {} THEN "STREAM_PREPARATION" ELSE "APPEND_ADMISSION"

\* _evidence_summary_for_result; absent parts leave no key.
EvidenceSummary(r) ==
  [technical_status |-> MirroredStatus(r), write_side_outcome |-> r.outcome,
   idempotency_verdict |-> r.idempotency_decision.verdict, lifecycle_phase |-> LifecyclePhase(r),
   stream_admission_verdict |-> {s.verdict : s \in r.stream_admission_result},
   validation_action |-> {d.action : d \in r.validation_decision},
   append_admission_verdict |-> {p.verdict : p \in r.admission_result}]

\* The one value of an identity, or NoEvent.
OneOrNone(ids) == IF ids = {} THEN NoEvent ELSE CHOOSE i \in ids : TRUE

\* The receipt a result is turned into, under the identity it is given.
MappedReceipts(r, receipt_id) ==
  {[receipt_id |-> receipt_id, evidence_source |-> "WRITE_SIDE_ADMISSION",
    semantic_code |-> outcome.semantic_code,
    subject |-> Subject(r, identity), identity_source |-> IdentitySource(r, identity),
    candidate_event_id |-> OneOrNone(identity.candidate_event_id),
    accepted_event_id |-> OneOrNone(identity.accepted_event_id),
    disposition |-> AdmissionDisposition(r), evidence_summary |-> EvidenceSummary(r)] :
     outcome \in SemanticOutcomes(r),
     identity \in {i \in {SelectedIdentity(x) : x \in {y \in {r} : ResultShape(y)}} :
                     /\ Consistent(i)
                     /\ r.outcome = "ACCEPTED" => AcceptedIdentity(r, i)
                     /\ Subject(r, i).id # {}}}
=============================================================================
