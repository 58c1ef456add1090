--------------------------- MODULE DecisionReceipt ---------------------------
(***************************************************************************)
(* DecisionReceipt payloads and the constraints on their rows.  A payload  *)
(* is compared as a whole; of its fields the ones that constraints and     *)
(* lookups use are kept.                                                   *)
(***************************************************************************)
CONSTANT NoEvent  \* an absent event identity

EventAdmissionDispositions ==
  {"ADMITTED_TO_ACCEPTED_HISTORY", "MATCHED_EXISTING_ACCEPTED_EVENT",
   "IDEMPOTENCY_CONFLICT_WITH_ACCEPTED_HISTORY", "SEMANTIC_ADMISSION_REJECTED",
   "APPEND_CONCURRENCY_CONFLICT", "APPEND_TECHNICAL_FAILURE",
   "COMMIT_OUTCOME_UNRESOLVED", "APPEND_ADMISSION_NOT_REACHED", "UNKNOWN"}

\* _validate_admission_evidence, and the CHECK that repeats it in the schema:
\* which event identities each admission fate must and must not carry.
validate_admission_evidence(r) ==
  LET has_candidate == r.candidate_event_id # NoEvent
      has_accepted  == r.accepted_event_id # NoEvent
  IN  CASE r.disposition = "ADMITTED_TO_ACCEPTED_HISTORY" ->
             has_candidate /\ has_accepted /\ r.candidate_event_id = r.accepted_event_id
        [] r.disposition \in {"MATCHED_EXISTING_ACCEPTED_EVENT",
                              "IDEMPOTENCY_CONFLICT_WITH_ACCEPTED_HISTORY"} -> has_accepted
        [] r.disposition \in {"SEMANTIC_ADMISSION_REJECTED", "APPEND_CONCURRENCY_CONFLICT",
                              "APPEND_TECHNICAL_FAILURE", "COMMIT_OUTCOME_UNRESOLVED"} ->
             has_candidate /\ ~has_accepted
        [] r.disposition = "APPEND_ADMISSION_NOT_REACHED" -> ~has_accepted
        [] OTHER -> TRUE

\* _admitted_write_side_accepted_event_id, and the predicate of the partial
\* unique index.
AdmittedWriteSide(r) ==
  /\ r.evidence_source = "WRITE_SIDE_ADMISSION"
  /\ r.disposition = "ADMITTED_TO_ACCEPTED_HISTORY"

\* The primary key and uq_decision_receipts_admitted_write_side_event.
Collide(r, s) ==
  \/ r.receipt_id = s.receipt_id
  \/ AdmittedWriteSide(r) /\ AdmittedWriteSide(s) /\ r.accepted_event_id = s.accepted_event_id

\* A row: the payload, and the persistence envelope, which names the call
\* that materialized it and takes no part in comparisons.
Row(r, p) == [receipt |-> r, by |-> p]
=============================================================================
