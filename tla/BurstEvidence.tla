---------------------------- MODULE BurstEvidence ----------------------------
(***************************************************************************)
(* The concurrency experiments: lanes released together create the same    *)
(* order, or one order each, under requests of their own, every lane with  *)
(* a measured writer of the same composition.  After the burst each lane's *)
(* delivery becomes a record, which is classified into a cohort and        *)
(* compared with a frozen matrix of phase states, and durable history is   *)
(* compared with what the lanes were told.                                 *)
(*                                                                         *)
(* Nothing here has state: a burst is any set of invocations of the write  *)
(* side that satisfies what the harness prepares.  Start offsets and       *)
(* elapsed times are left out, and with them the checks about them.        *)
(***************************************************************************)
EXTENDS WriteSideMeasurement

\* Composition, and the writers the harness builds for it.
Compositions ==
  [PRE_OCC        |-> [placement |-> "PRE_TRANSACTION", gate |-> "optimistic",
                       validator |-> "FullProof"],
   IN_PESSIMISTIC |-> [placement |-> "IN_TRANSACTION", gate |-> "pessimistic",
                       validator |-> "FullProof"]]

Lanes == {w \in Invocations : pc[w] # "new"}

\* prepare_invocation_specs: one composition for all lanes, a request_id for
\* each, and one order for all or one for each.
Burst ==
  /\ \E name \in DOMAIN Compositions : \A w \in Lanes : ConfigOf(w) = Compositions[name]
  /\ \A w, x \in Lanes : w # x => CommandOf(w).request_id # CommandOf(x).request_id
  /\ \A w \in Lanes : CommandOf(w).command_type = "create"
  /\ Cardinality({CommandOf(w).order_id : w \in Lanes}) \in {1, Cardinality(Lanes)}

CompositionOf(w) == CHOOSE name \in DOMAIN Compositions : ConfigOf(w) = Compositions[name]

Scenario ==
  CASE Cardinality(Lanes) = 1 -> "A_UNCONTENDED"
    [] Cardinality(Lanes) > 1 /\ Cardinality({CommandOf(w).order_id : w \in Lanes}) = 1 ->
         "B_SAME_ORDER"
    [] OTHER -> "C_DIFFERENT_ORDER"

----------------------------------------------------------------------------
(* The record of a lane.                                                   *)

VerdictOf(part) == {p.verdict : p \in part}

\* _rejection_stage
RejectionStage(r) ==
  CASE r.outcome # "ADMISSION_REJECTED" -> {}
    [] r.outcome = "ADMISSION_REJECTED" /\ r.admission_result # {} -> {"append"}
    [] r.outcome = "ADMISSION_REJECTED" /\ r.admission_result = {}
       /\ r.stream_admission_result # {} -> {"prepare_stream"}
    [] OTHER -> {}

\* classify_cohort: the three retained cohorts; an exception otherwise.
classify_cohort(outcome, stage, stream_verdict, append_verdict) ==
  {cohort \in {"ACCEPTED", "APPEND_STALE_WRITE", "PREPARE_LOCK_TIMEOUT"} :
     <<outcome, stage, stream_verdict, append_verdict>> =
       CASE cohort = "ACCEPTED" -> <<"ACCEPTED", {}, {"ADMITTED"}, {"ADMITTED"}>>
         [] cohort = "APPEND_STALE_WRITE" ->
              <<"ADMISSION_REJECTED", {"append"}, {"ADMITTED"}, {"STALE_WRITE"}>>
         [] cohort = "PREPARE_LOCK_TIMEOUT" ->
              <<"ADMISSION_REJECTED", {"prepare_stream"}, {"LOCK_TIMEOUT"}, {}>>}

\* invocation_record_from_timed_observation for a lane that returned.
InvocationRecord(w, lost) ==
  LET r == PostgresWriteSideResult(w)
  IN  [composition |-> CompositionOf(w),
       cohort |-> classify_cohort(r.outcome, RejectionStage(r),
                                  VerdictOf(r.stream_admission_result),
                                  VerdictOf(r.admission_result)),
       measurement_availability |-> Delivery(w, lost).availability,
       phases |-> Delivery(w, lost).measurement]

----------------------------------------------------------------------------
(* The bounded-concurrency experiment.                                     *)

Matrix(not_applicable, not_reached) ==
  [phase \in Phases |-> CASE phase \in not_applicable -> "NOT_APPLICABLE"
                          [] phase \in not_reached -> "NOT_REACHED"
                          [] OTHER -> "MEASURED"]

\* What each composition is expected to have gone through, by cohort.
EXPECTED_PHASE_STATE_MATRICES ==
  [PRE_OCC |->
     [ACCEPTED           |-> Matrix({TryLock}, {"rollback_finalization"}),
      APPEND_STALE_WRITE |-> Matrix({TryLock}, {"idempotency_record_call", "commit_finalization"})],
   IN_PESSIMISTIC |->
     [ACCEPTED             |-> Matrix(PreliminaryPhases, {"rollback_finalization"}),
      PREPARE_LOCK_TIMEOUT |-> Matrix(PreliminaryPhases,
        {"validation_runtime_call", "accepted_history_load", "append_admission_call",
         "idempotency_record_call", "commit_finalization"})]]

\* _invocation_evidence_issues of a normal return; an exception is an issue
\* of its own.
InvocationEvidenceIssues(record) ==
  LET expected == EXPECTED_PHASE_STATE_MATRICES[record.composition]
  IN  {issue \in {"UNSUPPORTED_OUTCOME", "UNSUPPORTED_COMPOSITION_COHORT",
                  "UNSUPPORTED_WORKLOAD_COHORT", "MEASUREMENT_UNAVAILABLE",
                  "PHASE_STATE_MISMATCH"} :
         CASE issue = "UNSUPPORTED_OUTCOME" -> record.cohort = {}
           [] issue = "UNSUPPORTED_COMPOSITION_COHORT" ->
                ~(record.cohort \subseteq DOMAIN expected)
           [] issue = "UNSUPPORTED_WORKLOAD_COHORT" ->
                /\ record.cohort \subseteq DOMAIN expected
                /\ Scenario = "C_DIFFERENT_ORDER" /\ ~(record.cohort \subseteq {"ACCEPTED"})
           [] issue = "MEASUREMENT_UNAVAILABLE" ->
                record.measurement_availability # "AVAILABLE"
           [] issue = "PHASE_STATE_MISMATCH" ->
                \E c \in record.cohort \cap DOMAIN expected : \E m \in record.phases :
                  m # expected[c]}

\* _verify_postgres_observation, once every lane has stopped.
ObservationVerified(w) ==
  LET r == PostgresWriteSideResult(w)
      history == {s.event : s \in {t \in order_events : t.event.order_id = CommandOf(w).order_id}}
  IN  IF r.outcome = "ACCEPTED"
      THEN /\ r.validation_decision # {}
           /\ \A e \in r.accepted_event :
                /\ e.request_id = CommandOf(w).request_id /\ e.sequence = 1
                /\ e.amount = normalize_money(CommandOf(w).amount)
           /\ history = r.accepted_event
      ELSE \A e \in history : e.request_id # CommandOf(w).request_id

----------------------------------------------------------------------------
(* The strategy comparison.                                                *)

\* _cohort_allowed_for_scenario
CohortAllowedForScenario(scenario, record) ==
  record.cohort \subseteq
    CASE scenario \in {"A_UNCONTENDED", "C_DIFFERENT_ORDER"} -> {"ACCEPTED"}
      [] scenario = "B_SAME_ORDER" /\ record.composition = "PRE_OCC" ->
           {"ACCEPTED", "APPEND_STALE_WRITE"}
      [] OTHER -> {"ACCEPTED", "PREPARE_LOCK_TIMEOUT"}

\* REQUIRED_MEASURED_PHASES
REQUIRED_MEASURED_PHASES ==
  LET rejected == {"idempotency_record_call", "commit_finalization"}
  IN  [PRE_OCC |->
         [ACCEPTED           |-> Phases \ {TryLock, "rollback_finalization"},
          APPEND_STALE_WRITE |-> Phases \ ({TryLock} \cup rejected)],
       IN_PESSIMISTIC |->
         [ACCEPTED             |-> Phases \ (PreliminaryPhases \cup {"rollback_finalization"}),
          PREPARE_LOCK_TIMEOUT |->
            {"producer_write_invocation", "business_uow", "authoritative_idempotency_check",
             "concurrency_preparation_call", TryLock, "rollback_finalization"}]]

\* validate_recorded_run, as far as it judges one measured sample.
SampleIssues(record) ==
  LET required == REQUIRED_MEASURED_PHASES[record.composition]
  IN  {issue \in {"UNSUPPORTED_OUTCOME", "UNEXPECTED_SCENARIO_COHORT",
                  "MEASUREMENT_UNAVAILABLE", "REQUIRED_PHASE_NOT_COLLECTED"} :
         CASE issue = "UNSUPPORTED_OUTCOME" -> record.cohort = {}
           [] issue = "UNEXPECTED_SCENARIO_COHORT" -> ~CohortAllowedForScenario(Scenario, record)
           [] issue = "MEASUREMENT_UNAVAILABLE" ->
                record.measurement_availability # "AVAILABLE"
           [] issue = "REQUIRED_PHASE_NOT_COLLECTED" ->
                \E c \in record.cohort \cap DOMAIN required : \E m \in record.phases :
                  \E phase \in required[c] : m[phase] # "MEASURED"}

----------------------------------------------------------------------------
\* A statement that waited too long for a rival's row: a rejection at append
\* that neither experiment retains.
AppendTimedOut(w) == result[w].verdict = "LOCK_TIMEOUT" /\ AppendReached(w)

\* The lock was held by a lane of another order with the same lock key, which
\* the hash of the order does not exclude.
LockedOutByCollision(w) ==
  /\ result[w].verdict = "LOCK_TIMEOUT" /\ ~AppendReached(w)
  /\ \E x \in Lanes : /\ CommandOf(x).order_id # CommandOf(w).order_id
                      /\ StreamKey[CommandOf(x).order_id] = StreamKey[CommandOf(w).order_id]

\* The frozen expectations of both experiments fit every race.  However the
\* lanes of a burst interleave, fail and lose acknowledgements, a lane that
\* returns has a retained cohort and valid evidence in both experiments, except
\* when its own INSERT timed out or the lock keys of two orders collide; when
\* all lanes have stopped, durable history is what each lane was told; and
\* evidence that lost a reading never passes.
BurstEvidenceIsValid ==
  Burst =>
    \A w \in Lanes : ReturnedNormally(w) =>
      /\ LET record == InvocationRecord(w, {})
         IN  (InvocationEvidenceIssues(record) \cup SampleIssues(record) # {})
               = (AppendTimedOut(w) \/ LockedOutByCollision(w))
      /\ \A lost \in ClockFailures \ {{}} :
           LET record == InvocationRecord(w, lost)
           IN  InvocationEvidenceIssues(record) # {} /\ SampleIssues(record) # {}
      /\ (\A x \in Lanes : pc[x] = "done") => ObservationVerified(w)
=============================================================================
