------------------------ MODULE WriteSideMeasurement ------------------------
(***************************************************************************)
(* The measured variants of create_order and pay_order.  The recorder of   *)
(* an invocation keeps, for each of thirteen phases, whether the phase     *)
(* belongs to the composition, whether it was entered and how long it      *)
(* took; after a normal return the readings become an immutable snapshot,  *)
(* whose constructor compares them with the paths the write side is        *)
(* supposed to have.  A snapshot that cannot be built leaves the result    *)
(* alone and is delivered as unavailable.                                  *)
(*                                                                         *)
(* Elapsed times are abstracted to whether there is one.  A clock that     *)
(* raises, returns something else than an int or runs backwards during a   *)
(* phase loses the reading of that phase: lost is the set of those phases. *)
(***************************************************************************)
EXTENDS WriteSideResult

PreliminaryPhases == {"preliminary_idempotency_check", "preliminary_read_cleanup"}
TryLock == "pessimistic_advisory_try_lock_call"

\* The phases that enclose exactly one traced call, and its checkpoint: both
\* instruments surround the same call, which has returned.
TracedCall ==
  [validation_runtime_call         |-> "VALIDATION_RETURNED",
   preliminary_idempotency_check   |-> "PRELIMINARY_IDEMPOTENCY_CHECK_RETURNED",
   authoritative_idempotency_check |-> "AUTHORITATIVE_IDEMPOTENCY_CHECK_RETURNED",
   accepted_history_load           |-> "ACCEPTED_HISTORY_OBSERVED",
   concurrency_preparation_call    |-> "CONCURRENCY_PREPARATION_RETURNED",
   append_admission_call           |-> "APPEND_ADMISSION_RETURNED",
   idempotency_record_call         |-> "IDEMPOTENCY_PERSISTENCE_RETURNED"]

Phases ==
  DOMAIN TracedCall \cup
  {"producer_write_invocation", "business_uow", "preliminary_read_cleanup", TryLock,
   "commit_finalization", "rollback_finalization"}

----------------------------------------------------------------------------
(* The recorder, as the normal return of invocation w leaves it.           *)

\* A mistake: the rollback that ends the preliminary read is taken for the
\* finalization of a unit of work.
FinalizationOfAnyRollback(w, phase) ==
  IF phase = "commit_finalization" THEN result[w].outcome = "ACCEPTED"
  ELSE result[w].outcome # "ACCEPTED"

\* _MeasuredPostgresWriteSideUnitOfWork.commit and rollback: the unit of work
\* commits what it accepts and rolls back every other result.
Finalized(w, phase) ==
  IF phase = "commit_finalization" THEN result[w].outcome = "ACCEPTED"
  ELSE Reached(w, "BUSINESS_UOW_REACHED") /\ result[w].outcome # "ACCEPTED"

\* start: the phase was entered.
Entered(w, phase) ==
  CASE phase \in DOMAIN TracedCall -> Reached(w, TracedCall[phase])
    [] phase = "producer_write_invocation" -> TRUE
    [] phase = "business_uow" -> Reached(w, "BUSINESS_UOW_REACHED")
    [] phase = "preliminary_read_cleanup" -> IsPre(w)
    [] phase = TryLock -> /\ ConfigOf(w).gate = "pessimistic"
                          /\ Reached(w, "CONCURRENCY_PREPARATION_RETURNED")
    [] OTHER -> Finalized(w, phase)

InitialApplicability(placement, phase) ==
  CASE phase \in PreliminaryPhases -> placement = "PRE_TRANSACTION"
    [] phase = TryLock -> placement = "IN_TRANSACTION"
    [] OTHER -> TRUE

\* A mistake: the gate that the factory returned is not looked at.
ApplicableByPlacement(w, phase) ==
  Entered(w, phase) \/ InitialApplicability(ConfigOf(w).placement, phase)

\* Applicability by placement, which start and, for the try-lock, the concrete
\* gate overrule once the preparation is reached.
Applicable(w, phase) ==
  \/ Entered(w, phase)
  \/ /\ InitialApplicability(ConfigOf(w).placement, phase)
     /\ ~(phase = TryLock /\ Reached(w, "CONCURRENCY_PREPARATION_RETURNED"))

\* _phase_measurement
PhaseMeasurement(w, phase, lost) ==
  CASE ~Applicable(w, phase) -> "NOT_APPLICABLE"
    [] Applicable(w, phase) /\ ~Entered(w, phase) -> "NOT_REACHED"
    [] Entered(w, phase) /\ phase \in lost -> "NOT_COLLECTED"
    [] OTHER -> "MEASURED"

\* _build_measurement
Measurement(w, lost) == [phase \in Phases |-> PhaseMeasurement(w, phase, lost)]

----------------------------------------------------------------------------
(* The snapshot and its delivery.                                          *)

WasReached(m, phase) == m[phase] \in {"NOT_COLLECTED", "MEASURED"}

\* _require_parent_reached: the phase that must have been entered before.
ParentPhase ==
  [validation_runtime_call         |-> "accepted_history_load",
   authoritative_idempotency_check |-> "business_uow",
   concurrency_preparation_call    |-> "authoritative_idempotency_check",
   pessimistic_advisory_try_lock_call |-> "concurrency_preparation_call",
   append_admission_call           |-> "concurrency_preparation_call",
   idempotency_record_call         |-> "append_admission_call",
   commit_finalization             |-> "idempotency_record_call",
   rollback_finalization           |-> "business_uow"]

\* PostgresWriteSideMeasurement.__post_init__
Constructs(m) ==
  /\ m["producer_write_invocation"] = "MEASURED"
  /\ WasReached(m, "preliminary_idempotency_check") = WasReached(m, "preliminary_read_cleanup")
  /\ \A phase \in DOMAIN ParentPhase : WasReached(m, phase) => WasReached(m, ParentPhase[phase])
  /\ WasReached(m, "business_uow")
       = (WasReached(m, "commit_finalization") \/ WasReached(m, "rollback_finalization"))
  /\ ~(WasReached(m, "commit_finalization") /\ WasReached(m, "rollback_finalization"))

\* PostgresWriteSideMeasurementDelivery: available with a snapshot, or not.
MeasurementDelivery(snapshot) ==
  [availability |-> IF snapshot = {} THEN "UNAVAILABLE" ELSE "AVAILABLE", measurement |-> snapshot]

\* build_delivery
Delivery(w, lost) == MeasurementDelivery({m \in {Measurement(w, lost)} : Constructs(m)})

----------------------------------------------------------------------------
\* The clock is sound, fails for the whole invocation, or fails for
\* everything but the whole invocation.
ClockFailures ==
  {{}, {"producer_write_invocation"}, Phases \ {"producer_write_invocation"}}

ReturnedNormally(w) == result[w].outcome \notin {"none", "RAISED"}

\* The compositions the measured calls are documented for.
SupportedComposition(w) ==
  (ConfigOf(w).placement = "IN_TRANSACTION") = (ConfigOf(w).gate = "pessimistic")

\* Whatever path the races with other invocations send a call along, its
\* measurement is there whenever the clock read the whole invocation: the
\* topology that the constructor demands and the paths of the write side,
\* which are written apart, agree.
MeasurementSurvivesEveryPath ==
  \A w \in Invocations : ReturnedNormally(w) =>
    \A lost \in ClockFailures :
      (Delivery(w, lost).availability = "AVAILABLE")
        = ("producer_write_invocation" \notin lost)

\* A delivered measurement says what happened to the database and to which
\* composition.  The commit phase was entered by exactly the calls whose event
\* is accepted history.  A phase is not applicable exactly when the placement
\* or the gate has no such phase, in the documented compositions always and in
\* the others once the concrete gate has been seen.
MeasurementTellsTheTruth ==
  \A w \in Invocations : ReturnedNormally(w) =>
    \A lost \in ClockFailures : \A m \in Delivery(w, lost).measurement :
      /\ WasReached(m, "commit_finalization") = (EventsNamed({w}) # {})
      /\ SupportedComposition(w) \/ WasReached(m, "concurrency_preparation_call") =>
           {phase \in Phases : m[phase] = "NOT_APPLICABLE"}
             = (IF IsPre(w) THEN {} ELSE PreliminaryPhases)
               \cup (IF ConfigOf(w).gate = "optimistic" THEN {TryLock} ELSE {})
=============================================================================
