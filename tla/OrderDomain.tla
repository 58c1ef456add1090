---------------------------- MODULE OrderDomain ----------------------------
(***************************************************************************)
(* The order domain: money, commands, events, the aggregate and the        *)
(* FullProof transition validator (src/src/core, src/src/compass/          *)
(* transition).  Everything here is a pure operator; the processes that    *)
(* call it are in the other modules.                                       *)
(*                                                                         *)
(* A raw amount is an integer number of thousandths (what a caller may     *)
(* pass as Decimal("0.014") is 14); a normalized amount is an integer      *)
(* number of cents, the two decimal places of MONEY_QUANT.                 *)
(***************************************************************************)
EXTENDS Integers, Sequences, FiniteSets, FiniteSetsExt

CONSTANT NoEvent      \* Python's None where an event identity is optional

EventTypes   == {"CREATED", "PAID"}
OrderStatuses == {"INIT", "CREATED", "PAID"}
CommandTypes == {"create", "pay"}

----------------------------------------------------------------------------
(* Money.                                                                  *)

\* A mistake: ROUND_HALF_UP.
HalfUpCents(m) == (m + 5) \div 10

\* quantize(0.01, ROUND_HALF_EVEN) of a non-negative raw amount.
HalfEvenCents(m) ==
  LET q == m \div 10
      r == m % 10
  IN  IF r < 5 \/ (r = 5 /\ q % 2 = 0) THEN q ELSE q + 1

\* Rounding is symmetric around zero, so a negative amount rounds as its
\* absolute value does.
normalize_money(m) == IF m < 0 THEN -HalfEvenCents(-m) ELSE HalfEvenCents(m)

\* ensure_positive_money raises unless this holds.
IsPositiveMoney(m) == normalize_money(m) > 0

----------------------------------------------------------------------------
(* The aggregate.                                                          *)

StatusAfter(type) == IF type = "CREATED" THEN "CREATED" ELSE "PAID"

NewAggregate(o) ==
  [order_id |-> o, current_version |-> 0, status |-> "INIT",
   total_amount |-> 0, paid_amount |-> 0, last_event_id |-> NoEvent]

\* A mistake: apply does not compare sequences.
CanApplyAnySequence(a, e) == e.order_id = a.order_id

\* apply(event) raises unless the event is for this order and exactly next.
CanApply(a, e) == e.order_id = a.order_id /\ e.sequence = a.current_version + 1

apply(a, e) ==
  [a EXCEPT !.status          = StatusAfter(e.event_type),
            !.total_amount    = IF e.event_type = "CREATED" THEN e.amount ELSE @,
            !.paid_amount     = IF e.event_type = "PAID" THEN e.amount ELSE @,
            !.current_version = e.sequence,
            !.last_event_id   = e.event_id]

\* The rows of one stream as ORDER BY sequence ASC returns them: the n-th row
\* has exactly n rows at or below it.
InSequenceOrder(S) ==
  [n \in 1..Cardinality(S) |->
     CHOOSE e \in S : Cardinality({f \in S : f.sequence <= e.sequence}) = n]

\* Replaying the history through apply raises at no event.
Rehydratable(o, history) ==
  \A n \in 1..Len(history) : history[n].order_id = o /\ history[n].sequence = n

\* The amount of the last event of a type, zero when there is none.
LastAmount(history, type) ==
  LET found == {n \in 1..Len(history) : history[n].event_type = type}
  IN  IF found = {} THEN 0 ELSE history[Max(found)].amount

\* A mistake: apply forgets to remember the event it applied.
RehydrateForgetsLastEvent(o, history) ==
  LET n == Len(history)
  IN  [order_id        |-> o,
       current_version |-> IF n = 0 THEN 0 ELSE history[n].sequence,
       status          |-> IF n = 0 THEN "INIT"
                                    ELSE StatusAfter(history[n].event_type),
       total_amount    |-> LastAmount(history, "CREATED"),
       paid_amount     |-> LastAmount(history, "PAID"),
       last_event_id   |-> NoEvent]

\* What replaying a rehydratable history through apply leaves behind: each
\* field is the one the last event that assigns it assigned.
Rehydrate(o, history) ==
  LET n == Len(history)
  IN  [order_id        |-> o,
       current_version |-> IF n = 0 THEN 0 ELSE history[n].sequence,
       status          |-> IF n = 0 THEN "INIT"
                                    ELSE StatusAfter(history[n].event_type),
       total_amount    |-> LastAmount(history, "CREATED"),
       paid_amount     |-> LastAmount(history, "PAID"),
       last_event_id   |-> IF n = 0 THEN NoEvent ELSE history[n].event_id]

\* create(...) and pay(...) return a candidate exactly when this holds and
\* raise otherwise.
IsLegal(a, c) ==
  /\ IsPositiveMoney(c.amount)
  /\ IF c.command_type = "create"
     THEN a.status = "INIT"
     ELSE /\ a.status = "CREATED"
          /\ normalize_money(c.amount) = a.total_amount

\* A mistake: the candidate repeats the current version.
CandidateEventOffByOne(a, c, id) ==
  [event_id   |-> id,
   request_id |-> c.request_id,
   order_id   |-> a.order_id,
   sequence   |-> a.current_version,
   event_type |-> IF c.command_type = "create" THEN "CREATED" ELSE "PAID",
   amount     |-> normalize_money(c.amount),
   proof      |-> [prev_status   |-> a.status,
                   prev_version  |-> a.current_version,
                   prev_event_id |-> a.last_event_id]]

\* The candidate event, its proof taken from the aggregate's own state.
CandidateEvent(a, c, id) ==
  [event_id   |-> id,
   request_id |-> c.request_id,
   order_id   |-> a.order_id,
   sequence   |-> a.current_version + 1,
   event_type |-> IF c.command_type = "create" THEN "CREATED" ELSE "PAID",
   amount     |-> normalize_money(c.amount),
   proof      |-> [prev_status   |-> a.status,
                   prev_version  |-> a.current_version,
                   prev_event_id |-> a.last_event_id]]

\* build_semantic_fingerprint: the payload with its amount made canonical,
\* without the request_id it is looked up by.
semantic_fingerprint(c) == <<c.command_type, c.order_id, normalize_money(c.amount)>>

\* What PostgresIdempotencyStore.record remembers of an accepted request.
IdempotencyRow(c, e) ==
  [request_id |-> c.request_id, semantic_fingerprint |-> semantic_fingerprint(c),
   accepted_event_id |-> e.event_id, result_sequence |-> e.sequence]

----------------------------------------------------------------------------
(* Compass layer 1: the FullProof validator and the validation runtime.    *)

\* The accepted-history facts a candidate is compared with.
ValidationContext(a, history) ==
  [actual_prev_event_id |-> IF history = <<>> THEN NoEvent
                            ELSE history[Len(history)].event_id,
   actual_prev_version  |-> a.current_version,
   actual_prev_status   |-> a.status]

REQUIRED_PREV_STATUS_BY_EVENT_TYPE == [CREATED |-> "INIT", PAID |-> "CREATED"]

\* A mistake: the candidate is compared with itself and not with history.
RulesTrustTheProof(e, ctx) ==
  << e.sequence = e.proof.prev_version + 1,
     e.proof.prev_event_id = ctx.actual_prev_event_id,
     e.proof.prev_version = ctx.actual_prev_version,
     e.proof.prev_status = ctx.actual_prev_status,
     e.event_type \in EventTypes,
     /\ e.event_type \in EventTypes
     /\ ctx.actual_prev_status = REQUIRED_PREV_STATUS_BY_EVENT_TYPE[e.event_type] >>

\* The rules of FullProofValidator._validate, in the order it tries them.
FullProofRules(e, ctx) ==
  << e.sequence = ctx.actual_prev_version + 1,
     e.proof.prev_event_id = ctx.actual_prev_event_id,
     e.proof.prev_version = ctx.actual_prev_version,
     e.proof.prev_status = ctx.actual_prev_status,
     e.event_type \in EventTypes,
     /\ e.event_type \in EventTypes
     /\ ctx.actual_prev_status = REQUIRED_PREV_STATUS_BY_EVENT_TYPE[e.event_type] >>

\* The one rule whose branch terminates the validation, 0 when all hold.
ObservedViolation(e, ctx) ==
  LET failed == {i \in 1..6 : ~FullProofRules(e, ctx)[i]}
  IN  IF failed = {} THEN 0 ELSE Min(failed)

\* ValidationRuntime.decide allows whatever the selected validator does not
\* fail.  A runtime substituted by the caller may answer either way.
AllowedDecisions(validator, e, ctx) ==
  CASE validator = "FullProof"  -> {ObservedViolation(e, ctx) = 0}
    [] validator = "NoOp"       -> {TRUE}
    [] validator = "Substitute" -> BOOLEAN
=============================================================================
