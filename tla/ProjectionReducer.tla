------------------------- MODULE ProjectionReducer -------------------------
(***************************************************************************)
(* The order projection reducer (src/src/pipeline/projection/reducer.py):  *)
(* what one accepted event does to the derived state of its order.  The    *)
(* workers, the replay validators and the snapshot resolver all use it.    *)
(***************************************************************************)
EXTENDS OrderDomain

build_empty_projection_state(o) ==
  [order_id |-> o, status |-> "INIT", total_amount |-> 0, paid_amount |-> 0, version |-> 0]

\* reduce_order_event raises unless this holds.
Reducible(s, e) ==
  /\ e.order_id = s.order_id
  /\ e.sequence = s.version + 1
  /\ s.status = REQUIRED_PREV_STATUS_BY_EVENT_TYPE[e.event_type]
  /\ e.event_type = "PAID" => e.amount = s.total_amount

reduce_order_event(s, e) ==
  [order_id     |-> s.order_id,
   status       |-> StatusAfter(e.event_type),
   total_amount |-> IF e.event_type = "CREATED" THEN e.amount ELSE s.total_amount,
   paid_amount  |-> IF e.event_type = "CREATED" THEN 0 ELSE e.amount,
   version      |-> e.sequence]

\* The loop `for event in events: state = reduce_order_event(state, event)`:
\* the states it passes through, up to the event it raises at.
ReplayStates(s, events) ==
  LET reach[n \in 0..Len(events)] ==
        IF n = 0 THEN <<s>>
        ELSE LET before == reach[n - 1]
                 last   == before[Len(before)]
             IN  IF Len(before) = n /\ Reducible(last, events[n])
                 THEN Append(before, reduce_order_event(last, events[n]))
                 ELSE before
  IN  reach[Len(events)]

\* The loop runs to its end.
Replays(s, events) == Len(ReplayStates(s, events)) = Len(events) + 1

\* The state it has reached when it ends or raises.
ReplayFrom(s, events) == LET states == ReplayStates(s, events) IN states[Len(states)]
=============================================================================
