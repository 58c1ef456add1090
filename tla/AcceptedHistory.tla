-------------------------- MODULE AcceptedHistory --------------------------
(***************************************************************************)
(* What the transactional write side promises, without transactions,       *)
(* locks, placements or failures: commands are accepted one at a time,     *)
(* each against the history as it is at that moment, each request at most  *)
(* once, and accepting appends the event and remembers the request in one  *)
(* step.                                                                   *)
(***************************************************************************)
EXTENDS OrderDomain

CONSTANTS Orders, Commands, EventIds

VARIABLES
  history,  \* the accepted events of each order, oldest first
  memory    \* the idempotency record of every accepted request

vars == <<history, memory>>

Init == history = [o \in Orders |-> <<>>] /\ memory = {}

Fresh(id) == \A o \in Orders : \A n \in 1..Len(history[o]) : history[o][n].event_id # id

Remembers(records, c) == \E i \in records : i.request_id = c.request_id

\* The second conjunct follows from the last; it comes first because it is what
\* most steps of an implementation fail.
Accept(c, id) ==
  LET a == Rehydrate(c.order_id, history[c.order_id])
      e == CandidateEvent(a, c, id)
  IN  /\ ~Remembers(memory, c)
      /\ Remembers(memory', c)
      /\ Fresh(id)
      /\ IsLegal(a, c)
      /\ history' = [history EXCEPT ![c.order_id] = Append(@, e)]
      /\ memory'  = memory \cup {IdempotencyRow(c, e)}

Next == \E c \in Commands, id \in EventIds : Accept(c, id)

Spec == Init /\ [][Next]_vars
=============================================================================
