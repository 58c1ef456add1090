--------------------------- MODULE OrderAggregate ---------------------------
(***************************************************************************)
(* One OrderAggregate object: create and pay build candidate events from   *)
(* its state, apply is the only operation that changes it.  A candidate    *)
(* that has been built stays in the hands of its caller and may be applied *)
(* much later, or never; apply repeats none of the checks of create and    *)
(* pay.                                                                    *)
(***************************************************************************)
EXTENDS OrderDomain

CONSTANTS
  Order,     \* the order_id of the aggregate
  EventIds,  \* event identities; each is used for one candidate
  Commands   \* commands callers issue

ASSUME AggregateAssumption ==
  /\ NoEvent \notin EventIds
  /\ \A c \in Commands : c.command_type \in CommandTypes /\ c.amount \in Int

VARIABLES
  aggregate,   \* the fields of the object
  held,        \* candidate events that callers hold
  applied      \* the events applied so far, in order

aggregate_vars == <<aggregate, held, applied>>

AggregateInit ==
  /\ aggregate = NewAggregate(Order)
  /\ held = {}
  /\ applied = <<>>

\* create / pay: a candidate is built from the current state, which is left
\* alone; an illegal command raises and changes nothing.
Build(c, id) ==
  /\ \A e \in held : e.event_id # id
  /\ IsLegal(aggregate, c)
  /\ held' = held \cup {CandidateEvent(aggregate, c, id)}
  /\ UNCHANGED <<aggregate, applied>>

\* apply: any candidate may be offered, at any time, any number of times.
Apply(e) ==
  /\ CanApply(aggregate, e)
  /\ aggregate' = apply(aggregate, e)
  /\ applied' = Append(applied, e)
  /\ UNCHANGED held

AggregateNext ==
  \/ \E c \in Commands, id \in EventIds : Build(c, id)
  \/ \E e \in held : Apply(e)

AggregateSpec == AggregateInit /\ [][AggregateNext]_aggregate_vars

----------------------------------------------------------------------------
(* Properties.                                                             *)

\* apply checks only the order and the sequence, yet the aggregate lives one
\* legal life: it is created at most once, paid at most once and for exactly
\* what it was created with - because candidates built before another one was
\* applied no longer have the next sequence.  At every point of it the closed
\* form that the processes use for _rehydrate_aggregate_from_history equals the
\* object that applied the events one by one.
OneLegalLife ==
  /\ aggregate.status = "INIT" <=> applied = <<>>
  /\ Len(applied) = aggregate.current_version
  /\ aggregate.current_version <= 2
  /\ aggregate.status # "INIT" => applied[1].event_type = "CREATED"
                                  /\ aggregate.total_amount = applied[1].amount
                                  /\ aggregate.total_amount > 0
  /\ aggregate.status = "PAID" <=> Len(applied) = 2
  /\ aggregate.status = "PAID" => aggregate.paid_amount = aggregate.total_amount
  /\ Rehydratable(Order, applied) /\ Rehydrate(Order, applied) = aggregate

\* The FullProof validator separates fresh candidates from stale ones: judged
\* against the history applied so far it passes exactly the candidates built
\* on that very history, and blocks the others on its first rule, by sequence.
ValidatorSeparatesStale ==
  \A e \in held :
    LET rule == ObservedViolation(e, ValidationContext(aggregate, applied))
    IN  IF e.proof.prev_event_id = aggregate.last_event_id THEN rule = 0 ELSE rule = 1

\* A created order can be paid with exactly the raw amounts that are nearest to
\* its total, a tie belonging to the even cent: the canonical total accepts
\* itself, every other spelling of the request that created the order, and
\* nothing else - negative amounts and fractions of a cent included.
MoneyIsCanonical ==
  aggregate.status = "CREATED" =>
    \A c \in {d \in Commands : d.command_type = "pay"} :
      LET total == aggregate.total_amount
          off   == c.amount - 10 * total
      IN  IsLegal(aggregate, c) <=>
            off \in -4..4 \/ (off \in {-5, 5} /\ total % 2 = 0)
=============================================================================
