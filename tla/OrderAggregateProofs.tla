------------------------ MODULE OrderAggregateProofs ------------------------
(***************************************************************************)
(* The proofs that an aggregate lives one legal life, that the FullProof   *)
(* validator tells stale candidates from fresh ones, and that half-even    *)
(* rounding leaves a payment no freedom, for any commands, amounts and     *)
(* number of candidates.                                                   *)
(***************************************************************************)
EXTENDS OrderAggregate, OrderDomainProofs

Create(e) ==
  /\ e.sequence = 1 /\ e.event_type = "CREATED"
  /\ e.proof.prev_version = 0 /\ e.proof.prev_status = "INIT"
  /\ e.proof.prev_event_id = NoEvent

\* A payment of the order that the event f created.
PaymentAfter(e, f) ==
  /\ e.sequence = 2 /\ e.event_type = "PAID" /\ e.amount = f.amount
  /\ e.proof.prev_version = 1 /\ e.proof.prev_status = "CREATED"
  /\ e.proof.prev_event_id = f.event_id

\* Every candidate, however long it has been held, was built on the empty
\* history or on the first event that was really applied; their identities are
\* distinct.
CandidatesInv ==
  /\ \A e \in held :
       /\ e.event_id \in EventIds /\ e.order_id = Order
       /\ e.amount \in Int /\ e.amount > 0
       /\ Create(e) \/ (applied # <<>> /\ PaymentAfter(e, applied[1]))
  /\ \A e, f \in held : e.event_id = f.event_id => e = f

Created(e) ==
  [order_id |-> Order, current_version |-> 1, status |-> "CREATED",
   total_amount |-> e.amount, paid_amount |-> 0, last_event_id |-> e.event_id]

Paid(e, f) ==
  [order_id |-> Order, current_version |-> 2, status |-> "PAID",
   total_amount |-> e.amount, paid_amount |-> f.amount, last_event_id |-> f.event_id]

AtInit == applied = <<>> /\ aggregate = NewAggregate(Order)
AtCreated(e) == applied = <<e>> /\ aggregate = Created(e) /\ Create(e)
AtPaid(e, f) ==
  applied = <<e, f>> /\ aggregate = Paid(e, f) /\ Create(e) /\ PaymentAfter(f, e)

\* The three points of a life.
LifeInv ==
  \/ AtInit
  \/ \E e \in held : AtCreated(e)
  \/ \E e, f \in held : AtPaid(e, f)

\* The inductive invariant.
IInv == CandidatesInv /\ LifeInv

----------------------------------------------------------------------------
(* Money.                                                                  *)

\* Half-even rounding: the raw amounts that become a positive total are the
\* ones within four thousandths of it and, for an even total, the two ties.
LEMMA HalfEvenIsNearest ==
  ASSUME NEW m \in Int, NEW total \in Int, total > 0
  PROVE  normalize_money(m) = total
           <=> m - 10 * total \in -4..4 \/ (m - 10 * total \in {-5, 5} /\ total % 2 = 0)
<1>1. CASE m < 0
  <2>1. (-m) \div 10 >= 0 /\ HalfEvenCents(-m) >= 0 /\ HalfEvenCents(-m) \in Int
    BY <1>1 DEF HalfEvenCents
  <2>2. normalize_money(m) <= 0 /\ normalize_money(m) \in Int
    BY <1>1, <2>1 DEF normalize_money
  <2>3. m - 10 * total < -10
    BY <1>1
  <2> QED
    BY <2>2, <2>3
<1>2. CASE m >= 0
  <2> DEFINE q == m \div 10
             r == m % 10
  <2>1. q \in Int /\ r \in 0..9 /\ m = 10 * q + r
    BY <1>2
  <2>2. normalize_money(m) = IF r < 5 \/ (r = 5 /\ q % 2 = 0) THEN q ELSE q + 1
    BY <1>2 DEF normalize_money, HalfEvenCents
  <2> HIDE DEF q, r
  <2>3. q % 2 = 0 <=> (q + 1) % 2 # 0
    BY <2>1
  <2>4. CASE r < 5
    BY <2>1, <2>2, <2>4
  <2>5. CASE r > 5
    BY <2>1, <2>2, <2>5
  <2>6. CASE r = 5
    BY <2>1, <2>2, <2>3, <2>6
  <2> QED
    BY <2>1, <2>4, <2>5, <2>6
<1> QED
  BY <1>1, <1>2

----------------------------------------------------------------------------
(* Replaying one and two events.                                           *)

\* A history of one CREATED event is replayed into a created order.
LEMMA RehydrateCreated ==
  ASSUME NEW e, Create(e), e.order_id = Order
  PROVE  Rehydratable(Order, <<e>>) /\ Rehydrate(Order, <<e>>) = Created(e)
<1> DEFINE h == <<e>>
<1>1. Len(h) = 1 /\ h[1] = e
  OBVIOUS
<1> HIDE DEF h
<1>2. {n \in 1..Len(h) : h[n].event_type = "CREATED"} = {1}
      /\ {n \in 1..Len(h) : h[n].event_type = "PAID"} = {}
  BY <1>1 DEF Create
<1>3. Max({1}) = 1
  BY MaxIs
<1>4. LastAmount(h, "CREATED") = e.amount /\ LastAmount(h, "PAID") = 0
  BY <1>1, <1>2, <1>3 DEF LastAmount
<1>5. Rehydratable(Order, h)
  BY <1>1 DEF Rehydratable, Create
<1>6. Rehydrate(Order, h) = Created(e)
  BY <1>1, <1>4 DEF Rehydrate, Created, StatusAfter, Create
<1> QED
  BY <1>5, <1>6 DEF h

\* A history of CREATED and PAID is replayed into a paid order.
LEMMA RehydratePaid ==
  ASSUME NEW e, NEW f, Create(e), PaymentAfter(f, e), e.order_id = Order, f.order_id = Order
  PROVE  Rehydratable(Order, <<e, f>>) /\ Rehydrate(Order, <<e, f>>) = Paid(e, f)
<1> DEFINE h == <<e, f>>
<1>1. Len(h) = 2 /\ h[1] = e /\ h[2] = f
  OBVIOUS
<1> HIDE DEF h
<1>2. {n \in 1..Len(h) : h[n].event_type = "CREATED"} = {1}
      /\ {n \in 1..Len(h) : h[n].event_type = "PAID"} = {2}
  BY <1>1 DEF Create, PaymentAfter
<1>3. Max({1}) = 1 /\ Max({2}) = 2
  BY MaxIs
<1>4. LastAmount(h, "CREATED") = e.amount /\ LastAmount(h, "PAID") = f.amount
  BY <1>1, <1>2, <1>3 DEF LastAmount
<1>5. Rehydratable(Order, h)
  BY <1>1 DEF Rehydratable, Create, PaymentAfter
<1>6. Rehydrate(Order, h) = Paid(e, f)
  BY <1>1, <1>4 DEF Rehydrate, Paid, StatusAfter, Create, PaymentAfter
<1> QED
  BY <1>5, <1>6 DEF h

----------------------------------------------------------------------------
(* The invariant is inductive.                                             *)

\* A new aggregate has no candidate and an empty history.
LEMMA InitIInv == AggregateInit => IInv
BY DEF AggregateInit, IInv, CandidatesInv, LifeInv, AtInit

\* create / pay: the new candidate is built on the state it is built from.
LEMMA BuildIInv ==
  ASSUME IInv, NEW c \in Commands, NEW id \in EventIds, Build(c, id)
  PROVE  IInv'
<1> DEFINE e == CandidateEvent(aggregate, c, id)
<1>1. /\ held' = held \cup {e} /\ aggregate' = aggregate /\ applied' = applied
      /\ \A f \in held : f.event_id # id
  BY DEF Build
<1>2. c.command_type \in CommandTypes /\ c.amount \in Int
  BY AggregateAssumption
<1>3. /\ e.event_id = id /\ e.order_id = aggregate.order_id
      /\ e.sequence = aggregate.current_version + 1
      /\ e.event_type = (IF c.command_type = "create" THEN "CREATED" ELSE "PAID")
      /\ e.amount = normalize_money(c.amount)
      /\ e.proof.prev_status = aggregate.status
      /\ e.proof.prev_version = aggregate.current_version
      /\ e.proof.prev_event_id = aggregate.last_event_id
  BY DEF CandidateEvent
<1> HIDE DEF e
<1>4. e.amount \in Int /\ e.amount > 0
  BY <1>2, <1>3, NormalizedIsInteger DEF Build, IsLegal, IsPositiveMoney
<1>5. e.order_id = Order /\ (Create(e) \/ (applied # <<>> /\ PaymentAfter(e, applied[1])))
  <2>1. CASE AtInit
    <3>1. aggregate.status = "INIT" /\ aggregate.current_version = 0
          /\ aggregate.last_event_id = NoEvent /\ aggregate.order_id = Order
      BY <2>1 DEF AtInit, NewAggregate
    <3>2. c.command_type = "create"
      BY <1>2, <3>1 DEF Build, IsLegal, CommandTypes
    <3> QED
      BY <1>3, <3>1, <3>2 DEF Create
  <2>2. ASSUME NEW f \in held, AtCreated(f)
        PROVE  e.order_id = Order /\ applied # <<>> /\ PaymentAfter(e, applied[1])
    <3>1. /\ aggregate.status = "CREATED" /\ aggregate.current_version = 1
          /\ aggregate.last_event_id = f.event_id /\ aggregate.order_id = Order
          /\ aggregate.total_amount = f.amount
          /\ applied # <<>> /\ applied[1] = f
      BY <2>2 DEF AtCreated, Created
    <3>2. c.command_type = "pay" /\ normalize_money(c.amount) = f.amount
      BY <1>2, <3>1 DEF Build, IsLegal, CommandTypes
    <3> QED
      BY <1>3, <3>1, <3>2 DEF PaymentAfter
  <2>3. ASSUME NEW f \in held, NEW g \in held, AtPaid(f, g)
        PROVE  FALSE
    <3>1. aggregate.status = "PAID"
      BY <2>3 DEF AtPaid, Paid
    <3> QED
      BY <1>2, <3>1 DEF Build, IsLegal, CommandTypes
  <2> QED
    BY <2>1, <2>2, <2>3 DEF IInv, LifeInv
<1>6. CandidatesInv'
  <2>1. \A f \in held' :
          /\ f.event_id \in EventIds /\ f.order_id = Order
          /\ f.amount \in Int /\ f.amount > 0
          /\ Create(f) \/ (applied # <<>> /\ PaymentAfter(f, applied[1]))
    BY <1>1, <1>3, <1>4, <1>5 DEF IInv, CandidatesInv
  <2>2. \A f, g \in held' : f.event_id = g.event_id => f = g
    BY <1>1, <1>3 DEF IInv, CandidatesInv
  <2> QED
    BY <1>1, <2>1, <2>2 DEF CandidatesInv, PaymentAfter, Create
<1>7. LifeInv'
  <2>1. \A f, g : AtInit' = AtInit /\ AtCreated(f)' = AtCreated(f) /\ AtPaid(f, g)' = AtPaid(f, g)
    BY <1>1 DEF AtInit, AtCreated, AtPaid
  <2>2. held \subseteq held'
    BY <1>1
  <2> QED
    BY <2>1, <2>2 DEF IInv, LifeInv
<1> QED
  BY <1>6, <1>7 DEF IInv

\* apply: of all the candidates that are held, the ones with the next sequence
\* were built on the history that was applied.
LEMMA ApplyIInv ==
  ASSUME IInv, NEW e \in held, Apply(e)
  PROVE  IInv'
<1>1. /\ e.sequence = aggregate.current_version + 1
      /\ aggregate' = apply(aggregate, e) /\ applied' = Append(applied, e)
      /\ held' = held
  BY DEF Apply, CanApply
<1>2. CASE AtInit
  <2>1. Create(e)
    BY <1>1, <1>2 DEF AtInit, NewAggregate, IInv, CandidatesInv
  <2>2. applied' = <<e>>
    BY <1>1, <1>2 DEF AtInit
  <2>3. aggregate' = Created(e)
    BY <1>1, <1>2, <2>1 DEF AtInit, NewAggregate, apply, Created, Create, StatusAfter
  <2>4. AtCreated(e)'
    BY <2>1, <2>2, <2>3 DEF AtCreated, Create
  <2>5. CandidatesInv'
    <3>1. \A f \in held : Create(f)
      BY <1>2 DEF AtInit, IInv, CandidatesInv
    <3> QED
      BY <1>1, <3>1 DEF IInv, CandidatesInv, Create
  <2> QED
    BY <1>1, <2>4, <2>5 DEF IInv, LifeInv
<1>3. ASSUME NEW f \in held, AtCreated(f)
      PROVE  IInv'
  <2>1. aggregate = Created(f) /\ applied = <<f>> /\ Create(f)
    BY <1>3 DEF AtCreated
  <2>2. aggregate.current_version = 1
    BY <2>1 DEF Created
  <2>3. PaymentAfter(e, f)
    BY <1>1, <2>1, <2>2 DEF IInv, CandidatesInv, Create
  <2>4. applied' = <<f, e>>
    <3> DEFINE s == <<f>>
               t == <<f, e>>
    <3>1. s \in Seq({f, e}) /\ t \in Seq({f, e}) /\ e \in {f, e}
      OBVIOUS
    <3>2. Len(s) = 1 /\ Len(t) = 2 /\ t[1] = f /\ t[2] = e /\ s[1] = f
      OBVIOUS
    <3> HIDE DEF s, t
    <3>3. Len(t) = Len(s) + 1 /\ t[Len(t)] = e /\ \A n \in 1..Len(s) : t[n] = s[n]
      BY <3>2
    <3>4. t = Append(s, e)
      BY <3>1, <3>3, AppendIs
    <3> QED
      BY <1>1, <2>1, <3>4 DEF s, t
  <2>5. aggregate' = Paid(f, e)
    BY <1>1, <2>1, <2>3 DEF apply, Created, Paid, PaymentAfter, StatusAfter
  <2>6. AtPaid(f, e)'
    BY <2>1, <2>3, <2>4, <2>5 DEF AtPaid
  <2>7. CandidatesInv'
    <3>1. applied' # <<>> /\ applied'[1] = applied[1] /\ applied # <<>>
      BY <2>1, <2>4
    <3> QED
      BY <1>1, <3>1 DEF IInv, CandidatesInv, Create, PaymentAfter
  <2> QED
    BY <1>1, <2>6, <2>7 DEF IInv, LifeInv
<1>4. ASSUME NEW f \in held, NEW g \in held, AtPaid(f, g)
      PROVE  FALSE
  <2>1. aggregate.current_version = 2
    BY <1>4 DEF AtPaid, Paid
  <2>2. e.sequence = 1 \/ e.sequence = 2
    BY DEF IInv, CandidatesInv, Create, PaymentAfter
  <2> QED
    BY <1>1, <2>1, <2>2
<1> QED
  BY <1>2, <1>3, <1>4 DEF IInv, LifeInv

\* create, pay, apply and validation keep the inductive invariant.
THEOREM NextIInv == IInv /\ [AggregateNext]_aggregate_vars => IInv'
<1> SUFFICES ASSUME IInv, [AggregateNext]_aggregate_vars PROVE IInv'
  OBVIOUS
<1>1. CASE UNCHANGED aggregate_vars
  BY <1>1 DEF IInv, CandidatesInv, LifeInv, AtInit, AtCreated, AtPaid, aggregate_vars
<1>2. CASE AggregateNext
  BY <1>2, BuildIInv, ApplyIInv DEF AggregateNext
<1> QED
  BY <1>1, <1>2

\* The inductive invariant holds throughout the life of the aggregate.
THEOREM Invariance == AggregateSpec => []IInv
BY InitIInv, NextIInv, PTL DEF AggregateSpec

----------------------------------------------------------------------------
(* What the invariant means.                                               *)

\* create, pay and apply keep an aggregate to one legal life, whatever
\* candidates are held, for how long, and in which order they are applied; and
\* the closed form of _rehydrate_aggregate_from_history is the object that
\* applied the same events.
THEOREM LifeIsLegal == AggregateSpec => []OneLegalLife
<1>1. ASSUME IInv PROVE OneLegalLife
  <2>1. CASE AtInit
    <3>1. applied = <<>> /\ aggregate = NewAggregate(Order) /\ Len(applied) = 0
      BY <2>1 DEF AtInit
    <3>2. Rehydratable(Order, applied)
      BY <3>1 DEF Rehydratable
    <3>3. LastAmount(applied, "CREATED") = 0 /\ LastAmount(applied, "PAID") = 0
      BY <3>1 DEF LastAmount
    <3>4. Rehydrate(Order, applied) = aggregate
      BY <3>1, <3>3 DEF Rehydrate, NewAggregate
    <3>5. aggregate.status = "INIT" /\ aggregate.current_version = 0
      BY <3>1 DEF NewAggregate
    <3> QED
      BY <3>1, <3>2, <3>4, <3>5 DEF OneLegalLife
  <2>2. ASSUME NEW e \in held, AtCreated(e)
        PROVE  OneLegalLife
    <3>1. applied = <<e>> /\ aggregate = Created(e) /\ Create(e) /\ e.order_id = Order
          /\ e.amount > 0
      BY <2>2, <1>1 DEF AtCreated, IInv, CandidatesInv
    <3>2. Rehydratable(Order, applied) /\ Rehydrate(Order, applied) = aggregate
      BY <3>1, RehydrateCreated
    <3>3. aggregate.status = "CREATED" /\ aggregate.current_version = 1
          /\ aggregate.total_amount = e.amount
      BY <3>1 DEF Created
    <3>4. Len(applied) = 1 /\ applied[1] = e /\ applied # <<>>
      BY <3>1
    <3> QED
      BY <3>1, <3>2, <3>3, <3>4 DEF OneLegalLife, Create
  <2>3. ASSUME NEW e \in held, NEW f \in held, AtPaid(e, f)
        PROVE  OneLegalLife
    <3>1. /\ applied = <<e, f>> /\ aggregate = Paid(e, f) /\ Create(e) /\ PaymentAfter(f, e)
          /\ e.order_id = Order /\ f.order_id = Order /\ e.amount > 0
      BY <2>3, <1>1 DEF AtPaid, IInv, CandidatesInv
    <3>2. Rehydratable(Order, applied) /\ Rehydrate(Order, applied) = aggregate
      BY <3>1, RehydratePaid
    <3>3. /\ aggregate.status = "PAID" /\ aggregate.current_version = 2
          /\ aggregate.total_amount = e.amount /\ aggregate.paid_amount = e.amount
      BY <3>1 DEF Paid, PaymentAfter
    <3>4. Len(applied) = 2 /\ applied[1] = e /\ applied # <<>>
      BY <3>1
    <3> QED
      BY <3>1, <3>2, <3>3, <3>4 DEF OneLegalLife, Create
  <2> QED
    BY <1>1, <2>1, <2>2, <2>3 DEF IInv, LifeInv
<1> QED
  BY <1>1, Invariance, PTL

\* When no rule fails the validator observes none, and when the first rule
\* fails that is the one it observes.
LEMMA FirstRule ==
  ASSUME NEW e, NEW ctx
  PROVE  /\ (\A i \in 1..6 : FullProofRules(e, ctx)[i]) => ObservedViolation(e, ctx) = 0
         /\ ~FullProofRules(e, ctx)[1] => ObservedViolation(e, ctx) = 1
<1> DEFINE failed == {i \in 1..6 : ~FullProofRules(e, ctx)[i]}
<1>1. ObservedViolation(e, ctx) = IF failed = {} THEN 0 ELSE Min(failed)
  BY DEF ObservedViolation
<1>2. ASSUME ~FullProofRules(e, ctx)[1] PROVE failed # {} /\ Min(failed) = 1
  <2>1. 1 \in failed /\ \A i \in failed : i \in 1..6
    BY <1>2
  <2> HIDE DEF failed
  <2>2. \E x \in failed : \A y \in failed : x <= y
    BY <2>1
  <2>3. Min(failed) \in failed /\ \A y \in failed : Min(failed) <= y
    BY <2>2 DEF Min
  <2> QED
    BY <2>1, <2>3
<1> QED
  BY <1>1, <1>2

\* FullProofValidator passes exactly the candidates that were built on the
\* history that has been applied, and stops a stale one at its sequence.
THEOREM ValidatorSeparates == AggregateSpec => []ValidatorSeparatesStale
<1>1. ASSUME IInv PROVE ValidatorSeparatesStale
  <2> SUFFICES ASSUME NEW e \in held
               PROVE  LET rule == ObservedViolation(e, ValidationContext(aggregate, applied))
                      IN  IF e.proof.prev_event_id = aggregate.last_event_id
                          THEN rule = 0 ELSE rule = 1
    BY DEF ValidatorSeparatesStale
  <2> DEFINE ctx == ValidationContext(aggregate, applied)
             rules == FullProofRules(e, ctx)
  <2>1. /\ e.event_id \in EventIds
        /\ Create(e) \/ (applied # <<>> /\ PaymentAfter(e, applied[1]))
        /\ NoEvent \notin EventIds
    BY <1>1, AggregateAssumption DEF IInv, CandidatesInv
  <2>2. /\ ctx.actual_prev_version = aggregate.current_version
        /\ ctx.actual_prev_status = aggregate.status
        /\ ctx.actual_prev_event_id = (IF applied = <<>> THEN NoEvent
                                       ELSE applied[Len(applied)].event_id)
    BY DEF ValidationContext
  <2> HIDE DEF ctx
  <2>3. /\ rules[1] <=> e.sequence = ctx.actual_prev_version + 1
        /\ rules[2] <=> e.proof.prev_event_id = ctx.actual_prev_event_id
        /\ rules[3] <=> e.proof.prev_version = ctx.actual_prev_version
        /\ rules[4] <=> e.proof.prev_status = ctx.actual_prev_status
        /\ rules[5] <=> e.event_type \in EventTypes
        /\ rules[6] <=> /\ e.event_type \in EventTypes
                        /\ ctx.actual_prev_status = REQUIRED_PREV_STATUS_BY_EVENT_TYPE[e.event_type]
    BY DEF FullProofRules
  <2>4. /\ REQUIRED_PREV_STATUS_BY_EVENT_TYPE["CREATED"] = "INIT"
        /\ REQUIRED_PREV_STATUS_BY_EVENT_TYPE["PAID"] = "CREATED"
    BY DEF REQUIRED_PREV_STATUS_BY_EVENT_TYPE
  <2> HIDE DEF rules
  <2>5. /\ (\A i \in 1..6 : rules[i]) => ObservedViolation(e, ctx) = 0
        /\ ~rules[1] => ObservedViolation(e, ctx) = 1
    BY FirstRule DEF rules
  <2>6. CASE AtInit
    <3>1. /\ aggregate.current_version = 0 /\ aggregate.status = "INIT"
          /\ aggregate.last_event_id = NoEvent /\ applied = <<>>
      BY <2>6 DEF AtInit, NewAggregate
    <3>2. Create(e)
      BY <2>1, <3>1
    <3>3. rules[1] /\ rules[2] /\ rules[3] /\ rules[4] /\ rules[5] /\ rules[6]
      BY <2>2, <2>3, <2>4, <3>1, <3>2 DEF Create, EventTypes
    <3>4. e.proof.prev_event_id = aggregate.last_event_id
      BY <3>1, <3>2 DEF Create
    <3> QED
      BY <2>5, <3>3, <3>4 DEF ctx
  <2>7. ASSUME NEW f \in held, AtCreated(f)
        PROVE  IF e.proof.prev_event_id = aggregate.last_event_id
               THEN ObservedViolation(e, ctx) = 0 ELSE ObservedViolation(e, ctx) = 1
    <3>1. /\ aggregate.current_version = 1 /\ aggregate.status = "CREATED"
          /\ aggregate.last_event_id = f.event_id /\ applied = <<f>>
          /\ applied # <<>> /\ applied[1] = f /\ applied[Len(applied)] = f
          /\ f.event_id # NoEvent
      BY <2>7, <2>1, <1>1 DEF AtCreated, Created, IInv, CandidatesInv
    <3>2. CASE Create(e)
      <4>1. ~rules[1] /\ e.proof.prev_event_id # aggregate.last_event_id
        BY <2>2, <2>3, <3>1, <3>2 DEF Create
      <4> QED
        BY <2>5, <4>1
    <3>3. CASE PaymentAfter(e, f)
      <4>1. rules[1] /\ rules[2] /\ rules[3] /\ rules[4] /\ rules[5] /\ rules[6]
        BY <2>2, <2>3, <2>4, <3>1, <3>3 DEF PaymentAfter, EventTypes
      <4>2. e.proof.prev_event_id = aggregate.last_event_id
        BY <3>1, <3>3 DEF PaymentAfter
      <4> QED
        BY <2>5, <4>1, <4>2
    <3> QED
      BY <2>1, <3>1, <3>2, <3>3
  <2>8. ASSUME NEW f \in held, NEW g \in held, AtPaid(f, g)
        PROVE  ~rules[1] /\ e.proof.prev_event_id # aggregate.last_event_id
    <3>1. /\ aggregate.current_version = 2 /\ aggregate.last_event_id = g.event_id
          /\ applied # <<>> /\ applied[1] = f
          /\ Create(f) /\ PaymentAfter(g, f)
      BY <2>8 DEF AtPaid, Paid
    <3>2. g.event_id # NoEvent /\ f.event_id # g.event_id
      BY <3>1, <2>1, <1>1 DEF IInv, CandidatesInv, Create, PaymentAfter
    <3>3. Create(e) \/ PaymentAfter(e, f)
      BY <2>1, <3>1
    <3> QED
      BY <2>2, <2>3, <3>1, <3>2, <3>3 DEF Create, PaymentAfter
  <2> QED
    BY <1>1, <2>5, <2>6, <2>7, <2>8 DEF IInv, LifeInv, ctx
<1> QED
  BY <1>1, Invariance, PTL

\* normalize_money and ensure_positive_money let a created order be paid with
\* exactly the raw amounts that round half-even to its total.
THEOREM PaymentIsCanonical == AggregateSpec => []MoneyIsCanonical
<1>1. ASSUME IInv PROVE MoneyIsCanonical
  <2> SUFFICES ASSUME aggregate.status = "CREATED",
                      NEW c \in Commands, c.command_type = "pay"
               PROVE  LET total == aggregate.total_amount
                          off   == c.amount - 10 * total
                      IN  IsLegal(aggregate, c) <=>
                            off \in -4..4 \/ (off \in {-5, 5} /\ total % 2 = 0)
    BY DEF MoneyIsCanonical
  <2>1. aggregate.total_amount \in Int /\ aggregate.total_amount > 0
    <3>1. ~AtInit
      BY DEF AtInit, NewAggregate
    <3>2. \A e, f : ~AtPaid(e, f)
      BY DEF AtPaid, Paid
    <3>3. PICK e \in held : AtCreated(e)
      BY <1>1, <3>1, <3>2 DEF IInv, LifeInv
    <3> QED
      BY <1>1, <3>3 DEF AtCreated, Created, IInv, CandidatesInv
  <2>2. IsLegal(aggregate, c) <=> normalize_money(c.amount) = aggregate.total_amount
    BY <2>1 DEF IsLegal, IsPositiveMoney
  <2>3. c.amount \in Int
    BY AggregateAssumption
  <2> QED
    BY <2>1, <2>2, <2>3, HalfEvenIsNearest
<1> QED
  BY <1>1, Invariance, PTL
=============================================================================
