------------------------- MODULE OrderDomainProofs -------------------------
(***************************************************************************)
(* What the operators of OrderDomain return, for every input: the facts    *)
(* about ordered histories and legal commands that the write-side proofs   *)
(* rest on.                                                                *)
(***************************************************************************)
EXTENDS ProjectionReducer, FiniteSetTheorems, SequenceTheorems, TLAPS

\* S holds exactly one event for each of the sequences 1, ..., v.
IsContiguous(S, v) ==
  /\ \A e \in S : e.sequence \in 1..v
  /\ \A e, f \in S : e.sequence = f.sequence => e = f
  /\ \A n \in 1..v : \E e \in S : e.sequence = n

\* A contiguous set of v events has v members.
LEMMA ContiguousCardinality ==
  ASSUME NEW S, NEW v \in Nat, IsContiguous(S, v)
  PROVE  IsFiniteSet(S) /\ Cardinality(S) = v
<1> DEFINE b == [n \in 1..v |-> CHOOSE e \in S : e.sequence = n]
<1>1. \A n \in 1..v : b[n] \in S /\ b[n].sequence = n
  BY DEF IsContiguous
<1>2. b \in [1..v -> S]
  BY <1>1
<1>3. \A m, n \in 1..v : b[m] = b[n] => m = n
  BY <1>1
<1>4. \A e \in S : \E n \in 1..v : b[n] = e
  <2> SUFFICES ASSUME NEW e \in S PROVE b[e.sequence] = e /\ e.sequence \in 1..v
    OBVIOUS
  <2> QED BY <1>1 DEF IsContiguous
<1> HIDE DEF b
<1>5. b \in Bijection(1..v, S)
  BY <1>2, <1>3, <1>4 DEF Bijection, Injection, Surjection, IsInjective
<1>6. ExistsBijection(1..v, S)
  BY <1>5 DEF ExistsBijection
<1> QED BY <1>6, FS_CountingElements, FS_NatBijection

\* ORDER BY sequence on a contiguous stream: the n-th row has sequence n.
LEMMA InSequenceOrderContiguous ==
  ASSUME NEW S, NEW v \in Nat, IsContiguous(S, v)
  PROVE  /\ InSequenceOrder(S) \in Seq(S)
         /\ Len(InSequenceOrder(S)) = v
         /\ \A n \in 1..v : InSequenceOrder(S)[n] \in S /\ InSequenceOrder(S)[n].sequence = n
<1>1. Cardinality(S) = v
  BY ContiguousCardinality
<1>2. ASSUME NEW e \in S
      PROVE  Cardinality({f \in S : f.sequence <= e.sequence}) = e.sequence
  <2> DEFINE T == {f \in S : f.sequence <= e.sequence}
  <2>1. e.sequence \in 1..v
    BY DEF IsContiguous
  <2>2. IsContiguous(T, e.sequence)
    BY <2>1 DEF IsContiguous
  <2> QED BY <2>1, <2>2, ContiguousCardinality
<1>3. ASSUME NEW n \in 1..v
      PROVE  InSequenceOrder(S)[n] \in S /\ InSequenceOrder(S)[n].sequence = n
  <2>1. PICK e \in S : e.sequence = n
    BY DEF IsContiguous
  <2>2. \E g \in S : Cardinality({f \in S : f.sequence <= g.sequence}) = n
    BY <2>1, <1>2
  <2>3. InSequenceOrder(S)[n]
          = CHOOSE g \in S : Cardinality({f \in S : f.sequence <= g.sequence}) = n
    BY <1>1 DEF InSequenceOrder
  <2> QED BY <2>2, <2>3, <1>2
<1>4. InSequenceOrder(S) \in [1..v -> S]
  <2> DEFINE row(n) == CHOOSE e \in S : Cardinality({f \in S : f.sequence <= e.sequence}) = n
  <2>1. InSequenceOrder(S) = [n \in 1..v |-> row(n)]
    BY <1>1 DEF InSequenceOrder
  <2> HIDE DEF row
  <2>2. \A n \in 1..v : row(n) \in S
    BY <2>1, <1>3
  <2> QED BY <2>1, <2>2
<1> QED BY <1>3, <1>4

\* The largest of a set of integers that has an upper bound among its members.
LEMMA MaxIs ==
  ASSUME NEW S \in SUBSET Int, NEW m \in S, \A x \in S : x <= m
  PROVE  Max(S) = m
<1>1. \E x \in S : \A y \in S : x >= y
  OBVIOUS
<1>2. Max(S) \in S /\ \A y \in S : Max(S) >= y
  BY <1>1 DEF Max
<1> DEFINE x == Max(S)
<1>3. x \in Int /\ m \in Int /\ x <= m /\ x >= m
  BY <1>2
<1> HIDE DEF x
<1>4. x = m
  BY <1>3
<1> QED BY <1>4 DEF x

\* COALESCE(MAX(sequence), 0) of a contiguous stream is its length.
LEMMA LargestSequence ==
  ASSUME NEW S, NEW v \in Nat, IsContiguous(S, v)
  PROVE  Max({0} \cup {e.sequence : e \in S}) = v
<1> DEFINE T == {0} \cup {e.sequence : e \in S}
<1>1. T \in SUBSET Int /\ v \in T /\ \A n \in T : n <= v
  BY DEF IsContiguous
<1> QED BY <1>1, MaxIs

\* A history that has one more event than another and agrees with it before
\* that is the other with the event appended.
LEMMA AppendIs ==
  ASSUME NEW T, NEW s \in Seq(T), NEW t \in Seq(T), NEW x \in T,
         Len(t) = Len(s) + 1, \A n \in 1..Len(s) : t[n] = s[n], t[Len(t)] = x
  PROVE  t = Append(s, x)
<1> DEFINE u == Append(s, x)
<1>1. /\ u \in Seq(T) /\ Len(u) = Len(s) + 1 /\ Len(s) \in Nat
      /\ \A n \in 1..Len(s) : u[n] = s[n]
      /\ u[Len(s) + 1] = x
  OBVIOUS
<1> HIDE DEF u
<1>2. ASSUME NEW n \in 1..Len(t) PROVE t[n] = u[n]
  <2>1. n \in 1..Len(s) \/ n = Len(s) + 1
    BY <1>1
  <2> QED BY <2>1, <1>1
<1>3. Len(t) = Len(u)
  BY <1>1
<1>4. t = u
  BY <1>1, <1>2, <1>3, SeqEqual
<1> QED BY <1>4 DEF u

\* A contiguous stream that grows by the event with the next sequence is read
\* as the same history with that event appended.
LEMMA InSequenceOrderGrows ==
  ASSUME NEW S, NEW v \in Nat, IsContiguous(S, v), NEW e, e.sequence = v + 1
  PROVE  /\ IsContiguous(S \cup {e}, v + 1)
         /\ InSequenceOrder(S \cup {e}) = Append(InSequenceOrder(S), e)
<1> DEFINE T == S \cup {e}
           s == InSequenceOrder(S)
           t == InSequenceOrder(T)
<1>1. IsContiguous(T, v + 1)
  BY DEF IsContiguous
<1>2. /\ s \in Seq(S) /\ Len(s) = v
      /\ \A n \in 1..v : s[n] \in S /\ s[n].sequence = n
  BY InSequenceOrderContiguous
<1>3. /\ t \in Seq(T) /\ Len(t) = v + 1
      /\ \A n \in 1..(v + 1) : t[n] \in T /\ t[n].sequence = n
  <2>1. v + 1 \in Nat
    OBVIOUS
  <2> HIDE DEF T
  <2> QED BY <1>1, <2>1, InSequenceOrderContiguous
<1>4. \A x, y \in T : x.sequence = y.sequence => x = y
  BY <1>1 DEF IsContiguous
<1>5. s \in Seq(T)
  <2>1. S \subseteq T
    OBVIOUS
  <2> QED BY <1>2, <2>1, SeqMonotonic
<1>6. e \in T
  OBVIOUS
<1> HIDE DEF T, s, t
<1>7. \A n \in 1..v : t[n] = s[n]
  <2> SUFFICES ASSUME NEW n \in 1..v PROVE t[n] = s[n]
    OBVIOUS
  <2>1. s[n] \in T /\ s[n].sequence = n
    BY <1>2 DEF T
  <2>2. t[n] \in T /\ t[n].sequence = n
    BY <1>3
  <2> QED BY <2>1, <2>2, <1>4
<1>8. t[v + 1] = e
  BY <1>3, <1>4, <1>6
<1>9. t = Append(s, e)
  BY <1>2, <1>3, <1>5, <1>6, <1>7, <1>8, AppendIs
<1> QED BY <1>1, <1>9 DEF T, s, t

\* Half-even rounding of a non-negative amount is a natural number of cents.
LEMMA NormalizedIsInteger ==
  ASSUME NEW m \in Int
  PROVE  normalize_money(m) \in Int
BY DEF normalize_money, HalfEvenCents

\* What rehydrating a contiguous stream gives: the version is its length, and
\* the status and the identity come from its last event.
LEMMA RehydrateContiguous ==
  ASSUME NEW o, NEW S, NEW v \in Nat, IsContiguous(S, v)
  PROVE  LET a == Rehydrate(o, InSequenceOrder(S))
         IN  /\ a.order_id = o /\ a.current_version = v
             /\ v = 0 => a.status = "INIT" /\ a.last_event_id = NoEvent
             /\ \A f \in S : f.sequence = v =>
                  /\ a.status = StatusAfter(f.event_type) /\ a.last_event_id = f.event_id
                  /\ f.event_type = "CREATED" => a.total_amount = f.amount
<1> DEFINE h == InSequenceOrder(S)
           a == Rehydrate(o, h)
<1>1. Len(h) = v /\ \A n \in 1..v : h[n] \in S /\ h[n].sequence = n
  BY InSequenceOrderContiguous
<1> HIDE DEF h
<1>2. a.order_id = o /\ a.current_version = v
  BY <1>1 DEF Rehydrate
<1>3. v = 0 => a.status = "INIT" /\ a.last_event_id = NoEvent
  BY <1>1 DEF Rehydrate
<1>4. ASSUME NEW f \in S, f.sequence = v
      PROVE  /\ a.status = StatusAfter(f.event_type) /\ a.last_event_id = f.event_id
             /\ f.event_type = "CREATED" => a.total_amount = f.amount
  <2>1. v \in 1..v /\ v # 0
    BY <1>4 DEF IsContiguous
  <2>2. h[v] = f
    BY <1>1, <1>4, <2>1 DEF IsContiguous
  <2>3. a.status = StatusAfter(f.event_type) /\ a.last_event_id = f.event_id
    BY <1>1, <2>1, <2>2 DEF Rehydrate
  <2>4. ASSUME f.event_type = "CREATED" PROVE a.total_amount = f.amount
    <3> DEFINE found == {n \in 1..Len(h) : h[n].event_type = "CREATED"}
    <3>1. v \in found /\ found \in SUBSET Int /\ \A n \in found : n <= v
      BY <1>1, <2>1, <2>2, <2>4
    <3>2. Max(found) = v
      BY <3>1, MaxIs
    <3>3. a.total_amount = LastAmount(h, "CREATED")
      BY DEF Rehydrate
    <3> QED BY <2>2, <3>1, <3>2, <3>3 DEF LastAmount
  <2> QED BY <2>3, <2>4
<1> QED BY <1>2, <1>3, <1>4 DEF h

\* The shape of what a legal command meets and produces: create opens an empty
\* history, pay follows a CREATED event and repeats its amount.
LEMMA LegalCandidate ==
  ASSUME NEW o, NEW c, NEW id, NEW S, NEW v \in Nat, IsContiguous(S, v),
         c.amount \in Int, c.command_type \in CommandTypes,
         \A e \in S : e.event_type \in EventTypes,
         IsLegal(Rehydrate(o, InSequenceOrder(S)), c)
  PROVE  LET e == CandidateEvent(Rehydrate(o, InSequenceOrder(S)), c, id)
         IN  /\ e.event_id = id /\ e.request_id = c.request_id /\ e.order_id = o
             /\ e.sequence = v + 1 /\ e.proof.prev_version = v
             /\ e.amount = normalize_money(c.amount) /\ e.amount > 0
             /\ v = 0 => /\ c.command_type = "create" /\ e.event_type = "CREATED"
                         /\ e.proof.prev_status = "INIT" /\ e.proof.prev_event_id = NoEvent
             /\ v # 0 => \E f \in S :
                   /\ f.sequence = v /\ f.event_type = "CREATED"
                   /\ c.command_type = "pay" /\ e.event_type = "PAID" /\ e.amount = f.amount
                   /\ e.proof.prev_status = "CREATED" /\ e.proof.prev_event_id = f.event_id
<1> DEFINE h == InSequenceOrder(S)
           a == Rehydrate(o, h)
           e == CandidateEvent(a, c, id)
<1>1. Len(h) = v /\ \A n \in 1..v : h[n] \in S /\ h[n].sequence = n
  BY InSequenceOrderContiguous
<1> HIDE DEF h
<1>2. a.order_id = o /\ a.current_version = v
  BY <1>1 DEF Rehydrate
<1>3. /\ e.event_id = id /\ e.request_id = c.request_id /\ e.order_id = o
      /\ e.sequence = v + 1 /\ e.proof.prev_version = v
      /\ e.amount = normalize_money(c.amount)
      /\ e.event_type = IF c.command_type = "create" THEN "CREATED" ELSE "PAID"
      /\ e.proof.prev_status = a.status /\ e.proof.prev_event_id = a.last_event_id
  BY <1>2 DEF CandidateEvent
<1>4. e.amount > 0
  BY <1>3 DEF IsLegal, IsPositiveMoney, h
<1>5. CASE v = 0
  <2>1. a.status = "INIT" /\ a.last_event_id = NoEvent
    BY <1>5, <1>1 DEF Rehydrate
  <2> HIDE DEF a
  <2>2. c.command_type = "create"
    BY <2>1 DEF IsLegal, h, a, CommandTypes
  <2> QED BY <1>3, <1>4, <1>5, <2>1, <2>2 DEF h, a
<1>6. CASE v # 0
  <2>1. h[v] \in S /\ h[v].sequence = v /\ h[v].event_type \in EventTypes
    BY <1>1, <1>6
  <2>2. a.status = StatusAfter(h[v].event_type) /\ a.last_event_id = h[v].event_id
    BY <1>6, <1>1 DEF Rehydrate
  <2>3. a.status # "INIT" /\ (a.status = "CREATED" => h[v].event_type = "CREATED")
    BY <2>1, <2>2 DEF StatusAfter, EventTypes
  <2>4. /\ c.command_type = "pay" /\ a.status = "CREATED"
        /\ normalize_money(c.amount) = a.total_amount
    BY <2>3 DEF IsLegal, CommandTypes, h
  <2>5. a.total_amount = h[v].amount
    <3> DEFINE found == {n \in 1..Len(h) : h[n].event_type = "CREATED"}
    <3>1. v \in found /\ found \in SUBSET Int /\ \A n \in found : n <= v
      BY <1>1, <1>6, <2>3, <2>4
    <3>2. Max(found) = v
      BY <3>1, MaxIs
    <3>3. a.total_amount = LastAmount(h, "CREATED")
      BY DEF Rehydrate
    <3> QED BY <3>1, <3>2, <3>3 DEF LastAmount
  <2> HIDE DEF a
  <2>6. e.event_type = "PAID" /\ e.amount = h[v].amount
    BY <1>3, <2>4, <2>5
  <2> QED BY <1>3, <1>4, <1>6, <2>1, <2>2, <2>3, <2>4, <2>6 DEF h, a
<1> QED BY <1>5, <1>6

\* The last amount of a type is that of the last event of that type.
LEMMA LastAmountIs ==
  ASSUME NEW h, Len(h) \in Nat, NEW type, NEW m \in 1..Len(h), h[m].event_type = type,
         \A n \in 1..Len(h) : h[n].event_type = type => n <= m
  PROVE  LastAmount(h, type) = h[m].amount
<1> DEFINE found == {n \in 1..Len(h) : h[n].event_type = type}
<1>1. m \in found /\ found \in SUBSET Int /\ \A n \in found : n <= m
  OBVIOUS
<1>2. Max(found) = m /\ found # {}
  BY <1>1, MaxIs
<1> QED BY <1>2 DEF LastAmount

\* The last amount of a type that no event has is zero.
LEMMA LastAmountNone ==
  ASSUME NEW h, NEW type, \A n \in 1..Len(h) : h[n].event_type # type
  PROVE  LastAmount(h, type) = 0
BY DEF LastAmount

----------------------------------------------------------------------------
(* Legal histories and their replay.  A history has at most two events, so *)
(* the loops over it are unrolled.                                         *)

\* The history of an order: created, then paid with the amount it was created
\* with.
LegalHistory(o, h) ==
  /\ Len(h) \in 0..2
  /\ \A n \in 1..Len(h) : h[n].order_id = o /\ h[n].sequence = n
  /\ Len(h) # 0 => h[1].event_type = "CREATED"
  /\ Len(h) = 2 => h[2].event_type = "PAID" /\ h[2].amount = h[1].amount

\* The derived state after the first n events of a legal history.
DerivedState(o, h, n) ==
  [order_id     |-> o,
   status       |-> IF n = 0 THEN "INIT" ELSE IF n = 1 THEN "CREATED" ELSE "PAID",
   total_amount |-> IF n = 0 THEN 0 ELSE h[1].amount,
   paid_amount  |-> IF n = 2 THEN h[2].amount ELSE 0,
   version      |-> n]

\* What a legal history is rehydrated to.
LEMMA RehydrateLegal ==
  ASSUME NEW o, NEW h, LegalHistory(o, h)
  PROVE  /\ Rehydrate(o, h).order_id = o /\ Rehydrate(o, h).current_version = Len(h)
         /\ Rehydrate(o, h).status
              = IF Len(h) = 0 THEN "INIT" ELSE IF Len(h) = 1 THEN "CREATED" ELSE "PAID"
         /\ Len(h) = 1 => Rehydrate(o, h).total_amount = h[1].amount
<1>1. CASE Len(h) = 0
  BY <1>1 DEF Rehydrate
<1>2. CASE Len(h) = 1
  <2>1. h[1].sequence = 1 /\ h[1].event_type = "CREATED"
    BY <1>2 DEF LegalHistory
  <2>2. LastAmount(h, "CREATED") = h[1].amount
    <3>1. Len(h) \in Nat /\ 1 \in 1..Len(h) /\ \A m \in 1..Len(h) : m <= 1
      BY <1>2
    <3> QED BY <2>1, <3>1, LastAmountIs
  <2> QED BY <1>2, <2>1, <2>2 DEF Rehydrate, StatusAfter
<1>3. CASE Len(h) = 2
  <2>1. h[2].sequence = 2 /\ h[2].event_type = "PAID"
    BY <1>3 DEF LegalHistory
  <2> QED BY <1>3, <2>1 DEF Rehydrate, StatusAfter
<1> QED BY <1>1, <1>2, <1>3 DEF LegalHistory

\* What a legal command makes of a legal history.
LEMMA LegalGrows ==
  ASSUME NEW o, NEW T, NEW h \in Seq(T), LegalHistory(o, h), NEW c, NEW e \in T,
         c.command_type \in CommandTypes, c.order_id = o,
         IsLegal(Rehydrate(o, h), c), e = CandidateEvent(Rehydrate(o, h), c, e.event_id)
  PROVE  /\ LegalHistory(o, Append(h, e)) /\ e.sequence = Len(h) + 1
         /\ e.order_id = o /\ e.proof.prev_version = Len(h)
<1> DEFINE a == Rehydrate(o, h)
           g == Append(h, e)
<1>1. /\ e.order_id = a.order_id /\ e.sequence = a.current_version + 1
      /\ e.event_type = (IF c.command_type = "create" THEN "CREATED" ELSE "PAID")
      /\ e.amount = normalize_money(c.amount) /\ e.proof.prev_version = a.current_version
  BY DEF CandidateEvent
<1>2. /\ a.order_id = o /\ a.current_version = Len(h)
      /\ a.status = IF Len(h) = 0 THEN "INIT" ELSE IF Len(h) = 1 THEN "CREATED" ELSE "PAID"
      /\ Len(h) = 1 => a.total_amount = h[1].amount
  BY RehydrateLegal
<1>3. IF c.command_type = "create" THEN a.status = "INIT"
      ELSE a.status = "CREATED" /\ normalize_money(c.amount) = a.total_amount
  BY DEF IsLegal
<1> HIDE DEF a
<1>4. /\ Len(g) = Len(h) + 1 /\ g[Len(h) + 1] = e /\ \A n \in 1..Len(h) : g[n] = h[n]
  OBVIOUS
<1> HIDE DEF g
<1>5. e.order_id = o /\ e.sequence = Len(h) + 1 /\ e.proof.prev_version = Len(h)
  BY <1>1, <1>2
<1>6. Len(h) \in 0..2 /\ \A n \in 1..Len(h) : h[n].order_id = o /\ h[n].sequence = n
  BY DEF LegalHistory
<1>7. CASE Len(h) = 0
  <2>1. e.event_type = "CREATED"
    BY <1>1, <1>2, <1>3, <1>7
  <2>2. Len(g) = 1 /\ g[1] = e
    BY <1>4, <1>7
  <2> QED BY <1>5, <1>7, <2>1, <2>2 DEF LegalHistory, g
<1>8. CASE Len(h) = 1
  <2>1. e.event_type = "PAID" /\ e.amount = h[1].amount
    BY <1>1, <1>2, <1>3, <1>8
  <2>2. Len(g) = 2 /\ g[1] = h[1] /\ g[2] = e /\ h[1].event_type = "CREATED"
    BY <1>4, <1>8 DEF LegalHistory
  <2> QED BY <1>5, <1>6, <1>8, <2>1, <2>2 DEF LegalHistory, g
<1>9. CASE Len(h) = 2
  BY <1>2, <1>3, <1>9
<1> QED BY <1>6, <1>7, <1>8, <1>9

\* One turn of the loop of a replay, as long as it has not raised.
ReplayStep(before, e, n) ==
  IF Len(before) = n /\ Reducible(before[Len(before)], e)
  THEN Append(before, reduce_order_event(before[Len(before)], e))
  ELSE before

\* The loop of a replay over at most two events.
LEMMA ReplayStatesAre ==
  ASSUME NEW s, NEW events, Len(events) \in 0..2
  PROVE  \E reach :
           /\ ReplayStates(s, events) = reach[Len(events)] /\ reach[0] = <<s>>
           /\ Len(events) >= 1 => reach[1] = ReplayStep(reach[0], events[1], 1)
           /\ Len(events) = 2 => reach[2] = ReplayStep(reach[1], events[2], 2)
<1> DEFINE first  == <<s>>
           second == ReplayStep(first, events[1], 1)
           third  == ReplayStep(second, events[2], 2)
           Run(f) == f = [n \in 0..Len(events) |->
                            IF n = 0 THEN first ELSE ReplayStep(f[n - 1], events[n], n)]
           w == [n \in 0..Len(events) |-> IF n = 0 THEN first ELSE IF n = 1 THEN second ELSE third]
           reach == CHOOSE f : Run(f)
<1>1. ReplayStates(s, events) = reach[Len(events)]
  BY DEF ReplayStates, ReplayStep
<1> HIDE DEF first, second, third
<1>2. \A n \in 0..Len(events) : w[n] = IF n = 0 THEN first ELSE ReplayStep(w[n - 1], events[n], n)
  <2> HIDE DEF Run, w, reach
  <2>1. PICK m \in 0..2 : m = Len(events)
    OBVIOUS
  <2>2. \A n \in 0..m : n = 0 \/ n = 1 \/ n = 2
    OBVIOUS
  <2> QED BY <2>1, <2>2 DEF second, third, w
<1>3. Run(w)
  BY <1>2
<1>4. Run(reach)
  <2> HIDE DEF Run
  <2> QED BY <1>3
<1> HIDE DEF reach
<1>5. reach[0] = <<s>>
  BY <1>4 DEF first
<1>6. \A n \in 1..Len(events) : reach[n] = ReplayStep(reach[n - 1], events[n], n)
  BY <1>4
<1>7. /\ Len(events) >= 1 => reach[1] = ReplayStep(reach[0], events[1], 1)
      /\ Len(events) = 2 => reach[2] = ReplayStep(reach[1], events[2], 2)
  <2>1. PICK m \in 0..2 : m = Len(events)
    OBVIOUS
  <2> QED BY <1>6, <2>1
<1> QED BY <1>1, <1>5, <1>7

\* A turn that does not raise adds the state it reduces to.
LEMMA ReplayStepIs ==
  ASSUME NEW S, NEW before \in Seq(S), NEW n \in Nat \ {0}, Len(before) = n, NEW x \in S, before[n] = x,
         NEW e, Reducible(x, e), NEW y \in S, reduce_order_event(x, e) = y
  PROVE  /\ ReplayStep(before, e, n) \in Seq(S) /\ Len(ReplayStep(before, e, n)) = n + 1
         /\ ReplayStep(before, e, n)[n + 1] = y
<1>1. ReplayStep(before, e, n) = Append(before, y)
  BY DEF ReplayStep
<1> QED BY <1>1

\* The next event of a legal history is reduced into the next derived state.
LEMMA ReduceLegal ==
  ASSUME NEW o, NEW h, LegalHistory(o, h), NEW n \in 0..(Len(h) - 1)
  PROVE  /\ Reducible(DerivedState(o, h, n), h[n + 1])
         /\ reduce_order_event(DerivedState(o, h, n), h[n + 1]) = DerivedState(o, h, n + 1)
<1>1. Len(h) \in 0..2 /\ h[n + 1].order_id = o /\ h[n + 1].sequence = n + 1
  BY DEF LegalHistory
<1>2. CASE n = 0
  <2>1. h[1].event_type = "CREATED"
    BY <1>1, <1>2 DEF LegalHistory
  <2>2. REQUIRED_PREV_STATUS_BY_EVENT_TYPE["CREATED"] = "INIT"
    BY DEF REQUIRED_PREV_STATUS_BY_EVENT_TYPE
  <2> QED BY <1>1, <1>2, <2>1, <2>2 DEF DerivedState, Reducible, reduce_order_event, StatusAfter
<1>3. CASE n = 1
  <2>1. h[2].event_type = "PAID" /\ h[2].amount = h[1].amount
    BY <1>1, <1>3 DEF LegalHistory
  <2>2. REQUIRED_PREV_STATUS_BY_EVENT_TYPE["PAID"] = "CREATED"
    BY DEF REQUIRED_PREV_STATUS_BY_EVENT_TYPE
  <2> QED BY <1>1, <1>3, <2>1, <2>2 DEF DerivedState, Reducible, reduce_order_event, StatusAfter
<1> QED BY <1>1, <1>2, <1>3

\* A replay from any point of a legal history runs to its end and leaves the
\* derived state of the point it ends at.
LEMMA ReplayLegal ==
  ASSUME NEW o, NEW T, NEW h \in Seq(T), LegalHistory(o, h), NEW m \in 0..Len(h), NEW n \in m..Len(h)
  PROVE  /\ Replays(DerivedState(o, h, m), SubSeq(h, m + 1, n))
         /\ ReplayFrom(DerivedState(o, h, m), SubSeq(h, m + 1, n)) = DerivedState(o, h, n)
<1>1. Len(h) \in 0..2 /\ m \in 0..2 /\ n \in 0..2 /\ m <= n
  BY DEF LegalHistory
<1>2. PICK p : p = SubSeq(h, m + 1, n)
  OBVIOUS
<1>3. Len(p) = n - m /\ (Len(p) >= 1 => p[1] = h[m + 1]) /\ (Len(p) = 2 => p[2] = h[m + 2])
  BY <1>1, <1>2
<1>4. PICK s, t, u : s = DerivedState(o, h, m) /\ t = DerivedState(o, h, m + 1)
                     /\ u = DerivedState(o, h, m + 2)
  OBVIOUS
<1>5. Len(p) \in 0..2
  BY <1>1, <1>3
<1>6. PICK reach :
        /\ ReplayStates(s, p) = reach[Len(p)] /\ reach[0] = <<s>>
        /\ Len(p) >= 1 => reach[1] = ReplayStep(reach[0], p[1], 1)
        /\ Len(p) = 2 => reach[2] = ReplayStep(reach[1], p[2], 2)
  BY <1>5, ReplayStatesAre
<1> DEFINE S == {s, t, u}
<1>7. /\ reach[0] \in Seq(S) /\ Len(reach[0]) = 1 /\ reach[0][1] = s
      /\ s \in S /\ t \in S /\ u \in S
  BY <1>6
<1> HIDE DEF S
<1>8. ASSUME Len(p) >= 1 PROVE reach[1] \in Seq(S) /\ Len(reach[1]) = 2 /\ reach[1][2] = t
  <2>1. m \in 0..(Len(h) - 1)
    BY <1>1, <1>3, <1>8
  <2>2. Reducible(s, p[1]) /\ reduce_order_event(s, p[1]) = t
    BY <1>3, <1>4, <1>8, <2>1, ReduceLegal
  <2>3. PICK x, one : x = reach[0] /\ one = 1
    OBVIOUS
  <2>4. one \in Nat \ {0} /\ x \in Seq(S) /\ Len(x) = one /\ x[one] = s /\ s \in S /\ t \in S
    BY <1>7, <2>3
  <2>5. ReplayStep(x, p[1], one) \in Seq(S) /\ Len(ReplayStep(x, p[1], one)) = one + 1
        /\ ReplayStep(x, p[1], one)[one + 1] = t
    BY <2>2, <2>4, ReplayStepIs
  <2> QED BY <1>6, <1>8, <2>3, <2>5
<1>9. ASSUME Len(p) = 2 PROVE Len(reach[2]) = 3 /\ reach[2][3] = u
  <2>1. PICK k \in 0..(Len(h) - 1) : k = m + 1 /\ k + 1 = m + 2
    <3>1. m = 0 /\ n = 2 /\ Len(h) = 2
      BY <1>1, <1>3, <1>9
    <3> QED BY <3>1
  <2>2. p[2] = h[k + 1] /\ t = DerivedState(o, h, k) /\ u = DerivedState(o, h, k + 1)
    BY <1>3, <1>4, <1>9, <2>1
  <2>3. Reducible(t, p[2]) /\ reduce_order_event(t, p[2]) = u
    BY <2>2, ReduceLegal
  <2>4. /\ reach[1] \in Seq(S) /\ Len(reach[1]) = 2 /\ reach[1][2] = t
        /\ reach[2] = ReplayStep(reach[1], p[2], 2)
    BY <1>6, <1>8, <1>9
  <2>5. PICK x, two : x = reach[1] /\ two = 2
    OBVIOUS
  <2>6. two \in Nat \ {0} /\ x \in Seq(S) /\ Len(x) = two /\ x[two] = t /\ t \in S /\ u \in S
    BY <1>7, <2>4, <2>5
  <2>7. /\ Len(ReplayStep(x, p[2], two)) = two + 1
        /\ ReplayStep(x, p[2], two)[two + 1] = u
    BY <2>3, <2>6, ReplayStepIs
  <2> QED BY <2>4, <2>5, <2>7
<1>10. /\ Len(reach[Len(p)]) = Len(p) + 1
       /\ reach[Len(p)][Len(p) + 1] = IF Len(p) = 0 THEN s ELSE IF Len(p) = 1 THEN t ELSE u
  <2>1. CASE Len(p) = 0
    BY <1>7, <2>1
  <2>2. CASE Len(p) = 1
    BY <1>8, <2>2
  <2>3. CASE Len(p) = 2
    BY <1>9, <2>3
  <2> QED BY <1>5, <2>1, <2>2, <2>3
<1>11. (IF Len(p) = 0 THEN s ELSE IF Len(p) = 1 THEN t ELSE u) = DerivedState(o, h, n)
  BY <1>1, <1>3, <1>4, <1>5
<1>12. Replays(s, p)
  BY <1>6, <1>10 DEF Replays
<1>13. ReplayFrom(s, p) = DerivedState(o, h, n)
  BY <1>6, <1>10, <1>11 DEF ReplayFrom
<1> QED BY <1>2, <1>4, <1>12, <1>13

\* So the replay of a prefix of a legal history is its derived state.
LEMMA ReplayPrefix ==
  ASSUME NEW o, NEW T, NEW h \in Seq(T), LegalHistory(o, h), NEW n \in 0..Len(h)
  PROVE  ReplayFrom(build_empty_projection_state(o), SubSeq(h, 1, n)) = DerivedState(o, h, n)
<1>1. DerivedState(o, h, 0) = build_empty_projection_state(o)
  BY DEF DerivedState, build_empty_projection_state
<1>2. 0 \in 0..Len(h) /\ n \in 0..Len(h) /\ 0 + 1 = 1
  OBVIOUS
<1>3. ReplayFrom(DerivedState(o, h, 0), SubSeq(h, 0 + 1, n)) = DerivedState(o, h, n)
  BY <1>2, ReplayLegal
<1> QED BY <1>1, <1>3
=============================================================================
