----------------------- MODULE DecisionReceiptRuntime -----------------------
(***************************************************************************)
(* PostgresWriteSideDecisionReceiptRuntimeOwner: the invocation owner of   *)
(* InvocationOwner behind one more lock, and for each of its normal        *)
(* results a completed-invocation handle whose receipt is materialized and *)
(* persisted at most once, in a transaction of its own.                    *)
(*                                                                         *)
(* The runtime owner holds its lock while the writer runs.  Composing a    *)
(* receipt takes only the lock of its handle, so it runs beside everything *)
(* else, A2 included.  Persisting is what DecisionReceiptContract promises *)
(* and DecisionReceiptStore keeps.  A handle and the event of its attempt  *)
(* are both named by the invocation.                                       *)
(***************************************************************************)
EXTENDS InvocationOwner, WriteSideReceipt

CONSTANT MaxPersists  \* bound on the persist calls of a handle; the code makes one

\* An event identity is a UUID; request and order identities are strings.
ASSUME IdentityAssumption == Invocations \cap (Requests \cup Orders) = {}

VARIABLES
  lifecycle_lock,           \* the thread inside the runtime owner, if any
  completions,              \* the handles published so far
  receipt_lock,             \* the thread composing the receipt of each handle
  cached_receipt_delivery,  \* the terminal delivery of each handle, at most one
  decision_receipts, asked, report  \* the receipt transactions

Handles == {A1, A2}
PersistCalls == Handles \X (1 .. MaxPersists)

\* The receipt transactions; the receipts they are asked for are the ones the
\* runtime materializes.
Persistence == INSTANCE DecisionReceiptContract WITH Persisters <- PersistCalls, Receipts <- {}

custody     == <<receipt_lock, cached_receipt_delivery, decision_receipts, asked, report>>
runtime     == <<lifecycle_lock, completions, custody>>
runtimeVars == <<ownerVars, runtime>>

----------------------------------------------------------------------------
(* The receipt of a result.                                                *)

\* evaluate_postgres_write_side_decision_receipt_persistence_eligibility: a
\* rejection only when the stream lock was busy and append was not reached.
PersistenceEligible(r) ==
  \/ r.outcome \in {"ACCEPTED", "REPLAY", "CONFLICT", "VALIDATION_BLOCKED"}
  \/ /\ r.outcome = "ADMISSION_REJECTED" /\ r.admission_result = {}
     /\ \E s \in r.stream_admission_result : s.verdict = "LOCK_TIMEOUT"

\* The receipt of a result under a given identity, once its constructor has
\* validated it.
ReceiptOf(r, receipt_id) ==
  {x \in MappedReceipts(r, receipt_id) : Persistence!validate_admission_evidence(x)}

\* materialize: a fresh receipt identity, and the result mapped under it.
Materialized(h) ==
  ReceiptOf(PostgresWriteSideResult(h), Cardinality({k \in PersistCalls : asked[k] # {}}) + 1)

----------------------------------------------------------------------------
(* The runtime owner: the methods of the invocation owner under one lock.  *)

\* A thread that composes a receipt does nothing else.
Free(t) == caller[t] = "idle" /\ \A h \in Handles : t \notin receipt_lock[h]

Enter(t) == Free(t) /\ lifecycle_lock = {} /\ lifecycle_lock' = {t}
Leave(t) == lifecycle_lock = {t} /\ lifecycle_lock' = {}

\* _new_completed_invocation and its publication.
PublishCompletion(w) ==
  completions' = IF result[w].outcome = "RAISED" THEN completions ELSE completions \cup {w}

RuntimeInvokeInitial(t) ==
  Enter(t) /\ InvokeInitial(t) /\ UNCHANGED <<completions, custody>>

RuntimeCompleteInitial(t) ==
  Leave(t) /\ CompleteInitial(t) /\ PublishCompletion(A1) /\ UNCHANGED custody

\* evaluate_current_response and evaluate_reinvocation_authority: the lock is
\* taken and released within the step.
RuntimeEvaluate(t) ==
  /\ Free(t) /\ lifecycle_lock = {}
  /\ EvaluateCurrentResponse(t) \/ EvaluateReinvocationAuthority(t)
  /\ UNCHANGED runtime

RuntimeInvokeReinvocation(t) ==
  Enter(t) /\ InvokeAuthorizedReinvocation(t) /\ UNCHANGED <<completions, custody>>

RuntimeCompleteReinvocation(t) ==
  Leave(t) /\ CompleteReinvocation(t) /\ PublishCompletion(A2) /\ UNCHANGED custody

----------------------------------------------------------------------------
(* compose_receipt.                                                        *)

Deliver(h, status) ==
  cached_receipt_delivery' = [cached_receipt_delivery EXCEPT ![h] = {status}]

\* The persist call a handle would make next.
NextCall(h) == <<h, Cardinality({n \in 1 .. MaxPersists : asked[<<h, n>>] # {}}) + 1>>

\* How composition ends without reaching persist: the result is ineligible,
\* the mapper refuses it, or an identity factory raises.
ImmediateEnds(h) ==
  IF ~PersistenceEligible(PostgresWriteSideResult(h)) THEN {"PERSISTENCE_INELIGIBLE"}
  ELSE {"UNEXPECTED_COMPOSITION_EXCEPTION"}
       \cup (IF Materialized(h) = {} THEN {"MATERIALIZATION_FAILED"} ELSE {})

\* The receipt is materialized and handed to persist, under the handle's lock.
StartPersist(t, h) ==
  /\ PersistenceEligible(PostgresWriteSideResult(h)) /\ NextCall(h) \in PersistCalls
  /\ \E r \in Materialized(h) : Persistence!Ask(NextCall(h), r)
  /\ receipt_lock' = [receipt_lock EXCEPT ![h] = {t}]
  /\ UNCHANGED <<ownerVars, lifecycle_lock, completions, cached_receipt_delivery>>

\* A mistake: an UNKNOWN receipt is materialized and persisted once more.
RetryUnknown(t, h) ==
  /\ h \in completions /\ receipt_lock[h] = {} /\ Free(t)
  /\ cached_receipt_delivery[h] \subseteq {"UNKNOWN"}
  /\ StartPersist(t, h)

\* compose_receipt up to persist.  A handle whose delivery is cached returns
\* it and does nothing else.
ComposeReceipt(t, h) ==
  /\ h \in completions /\ receipt_lock[h] = {} /\ Free(t)
  /\ cached_receipt_delivery[h] = {}
  /\ \/ StartPersist(t, h)
     \/ /\ \E status \in ImmediateEnds(h) : Deliver(h, status)
        /\ UNCHANGED <<ownerVars, lifecycle_lock, completions, receipt_lock,
                       decision_receipts, asked, report>>

\* A receipt transaction commits, possibly after its call has returned.
ReceiptStored(k) ==
  /\ Persistence!Store(k)
  /\ UNCHANGED <<ownerVars, lifecycle_lock, completions, receipt_lock, cached_receipt_delivery>>

\* persist returns and its evidence is cached as the terminal delivery.
ReceiptReported(t, h) ==
  /\ receipt_lock[h] = {t}
  /\ \E n \in 1 .. MaxPersists, durability \in {"COMMITTED", "NOT_COMMITTED", "UNKNOWN"} :
       Persistence!Report(<<h, n>>, durability) /\ Deliver(h, durability)
  /\ receipt_lock' = [receipt_lock EXCEPT ![h] = {}]
  /\ UNCHANGED <<ownerVars, lifecycle_lock, completions>>

----------------------------------------------------------------------------
RuntimeInit ==
  /\ OwnerInit
  /\ lifecycle_lock = {} /\ completions = {}
  /\ receipt_lock = [h \in Handles |-> {}]
  /\ cached_receipt_delivery = [h \in Handles |-> {}]
  /\ Persistence!ContractInit

RuntimeNext ==
  \/ WriterNext /\ UNCHANGED runtime
  \/ \E t \in Threads :
       \/ RuntimeInvokeInitial(t) \/ RuntimeCompleteInitial(t) \/ RuntimeEvaluate(t)
       \/ RuntimeInvokeReinvocation(t) \/ RuntimeCompleteReinvocation(t)
       \/ \E h \in Handles : ComposeReceipt(t, h) \/ ReceiptReported(t, h)
  \/ \E k \in PersistCalls : ReceiptStored(k)

RuntimeSpec == RuntimeInit /\ [][RuntimeNext]_runtimeVars
----------------------------------------------------------------------------
(* Properties.                                                             *)

\* Durable receipts tell what accepted history tells, whenever they are read:
\* an admission names the event of its own attempt, a match or a conflict the
\* event of another attempt of this request, a rejection belongs to an
\* attempt that left no event; and the subject of a receipt is an accepted
\* event exactly when the receipt says so.
ReceiptsMatchHistory ==
  \A row \in decision_receipts :
    LET rcpt == row.receipt
        mine == EventsNamed({row.by[1]})
        its  == EventsNamed({rcpt.accepted_event_id})
    IN  /\ CASE rcpt.disposition = "ADMITTED_TO_ACCEPTED_HISTORY" -> its = mine /\ mine # {}
             [] rcpt.disposition \in {"MATCHED_EXISTING_ACCEPTED_EVENT",
                                      "IDEMPOTENCY_CONFLICT_WITH_ACCEPTED_HISTORY"} ->
                  mine = {} /\ \E e \in its : e.request_id = request_signature.request_id
             [] OTHER -> mine = {}
        /\ rcpt.subject.type = "ACCEPTED_EVENT" <=> EventsNamed(rcpt.subject.id) # {}

\* An attempt has at most one durable receipt, whichever threads compose it
\* and also when the first transaction commits after it was reported UNKNOWN.
OneReceiptPerAttempt ==
  \A s, t \in decision_receipts : s.by[1] = t.by[1] => s = t

\* Every normal result of the writer, eligible or not, can be explained, and
\* the two mappers that read its parts independently tell the same: it has a
\* semantic outcome and a receipt, which name the same candidate and the same
\* accepted event, carry the same verdicts and have the same status.
EveryResultIsExplained ==
  \A w \in {x \in Invocations : result[x].outcome \notin {"none", "RAISED"}} :
    LET r == PostgresWriteSideResult(w)
    IN  /\ SemanticOutcomes(r) # {} /\ ReceiptOf(r, 1) # {}
        /\ \A o \in SemanticOutcomes(r), x \in ReceiptOf(r, 1) :
             /\ OneOrNone(o.context.candidate_event_id) = x.candidate_event_id
             /\ OneOrNone(o.context.accepted_event_id) = x.accepted_event_id
             /\ \A part \in DOMAIN o.evidence : o.evidence[part] = x.evidence_summary[part]
             /\ STATUS_MAPPINGS[x.evidence_summary.technical_status] = o.semantic_code
=============================================================================
