# Verification project: Streaming System Compass

TLA+ models of this repository's transactional core and of what is derived from
it, TLC configurations that check them on small instances, and TLAPS proofs of
the properties that matter most. `PROJECT.json` is the machine-readable index:
components, runs, mutants, the map from definitions to source lines, findings,
hazards, theorems.

## 1. The system

Orders are event-sourced. A *candidate* event becomes *accepted history* only
through one transaction that appends it to `order_events` and remembers its
request in `idempotency_records`. Everything else - projections, snapshots,
receipts, measurements - is derived from accepted history or is evidence about
it.

| Component | State | Operations | Talks to |
|---|---|---|---|
| Order domain (`core/`) | an aggregate's status, version, amounts, last event | `create`, `pay` (build a candidate, change nothing), `apply` | used by everything |
| Compass layer 1 (`compass/transition`) | none | `FullProofValidator`, `NoOpValidator`, `ValidationRuntime` | judges a candidate against the history that was loaded |
| PostgreSQL write side (`pipeline/transactional`, `storage/postgres_{event,idempotency}_store.py`) | two tables, a position sequence, advisory locks; a connection per call | `create_order`, `pay_order` and variants, in two placements and two gates | PostgreSQL; its result goes to the invocation owner |
| Write-side measurement | the phases one call has entered | begin and end of a phase, snapshot | wraps the calls of the write side |
| Invocation owner (`postgres_write_side_invocation_owner.py`, `compass/runtime`) | one request's lifecycle under a lock | `invoke_initial`, `evaluate_current_response`, `evaluate_reinvocation_authority`, `invoke_authorized_reinvocation` | runs the write side at most twice |
| Projection worker (`pipeline/projection/postgres_worker.py`) | `projection_states`, `projection_order_progress` | `process_next` | reads `order_events` |
| Snapshots (`storage/postgres_projection_snapshot_store.py`, `pipeline/projection`) | `projection_snapshots` | save, load, clear, resolve with tail, validate | reads accepted history and derived state |
| Decision receipts: runtime and persistence | `decision_receipts`, a one-shot composition per attempt | map, compose, persist, classify | consumes results of the owner |
| Decision receipts: serialization | none | construct, serialize, insert, hydrate, deserialize | JSONB and typed columns |
| Read-side outcomes and receipts | none | status mapping, receipt of a replay, validation or resolution | consumes results of the validators and the resolver |
| In-memory registry, stores and worker | dictionaries | `handle_create`, `handle_pay`, `process_record` | the reference the durable versions replaced |
| Experiments | a controlled executor; an inventory store; lanes of a burst | plan and execute a recovery; promote a candidate; judge a race | use the parts above |
| Contract, roles, bootstrap, timing harnesses | none that changes control | - | - |

What is hard here: concurrent transactions at READ COMMITTED whose check and
act are different statements; validation before the transaction that writes;
retries after a lost commit acknowledgement; unique keys that make one
transaction wait for another; a trace collector that can abort the transaction
it observes; global positions that become visible out of order; workers that
die between state and progress; an in-memory append that checks and acts without a
lock; reads in several statements that are compared
as if they were one; values that change type on their way through JSON; an
owner whose lock is released while the writer runs. The `hazards` list of
`PROJECT.json` puts each at its line with the properties aimed at it.

## 2. Modules

| Module | Models | Notes |
|---|---|---|
| `OrderDomain` | money, events, aggregate, validator | pure operators; raw amounts are thousandths, normalized amounts are cents |
| `OrderAggregate` | one aggregate object and the candidates built from it | `Build`, `Apply` |
| `AcceptedHistory` | *abstract*: what the write side promises | one action, `Accept` |
| `PostgresWriteSide` | concurrent invocations against one database | one action per SQL statement |
| `WriteSideResult` | the result object of every path, its status, semantic outcome and evidence | pure operators on the state of `PostgresWriteSide` |
| `WriteSideMeasurement` | which of the thirteen phases a call entered, and the snapshot's construction checks | pure operators on the same state |
| `BurstEvidence` | cohorts, phase matrices and durable comparison of the concurrency experiments | pure operators; a burst is a set of invocations |
| `InvocationOwner` | the owner, composed with the write side | one action per critical section of the lifecycle lock |
| `ControlledRecovery` | planner and one-shot executor, composed with the owner | `Execute` |
| `PostgresProjection` | projection workers over out-of-order commits | one action per SQL statement |
| `ProjectionReducer` | `reduce`, shared by the worker and the readers of snapshots | pure operators |
| `ProjectionSnapshots` | savers, resolvers and validators beside writers and the projection | one action per SQL statement |
| `SnapshotResolutionTrace`, `ReadSideReceipt` | traces and receipts of read-side results | pure operators |
| `InMemoryPipeline` | handlers and worker over the in-memory stores | one action per store call; `EventStore.append` and `load` in several |
| `DecisionReceipt`, `WriteSideReceipt` | receipts, the mapper and the constraints on rows | pure operators |
| `DecisionReceiptContract` | *abstract*: what persisting a receipt promises | `Ask`, `Store`, `Report` |
| `DecisionReceiptStore` | concurrent calls of `persist`, each with its connection | one action per statement or call on the connection, and the server's steps |
| `DecisionReceiptRuntime` | the runtime owner, composed with `InvocationOwner` and `DecisionReceiptContract` | one action per critical section |
| `DecisionReceiptPayload` | a receipt as an object, a row and a portable document | one action per conversion |
| `InventoryPromotion` | agent, workflow, authority service, warehouse and store of the indirect-authority experiment | one action per call |
| `OrderDomainProofs`, `OrderAggregateProofs` | theorems about money, replay and the aggregate | section 5 |
| `WriteSideProofs` | theorems about the write side - the inductive invariant of the tables, then results, refinement, traces and measurement - the owner, controlled recovery, the receipt runtime and bursts | section 5 |
| `PostgresProjectionProofs`, `ProjectionSnapshotsProofs`, `InMemoryPipelineProofs`, `DecisionReceiptStoreProofs`, `InventoryPromotionProofs` | theorems about those modules | section 5 |
| `MC*` | instances for TLC | section 3 |

**Write side.** A step is one statement and the local computation up to the
next. `IN_TRANSACTION` runs check, prepare, load/validate, version, insert,
record, commit; `PRE_TRANSACTION` runs preliminary check and load/validate
first, then check, prepare, version, insert, record, commit. `pc[w]` names the
next statement. Committed rows are `order_events` and `idempotency_records`;
`inserted[w]` and `recorded[w]` are the uncommitted rows of a transaction.
PostgreSQL is modelled from how the stores use it: an INSERT whose unique key an
open transaction holds waits for it (`InsertWaits`, `InsertResumes`, the guard
of `RecordIdempotency`), `nextval` is not rolled back, advisory transaction
locks end with the transaction. `Fail` makes any statement fail without effect
(driver error or death of the process); `CommitUnacknowledged` commits and
raises. A retry is another invocation that chooses the same command; an
invocation stands for the UUID of its candidate. `Substitute` is a validation
runtime supplied by the caller, which may answer either way. The lock key is
`hashtext` of the order, 32 bits and not injective: two orders with one key
reject each other's writers with LOCK_TIMEOUT, which costs availability and
never history - the theorems of section 5 hold for any keys.

**Results and measurement.** `PostgresWriteSideResult(w)` is the object a caller
holds. Semantic outcome, re-invocation authority, receipt, measurement and burst
evidence each read its parts for themselves and refuse combinations they do not
know; that no refusal is ever met on a normal path is what
`EveryResultIsExplained`, `MeasurementSurvivesEveryPath` and
`BurstEvidenceIsValid` say. Durations are abstracted to whether there is one. In
compositions the documents do not name (in-transaction optimistic,
pre-transaction pessimistic) a call that returns before preparation reports the
try-lock phase by its placement only, and the properties say no more of it.

**Invocation owner and recovery.** `A1` and `A2` are two invocations of the
write side, entered only by the owner; the other invocations are writers it
knows nothing of. Threads share it. A call the lifecycle refuses raises and
changes nothing, so it is not a step. The controlled executor is bound to the
owner, the result of `A1` and the owner's own assessment; a proposal may be
kept, and presented late or to the wrong executor.

**Bursts.** Any set of invocations that satisfies what the harness prepares is a
burst: in the run these are `A1` and the foreign writer with distinct requests.
A lane that starts after the winner committed raises, because `create` is then
illegal, and its record says UNEXPECTED_EXCEPTION. When the lock keys of two
orders collide, a lane may be rejected with LOCK_TIMEOUT although lanes with an
order each are all expected to be accepted: `LockedOutByCollision` names that
lane, and the run gives both orders one key so that it occurs. Without this exception the claim
is false; its proof, for any lock keys, stopped there.

**Projection.** Writers are reduced to what a reader sees: a row takes its
position when inserted and becomes visible, or not, later. `process_next` is
load_eligible, load_state and reduce, save_state, advance_progress, commit. An
upsert waits while another open transaction has written the row. One projection
definition and one epoch: rows of others are filtered by equality in every
statement and never meet.

**Snapshots.** A save is an INSERT that may collide on its boundary, a load of
the row it collided with, a comparison and a commit; the row may be cleared in
between. One save per behaviour may carry a fault (payload, schema, version, or
a position ahead of history), which is what the checks are there to find. The
payload hash comes from the caller and is opaque to the store, which compares
nothing else; in the model it is the state itself, so two payloads are never given
one hash. A
reader resolves or validates in several statements, either under the
PostgreSQL observation boundary - one REPEATABLE READ transaction - or each
with its own view, as the generic validator does. `vouched` remembers that a
snapshot had been matched when the reader's call began, and
`TrustedResolutionIsReplay` speaks of those calls. The remembering is needed: a
transaction of REPEATABLE READ may hold a snapshot that is ahead of its own view
of history and that another reader, seeing a later append, matches meanwhile.

**In-memory pipeline.** Handlers interleave between their calls on the stores and
inside `EventStore.append`, which holds no lock: it looks the list of the order up
(`LookUp`), puts a new one in its place if there was none (`CreateStream`), compares
its length (`CheckVersion`) and appends to it (`Push`). `load` finds a list before it
copies it, so `Decide` may read any list that the order has had since the handler
began. `events_by_order_id` therefore keeps every list that the entry of an order has
had, the last being the one it has. The other calls are one access of a dictionary
each. The code does not guarantee that two handlers stay out of each other's way in
`append`, and when they do not, history breaks (section 4). `overlapped` is a history
variable: the orders in whose append two handlers have been at once.
`AnswersAreFacts` and `NothingSkipped` say which half holds regardless - an accepted
event was appended, a conflict and a stale write have a cause, no record is a gap -
and which only of the other orders: a legal history that holds every event a caller
was given, and states that are its replay. All other interleavings of the handlers,
and the switch that turns validation off, are inside the second half.

Two racing handlers with one `request_id` and different payloads may both be
accepted, the second record overwriting the first: the baseline promises no
exactly-once and the properties do not claim it. Signatures are compared raw here and
canonically in PostgreSQL, so 1.000 and 1.001 are a CONFLICT here and a REPLAY there.
Delivery in offset order is the caller's contract. Two workers that share stores are
not modelled.

**Receipt persistence.** `DecisionReceiptStore` keeps the client's view of a
connection (`pc`, `result`) apart from the server's (`transaction`, `written`),
because they part ways exactly where it matters: a transaction whose rollback
and close both failed is still open, a COMMIT whose answer was lost is decided
later (`ResolveCommit`), and `idle_in_transaction_session_timeout` ends sessions
that the client believes in (`TerminateIdleOwner`). Every call on the connection
may fail, and `result` collects the evidence the way the code's result builders
do; a payload is compared as a whole. `DecisionReceiptRuntime` puts the runtime
owner's lock around the operations of `InvocationOwner`, publishes a handle for
each normal result and lets any thread compose its receipt at any later time.
There the persist call is the three steps of the contract that the run
`receipt_store` shows `DecisionReceiptStore` to implement, and the receipt is
what the mapper of `WriteSideReceipt` makes of the result.

**Receipt payload.** A value is tagged with its Python or JSON type, so a
coercion is visible. JSONB returns a float whose text has an exponent (from
1e16) as an integer: such a receipt is stored and hydrates, but inserting it
again is a content conflict instead of ALREADY_PRESENT, and beyond 64 bits the
insert raises; `StoredRowsHydrate` and `SameIdentityIsCompared` state what holds
with this exception. Enum members
inside evidence are refused at serialization. The SQL CHECK vocabularies repeat
the Python enums and are modelled with them.

**Inventory promotion.** Candidates, receipts and evidence are values their
holders keep and may mix. Admission checks evidence against the candidate, not
against its previous uses: one candidate may be promoted twice with the same
evidence, and one receipt confirmed for several candidates. Nothing keeps a `receipt_id`
from being used for several receipts, and the run has only one.
`GovernedFactsAreGrounded` claims grounding, not uniqueness.

Operators named as a mistake (`CandidateEventOffByOne`, `LockNeverBusy`, ...)
are mutations of the definition that follows them. They are not part of any
specification; substituting one must make its property fail.

## 3. Runs

| Run | Instance | Shows |
|---|---|---|
| `write_side_mixed` | 3 invocations, both placements and gates, 5 commands (retry with another spelling, misuse, rival, payment) | type, gapless streams, exactly once, truthful proofs, truthful results, trace always accepted, implements `AcceptedHistory` |
| `write_side_liveness` | 3 invocations, optimistic in transaction, one request for two orders | every call ends |
| `invocation_owner` | A1, A2, one foreign writer, 2 threads, 5 commands, 4 configurations | authority needs a dead attempt, no superseded response, responses and history agree, recovery is earned, measurements fit every path and tell the truth, burst evidence fits every race |
| `replay_delivery` | the same | *violation*, section 4 |
| `held_values` | aggregate: 4 candidates, raw amounts -0.016 .. 0.026; inventory: one request id, one receipt id, 2 products, quantities 0, 5, 10, 2 facts | one legal life equal to its replay, the validator separates stale candidates, money is canonical; accepted inventory is grounded in confirmed receipts |
| `projection_competing` | 2 workers, 2 orders, 3 positions, 1 failure | derived state is the replay of its progress, NO_EVENT is true, every event is projected |
| `projection_snapshots` | 2 savers, 1 reader, 3 saves of which 1 faulty, tail pages of 1 event | what validation trusts resolves to the replay, verdicts of one transaction are real, a confirmed save stays, every result has receipt and trace |
| `in_memory_pipeline` | 2 callers, 2 orders, one request with two payloads and for two orders, 3 accepted events, one death of the worker, 2 clears | answers are facts, no record is skipped, the projection catches up |
| `append_race` | the same | *violation*, section 4 |
| `receipt_store` | 2 calls, one of which may stall for ever, receipts that collide by id or by producer | coherent evidence, classified conflicts, implements `DecisionReceiptContract`, the attentive call ends |
| `receipt_runtime` | A1, A2, one foreign writer, 2 threads, 3 configurations | receipts agree with accepted history, one per attempt, every normal result is explained |
| `receipt_payload` | absent, blank, boundary and foreign values, one edit | round trip exact, portable form canonical, rows hydrate, identities compared |

*Bounds.* An order has at most two events, so two orders and three writers
exhaust the shapes of a stream; three invocations are the least that lets two
race while a third retries or waits behind both. Amounts are chosen around ties
(1.000, 1.005 and 1.006 normalize to 1.00, 1.00 and 1.01, and 0.004 to zero).
`MaxPosition = 3` holds the two events of one order around a late, or rolled back,
one of the other; `MaxFailures = 1` lets a worker fail anywhere once and start again. Three saves
and two savers let a boundary be saved, collided with and saved again after a
clear; `TailLimit = 1` makes every tail longer than its page. `MaxDeaths = 1`
puts a death between the worker's two writes. `MaxAccepted = 3` of the in-memory
pipeline lets two creations of one order overlap and a third event follow, in the other
order or on the broken stream; it is also the length of the longest feed that is legal
in this instance, which offers one payment. Its `Modes` holds only the lenient
validator: a handler judges its candidate against the history it was built on, where
the strict one refuses nothing. The theorems cover both. Failures of receipt transactions
are not bounded. `MaxPersists` is one more than the code ever makes for a
handle, so a second call would be seen. `Int64Max = 9`, `ExponentFrom = 5` and
`MaxJsonDepth = 2` scale three limits of the payload down, each with values on
both sides; `EndsWithImport` ends a behaviour once the receipt that an edited
document became has been checked. `MaxHeld = 3` and
`MaxFacts = 2` are the least with which evidence for one candidate can be
presented for another after a first promotion. `held_values` holds the two components
in which nothing runs concurrently; they share nothing, so a behaviour exercises one of
them while the other stays as it was built.

*Deadlock* is not checked: callers stop calling, and a model whose invocations
are all done is finished.

*Symmetry* is over invocations, threads, savers and event identities, which no
definition distinguishes; it is not used where liveness is checked.

*Fairness.* `FairSpec` of the write side asks weak fairness of `Step(w)` only:
a call in progress keeps executing and PostgreSQL resumes a waiting INSERT when
its rival has ended. It asks nobody to begin a call, and no failure or timeout
to happen. `FairSpec` of the projection asks of both workers that `process_next`
is called again and runs to its end, which is how the worker is used; failures
are bounded, and writers promise nothing. `FairSpec` of the in-memory pipeline
asks that the worker is fed and finishes what it was fed; callers promise
nothing. `FairSpec` of the receipt store asks the server to resume waiting
inserts, to terminate idle sessions that carry the timeout and to decide lost
COMMITs, on every connection; of the clients it asks progress of the `Attentive`
ones only, because a thread that stalls with its transaction open is what the
timeout is for.

## 4. Findings

*A replay with a fraction of a cent cannot be delivered* (`replay_delivery`). The
write side compares canonical amounts and answers REPLAY; the owner then compares the
stored, normalized signature with the raw one it retained and raises, every time.
`docs/architecture/retry_reason_classification.md` says the meaning of an equal
fingerprint is "return previous accepted result".

*Two handlers inside `EventStore.append` break the history they were to protect*
(`append_race`). The docstring states the invariant "before appending sequence N,
store must currently contain exactly N-1 accepted events" and "stale writers must be
rejected here", a comment calls the comparison "Concurrency Gate: prevent Stale write",
and `OptimisticVersionGate` relies on it. But look-up, comparison and append are
separate statements without a lock. Two first appends of one order can each find no
list; the second puts its own in the place of the first, and an event whose caller is
told ACCEPTED is in no history. Or both find one empty list, both pass the comparison,
and the stream has two events of sequence 1: it can never be replayed again, and every
later command on the order raises. Two payments of one order meet in the same way. The
worker takes the second of two such records for already projected; when the creation
it projected is the one that was replaced, by one with another amount, it refuses the
payment that follows, for good (`Blocked`). The baseline is called a
single-invocation registry elsewhere in the documents, and with one thread none of this
occurs; the durable write side, which replaced it, has a unique key for the purpose.

## 5. Theorems

Every theorem holds for any values of the constants that satisfy the module's
`ASSUME`: any sets of invocations, writers, threads, workers, orders, requests,
commands and receipts, any lock keys, any bounds. The assumptions give the
constants their types and say that an absent event is no event; two say more:
`OwnerAssumption` (the owner's attempts are two different invocations) and
`IdentityAssumption` (a UUID is not a request or order identity; needed to read
the subject of a receipt).

| Theorem | Property |
|---|---|
| `TypeCorrect`, `StreamsAreGapless`, `RequestsTakeEffectOnce`, `HistoryIsTruthful` | `TypeOK`, `GaplessStreams`, `ExactlyOnce`, `TruthfulHistory` |
| `ResultsAreFacts`, `TraceIsAccepted` | `DeliveredResultsAreFacts`, `TraceAlwaysAccepted` |
| `Refinement` | `ImplementsAcceptedHistory` |
| `MeasurementIsDelivered`, `MeasurementIsTrue` | `MeasurementSurvivesEveryPath`, `MeasurementTellsTheTruth` |
| `OwnerImplements` | `OwnerSpec => Spec` |
| `AuthorityIsEarned`, `ResponseIsCurrent`, `ResponsesAreTrue` | `AuthorityNeedsDeadAttempt`, `NoSupersededResponse`, `ResponsesMatchHistory` |
| `RecoveryEarned` | `RecoveryIsEarned` |
| `RuntimeImplements` | `RuntimeSpec => OwnerSpec` |
| `ResultsAreExplained`, `OneReceipt`, `ReceiptsAreTrue` | `EveryResultIsExplained`, `OneReceiptPerAttempt`, `ReceiptsMatchHistory` |
| `BurstsAreValid` | `BurstEvidenceIsValid` |
| `LifeIsLegal`, `ValidatorSeparates`, `PaymentIsCanonical` | `OneLegalLife`, `ValidatorSeparatesStale`, `MoneyIsCanonical` |
| `DerivedStateIsReplay`, `NoEventIsTrue`, `ProgressIsStepwise` | `StateIsReplayOfProgress`, `NoEventMeansCaughtUp`, and progress that grows one event at a time |
| `EvidenceOfSaves`, `TrustedResolutions`, `ObservedVerdicts`, `ResultsAreReportable` | `SavedEvidenceStays`, `TrustedResolutionIsReplay`, `ObservedVerdictsAreReal`, `EveryResultIsReportable` |
| `AnswersHold`, `NoRecordIsSkipped` | `AnswersAreFacts`, `NothingSkipped` |
| `EvidenceIsCoherent`, `ConflictsAreFound`, `ContractRefinement` | `ResultsAreCoherent`, `ConflictsAreClassified`, `ImplementsContract` |
| `PromotionIsGrounded` | `GovernedFactsAreGrounded` |

**Tables of the write side.** The properties speak of committed rows and say
nothing of a transaction about to commit, so none is inductive. `IInv` adds the
uncommitted half:

- `Coupled(w)`: what `w` holds at each control point, and that its candidate
  follows history - it opens its stream or extends a committed CREATED event
  with the same amount. This survives other commits because committed rows are
  never removed, which is why a candidate validated before the transaction is
  still legal if its position is still free;
- `PendingInv`: an uncommitted event holds its stream position alone, among
  committed rows and other transactions, and an uncommitted idempotency row its
  request_id. That is what the two unique keys and the waits buy;
- `StreamsInv`, `MemoryInv`: streams are exactly 1..v, and events and records
  account for each other.

`NextIInv` has one lemma per action; steps that touch no table go through
`KeylessStep` and `ReturnStep`, and `PublishIInv` is the argument proper.
`OrderDomainProofs` has the facts about `InSequenceOrder`, `Rehydrate` and
money that `Load` needs.

**Results, traces and measurement.** `StepShape` reduces every step to one of
three kinds - it moves on, returns without committing, or publishes - and the
next part of `WriteSideProofs` is about those three. `AnswersInv`: a result
is absent until the end and a fact (`IsFact`) from then on; facts stay because
rows stay (`FactsStay`). The refinement needs `PayloadInv` besides: an
uncommitted row is the candidate of the command of its own invocation, so what
`Publish` makes visible is one `Accept` of a fresh, legal command. `TraceInv`
ties the recorded checkpoints to the control point: they are the beginning of
the canonical order that the placement prescribes, exactly as long as the point
reached says. `ToldInv` adds what a result says of the candidate, and that only
an invocation that was accepted, or raised, is in history. The measurement
theorems follow from the last two without induction: a trace determines which
phases were entered.

**Owner and recovery.** The owner's steps are write-side steps or stutter
(`OwnerRefines`), so all of the above holds with it. `OwnerInv` is its
lifecycle: who is inside which method, which result is current, which outcome
identities were minted, what the cached delivery says. An authorization rests
on evidence that no later step changes (`EndedStays`, `EligibleStays`), and a
version mismatch that was observed means the candidate's position is taken for
good (`OvertakenPosition`). `RecoveryInv` says the one executed proposal is A1's.

**Receipt runtime.** `KeptInv` says a finished invocation still has what its
result refers to. `PartsOfResult` then sorts every normal result into four
kinds of parts - accepted, found, blocked, rejected - and for each kind one
lemma shows that the semantic outcome and the receipt exist, agree and say what
happened (`Explains`, `Fated`). `CustodyInv` is inductive: a handle belongs to
an attempt that returned normally; once its receipt was asked for, its lock is
held or its delivery cached, so nothing is asked twice; every receipt asked for
`Tells` the truth, which stays so while rivals commit.

**Bursts.** `TraceInv` and `ToldInv` say what a lane recorded and was told, and
`BurstInv` adds what only the other lanes explain: advisory locks are held from
preparation on and exclude one another (`LocksInv`), a committed event is the
candidate of its author (`AuthorsInv`), a block is due to a lenient validator and
a rejection before the append to a rival with the same key (`DueInv`), and a lane
that locks before it reads, or has an order of its own, is never overtaken
(`FreshInv`), which is why STALE_WRITE cannot occur in those cohorts.
`LaneKinds` then sorts the lanes that returned into the few kinds there are,
`MatricesFit` compares each with the frozen expectations of the two experiments,
whose tables agree (`TablesAgree`), and `ObservationIsTrue` compares it with
the rows the harness reads at the end. `LostEvidence` is the other direction: a
reading of the clock that failed never goes unnoticed.

**Aggregate.** `CandidatesInv` (a candidate, however stale, was built on nothing
or on the event really applied first) and `LifeInv` (the three points of a
life). The money theorems rest on the arithmetic of half-even rounding.

**Projection.** `StreamsInv` (committed streams are beginnings of a life and an
open writer holds the next event), `DerivedInv` (state and progress row agree
with one committed event), `WorkersInv` (what a worker holds is the replay up to
its event, also while history grows) and `RowLocks` (two open transactions never
wrote the state row of one order).

**Snapshots.** `TablesInv` (streams are legal, states are derived from a beginning
of them) and `SaversInv` (a snapshot in the table conflicts with no other, nor with
what an open save inserted) give `EvidenceOfSaves`: a rival's unique key is taken
either by a row that can be loaded or by nothing. `TrustedInv` says a matched
snapshot is sound; it stays so because a snapshot is determined by its identity
and the events up to its boundary never change. `ReadersInv` couples a reader's
control point with what it holds: its snapshot, authority and tail fit the rows of
one state - its own view when it owns a transaction, and otherwise the committed
rows, of which it may hold an older beginning. The shape of the tail follows (it is
empty or the second event of the stream), and with it that the resolver's exit for
a tail with a gap is never taken. What is returned is judged in the step that
returns it, from these facts.

**In-memory pipeline.** The invariant has two halves. What a lock-free append still
gives to every order: a candidate answers its command, an accepted event stays in the
feed, and the feed holds the events of an order so that none comes before its
predecessor's sequence. The rest is claimed of orders whose appends have not
overlapped: their entry has had at most one list (`IntactInv`), it is a legal history
and holds every event that was accepted. There a handler keeps only one fact while
others move on: its candidate was legal on some prefix of its stream (`BuiltBefore`).
The version check admits it only if that prefix is the whole stream, and nobody else
is inside to change it before the push, so what is appended extends a legal history.
For the worker, `FeedOrderInv` says how the feed orders the events of one order and
`CheckpointInv` that the checkpoint covers only records whose sequence their states
have reached - the two together make the next record applied, already projected, or,
after overlapping appends, refused (`NothingSkippedFollows`). A record whose state is
saved and whose checkpoint is not is the next one, so a death in between costs a
redelivery and nothing else. That a state is a replay rests on `ReplayLegal` in
`OrderDomainProofs`, which unrolls the loop: a legal history has two events at
most.

**Receipt persistence.** `ServerInv` and `ResultInv` couple the client's view of
its connection with the server's at every control point, `RowsInv` says every
row was written by a call that reported COMMITTED or UNKNOWN. The contract is
implemented with `report` read off the result of a call that has ended.

**Inventory promotion.** The missing half is `EvidenceHasOrigin`: a warehouse
confirmation exists only for a candidate and a receipt that exist.

**Model-checked only.** Liveness, which is out of the prover's reach
(`EveryCallEnds`, `EveryEventProjected`, `EveryPersistEnds`,
`ProjectionCatchesUp`). The properties of `DecisionReceiptPayload`, whose
conversions are `RECURSIVE` over nested values: what they compute for every value
is an induction over data. Every other property of a passing run is a theorem.

## 6. Not modelled

- Lane threads, their barrier, schedules, smoke executor, start offsets, scenario E
  and evidence files of the concurrency experiments: `BurstEvidence` judges the
  races themselves. The timing harnesses of the idempotency and
  governance-overhead experiments are sequential and produce durations.
- Semantic replanning: one comparison by a synchronous owner and a pure planner.
- The global-position cursor: unused by the durable worker; the mistake it would
  make is the mutation `EligibleAfterCursor`.
- The correctness contract and its YAML rendering, database roles, bootstrap:
  data, grants and construction, without state.
- `isinstance` checks on arguments: a model value has its type. The exception is
  the payload, where foreign types arrive in documents.
- `INFRASTRUCTURE_ERROR` is unreachable in the composition as built and is left
  out of the write side. UUID collisions, NUMERIC overflow of amounts, clock
  values, texts with NUL and keys that are not strings are not modelled.

## 7. Plan

1. Composition of write side and projection: derived state against
   `AcceptedHistory`.
2. Two in-memory workers that share stores; the lane barrier of the experiments.
