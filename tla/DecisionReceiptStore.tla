------------------------ MODULE DecisionReceiptStore ------------------------
(***************************************************************************)
(* PostgresDecisionReceiptTransactionOwner.persist on top of               *)
(* PostgresDecisionReceiptStore.insert: concurrent calls, each with one    *)
(* governance transaction on a dedicated connection.                       *)
(*                                                                         *)
(* A step is one statement or one call on the connection, with the code up *)
(* to the next.  The server's side of a connection outlives the client's   *)
(* view of it: a transaction whose rollback and close both failed stays    *)
(* open, and a COMMIT whose answer was lost is resolved at some later      *)
(* time.  The isolation level is READ COMMITTED.                           *)
(***************************************************************************)
EXTENDS DecisionReceipt, FiniteSets

CONSTANTS
  Persisters,      \* calls of persist
  Receipts,        \* the receipts they may be called with
  AcceptedEvents,  \* the events in accepted history
  Attentive        \* calls whose thread keeps running; any other may stall

ASSUME ReceiptAssumption ==
  /\ Attentive \subseteq Persisters
  /\ \A r \in Receipts : validate_admission_evidence(r)

VARIABLES
  decision_receipts,  \* committed rows
  asked,              \* the receipt of each call
  written,            \* uncommitted rows of each transaction
  transaction,        \* the server's side of each connection
  pc,                 \* what each call does next
  result              \* the transaction result as far as it is known

vars == <<decision_receipts, asked, written, transaction, pc, result>>
----------------------------------------------------------------------------
(* Transaction results.                                                    *)

NoResult ==
  [durability |-> "none", rollback |-> "none", statement |-> "none", failure |-> "none",
   conflict |-> "none", connection |-> "none", cleanup |-> {}]

\* _validate_rolled_back_acquired_result
RolledBack(r) ==
  \/ r.rollback = "CONFIRMED" /\ r.connection \in {"CLOSED", "CLEANUP_FAILED"}
  \/ r.rollback = "FAILED" /\ r.connection \in {"DISCARDED", "CLEANUP_FAILED"}

\* _validate_result_coherence with the validators it calls; __post_init__
\* raises on any other combination.
validate_result_coherence(r) ==
  LET kept == r.connection \in {"CLOSED", "CLEANUP_FAILED"}
      lost == r.connection \in {"DISCARDED", "CLEANUP_FAILED"}
      bare == r.statement = "none" /\ r.conflict = "none"
  IN
  /\ r.rollback = "FAILED" <=> "ROLLBACK_FAILED" \in r.cleanup
  /\ r.connection = "CLEANUP_FAILED" <=> "CONNECTION_CLOSE_FAILED" \in r.cleanup
  /\ r.connection = "none" <=> r.failure = "CONNECTION_ACQUISITION_FAILED"
  /\ CASE r.failure = "CONNECTION_ACQUISITION_FAILED" ->
            r.durability = "NOT_COMMITTED" /\ bare /\ r.rollback = "NOT_REQUIRED"
       [] r.durability = "COMMITTED" ->
            /\ r.statement # "none" /\ r.failure = "none" /\ r.conflict = "none"
            /\ r.rollback = "NOT_REQUIRED" /\ kept
       [] r.durability = "UNKNOWN" ->
            /\ r.statement # "none" /\ r.failure = "COMMIT_FAILED" /\ r.conflict = "none"
            /\ r.rollback = "NOT_POSSIBLE" /\ lost
       [] r.failure = "CONFLICT" ->
            r.conflict # "none" /\ r.statement = "none" /\ RolledBack(r)
       [] r.failure = "IDLE_OWNER_TIMEOUT" ->
            r.conflict = "none" /\ r.rollback = "NOT_POSSIBLE" /\ lost
       [] r.failure \in {"TIMEOUT_CONFIGURATION_FAILED", "STORE_OPERATION_FAILED"} ->
            bare /\ RolledBack(r)
       [] r.failure = "AUTOCOMMIT_ENABLED" -> bare /\ r.rollback = "NOT_REQUIRED" /\ kept
       [] r.failure \in {"TRANSACTION_NOT_IDLE", "CONNECTION_STATE_UNAVAILABLE"} ->
            bare /\ r.rollback = "NOT_POSSIBLE" /\ lost
       [] OTHER -> FALSE

----------------------------------------------------------------------------
(* How a call proceeds and ends.                                           *)

ReceiptOf(p) == CHOOSE r \in asked[p] : TRUE
InTransaction(p) == transaction[p] \in {"open", "guarded"}

Goto(p, next) == pc' = [pc EXCEPT ![p] = next]

\* The result is settled but for what closing the connection adds to it.
CloseWith(p, r) == Goto(p, "close") /\ result' = [result EXCEPT ![p] = r]

\* _precommit_failure_result up to its rollback.
PrecommitFailure(p, failure, conflict) ==
  /\ Goto(p, "rollback")
  /\ result' = [result EXCEPT ![p] =
       [NoResult EXCEPT !.durability = "NOT_COMMITTED", !.failure = failure, !.conflict = conflict]]

\* _idle_owner_timeout_result: the server has rolled back, the client does not.
IdleOwnerTimeout(p, statement) ==
  CloseWith(p, [NoResult EXCEPT !.durability = "NOT_COMMITTED", !.rollback = "NOT_POSSIBLE",
                  !.statement = statement, !.failure = "IDLE_OWNER_TIMEOUT",
                  !.connection = "DISCARDED"])

\* A mistake: a commit that raised is reported as not committed.
CommitFailureIsKnown(p) ==
  CloseWith(p, [NoResult EXCEPT !.durability = "NOT_COMMITTED", !.rollback = "NOT_POSSIBLE",
                  !.statement = result[p].statement, !.failure = "IDLE_OWNER_TIMEOUT",
                  !.connection = "DISCARDED"])

\* _commit_ambiguous_result
CommitAmbiguous(p) ==
  CloseWith(p, [NoResult EXCEPT !.durability = "UNKNOWN", !.rollback = "NOT_POSSIBLE",
                  !.statement = result[p].statement, !.failure = "COMMIT_FAILED",
                  !.connection = "DISCARDED"])

----------------------------------------------------------------------------
(* The client's steps.                                                     *)

\* persist is called with a complete receipt.
Persist(p) ==
  /\ pc[p] = "new"
  /\ \E r \in Receipts : asked' = [asked EXCEPT ![p] = {r}]
  /\ Goto(p, "acquire")
  /\ UNCHANGED <<decision_receipts, written, transaction, result>>

\* One connection is acquired and its entry state is validated.
AcquireConnection(p) ==
  /\ pc[p] = "acquire"
  /\ \/ Goto(p, "configure") /\ UNCHANGED result
     \/ /\ Goto(p, "done")
        /\ result' = [result EXCEPT ![p] =
             [NoResult EXCEPT !.durability = "NOT_COMMITTED", !.rollback = "NOT_REQUIRED",
                !.failure = "CONNECTION_ACQUISITION_FAILED"]]
     \/ CloseWith(p, [NoResult EXCEPT !.durability = "NOT_COMMITTED",
                        !.rollback = "NOT_REQUIRED", !.failure = "AUTOCOMMIT_ENABLED",
                        !.connection = "CLOSED"])
     \/ \E failure \in {"TRANSACTION_NOT_IDLE", "CONNECTION_STATE_UNAVAILABLE"} :
          CloseWith(p, [NoResult EXCEPT !.durability = "NOT_COMMITTED",
                          !.rollback = "NOT_POSSIBLE", !.failure = failure,
                          !.connection = "DISCARDED"])
  /\ UNCHANGED <<decision_receipts, asked, written, transaction>>

\* A mistake: the transaction is opened without the idle-owner timeout.
ApplyNoTimeout(p) ==
  /\ pc[p] = "configure"
  /\ transaction' = [transaction EXCEPT ![p] = "open"]
  /\ Goto(p, "insert")
  /\ UNCHANGED <<decision_receipts, asked, written, result>>

\* _apply_transaction_local_timeout: BEGIN and set_config(..., is_local).
ApplyTimeout(p) ==
  /\ pc[p] = "configure"
  /\ \/ transaction' = [transaction EXCEPT ![p] = "guarded"] /\ Goto(p, "insert") /\ UNCHANGED result
     \/ /\ transaction' \in {transaction, [transaction EXCEPT ![p] = "open"]}
        /\ PrecommitFailure(p, "TIMEOUT_CONFIGURATION_FAILED", "none")
     \/ IdleOwnerTimeout(p, "none") /\ UNCHANGED transaction
  /\ UNCHANGED <<decision_receipts, asked, written>>

\* Open transactions that have inserted a row the row of p collides with.
Rivals(p) ==
  {q \in Persisters \ {p} : \E row \in written[q] : Collide(row.receipt, ReceiptOf(p))}

Taken(p) == \E row \in decision_receipts : Collide(row.receipt, ReceiptOf(p))

\* fk_decision_receipts_accepted_event
Referenced(r) == r.accepted_event_id \in AcceptedEvents \cup {NoEvent}

\* A mistake: a row that is not committed yet already counts as a conflict.
FinishInsertUnwaiting(p) ==
  \/ /\ Taken(p) \/ Rivals(p) # {}
     /\ Goto(p, "by_receipt_id") /\ UNCHANGED <<written, result>>
  \/ /\ ~Taken(p) /\ Rivals(p) = {}
     /\ written' = [written EXCEPT ![p] = {Row(ReceiptOf(p), p)}]
     /\ result' = [result EXCEPT ![p].statement = "INSERTED"]
     /\ Goto(p, "commit")

\* INSERT ... ON CONFLICT DO NOTHING comes to its end: no row, a new row, or
\* an accepted event that does not exist.
FinishInsert(p) ==
  /\ Rivals(p) = {}
  /\ \/ Taken(p) /\ Goto(p, "by_receipt_id") /\ UNCHANGED <<written, result>>
     \/ /\ ~Taken(p) /\ Referenced(ReceiptOf(p))
        /\ written' = [written EXCEPT ![p] = {Row(ReceiptOf(p), p)}]
        /\ result' = [result EXCEPT ![p].statement = "INSERTED"]
        /\ Goto(p, "commit")
     \/ /\ ~Taken(p) /\ ~Referenced(ReceiptOf(p))
        /\ PrecommitFailure(p, "STORE_OPERATION_FAILED", "none")
        /\ UNCHANGED written

\* PostgresDecisionReceiptStore.insert, its INSERT.
InsertReceipt(p) ==
  /\ pc[p] = "insert" /\ InTransaction(p)
  /\ FinishInsert(p)
  /\ UNCHANGED <<decision_receipts, asked, transaction>>

\* The INSERT waits for an open rival to end.
InsertWaits(p) ==
  /\ pc[p] = "insert" /\ InTransaction(p) /\ Rivals(p) # {}
  /\ Goto(p, "waiting")
  /\ UNCHANGED <<decision_receipts, asked, written, transaction, result>>

\* _same_versioned_payload
SamePayload(existing, r) == existing.receipt = r

\* insert, no row returned: load_by_receipt_id and the comparison with it.
LoadByReceiptId(p) ==
  LET existing == {row \in decision_receipts : row.receipt.receipt_id = ReceiptOf(p).receipt_id}
  IN
  /\ pc[p] = "by_receipt_id" /\ InTransaction(p)
  /\ \/ /\ \E row \in existing : SamePayload(row, ReceiptOf(p))
        /\ result' = [result EXCEPT ![p].statement = "ALREADY_PRESENT"]
        /\ Goto(p, "commit")
     \/ /\ \E row \in existing : ~SamePayload(row, ReceiptOf(p))
        /\ PrecommitFailure(p, "CONFLICT", "RECEIPT_ID_CONTENT_CONFLICT")
     \/ existing = {} /\ Goto(p, "by_producer") /\ UNCHANGED result
  /\ UNCHANGED <<decision_receipts, asked, written, transaction>>

\* The admitted row that occupies the producer identity of p.
Occupant(p) ==
  {row \in decision_receipts :
     /\ AdmittedWriteSide(ReceiptOf(p)) /\ AdmittedWriteSide(row.receipt)
     /\ row.receipt.accepted_event_id = ReceiptOf(p).accepted_event_id}

\* insert: load_admitted_write_side_materialization_by_accepted_event_id, and
\* the RuntimeError when nothing can be classified.
LoadByProducer(p) ==
  /\ pc[p] = "by_producer" /\ InTransaction(p)
  /\ IF Occupant(p) # {}
     THEN PrecommitFailure(p, "CONFLICT", "ACCEPTED_PRODUCER_IDENTITY_CONFLICT")
     ELSE PrecommitFailure(p, "STORE_OPERATION_FAILED", "none")
  /\ UNCHANGED <<decision_receipts, asked, written, transaction>>

\* A statement of the store fails; an INSERT may have taken effect in the
\* transaction all the same.
StoreFails(p) ==
  /\ pc[p] \in {"insert", "waiting", "by_receipt_id", "by_producer"}
  /\ PrecommitFailure(p, "STORE_OPERATION_FAILED", "none")
  /\ \/ UNCHANGED written
     \/ /\ pc[p] \in {"insert", "waiting"} /\ InTransaction(p)
        /\ Rivals(p) = {} /\ ~Taken(p) /\ Referenced(ReceiptOf(p))
        /\ written' = [written EXCEPT ![p] = {Row(ReceiptOf(p), p)}]
  /\ UNCHANGED <<decision_receipts, asked, transaction>>

\* A statement of the store meets a session that the server has terminated.
StoreFindsTermination(p) ==
  /\ pc[p] \in {"insert", "by_receipt_id", "by_producer"} /\ transaction[p] = "terminated"
  /\ IdleOwnerTimeout(p, "none")
  /\ UNCHANGED <<decision_receipts, asked, written, transaction>>

\* commit returns: _committed_result up to the close.
Commit(p) ==
  /\ pc[p] = "commit" /\ InTransaction(p)
  /\ decision_receipts' = decision_receipts \cup written[p]
  /\ written' = [written EXCEPT ![p] = {}]
  /\ transaction' = [transaction EXCEPT ![p] = "none"]
  /\ CloseWith(p, [NoResult EXCEPT !.durability = "COMMITTED", !.rollback = "NOT_REQUIRED",
                     !.statement = result[p].statement, !.connection = "CLOSED"])
  /\ UNCHANGED asked

\* commit raises: the server may have the COMMIT, and may act on it later.
CommitRaises(p) ==
  /\ pc[p] = "commit" /\ InTransaction(p)
  /\ transaction' = [transaction EXCEPT ![p] = "in_doubt"]
  /\ CommitAmbiguous(p)
  /\ UNCHANGED <<decision_receipts, asked, written>>

\* commit meets a terminated session: with its SQLSTATE the outcome is known,
\* with any other error it is not.
CommitFindsTermination(p) ==
  /\ pc[p] = "commit" /\ transaction[p] = "terminated"
  /\ IdleOwnerTimeout(p, result[p].statement) \/ CommitAmbiguous(p)
  /\ UNCHANGED <<decision_receipts, asked, written, transaction>>

\* A mistake: the failed rollback is not recorded among the cleanup failures.
RollbackFailureUnrecorded(p) ==
  /\ pc[p] = "rollback"
  /\ \/ /\ transaction' = [transaction EXCEPT ![p] = "none"]
        /\ written' = [written EXCEPT ![p] = {}]
        /\ CloseWith(p, [result[p] EXCEPT !.rollback = "CONFIRMED", !.connection = "CLOSED"])
     \/ /\ CloseWith(p, [result[p] EXCEPT !.rollback = "FAILED", !.connection = "DISCARDED"])
        /\ UNCHANGED <<written, transaction>>
  /\ UNCHANGED <<decision_receipts, asked>>

\* _precommit_failure_result: rollback, confirmed or failed.
Rollback(p) ==
  /\ pc[p] = "rollback"
  /\ \/ /\ transaction' = [transaction EXCEPT ![p] = "none"]
        /\ written' = [written EXCEPT ![p] = {}]
        /\ CloseWith(p, [result[p] EXCEPT !.rollback = "CONFIRMED", !.connection = "CLOSED"])
     \/ /\ CloseWith(p, [result[p] EXCEPT !.rollback = "FAILED", !.connection = "DISCARDED",
                           !.cleanup = {"ROLLBACK_FAILED"}])
        /\ UNCHANGED <<written, transaction>>
  /\ UNCHANGED <<decision_receipts, asked>>

\* _close_connection: closing ends what is open on the server, unless a
\* COMMIT is under way; a failed close leaves it there.
CloseConnection(p) ==
  /\ pc[p] = "close"
  /\ Goto(p, "done")
  /\ \/ /\ UNCHANGED result
        /\ IF transaction[p] = "in_doubt" THEN UNCHANGED <<written, transaction>>
           ELSE /\ transaction' = [transaction EXCEPT ![p] = "none"]
                /\ written' = [written EXCEPT ![p] = {}]
     \/ /\ result' = [result EXCEPT ![p].connection = "CLEANUP_FAILED",
                                    ![p].cleanup = @ \cup {"CONNECTION_CLOSE_FAILED"}]
        /\ UNCHANGED <<written, transaction>>
  /\ UNCHANGED <<decision_receipts, asked>>

----------------------------------------------------------------------------
(* The server's steps.                                                     *)

\* The rival ended and the waiting INSERT comes to its end.
InsertResumes(p) ==
  /\ pc[p] = "waiting"
  /\ FinishInsert(p)
  /\ UNCHANGED <<decision_receipts, asked, transaction>>

\* idle_in_transaction_session_timeout ends a session that executes nothing,
\* also one that its owner has given up.
TerminateIdleOwner(p) ==
  /\ transaction[p] = "guarded" /\ pc[p] # "waiting"
  /\ transaction' = [transaction EXCEPT ![p] = "terminated"]
  /\ written' = [written EXCEPT ![p] = {}]
  /\ UNCHANGED <<decision_receipts, asked, pc, result>>

\* A COMMIT whose answer was lost takes effect, or never arrived.
ResolveCommit(p) ==
  /\ transaction[p] = "in_doubt"
  /\ decision_receipts' \in {decision_receipts, decision_receipts \cup written[p]}
  /\ transaction' = [transaction EXCEPT ![p] = "none"]
  /\ written' = [written EXCEPT ![p] = {}]
  /\ UNCHANGED <<asked, pc, result>>
----------------------------------------------------------------------------
Init ==
  /\ decision_receipts = {}
  /\ asked       = [p \in Persisters |-> {}]
  /\ written     = [p \in Persisters |-> {}]
  /\ transaction = [p \in Persisters |-> "none"]
  /\ pc          = [p \in Persisters |-> "new"]
  /\ result      = [p \in Persisters |-> NoResult]

ClientStep(p) ==
  \/ AcquireConnection(p) \/ ApplyTimeout(p) \/ InsertReceipt(p) \/ InsertWaits(p)
  \/ LoadByReceiptId(p) \/ LoadByProducer(p) \/ StoreFindsTermination(p)
  \/ Commit(p) \/ CommitFindsTermination(p) \/ Rollback(p) \/ CloseConnection(p)

ServerStep(p) == InsertResumes(p) \/ TerminateIdleOwner(p) \/ ResolveCommit(p)

Next ==
  \E p \in Persisters :
    Persist(p) \/ ClientStep(p) \/ ServerStep(p) \/ StoreFails(p) \/ CommitRaises(p)

Spec == Init /\ [][Next]_vars

\* The server keeps its promises to every connection; of the clients only the
\* attentive ones are known to keep running.
FairSpec ==
  /\ Spec
  /\ \A p \in Persisters :
       WF_vars(InsertResumes(p)) /\ WF_vars(TerminateIdleOwner(p)) /\ WF_vars(ResolveCommit(p))
  /\ \A p \in Attentive : WF_vars(ClientStep(p))
----------------------------------------------------------------------------
(* Properties.                                                             *)

\* Every combination of evidence that the failure paths of persist put
\* together passes the coherence validation in __post_init__, so a call that
\* comes to its end returns its evidence instead of raising.
ResultsAreCoherent ==
  \A p \in Persisters : pc[p] = "done" => validate_result_coherence(result[p])

\* The INSERT returns no row only when the row it lost to can be found by the
\* lookups that follow, so the "no existing receipt identity could be
\* classified" error never happens.
ConflictsAreClassified ==
  \A p \in Persisters : pc[p] = "by_producer" => Occupant(p) # {}

\* persist implements the contract of DecisionReceiptContract.
Contract ==
  INSTANCE DecisionReceiptContract
    WITH report <- [p \in Persisters |-> IF pc[p] = "done" THEN result[p].durability ELSE "none"]
ImplementsContract == Contract!ContractSpec

\* An owner that stalls, or whose connection can neither be rolled back nor
\* closed, delays a rival only until the idle-owner timeout: every call whose
\* own thread keeps running ends.
EveryPersistEnds ==
  \A p \in Attentive : pc[p] # "new" ~> pc[p] = "done"
=============================================================================
