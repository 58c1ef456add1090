--------------------- MODULE DecisionReceiptStoreProofs ---------------------
(***************************************************************************)
(* The proofs that persist implements the contract of decision receipts,   *)
(* that the evidence of every path through it is coherent, and that every  *)
(* row an INSERT loses to can be found again: for any number of concurrent *)
(* calls, any receipts and any accepted history.                           *)
(***************************************************************************)
EXTENDS DecisionReceiptStore, TLAPS

Before == {"new", "acquire", "configure", "insert", "waiting", "by_receipt_id", "by_producer"}
Ended  == {"close", "done"}

ResultRecord ==
  [durability : {"none", "COMMITTED", "NOT_COMMITTED", "UNKNOWN"},
   rollback   : {"none", "CONFIRMED", "FAILED", "NOT_REQUIRED", "NOT_POSSIBLE"},
   statement  : {"none", "INSERTED", "ALREADY_PRESENT"},
   failure    : {"none", "CONNECTION_ACQUISITION_FAILED", "AUTOCOMMIT_ENABLED",
                 "TRANSACTION_NOT_IDLE", "CONNECTION_STATE_UNAVAILABLE",
                 "TIMEOUT_CONFIGURATION_FAILED", "STORE_OPERATION_FAILED", "CONFLICT",
                 "IDLE_OWNER_TIMEOUT", "COMMIT_FAILED"},
   conflict   : {"none", "RECEIPT_ID_CONTENT_CONFLICT", "ACCEPTED_PRODUCER_IDENTITY_CONFLICT"},
   connection : {"none", "CLOSED", "DISCARDED", "CLEANUP_FAILED"},
   cleanup    : SUBSET {"ROLLBACK_FAILED", "CONNECTION_CLOSE_FAILED"}]

TypesInv ==
  /\ asked \in [Persisters -> SUBSET Receipts]
  /\ written \in [Persisters -> SUBSET [receipt : Receipts, by : Persisters]]
  /\ transaction \in [Persisters -> {"none", "open", "guarded", "terminated", "in_doubt"}]
  /\ pc \in [Persisters -> Before \cup {"commit", "rollback"} \cup Ended]
  /\ result \in [Persisters -> ResultRecord]

\* A call holds one receipt from its beginning on, and an uncommitted row of
\* its own only in a transaction the server still has; a COMMIT is in doubt
\* only after the call has said so.
ServerInv(p) ==
  /\ pc[p] = "new" => asked[p] = {}
  /\ pc[p] # "new" => \E r \in Receipts : asked[p] = {r}
  /\ \A row \in written[p] : row = Row(ReceiptOf(p), p)
  /\ written[p] # {} => /\ transaction[p] \in {"open", "guarded", "in_doubt"}
                        /\ pc[p] \in {"commit", "rollback"} \cup Ended
  /\ pc[p] \in {"insert", "by_receipt_id", "by_producer", "commit"} =>
       transaction[p] \in {"guarded", "terminated"}
  /\ pc[p] = "waiting" => transaction[p] = "guarded"
  /\ transaction[p] = "in_doubt" => pc[p] \in Ended /\ result[p].durability = "UNKNOWN"

\* The payload of p is in the table.
Durable(p) == \E row \in decision_receipts : row.receipt = ReceiptOf(p)

\* A failure before commit, its rollback still to come.
FailedEarly(r) ==
  /\ r.durability = "NOT_COMMITTED" /\ r.statement = "none" /\ r.cleanup = {}
  /\ \/ r.failure = "CONFLICT" /\ r.conflict # "none"
     \/ /\ r.failure \in {"TIMEOUT_CONFIGURATION_FAILED", "STORE_OPERATION_FAILED"}
        /\ r.conflict = "none"

\* A result that only the close of its connection may still add to.
Settled(r) ==
  /\ validate_result_coherence(r)
  /\ r.durability \in {"COMMITTED", "NOT_COMMITTED", "UNKNOWN"}

\* What is known of the result at each point, and what it rests on.
ResultInv(p) ==
  LET r == result[p]
  IN
  /\ pc[p] \in Before => r = NoResult
  /\ pc[p] = "by_receipt_id" => Taken(p)
  /\ pc[p] = "by_producer" => Occupant(p) # {}
  /\ pc[p] = "commit" =>
       \/ r.statement = "INSERTED"
          /\ (InTransaction(p) => written[p] = {Row(ReceiptOf(p), p)})
       \/ r.statement = "ALREADY_PRESENT" /\ Durable(p)
  /\ pc[p] = "rollback" => FailedEarly(r)
  /\ pc[p] = "close" => r.connection \in {"CLOSED", "DISCARDED"}
  /\ pc[p] \in Ended => Settled(r) /\ (r.durability = "COMMITTED" => Durable(p))

\* The committed rows: each was written by one call that says so or does not
\* know, and no uncommitted row collides with them or with another.
RowsInv ==
  /\ \A row \in decision_receipts :
       \E p \in Persisters :
         /\ pc[p] \in Ended /\ result[p].durability \in {"COMMITTED", "UNKNOWN"}
         /\ row = Row(ReceiptOf(p), p) /\ written[p] = {}
  /\ \A p \in Persisters : \A row \in written[p] : \A s \in decision_receipts :
       ~Collide(s.receipt, row.receipt)
  /\ \A p, q \in Persisters : p # q =>
       \A row \in written[p], s \in written[q] : ~Collide(s.receipt, row.receipt)

\* The inductive invariant.
IInv ==
  /\ TypesInv
  /\ \A p \in Persisters : ServerInv(p) /\ ResultInv(p)
  /\ RowsInv

----------------------------------------------------------------------------
(* Evidence.                                                               *)

\* Two receipts collide with one another or not at all.
LEMMA CollideSymmetric == \A r, s : Collide(r, s) <=> Collide(s, r)
BY DEF Collide

\* The results that are settled when the connection is to be closed, or when
\* there is none, pass the coherence validation.
LEMMA SettledResults ==
  ASSUME NEW statement \in {"none", "INSERTED", "ALREADY_PRESENT"}
  PROVE  /\ LET r == [NoResult EXCEPT !.durability = "NOT_COMMITTED",
                        !.rollback = "NOT_REQUIRED",
                        !.failure = "CONNECTION_ACQUISITION_FAILED"]
            IN  Settled(r) /\ r \in ResultRecord /\ r.durability = "NOT_COMMITTED"
         /\ LET r == [NoResult EXCEPT !.durability = "NOT_COMMITTED",
                        !.rollback = "NOT_REQUIRED", !.failure = "AUTOCOMMIT_ENABLED",
                        !.connection = "CLOSED"]
            IN  /\ Settled(r) /\ r \in ResultRecord /\ r.connection \in {"CLOSED", "DISCARDED"}
                /\ r.durability = "NOT_COMMITTED"
         /\ \A failure \in {"TRANSACTION_NOT_IDLE", "CONNECTION_STATE_UNAVAILABLE"} :
              LET r == [NoResult EXCEPT !.durability = "NOT_COMMITTED",
                          !.rollback = "NOT_POSSIBLE", !.failure = failure,
                          !.connection = "DISCARDED"]
              IN  /\ Settled(r) /\ r \in ResultRecord /\ r.connection \in {"CLOSED", "DISCARDED"}
                  /\ r.durability = "NOT_COMMITTED"
         /\ LET r == [NoResult EXCEPT !.durability = "NOT_COMMITTED",
                        !.rollback = "NOT_POSSIBLE", !.statement = statement,
                        !.failure = "IDLE_OWNER_TIMEOUT", !.connection = "DISCARDED"]
            IN  /\ Settled(r) /\ r \in ResultRecord /\ r.connection \in {"CLOSED", "DISCARDED"}
                /\ r.durability = "NOT_COMMITTED"
         /\ statement # "none" =>
              /\ LET r == [NoResult EXCEPT !.durability = "UNKNOWN",
                             !.rollback = "NOT_POSSIBLE", !.statement = statement,
                             !.failure = "COMMIT_FAILED", !.connection = "DISCARDED"]
                 IN  /\ Settled(r) /\ r \in ResultRecord
                     /\ r.connection \in {"CLOSED", "DISCARDED"} /\ r.durability = "UNKNOWN"
              /\ LET r == [NoResult EXCEPT !.durability = "COMMITTED",
                             !.rollback = "NOT_REQUIRED", !.statement = statement,
                             !.connection = "CLOSED"]
                 IN  /\ Settled(r) /\ r \in ResultRecord
                     /\ r.connection \in {"CLOSED", "DISCARDED"} /\ r.durability = "COMMITTED"
<1> USE DEF Settled, validate_result_coherence, RolledBack, NoResult, ResultRecord
<1>1. LET r == [NoResult EXCEPT !.durability = "NOT_COMMITTED", !.rollback = "NOT_REQUIRED",
                  !.failure = "CONNECTION_ACQUISITION_FAILED"]
      IN  Settled(r) /\ r \in ResultRecord /\ r.durability = "NOT_COMMITTED"
  OBVIOUS
<1>2. LET r == [NoResult EXCEPT !.durability = "NOT_COMMITTED", !.rollback = "NOT_REQUIRED",
                  !.failure = "AUTOCOMMIT_ENABLED", !.connection = "CLOSED"]
      IN  /\ Settled(r) /\ r \in ResultRecord /\ r.connection \in {"CLOSED", "DISCARDED"}
          /\ r.durability = "NOT_COMMITTED"
  OBVIOUS
<1>3. ASSUME NEW failure \in {"TRANSACTION_NOT_IDLE", "CONNECTION_STATE_UNAVAILABLE"}
      PROVE  LET r == [NoResult EXCEPT !.durability = "NOT_COMMITTED",
                         !.rollback = "NOT_POSSIBLE", !.failure = failure,
                         !.connection = "DISCARDED"]
             IN  /\ Settled(r) /\ r \in ResultRecord /\ r.connection \in {"CLOSED", "DISCARDED"}
                 /\ r.durability = "NOT_COMMITTED"
  OBVIOUS
<1>4. LET r == [NoResult EXCEPT !.durability = "NOT_COMMITTED", !.rollback = "NOT_POSSIBLE",
                  !.statement = statement, !.failure = "IDLE_OWNER_TIMEOUT",
                  !.connection = "DISCARDED"]
      IN  /\ Settled(r) /\ r \in ResultRecord /\ r.connection \in {"CLOSED", "DISCARDED"}
          /\ r.durability = "NOT_COMMITTED"
  OBVIOUS
<1>5. ASSUME statement # "none"
      PROVE  LET r == [NoResult EXCEPT !.durability = "UNKNOWN", !.rollback = "NOT_POSSIBLE",
                         !.statement = statement, !.failure = "COMMIT_FAILED",
                         !.connection = "DISCARDED"]
             IN  /\ Settled(r) /\ r \in ResultRecord
                 /\ r.connection \in {"CLOSED", "DISCARDED"} /\ r.durability = "UNKNOWN"
  BY <1>5
<1>6. ASSUME statement # "none"
      PROVE  LET r == [NoResult EXCEPT !.durability = "COMMITTED", !.rollback = "NOT_REQUIRED",
                         !.statement = statement, !.connection = "CLOSED"]
             IN  /\ Settled(r) /\ r \in ResultRecord
                 /\ r.connection \in {"CLOSED", "DISCARDED"} /\ r.durability = "COMMITTED"
  BY <1>6
<1> HIDE DEF Settled, validate_result_coherence, RolledBack, NoResult, ResultRecord
<1> QED BY <1>1, <1>2, <1>3, <1>4, <1>5, <1>6

\* The failures before commit, and the statement that has come to its end.
LEMMA EarlyResults ==
  /\ NoResult \in ResultRecord /\ NoResult.durability = "none"
  /\ \A statement \in {"INSERTED", "ALREADY_PRESENT"} :
       LET r == [NoResult EXCEPT !.statement = statement]
       IN  r \in ResultRecord /\ r.statement = statement
  /\ \A failure \in {"TIMEOUT_CONFIGURATION_FAILED", "STORE_OPERATION_FAILED"} :
       LET r == [NoResult EXCEPT !.durability = "NOT_COMMITTED", !.failure = failure,
                                 !.conflict = "none"]
       IN  r \in ResultRecord /\ FailedEarly(r)
  /\ \A conflict \in {"RECEIPT_ID_CONTENT_CONFLICT", "ACCEPTED_PRODUCER_IDENTITY_CONFLICT"} :
       LET r == [NoResult EXCEPT !.durability = "NOT_COMMITTED", !.failure = "CONFLICT",
                                 !.conflict = conflict]
       IN  r \in ResultRecord /\ FailedEarly(r)
BY DEF FailedEarly, NoResult, ResultRecord

\* A rollback, confirmed or failed, settles the result of a failure before
\* commit.
LEMMA RolledBackResults ==
  ASSUME NEW r \in ResultRecord, FailedEarly(r)
  PROVE  /\ LET s == [r EXCEPT !.rollback = "CONFIRMED", !.connection = "CLOSED"]
            IN  /\ Settled(s) /\ s \in ResultRecord /\ s.connection \in {"CLOSED", "DISCARDED"}
                /\ s.durability = "NOT_COMMITTED"
         /\ LET s == [r EXCEPT !.rollback = "FAILED", !.connection = "DISCARDED",
                               !.cleanup = {"ROLLBACK_FAILED"}]
            IN  /\ Settled(s) /\ s \in ResultRecord /\ s.connection \in {"CLOSED", "DISCARDED"}
                /\ s.durability = "NOT_COMMITTED"
BY ZenonT(40) DEF FailedEarly, Settled, validate_result_coherence, RolledBack, ResultRecord

\* A close that fails adds its evidence to a settled result without spoiling
\* it.
LEMMA CloseFailureResult ==
  ASSUME NEW r \in ResultRecord, Settled(r), r.connection \in {"CLOSED", "DISCARDED"}
  PROVE  LET s == [r EXCEPT !.connection = "CLEANUP_FAILED",
                            !.cleanup = @ \cup {"CONNECTION_CLOSE_FAILED"}]
         IN  Settled(s) /\ s \in ResultRecord /\ s.durability = r.durability
<1> DEFINE s == [r EXCEPT !.connection = "CLEANUP_FAILED",
                          !.cleanup = @ \cup {"CONNECTION_CLOSE_FAILED"}]
<1>1. r.cleanup \cup {"CONNECTION_CLOSE_FAILED"}
        \in SUBSET {"ROLLBACK_FAILED", "CONNECTION_CLOSE_FAILED"}
  BY DEF ResultRecord
<1>2. s \in ResultRecord
  BY <1>1, ZenonT(40) DEF ResultRecord
<1>3. /\ s.durability = r.durability /\ s.rollback = r.rollback
      /\ s.statement = r.statement /\ s.failure = r.failure /\ s.conflict = r.conflict
      /\ s.connection = "CLEANUP_FAILED"
      /\ s.cleanup = r.cleanup \cup {"CONNECTION_CLOSE_FAILED"}
  BY DEF ResultRecord
<1> HIDE DEF s
<1>4. Settled(s)
  BY <1>3 DEF Settled, validate_result_coherence, RolledBack
<1> QED BY <1>2, <1>3, <1>4 DEF s

----------------------------------------------------------------------------
(* One step of one call, or of the server for it.                          *)

Others(p) ==
  \A q \in Persisters \ {p} :
    /\ asked'[q] = asked[q] /\ written'[q] = written[q] /\ transaction'[q] = transaction[q]
    /\ pc'[q] = pc[q] /\ result'[q] = result[q]

\* What a step may do to rows: commit the rows of p, at the end of its
\* transaction, or write the one row that collides with nothing.
Writes(p) ==
  /\ decision_receipts' \in {decision_receipts, decision_receipts \cup written[p]}
  /\ decision_receipts' # decision_receipts =>
       written'[p] = {} /\ pc'[p] \in Ended /\ result'[p].durability \in {"COMMITTED", "UNKNOWN"}
  /\ pc[p] # "new" => asked'[p] = asked[p]
  /\ \/ written'[p] \subseteq written[p]
     \/ /\ written'[p] = {Row(ReceiptOf(p), p)} /\ pc[p] \in {"insert", "waiting"}
        /\ Rivals(p) = {} /\ ~Taken(p)
  /\ pc[p] \in Ended => pc'[p] \in Ended /\ result'[p].durability = result[p].durability

StepOK(p) ==
  TypesInv' /\ Others(p) /\ ServerInv(p)' /\ ResultInv(p)' /\ Writes(p)

\* Rows are only added, so what p has found in the table stays there.
LEMMA FoundStays ==
  ASSUME NEW p \in Persisters, asked'[p] = asked[p], decision_receipts \subseteq decision_receipts'
  PROVE  /\ ReceiptOf(p)' = ReceiptOf(p)
         /\ Taken(p) => Taken(p)'
         /\ Occupant(p) # {} => Occupant(p)' # {}
         /\ Durable(p) => Durable(p)'
<1>1. ReceiptOf(p)' = ReceiptOf(p)
  BY DEF ReceiptOf
<1> QED BY <1>1 DEF Taken, Occupant, Durable

\* What the failure paths leave behind: a result to roll back for, or one that
\* is settled.
LEMMA Failures ==
  ASSUME IInv, NEW p \in Persisters
  PROVE  /\ \A f, c :
              /\ PrecommitFailure(p, f, c)
              /\ \/ /\ f \in {"TIMEOUT_CONFIGURATION_FAILED", "STORE_OPERATION_FAILED"}
                    /\ c = "none"
                 \/ /\ f = "CONFLICT"
                    /\ c \in {"RECEIPT_ID_CONTENT_CONFLICT", "ACCEPTED_PRODUCER_IDENTITY_CONFLICT"}
              => \E r \in ResultRecord :
                   /\ FailedEarly(r) /\ pc' = [pc EXCEPT ![p] = "rollback"]
                   /\ result' = [result EXCEPT ![p] = r]
         /\ \A st \in {"none", "INSERTED", "ALREADY_PRESENT"} :
              IdleOwnerTimeout(p, st) =>
                \E r \in ResultRecord :
                  /\ Settled(r) /\ r.durability = "NOT_COMMITTED"
                  /\ r.connection \in {"CLOSED", "DISCARDED"}
                  /\ pc' = [pc EXCEPT ![p] = "close"] /\ result' = [result EXCEPT ![p] = r]
         /\ result[p].statement \in {"INSERTED", "ALREADY_PRESENT"} /\ CommitAmbiguous(p) =>
              \E r \in ResultRecord :
                /\ Settled(r) /\ r.durability = "UNKNOWN"
                /\ r.connection \in {"CLOSED", "DISCARDED"}
                /\ pc' = [pc EXCEPT ![p] = "close"] /\ result' = [result EXCEPT ![p] = r]
<1>1. ASSUME NEW f, NEW c, PrecommitFailure(p, f, c),
             \/ /\ f \in {"TIMEOUT_CONFIGURATION_FAILED", "STORE_OPERATION_FAILED"}
                /\ c = "none"
             \/ /\ f = "CONFLICT"
                /\ c \in {"RECEIPT_ID_CONTENT_CONFLICT", "ACCEPTED_PRODUCER_IDENTITY_CONFLICT"}
      PROVE  \E r \in ResultRecord :
               /\ FailedEarly(r) /\ pc' = [pc EXCEPT ![p] = "rollback"]
               /\ result' = [result EXCEPT ![p] = r]
  BY <1>1, EarlyResults DEF PrecommitFailure, Goto
<1>2. ASSUME NEW st \in {"none", "INSERTED", "ALREADY_PRESENT"}, IdleOwnerTimeout(p, st)
      PROVE  \E r \in ResultRecord :
               /\ Settled(r) /\ r.durability = "NOT_COMMITTED"
               /\ r.connection \in {"CLOSED", "DISCARDED"}
               /\ pc' = [pc EXCEPT ![p] = "close"] /\ result' = [result EXCEPT ![p] = r]
  BY <1>2, SettledResults DEF IdleOwnerTimeout, CloseWith, Goto
<1>3. ASSUME result[p].statement \in {"INSERTED", "ALREADY_PRESENT"}, CommitAmbiguous(p)
      PROVE  \E r \in ResultRecord :
               /\ Settled(r) /\ r.durability = "UNKNOWN"
               /\ r.connection \in {"CLOSED", "DISCARDED"}
               /\ pc' = [pc EXCEPT ![p] = "close"] /\ result' = [result EXCEPT ![p] = r]
  <2>1. PICK st \in {"INSERTED", "ALREADY_PRESENT"} : st = result[p].statement
    BY <1>3
  <2> QED BY <1>3, <2>1, SettledResults DEF CommitAmbiguous, CloseWith, Goto
<1> QED BY <1>1, <1>2, <1>3

\* The receipt of a call that has begun.
LEMMA HeldReceipt ==
  ASSUME IInv, NEW p \in Persisters, pc[p] # "new"
  PROVE  ReceiptOf(p) \in Receipts /\ asked[p] = {ReceiptOf(p)}
BY DEF IInv, ServerInv, ReceiptOf

\* persist is called: the call holds its receipt from here on.
LEMMA PersistOK ==
  ASSUME IInv, NEW p \in Persisters, Persist(p)
  PROVE  StepOK(p)
<1>1. PICK r \in Receipts :
        /\ pc[p] = "new" /\ asked' = [asked EXCEPT ![p] = {r}] /\ pc' = [pc EXCEPT ![p] = "acquire"]
        /\ UNCHANGED <<decision_receipts, written, transaction, result>>
  BY DEF Persist, Goto
<1> USE DEF IInv, TypesInv, Before, Ended
<1>2. TypesInv'
  BY <1>1, EarlyResults DEF Goto
<1>3. Others(p)
  BY <1>1, EarlyResults DEF Goto, Others
<1>4. ServerInv(p)'
  BY <1>1, FoundStays DEF Goto, ServerInv
<1>5. ResultInv(p)'
  BY <1>1, FoundStays DEF Goto, ResultInv
<1>6. Writes(p)
  BY <1>1, EarlyResults DEF Goto, Writes
<1> QED BY <1>2, <1>3, <1>4, <1>5, <1>6 DEF StepOK

\* A connection is acquired, or the failure to get a usable one is the result.
LEMMA AcquireOK ==
  ASSUME IInv, NEW p \in Persisters, AcquireConnection(p)
  PROVE  StepOK(p)
<1>1. PICK r \in ResultRecord, at \in {"configure", "close", "done"} :
        /\ pc[p] = "acquire" /\ pc' = [pc EXCEPT ![p] = at]
        /\ result' = [result EXCEPT ![p] = r]
        /\ at = "configure" => r = NoResult
        /\ at # "configure" => Settled(r) /\ r.durability = "NOT_COMMITTED"
        /\ at = "close" => r.connection \in {"CLOSED", "DISCARDED"}
        /\ UNCHANGED <<decision_receipts, asked, written, transaction>>
  <2>1. CASE Goto(p, "configure") /\ UNCHANGED result
    <3>1. result[p] = NoResult
      BY DEF AcquireConnection, IInv, ResultInv, Before
    <3>2. result' = [result EXCEPT ![p] = NoResult]
      BY <2>1, <3>1 DEF IInv, TypesInv
    <3> QED BY <2>1, <3>2, EarlyResults DEF AcquireConnection, Goto
  <2>2. CASE ~(Goto(p, "configure") /\ UNCHANGED result)
    BY <2>2, SettledResults DEF AcquireConnection, CloseWith, Goto
  <2> QED BY <2>1, <2>2
<1> USE DEF IInv, TypesInv, Before, Ended
<1>2. TypesInv'
  BY <1>1, EarlyResults DEF InTransaction
<1>3. Others(p)
  BY <1>1, EarlyResults DEF InTransaction, Others
<1>4. ServerInv(p)'
  BY <1>1, FoundStays DEF InTransaction, ServerInv
<1>5. ResultInv(p)'
  BY <1>1, FoundStays DEF InTransaction, ResultInv
<1>6. Writes(p)
  BY <1>1, EarlyResults DEF InTransaction, Writes
<1> QED BY <1>2, <1>3, <1>4, <1>5, <1>6 DEF StepOK

\* The transaction is opened under the idle-owner timeout, or not at all.
LEMMA ApplyTimeoutOK ==
  ASSUME IInv, NEW p \in Persisters, ApplyTimeout(p)
  PROVE  StepOK(p)
<1>1. PICK r \in ResultRecord, at \in {"insert", "rollback", "close"},
           state \in {transaction[p], "open", "guarded"} :
        /\ pc[p] = "configure" /\ pc' = [pc EXCEPT ![p] = at]
        /\ result' = [result EXCEPT ![p] = r]
        /\ transaction' = [transaction EXCEPT ![p] = state]
        /\ at = "insert" => r = NoResult /\ state = "guarded"
        /\ at = "rollback" => FailedEarly(r)
        /\ at = "close" => /\ Settled(r) /\ r.durability = "NOT_COMMITTED"
                           /\ r.connection \in {"CLOSED", "DISCARDED"}
        /\ UNCHANGED <<decision_receipts, asked, written>>
  <2>0. /\ result[p] = NoResult /\ pc[p] = "configure"
        /\ transaction = [transaction EXCEPT ![p] = transaction[p]]
        /\ UNCHANGED <<decision_receipts, asked, written>>
    BY DEF ApplyTimeout, IInv, ResultInv, Before, TypesInv
  <2>1. CASE /\ transaction' = [transaction EXCEPT ![p] = "guarded"]
             /\ Goto(p, "insert") /\ UNCHANGED result
    <3>1. result' = [result EXCEPT ![p] = NoResult]
      BY <2>0, <2>1 DEF IInv, TypesInv
    <3> QED BY <2>0, <2>1, <3>1, EarlyResults DEF Goto
  <2>2. CASE /\ transaction' \in {transaction, [transaction EXCEPT ![p] = "open"]}
             /\ PrecommitFailure(p, "TIMEOUT_CONFIGURATION_FAILED", "none")
    <3>1. PICK r \in ResultRecord :
            /\ FailedEarly(r) /\ pc' = [pc EXCEPT ![p] = "rollback"]
            /\ result' = [result EXCEPT ![p] = r]
      BY <2>2, Failures
    <3>2. PICK state \in {transaction[p], "open", "guarded"} :
            transaction' = [transaction EXCEPT ![p] = state]
      BY <2>0, <2>2
    <3> QED BY <2>0, <3>1, <3>2
  <2>3. CASE IdleOwnerTimeout(p, "none") /\ UNCHANGED transaction
    <3>1. PICK r \in ResultRecord :
            /\ Settled(r) /\ r.durability = "NOT_COMMITTED"
            /\ r.connection \in {"CLOSED", "DISCARDED"}
            /\ pc' = [pc EXCEPT ![p] = "close"] /\ result' = [result EXCEPT ![p] = r]
      BY <2>3, Failures
    <3>2. transaction' = [transaction EXCEPT ![p] = transaction[p]]
      BY <2>0, <2>3
    <3> QED BY <2>0, <3>1, <3>2
  <2> QED BY <2>1, <2>2, <2>3 DEF ApplyTimeout
<1> USE DEF IInv, TypesInv, Before, Ended
<1>2. TypesInv'
  BY <1>1, EarlyResults DEF InTransaction
<1>3. Others(p)
  BY <1>1, EarlyResults DEF InTransaction, Others
<1>4. ServerInv(p)'
  BY <1>1, FoundStays DEF InTransaction, ServerInv
<1>5. ResultInv(p)'
  BY <1>1, FoundStays DEF InTransaction, ResultInv
<1>6. Writes(p)
  BY <1>1, EarlyResults DEF InTransaction, Writes
<1> QED BY <1>2, <1>3, <1>4, <1>5, <1>6 DEF StepOK

\* The INSERT waits for a rival.
LEMMA WaitsOK ==
  ASSUME IInv, NEW p \in Persisters, InsertWaits(p)
  PROVE  StepOK(p)
<1> USE DEF IInv, TypesInv, Before, Ended
<1>1. TypesInv'
  BY EarlyResults DEF InsertWaits, InTransaction, Goto
<1>2. Others(p)
  BY EarlyResults DEF InsertWaits, InTransaction, Goto, Others
<1>3. ServerInv(p)'
  BY FoundStays DEF InsertWaits, InTransaction, Goto, ServerInv
<1>4. ResultInv(p)'
  BY FoundStays DEF InsertWaits, InTransaction, Goto, ResultInv
<1>5. Writes(p)
  BY EarlyResults DEF InsertWaits, InTransaction, Goto, Writes
<1> QED BY <1>1, <1>2, <1>3, <1>4, <1>5 DEF StepOK

\* The INSERT, at once or after a wait: it loses to a committed row, writes the one
\* row that collides with nothing, or violates the foreign key.
LEMMA InsertOK ==
  ASSUME IInv, NEW p \in Persisters, InsertReceipt(p) \/ InsertResumes(p)
  PROVE  StepOK(p)
<1>1. /\ pc[p] \in {"insert", "waiting"} /\ InTransaction(p) /\ result[p] = NoResult
      /\ UNCHANGED <<decision_receipts, asked, transaction>>
      /\ FinishInsert(p) /\ Rivals(p) = {} /\ transaction[p] = "guarded" /\ written[p] = {}
  BY DEF InsertReceipt, InsertResumes, FinishInsert, InTransaction, IInv, ServerInv, ResultInv, Before,
     Ended
<1>2. PICK r \in ResultRecord, at \in {"by_receipt_id", "commit", "rollback"},
           rows \in SUBSET [receipt : Receipts, by : Persisters] :
        /\ pc' = [pc EXCEPT ![p] = at] /\ result' = [result EXCEPT ![p] = r]
        /\ written' = [written EXCEPT ![p] = rows]
        /\ at = "by_receipt_id" => Taken(p) /\ r = NoResult /\ rows = {}
        /\ at = "commit" => ~Taken(p) /\ r.statement = "INSERTED" /\ rows = {Row(ReceiptOf(p), p)}
        /\ at = "rollback" => FailedEarly(r) /\ rows = {}
  <2>0. /\ ReceiptOf(p) \in Receipts /\ result = [result EXCEPT ![p] = NoResult]
        /\ written = [written EXCEPT ![p] = {}]
        /\ [result EXCEPT ![p].statement = "INSERTED"]
             = [result EXCEPT ![p] = [NoResult EXCEPT !.statement = "INSERTED"]]
    BY <1>1, HeldReceipt DEF IInv, TypesInv
  <2>1. CASE Taken(p) /\ Goto(p, "by_receipt_id") /\ UNCHANGED <<written, result>>
    BY <2>0, <2>1, EarlyResults DEF Goto
  <2>2. CASE /\ ~Taken(p) /\ Goto(p, "commit")
             /\ written' = [written EXCEPT ![p] = {Row(ReceiptOf(p), p)}]
             /\ result' = [result EXCEPT ![p].statement = "INSERTED"]
    <3>1. {Row(ReceiptOf(p), p)} \in SUBSET [receipt : Receipts, by : Persisters]
      BY <2>0 DEF Row
    <3>2. PICK r \in ResultRecord : /\ r.statement = "INSERTED"
                                    /\ result' = [result EXCEPT ![p] = r]
      BY <2>0, <2>2, EarlyResults
    <3> QED BY <2>2, <3>1, <3>2 DEF Goto
  <2>3. CASE PrecommitFailure(p, "STORE_OPERATION_FAILED", "none") /\ UNCHANGED written
    <3>1. PICK r \in ResultRecord :
            /\ FailedEarly(r) /\ pc' = [pc EXCEPT ![p] = "rollback"]
            /\ result' = [result EXCEPT ![p] = r]
      BY <2>3, Failures
    <3> QED BY <2>0, <2>3, <3>1
  <2> QED BY <1>1, <2>1, <2>2, <2>3 DEF FinishInsert
<1> USE DEF IInv, TypesInv, Before, Ended
<1>3. TypesInv'
  BY <1>1, <1>2, HeldReceipt, EarlyResults DEF InTransaction
<1>4. Others(p)
  BY <1>1, <1>2, HeldReceipt, EarlyResults DEF InTransaction, Others
<1>5. ServerInv(p)'
  BY <1>1, <1>2, HeldReceipt, FoundStays DEF InTransaction, ServerInv
<1>6. ResultInv(p)'
  BY <1>1, <1>2, HeldReceipt, FoundStays DEF InTransaction, ResultInv
<1>7. Writes(p)
  BY <1>1, <1>2, HeldReceipt, EarlyResults DEF InTransaction, Writes
<1> QED BY <1>3, <1>4, <1>5, <1>6, <1>7 DEF StepOK

\* A lookup by receipt_id: the payload is there, or another under the same
\* identity, or the collision was with the producer identity.
LEMMA LoadByReceiptIdOK ==
  ASSUME IInv, NEW p \in Persisters, LoadByReceiptId(p)
  PROVE  StepOK(p)
<1>1. /\ pc[p] = "by_receipt_id" /\ result[p] = NoResult /\ Taken(p)
      /\ transaction[p] = "guarded" /\ written[p] = {}
      /\ UNCHANGED <<decision_receipts, asked, written, transaction>>
  BY DEF LoadByReceiptId, InTransaction, IInv, ServerInv, ResultInv, Before,
     Ended
<1>2. PICK r \in ResultRecord, at \in {"by_producer", "commit", "rollback"} :
        /\ pc' = [pc EXCEPT ![p] = at] /\ result' = [result EXCEPT ![p] = r]
        /\ at = "by_producer" => Occupant(p) # {} /\ r = NoResult
        /\ at = "commit" => r.statement = "ALREADY_PRESENT" /\ Durable(p)
        /\ at = "rollback" => FailedEarly(r)
  <2> DEFINE existing == {row \in decision_receipts :
                            row.receipt.receipt_id = ReceiptOf(p).receipt_id}
  <2>0. /\ result = [result EXCEPT ![p] = NoResult]
        /\ [result EXCEPT ![p].statement = "ALREADY_PRESENT"]
             = [result EXCEPT ![p] = [NoResult EXCEPT !.statement = "ALREADY_PRESENT"]]
    BY <1>1 DEF IInv, TypesInv
  <2>1. CASE /\ \E row \in existing : SamePayload(row, ReceiptOf(p))
             /\ result' = [result EXCEPT ![p].statement = "ALREADY_PRESENT"]
             /\ Goto(p, "commit")
    <3>1. Durable(p)
      BY <2>1 DEF SamePayload, Durable
    <3>2. PICK r \in ResultRecord : /\ r.statement = "ALREADY_PRESENT"
                                    /\ result' = [result EXCEPT ![p] = r]
      BY <2>0, <2>1, EarlyResults
    <3> QED BY <2>1, <3>1, <3>2 DEF Goto
  <2>2. CASE PrecommitFailure(p, "CONFLICT", "RECEIPT_ID_CONTENT_CONFLICT")
    BY <2>2, Failures
  <2>3. CASE existing = {} /\ Goto(p, "by_producer") /\ UNCHANGED result
    <3>1. Occupant(p) # {}
      BY <1>1, <2>3 DEF Taken, Collide, Occupant
    <3> QED BY <2>0, <2>3, <3>1, EarlyResults DEF Goto
  <2> QED BY <2>1, <2>2, <2>3 DEF LoadByReceiptId
<1> USE DEF IInv, TypesInv, Before, Ended
<1>3. TypesInv'
  BY <1>1, <1>2, EarlyResults DEF InTransaction
<1>4. Others(p)
  BY <1>1, <1>2, EarlyResults DEF InTransaction, Others
<1>5. ServerInv(p)'
  BY <1>1, <1>2, FoundStays DEF InTransaction, ServerInv
<1>6. ResultInv(p)'
  BY <1>1, <1>2, FoundStays DEF InTransaction, ResultInv
<1>7. Writes(p)
  BY <1>1, <1>2, EarlyResults DEF InTransaction, Writes
<1> QED BY <1>3, <1>4, <1>5, <1>6, <1>7 DEF StepOK

\* The row an INSERT lost to is classified by its producer.
LEMMA LoadByProducerOK ==
  ASSUME IInv, NEW p \in Persisters, LoadByProducer(p)
  PROVE  StepOK(p)
<1>1. PICK r \in ResultRecord :
        /\ FailedEarly(r) /\ pc' = [pc EXCEPT ![p] = "rollback"]
        /\ result' = [result EXCEPT ![p] = r] /\ pc[p] = "by_producer"
        /\ UNCHANGED <<decision_receipts, asked, written, transaction>>
  BY Failures DEF LoadByProducer
<1> USE DEF IInv, TypesInv, Before, Ended
<1>2. TypesInv'
  BY <1>1, EarlyResults DEF InTransaction
<1>3. Others(p)
  BY <1>1, EarlyResults DEF InTransaction, Others
<1>4. ServerInv(p)'
  BY <1>1, FoundStays DEF InTransaction, ServerInv
<1>5. ResultInv(p)'
  BY <1>1, FoundStays DEF InTransaction, ResultInv
<1>6. Writes(p)
  BY <1>1, EarlyResults DEF InTransaction, Writes
<1> QED BY <1>2, <1>3, <1>4, <1>5, <1>6 DEF StepOK

\* A statement fails; its row may be in the transaction all the same.
LEMMA StoreFailsOK ==
  ASSUME IInv, NEW p \in Persisters, StoreFails(p)
  PROVE  StepOK(p)
<1>1. PICK r \in ResultRecord :
        /\ FailedEarly(r) /\ pc' = [pc EXCEPT ![p] = "rollback"]
        /\ result' = [result EXCEPT ![p] = r]
        /\ pc[p] \in {"insert", "waiting", "by_receipt_id", "by_producer"}
        /\ UNCHANGED <<decision_receipts, asked, transaction>>
        /\ \/ UNCHANGED written
           \/ /\ pc[p] \in {"insert", "waiting"} /\ InTransaction(p)
              /\ Rivals(p) = {} /\ ~Taken(p)
              /\ written' = [written EXCEPT ![p] = {Row(ReceiptOf(p), p)}]
  BY Failures DEF StoreFails
<1>2. Row(ReceiptOf(p), p) \in [receipt : Receipts, by : Persisters]
  BY <1>1, HeldReceipt DEF Row
<1> USE DEF IInv, TypesInv, Before, Ended
<1>3. TypesInv'
  BY <1>1, <1>2, EarlyResults DEF InTransaction
<1>4. Others(p)
  BY <1>1, <1>2, EarlyResults DEF InTransaction, Others
<1>5. ServerInv(p)'
  BY <1>1, <1>2, FoundStays DEF InTransaction, ServerInv
<1>6. ResultInv(p)'
  BY <1>1, <1>2, FoundStays DEF InTransaction, ResultInv
<1>7. Writes(p)
  BY <1>1, <1>2, EarlyResults DEF InTransaction, Writes
<1> QED BY <1>3, <1>4, <1>5, <1>6, <1>7 DEF StepOK

\* A statement meets a session that the server has ended.
LEMMA FindsTerminationOK ==
  ASSUME IInv, NEW p \in Persisters, StoreFindsTermination(p)
  PROVE  StepOK(p)
<1>1. PICK r \in ResultRecord :
        /\ Settled(r) /\ r.durability = "NOT_COMMITTED"
        /\ r.connection \in {"CLOSED", "DISCARDED"}
        /\ pc' = [pc EXCEPT ![p] = "close"] /\ result' = [result EXCEPT ![p] = r]
        /\ pc[p] \in {"insert", "by_receipt_id", "by_producer"} /\ transaction[p] = "terminated"
        /\ UNCHANGED <<decision_receipts, asked, written, transaction>>
  BY Failures DEF StoreFindsTermination
<1> USE DEF IInv, TypesInv, Before, Ended
<1>2. TypesInv'
  BY <1>1, EarlyResults DEF InTransaction
<1>3. Others(p)
  BY <1>1, EarlyResults DEF InTransaction, Others
<1>4. ServerInv(p)'
  BY <1>1, FoundStays DEF InTransaction, ServerInv
<1>5. ResultInv(p)'
  BY <1>1, FoundStays DEF InTransaction, ResultInv
<1>6. Writes(p)
  BY <1>1, EarlyResults DEF InTransaction, Writes
<1> QED BY <1>2, <1>3, <1>4, <1>5, <1>6 DEF StepOK

\* commit returns: the payload is in the table, by this call or by an earlier one.
LEMMA CommitOK ==
  ASSUME IInv, NEW p \in Persisters, Commit(p)
  PROVE  StepOK(p)
<1>1. /\ pc[p] = "commit" /\ result[p].statement \in {"INSERTED", "ALREADY_PRESENT"}
      /\ transaction[p] \in {"guarded", "terminated"}
  BY DEF Commit, IInv, ServerInv, ResultInv
<1>2. PICK r \in ResultRecord :
         /\ Settled(r) /\ r.durability = "COMMITTED" /\ r.connection \in {"CLOSED", "DISCARDED"}
         /\ pc' = [pc EXCEPT ![p] = "close"] /\ result' = [result EXCEPT ![p] = r]
         /\ transaction' = [transaction EXCEPT ![p] = "none"] /\ InTransaction(p)
         /\ written' = [written EXCEPT ![p] = {}] /\ UNCHANGED asked
         /\ decision_receipts' = decision_receipts \cup written[p]
  <2>1. PICK st \in {"INSERTED", "ALREADY_PRESENT"} : st = result[p].statement
    BY <1>1
  <2> QED BY <2>1, SettledResults DEF Commit, CloseWith, Goto
<1>3. Durable(p)'
  <2>1. CASE written[p] = {Row(ReceiptOf(p), p)}
    <3>1. Row(ReceiptOf(p), p).receipt = ReceiptOf(p)
      BY DEF Row
    <3>2. ReceiptOf(p)' = ReceiptOf(p)
      BY <1>2 DEF ReceiptOf
    <3> QED BY <1>2, <2>1, <3>1, <3>2 DEF Durable
  <2>2. CASE Durable(p)
    BY <1>2, <2>2, FoundStays
  <2> QED BY <1>1, <1>2, <2>1, <2>2 DEF IInv, ResultInv
<1> USE DEF IInv, TypesInv, Before, Ended
<1>4. TypesInv'
  BY <1>1, <1>2, <1>3, EarlyResults DEF InTransaction
<1>5. Others(p)
  BY <1>1, <1>2, <1>3, EarlyResults DEF InTransaction, Others
<1>6. ServerInv(p)'
  BY <1>1, <1>2, <1>3, FoundStays DEF InTransaction, ServerInv
<1>7. ResultInv(p)'
  BY <1>1, <1>2, <1>3, FoundStays DEF InTransaction, ResultInv
<1>8. Writes(p)
  BY <1>1, <1>2, <1>3, EarlyResults DEF InTransaction, Writes
<1> QED BY <1>4, <1>5, <1>6, <1>7, <1>8 DEF StepOK

\* commit raises: nobody knows yet.
LEMMA CommitRaisesOK ==
  ASSUME IInv, NEW p \in Persisters, CommitRaises(p)
  PROVE  StepOK(p)
<1>1. /\ pc[p] = "commit" /\ result[p].statement \in {"INSERTED", "ALREADY_PRESENT"}
      /\ transaction[p] \in {"guarded", "terminated"}
  BY DEF CommitRaises, IInv, ServerInv, ResultInv
<1>2. PICK r \in ResultRecord :
         /\ Settled(r) /\ r.durability = "UNKNOWN" /\ r.connection \in {"CLOSED", "DISCARDED"}
         /\ pc' = [pc EXCEPT ![p] = "close"] /\ result' = [result EXCEPT ![p] = r]
         /\ transaction' = [transaction EXCEPT ![p] = "in_doubt"]
         /\ UNCHANGED <<decision_receipts, asked, written>>
  BY <1>1, Failures DEF CommitRaises
<1> USE DEF IInv, TypesInv, Before, Ended
<1>3. TypesInv'
  BY <1>1, <1>2, EarlyResults DEF InTransaction
<1>4. Others(p)
  BY <1>1, <1>2, EarlyResults DEF InTransaction, Others
<1>5. ServerInv(p)'
  BY <1>1, <1>2, FoundStays DEF InTransaction, ServerInv
<1>6. ResultInv(p)'
  BY <1>1, <1>2, FoundStays DEF InTransaction, ResultInv
<1>7. Writes(p)
  BY <1>1, <1>2, EarlyResults DEF InTransaction, Writes
<1> QED BY <1>3, <1>4, <1>5, <1>6, <1>7 DEF StepOK

\* commit meets a session that the server has ended.
LEMMA CommitTerminatedOK ==
  ASSUME IInv, NEW p \in Persisters, CommitFindsTermination(p)
  PROVE  StepOK(p)
<1>1. /\ pc[p] = "commit" /\ result[p].statement \in {"INSERTED", "ALREADY_PRESENT"}
      /\ transaction[p] \in {"guarded", "terminated"}
  BY DEF CommitFindsTermination, IInv, ServerInv, ResultInv
<1>2. PICK r \in ResultRecord :
         /\ Settled(r) /\ r.durability \in {"NOT_COMMITTED", "UNKNOWN"}
         /\ r.connection \in {"CLOSED", "DISCARDED"}
         /\ pc' = [pc EXCEPT ![p] = "close"] /\ result' = [result EXCEPT ![p] = r]
         /\ transaction[p] = "terminated"
         /\ UNCHANGED <<decision_receipts, asked, written, transaction>>
  <2>1. PICK st \in {"INSERTED", "ALREADY_PRESENT"} : st = result[p].statement
    BY <1>1
  <2>2. CASE IdleOwnerTimeout(p, result[p].statement)
    BY <2>1, <2>2, Failures DEF CommitFindsTermination
  <2>3. CASE CommitAmbiguous(p)
    BY <1>1, <2>3, Failures DEF CommitFindsTermination
  <2> QED BY <2>2, <2>3 DEF CommitFindsTermination
<1> USE DEF IInv, TypesInv, Before, Ended
<1>3. TypesInv'
  BY <1>1, <1>2, EarlyResults DEF InTransaction
<1>4. Others(p)
  BY <1>1, <1>2, EarlyResults DEF InTransaction, Others
<1>5. ServerInv(p)'
  BY <1>1, <1>2, FoundStays DEF InTransaction, ServerInv
<1>6. ResultInv(p)'
  BY <1>1, <1>2, FoundStays DEF InTransaction, ResultInv
<1>7. Writes(p)
  BY <1>1, <1>2, EarlyResults, SMTT(30) DEF InTransaction, Writes
<1> QED BY <1>3, <1>4, <1>5, <1>6, <1>7 DEF StepOK

\* The rollback, confirmed or failed.
LEMMA RollbackOK ==
  ASSUME IInv, NEW p \in Persisters, Rollback(p)
  PROVE  StepOK(p)
<1>1. PICK r \in ResultRecord :
        /\ Settled(r) /\ r.durability = "NOT_COMMITTED" /\ r.connection \in {"CLOSED", "DISCARDED"}
        /\ pc[p] = "rollback" /\ pc' = [pc EXCEPT ![p] = "close"]
        /\ result' = [result EXCEPT ![p] = r] /\ UNCHANGED <<decision_receipts, asked>>
        /\ \/ UNCHANGED <<written, transaction>>
           \/ /\ transaction' = [transaction EXCEPT ![p] = "none"]
              /\ written' = [written EXCEPT ![p] = {}]
  <2>1. PICK s \in ResultRecord : s = result[p] /\ FailedEarly(s)
    BY DEF Rollback, IInv, TypesInv, ResultInv
  <2> QED BY <2>1, RolledBackResults DEF Rollback, CloseWith, Goto
<1> USE DEF IInv, TypesInv, Before, Ended
<1>2. TypesInv'
  BY <1>1, EarlyResults DEF InTransaction
<1>3. Others(p)
  BY <1>1, EarlyResults DEF InTransaction, Others
<1>4. ServerInv(p)'
  BY <1>1, FoundStays DEF InTransaction, ServerInv
<1>5. ResultInv(p)'
  BY <1>1, FoundStays DEF InTransaction, ResultInv
<1>6. Writes(p)
  BY <1>1, EarlyResults DEF InTransaction, Writes
<1> QED BY <1>2, <1>3, <1>4, <1>5, <1>6 DEF StepOK

\* Closing the connection, or failing to.
LEMMA CloseOK ==
  ASSUME IInv, NEW p \in Persisters, CloseConnection(p)
  PROVE  StepOK(p)
<1>1. PICK r \in ResultRecord :
        /\ Settled(r) /\ r.durability = result[p].durability
        /\ pc[p] = "close" /\ pc' = [pc EXCEPT ![p] = "done"]
        /\ result' = [result EXCEPT ![p] = r] /\ UNCHANGED <<decision_receipts, asked>>
        /\ \/ UNCHANGED <<written, transaction>>
           \/ /\ transaction' = [transaction EXCEPT ![p] = "none"]
              /\ written' = [written EXCEPT ![p] = {}]
  <2>1. PICK s \in ResultRecord :
          s = result[p] /\ Settled(s) /\ s.connection \in {"CLOSED", "DISCARDED"}
    BY DEF CloseConnection, IInv, TypesInv, ResultInv, Ended
  <2>2. result = [result EXCEPT ![p] = s]
    BY <2>1 DEF IInv, TypesInv
  <2>3. [result EXCEPT ![p].connection = "CLEANUP_FAILED",
                       ![p].cleanup = @ \cup {"CONNECTION_CLOSE_FAILED"}]
          = [result EXCEPT ![p] = [s EXCEPT !.connection = "CLEANUP_FAILED",
                                            !.cleanup = @ \cup {"CONNECTION_CLOSE_FAILED"}]]
    BY <2>1 DEF IInv, TypesInv, ResultRecord
  <2>4. CASE UNCHANGED result
    BY <2>1, <2>2, <2>4 DEF CloseConnection, Goto
  <2>5. CASE /\ result' = [result EXCEPT ![p].connection = "CLEANUP_FAILED",
                                         ![p].cleanup = @ \cup {"CONNECTION_CLOSE_FAILED"}]
             /\ UNCHANGED <<written, transaction>>
    BY <2>1, <2>3, <2>5, CloseFailureResult DEF CloseConnection, Goto
  <2> QED BY <2>4, <2>5 DEF CloseConnection
<1> USE DEF IInv, TypesInv, Before, Ended
<1>2. TypesInv'
  BY <1>1, EarlyResults DEF InTransaction
<1>3. Others(p)
  BY <1>1, EarlyResults DEF InTransaction, Others
<1>4. ServerInv(p)'
  BY <1>1, FoundStays DEF InTransaction, ServerInv
<1>5. ResultInv(p)'
  BY <1>1, FoundStays DEF InTransaction, ResultInv
<1>6. Writes(p)
  BY <1>1, EarlyResults DEF InTransaction, Writes
<1> QED BY <1>2, <1>3, <1>4, <1>5, <1>6 DEF StepOK

\* The server ends an idle session and drops its row.
LEMMA TerminateOK ==
  ASSUME IInv, NEW p \in Persisters, TerminateIdleOwner(p)
  PROVE  StepOK(p)
<1> USE DEF IInv, TypesInv, Before, Ended
<1>1. TypesInv'
  BY EarlyResults DEF TerminateIdleOwner, InTransaction
<1>2. Others(p)
  BY EarlyResults DEF TerminateIdleOwner, InTransaction, Others
<1>3. ServerInv(p)'
  BY FoundStays DEF TerminateIdleOwner, InTransaction, ServerInv
<1>4. ResultInv(p)'
  BY FoundStays DEF TerminateIdleOwner, InTransaction, ResultInv
<1>5. Writes(p)
  BY EarlyResults DEF TerminateIdleOwner, InTransaction, Writes
<1> QED BY <1>1, <1>2, <1>3, <1>4, <1>5 DEF StepOK

\* A COMMIT in doubt takes effect, or never arrived.
LEMMA ResolveOK ==
  ASSUME IInv, NEW p \in Persisters, ResolveCommit(p)
  PROVE  StepOK(p)
<1>1. pc[p] \in Ended /\ result[p].durability = "UNKNOWN"
  BY DEF ResolveCommit, IInv, ServerInv
<1> USE DEF IInv, TypesInv, Before, Ended
<1>2. TypesInv'
  BY <1>1, EarlyResults DEF ResolveCommit, InTransaction
<1>3. Others(p)
  BY <1>1, EarlyResults DEF ResolveCommit, InTransaction, Others
<1>4. ServerInv(p)'
  BY <1>1, FoundStays DEF ResolveCommit, InTransaction, ServerInv
<1>5. ResultInv(p)'
  BY <1>1, FoundStays DEF ResolveCommit, InTransaction, ResultInv
<1>6. Writes(p)
  BY <1>1, EarlyResults DEF ResolveCommit, InTransaction, Writes
<1> QED BY <1>2, <1>3, <1>4, <1>5, <1>6 DEF StepOK

----------------------------------------------------------------------------
(* Every step keeps the inductive invariant.                               *)

\* The rows: what p commits was written by nobody else and collides with
\* nothing, what p writes meets no rival, and the rest stays as it is.
LEMMA RowsKept ==
  ASSUME IInv, NEW p \in Persisters, StepOK(p)
  PROVE  RowsInv'
<1>1. /\ Others(p) /\ Writes(p) /\ TypesInv
      /\ \A q \in Persisters : ServerInv(q)
      /\ \A q \in Persisters \ {p} : ReceiptOf(q)' = ReceiptOf(q)
      /\ pc[p] # "new" => ReceiptOf(p)' = ReceiptOf(p)
  BY DEF IInv, StepOK, Others, Writes, ReceiptOf
<1>2. \A row \in written'[p] :
        \/ row \in written[p]
        \/ row = Row(ReceiptOf(p), p) /\ Rivals(p) = {} /\ ~Taken(p)
  BY <1>1 DEF Writes
<1>3. ASSUME NEW row \in decision_receipts'
      PROVE  \E q \in Persisters :
               /\ pc'[q] \in Ended /\ result'[q].durability \in {"COMMITTED", "UNKNOWN"}
               /\ row = Row(ReceiptOf(q)', q) /\ written'[q] = {}
  <2>1. CASE row \in decision_receipts
    <3>1. PICK q \in Persisters :
            /\ pc[q] \in Ended /\ result[q].durability \in {"COMMITTED", "UNKNOWN"}
            /\ row = Row(ReceiptOf(q), q) /\ written[q] = {}
      BY <2>1 DEF IInv, RowsInv
    <3>2. CASE q = p
      <4>1. pc[p] # "new" /\ pc[p] \notin {"insert", "waiting"}
        BY <3>1, <3>2 DEF Ended
      <4>2. written'[p] = {}
        BY <1>1, <3>1, <3>2, <4>1 DEF Writes
      <4> QED BY <1>1, <3>1, <3>2, <4>1, <4>2 DEF Writes
    <3>3. CASE q # p
      BY <1>1, <3>1, <3>3 DEF Others
    <3> QED BY <3>2, <3>3
  <2>2. CASE row \notin decision_receipts
    <3>1. /\ row \in written[p] /\ written'[p] = {} /\ pc'[p] \in Ended
          /\ result'[p].durability \in {"COMMITTED", "UNKNOWN"}
      BY <1>1, <2>2 DEF Writes
    <3>2. row = Row(ReceiptOf(p), p) /\ pc[p] # "new"
      BY <1>1, <3>1 DEF ServerInv, Ended
    <3> QED BY <1>1, <3>1, <3>2
  <2> QED BY <2>1, <2>2
<1>4. ASSUME NEW q \in Persisters, NEW row \in written'[q], NEW t \in decision_receipts'
      PROVE  ~Collide(t.receipt, row.receipt)
  <2>1. CASE t \in decision_receipts
    <3>1. CASE row \in written[q]
      BY <2>1, <3>1 DEF IInv, RowsInv
    <3>2. CASE row \notin written[q]
      <4>1. q = p /\ row = Row(ReceiptOf(p), p) /\ ~Taken(p)
        BY <1>1, <1>2, <3>2 DEF Others
      <4>2. row.receipt = ReceiptOf(p)
        BY <4>1 DEF Row
      <4> QED BY <2>1, <4>1, <4>2 DEF Taken
    <3> QED BY <3>1, <3>2
  <2>2. CASE t \notin decision_receipts
    <3>1. t \in written[p] /\ written'[p] = {}
      BY <1>1, <2>2 DEF Writes
    <3>2. q # p /\ row \in written[q]
      BY <1>1, <3>1 DEF Others
    <3> QED BY <3>1, <3>2 DEF IInv, RowsInv
  <2> QED BY <2>1, <2>2
<1>5. ASSUME NEW q \in Persisters \ {p}, NEW row \in written'[p], NEW t \in written'[q]
      PROVE  ~Collide(t.receipt, row.receipt)
  <2>1. t \in written[q]
    BY <1>1 DEF Others
  <2>2. CASE row \in written[p]
    BY <2>1, <2>2 DEF IInv, RowsInv
  <2>3. CASE row = Row(ReceiptOf(p), p) /\ Rivals(p) = {}
    <3>1. row.receipt = ReceiptOf(p)
      BY <2>3 DEF Row
    <3> QED BY <2>1, <2>3, <3>1 DEF Rivals
  <2> QED BY <1>2, <2>2, <2>3
<1>6. ASSUME NEW q \in Persisters \ {p}, NEW q2 \in Persisters \ {p}, q # q2,
             NEW row \in written'[q], NEW t \in written'[q2]
      PROVE  ~Collide(t.receipt, row.receipt)
  BY <1>1, <1>6 DEF Others, IInv, RowsInv
<1>7. \A q, q2 \in Persisters : q # q2 =>
        \A row \in written'[q], t \in written'[q2] : ~Collide(t.receipt, row.receipt)
  BY <1>5, <1>6, CollideSymmetric
<1> QED BY <1>3, <1>4, <1>7 DEF RowsInv

\* What is known of another call stays known.
LEMMA OthersKept ==
  ASSUME IInv, NEW p \in Persisters, StepOK(p), NEW q \in Persisters \ {p}
  PROVE  ServerInv(q)' /\ ResultInv(q)'
<1>1. /\ asked'[q] = asked[q] /\ written'[q] = written[q] /\ transaction'[q] = transaction[q]
      /\ pc'[q] = pc[q] /\ result'[q] = result[q]
      /\ decision_receipts \subseteq decision_receipts'
  BY DEF StepOK, Others, Writes
<1>2. /\ ReceiptOf(q)' = ReceiptOf(q) /\ (Taken(q) => Taken(q)')
      /\ (Occupant(q) # {} => Occupant(q)' # {}) /\ (Durable(q) => Durable(q)')
  BY <1>1, FoundStays
<1>3. ServerInv(q) /\ ResultInv(q)
  BY DEF IInv
<1>4. ServerInv(q)'
  BY <1>1, <1>2, <1>3 DEF ServerInv
<1>5. ResultInv(q)'
  BY <1>1, <1>2, <1>3 DEF ResultInv, InTransaction
<1> QED BY <1>4, <1>5

\* Whichever step is taken, it is a step of one call.
LEMMA NextOK ==
  ASSUME IInv, Next
  PROVE  \E p \in Persisters :
           /\ StepOK(p)
           /\ Persist(p) \/ ClientStep(p) \/ ServerStep(p) \/ StoreFails(p) \/ CommitRaises(p)
<1>1. PICK p \in Persisters :
        Persist(p) \/ ClientStep(p) \/ ServerStep(p) \/ StoreFails(p) \/ CommitRaises(p)
  BY DEF Next
<1>2. StepOK(p)
  <2>1. CASE ClientStep(p)
    BY <2>1, AcquireOK, ApplyTimeoutOK, InsertOK, WaitsOK, LoadByReceiptIdOK, LoadByProducerOK,
       FindsTerminationOK, CommitOK, CommitTerminatedOK, RollbackOK, CloseOK DEF ClientStep
  <2>2. CASE ServerStep(p)
    BY <2>2, InsertOK, TerminateOK, ResolveOK DEF ServerStep
  <2> QED BY <1>1, <2>1, <2>2, PersistOK, StoreFailsOK, CommitRaisesOK
<1> QED BY <1>1, <1>2

\* The inductive invariant is inductive.
THEOREM NextIInv == IInv /\ [Next]_vars => IInv'
<1> SUFFICES ASSUME IInv, [Next]_vars PROVE IInv'
  OBVIOUS
<1>1. CASE UNCHANGED vars
  <2>1. /\ TypesInv' /\ \A q \in Persisters : ReceiptOf(q)' = ReceiptOf(q)
    BY <1>1 DEF vars, IInv, TypesInv, ReceiptOf
  <2>2. RowsInv'
    BY <1>1, <2>1 DEF vars, IInv, RowsInv
  <2>3. ASSUME NEW q \in Persisters PROVE ServerInv(q)' /\ ResultInv(q)'
    BY <1>1, <2>1, FoundStays DEF vars, IInv, ServerInv, ResultInv, InTransaction
  <2> QED BY <2>1, <2>2, <2>3 DEF IInv
<1>2. CASE Next
  <2>1. PICK p \in Persisters : StepOK(p)
    BY <1>2, NextOK
  <2>2. TypesInv' /\ ServerInv(p)' /\ ResultInv(p)'
    BY <2>1 DEF StepOK
  <2>3. \A q \in Persisters \ {p} : ServerInv(q)' /\ ResultInv(q)'
    BY <2>1, OthersKept
  <2>4. RowsInv'
    BY <2>1, RowsKept
  <2> QED BY <2>2, <2>3, <2>4 DEF IInv
<1> QED BY <1>1, <1>2

\* It holds of every behaviour of persist.
THEOREM Invariance == Spec => []IInv
<1>1. Init => IInv
  BY EarlyResults DEF Init, IInv, TypesInv, ServerInv, ResultInv, RowsInv, Before, Ended
<1> QED BY <1>1, NextIInv, PTL DEF Spec

\* Every combination of evidence that the paths of persist put together passes
\* the coherence validation in __post_init__: a call that comes to its end
\* returns its evidence instead of raising.
THEOREM EvidenceIsCoherent == Spec => []ResultsAreCoherent
<1>1. IInv => ResultsAreCoherent
  BY DEF IInv, ResultInv, Settled, Ended, ResultsAreCoherent
<1> QED BY <1>1, Invariance, PTL

\* A row that an INSERT ... ON CONFLICT DO NOTHING loses to is found by one of
\* the two lookups that follow, so the "no existing receipt identity could be
\* classified" error is never raised.
THEOREM ConflictsAreFound == Spec => []ConflictsAreClassified
<1>1. IInv => ConflictsAreClassified
  BY DEF IInv, ResultInv, ConflictsAreClassified
<1> QED BY <1>1, Invariance, PTL

----------------------------------------------------------------------------
(* Every step is a step of the contract.                                   *)

ReportOf(p) == IF pc[p] = "done" THEN result[p].durability ELSE "none"

\* A step that leaves the table and every report as they are.
LEMMA QuietStutters ==
  ASSUME decision_receipts' = decision_receipts, asked' = asked,
         \A q \in Persisters : ReportOf(q)' = ReportOf(q)
  PROVE  UNCHANGED Contract!contractVars
<1>1. [q \in Persisters |-> ReportOf(q)]' = [q \in Persisters |-> ReportOf(q)]
  OBVIOUS
<1> QED BY <1>1 DEF ReportOf, Contract!contractVars

\* Who reports, and when: only a call that comes to its end, in a step that
\* leaves the table alone.
LEMMA ReportStep ==
  ASSUME IInv, NEW p \in Persisters,
         Persist(p) \/ ClientStep(p) \/ ServerStep(p) \/ StoreFails(p) \/ CommitRaises(p)
  PROVE  /\ \/ ReportOf(p)' = ReportOf(p)
            \/ /\ pc[p] \notin {"new", "done"} /\ pc'[p] = "done"
               /\ decision_receipts' = decision_receipts /\ asked' = asked
         /\ decision_receipts' # decision_receipts => ReportOf(p) \in {"none", "UNKNOWN"}
         /\ Persist(p) \/ asked' = asked
<1> USE DEF IInv, TypesInv, ReportOf, Goto, CloseWith, PrecommitFailure, IdleOwnerTimeout,
            CommitAmbiguous
<1>1. CASE Persist(p) \/ StoreFails(p) \/ CommitRaises(p)
  BY <1>1 DEF Persist, StoreFails, CommitRaises
<1>2. CASE AcquireConnection(p) \/ CloseConnection(p)
  BY <1>2 DEF AcquireConnection, CloseConnection
<1>3. CASE ApplyTimeout(p) \/ InsertReceipt(p) \/ InsertWaits(p) \/ InsertResumes(p)
  BY <1>3 DEF ApplyTimeout, InsertReceipt, InsertWaits, InsertResumes, FinishInsert
<1>4. CASE LoadByReceiptId(p) \/ LoadByProducer(p) \/ StoreFindsTermination(p)
  BY <1>4 DEF LoadByReceiptId, LoadByProducer, StoreFindsTermination
<1>5. CASE Commit(p) \/ CommitFindsTermination(p) \/ Rollback(p)
  BY <1>5 DEF Commit, CommitFindsTermination, Rollback
<1>6. CASE TerminateIdleOwner(p) \/ ResolveCommit(p)
  <2>1. ServerInv(p)
    OBVIOUS
  <2> QED BY <1>6, <2>1 DEF TerminateIdleOwner, ResolveCommit, ServerInv
<1> QED BY <1>1, <1>2, <1>3, <1>4, <1>5, <1>6 DEF ClientStep, ServerStep

\* A row becomes durable as the contract has it: while its call has not
\* reported, or does not know, and without a collision.
LEMMA CommitStores ==
  ASSUME IInv, NEW p \in Persisters, StepOK(p), decision_receipts' # decision_receipts,
         asked' = asked, ReportOf(p) \in {"none", "UNKNOWN"}, ReportOf(p)' = ReportOf(p)
  PROVE  Contract!Store(p)
<1>1. /\ decision_receipts' = decision_receipts \cup written[p] /\ written[p] # {}
      /\ Others(p)
  BY DEF StepOK, Writes
<1>2. pc[p] # "new" /\ written[p] = {Row(ReceiptOf(p), p)}
  BY <1>1 DEF IInv, ServerInv, Ended
<1>3. ReceiptOf(p) \in asked[p] /\ Row(ReceiptOf(p), p).receipt = ReceiptOf(p)
      /\ Row(ReceiptOf(p), p).by = p
  BY <1>2, HeldReceipt DEF Row
<1>4. ASSUME NEW row \in decision_receipts
      PROVE  row.by # p /\ ~Collide(row.receipt, ReceiptOf(p))
  <2>1. PICK q \in Persisters : row = Row(ReceiptOf(q), q) /\ written[q] = {}
    BY DEF IInv, RowsInv
  <2>2. row.by = q /\ q # p
    BY <1>1, <2>1 DEF Row
  <2>3. ~Collide(row.receipt, Row(ReceiptOf(p), p).receipt)
    BY <1>2 DEF IInv, RowsInv
  <2> QED BY <1>3, <2>2, <2>3
<1>5. \A q \in Persisters : ReportOf(q)' = ReportOf(q)
  BY <1>1 DEF Others, ReportOf
<1>6. [q \in Persisters |-> ReportOf(q)]' = [q \in Persisters |-> ReportOf(q)]
  BY <1>5
<1> QED BY <1>1, <1>2, <1>3, <1>4, <1>6 DEF Contract!Store, Contract!Collide,
           Contract!AdmittedWriteSide, Contract!Row, Collide, AdmittedWriteSide, Row, ReportOf

\* What a call reports when it ends is true of the table.
LEMMA EndReports ==
  ASSUME IInv, IInv', NEW p \in Persisters, StepOK(p), pc[p] \notin {"new", "done"},
         pc'[p] = "done", decision_receipts' = decision_receipts, asked' = asked
  PROVE  \E d \in {"COMMITTED", "NOT_COMMITTED", "UNKNOWN"} : Contract!Report(p, d)
<1>1. asked[p] = {ReceiptOf(p)} /\ ReceiptOf(p)' = ReceiptOf(p) /\ Others(p)
  BY HeldReceipt, FoundStays DEF StepOK
<1>2. PICK d \in {"COMMITTED", "NOT_COMMITTED", "UNKNOWN"} :
        d = result'[p].durability /\ (d = "COMMITTED" => Durable(p)')
  BY DEF StepOK, ResultInv, Ended, Settled
<1>3. d = "COMMITTED" => \A r \in asked[p] : \E row \in decision_receipts : row.receipt = r
  BY <1>1, <1>2 DEF Durable
<1>4. d = "NOT_COMMITTED" => \A row \in decision_receipts : row.by # p
  <2> SUFFICES ASSUME d = "NOT_COMMITTED", NEW row \in decision_receipts, row.by = p
               PROVE  FALSE
    OBVIOUS
  <2>1. PICK q \in Persisters :
          /\ row = Row(ReceiptOf(q)', q) /\ result'[q].durability \in {"COMMITTED", "UNKNOWN"}
    BY DEF IInv, RowsInv
  <2>2. row.by = q
    BY <2>1 DEF Row
  <2> QED BY <1>2, <2>1, <2>2
<1>5. /\ \A q \in Persisters \ {p} : ReportOf(q)' = ReportOf(q)
      /\ ReportOf(p)' = d /\ ReportOf(p) = "none"
  BY <1>1, <1>2 DEF Others, ReportOf
<1>6. [q \in Persisters |-> ReportOf(q)']
        = [[q \in Persisters |-> ReportOf(q)] EXCEPT ![p] = d]
  BY <1>5
<1>7. [q \in Persisters |-> ReportOf(q)]' = [[q \in Persisters |-> ReportOf(q)] EXCEPT ![p] = d]
  BY <1>6
<1>8. Contract!Report(p, d)
  BY <1>1, <1>3, <1>4, <1>5, <1>7 DEF Contract!Report, ReportOf
<1> QED BY <1>2, <1>8

\* Every step of persist is a step of the contract or a stutter.
LEMMA NextRefines ==
  ASSUME IInv, IInv', [Next]_vars
  PROVE  [Contract!ContractNext]_(Contract!contractVars)
<1>1. CASE UNCHANGED vars
  BY <1>1, QuietStutters DEF vars, ReportOf
<1>2. CASE Next
  <2>1. PICK p \in Persisters :
          /\ StepOK(p)
          /\ Persist(p) \/ ClientStep(p) \/ ServerStep(p) \/ StoreFails(p) \/ CommitRaises(p)
    BY <1>2, NextOK
  <2>2. \A q \in Persisters \ {p} : ReportOf(q)' = ReportOf(q)
    BY <2>1 DEF StepOK, Others, ReportOf
  <2>3. CASE Persist(p)
    <3>1. PICK r \in Receipts :
            /\ asked' = [asked EXCEPT ![p] = {r}] /\ asked[p] = {}
            /\ decision_receipts' = decision_receipts /\ pc[p] = "new" /\ pc'[p] = "acquire"
      <4>1. PICK r \in Receipts :
              /\ asked' = [asked EXCEPT ![p] = {r}] /\ pc[p] = "new"
              /\ pc' = [pc EXCEPT ![p] = "acquire"] /\ decision_receipts' = decision_receipts
        BY <2>3 DEF Persist, Goto
      <4>2. asked[p] = {} /\ pc'[p] = "acquire"
        <5>1. ServerInv(p) /\ TypesInv
          BY DEF IInv
        <5> QED BY <4>1, <5>1 DEF ServerInv, TypesInv
      <4> QED BY <4>1, <4>2
    <3>2. \A q \in Persisters : ReportOf(q)' = ReportOf(q)
      BY <2>2, <3>1 DEF ReportOf
    <3>3. [q \in Persisters |-> ReportOf(q)]' = [q \in Persisters |-> ReportOf(q)]
      BY <3>2
    <3>4. Contract!Ask(p, r)
      BY <3>1, <3>3 DEF Contract!Ask, ReportOf
    <3> QED BY <3>4 DEF Contract!ContractNext
  <2>4. CASE ~Persist(p) /\ ReportOf(p)' = ReportOf(p)
    <3>1. asked' = asked
      BY <2>1, <2>4, ReportStep
    <3>2. CASE decision_receipts' = decision_receipts
      BY <2>2, <2>4, <3>1, <3>2, QuietStutters
    <3>3. CASE decision_receipts' # decision_receipts
      <4>1. ReportOf(p) \in {"none", "UNKNOWN"}
        BY <2>1, <3>3, ReportStep
      <4>2. Contract!Store(p)
        BY <2>1, <2>4, <3>1, <3>3, <4>1, CommitStores
      <4> QED BY <4>2 DEF Contract!ContractNext
    <3> QED BY <3>2, <3>3
  <2>5. CASE ~Persist(p) /\ ReportOf(p)' # ReportOf(p)
    <3>1. /\ pc[p] \notin {"new", "done"} /\ pc'[p] = "done"
          /\ decision_receipts' = decision_receipts /\ asked' = asked
      BY <2>1, <2>5, ReportStep
    <3>2. \E d \in {"COMMITTED", "NOT_COMMITTED", "UNKNOWN"} : Contract!Report(p, d)
      BY <2>1, <3>1, EndReports
    <3> QED BY <3>2 DEF Contract!ContractNext
  <2> QED BY <2>3, <2>4, <2>5
<1> QED BY <1>1, <1>2

\* persist implements the contract of decision receipts: rows appear at most
\* once per call and never collide, and the durability a call reports is true
\* of the table when it is reported, whatever the connections and the server
\* do and however late a COMMIT in doubt is resolved.
THEOREM ContractRefinement == Spec => ImplementsContract
<1>1. Init => Contract!ContractInit
  BY DEF Init, Contract!ContractInit, NoResult
<1>2. IInv /\ IInv' /\ [Next]_vars => [Contract!ContractNext]_(Contract!contractVars)
  BY NextRefines
<1> QED BY <1>1, <1>2, Invariance, PTL DEF Spec, ImplementsContract, Contract!ContractSpec
=============================================================================
