----------------------- MODULE DecisionReceiptContract -----------------------
(***************************************************************************)
(* What persisting a DecisionReceipt promises: a row appears at most once  *)
(* per call and never collides with another, and the durability that is    *)
(* reported is true of the table, now and later.  An UNKNOWN call may      *)
(* still find its row in the table after it has been reported.             *)
(***************************************************************************)
EXTENDS DecisionReceipt

CONSTANTS
  Persisters,  \* calls of persist
  Receipts     \* the receipts they may be called with

VARIABLES
  decision_receipts,  \* committed rows of decision_receipts
  asked,              \* the receipt of each call, a set of at most one
  report              \* the durability each call has reported

contractVars == <<decision_receipts, asked, report>>

----------------------------------------------------------------------------
ContractInit ==
  /\ decision_receipts = {}
  /\ asked  = [p \in Persisters |-> {}]
  /\ report = [p \in Persisters |-> "none"]

\* persist is called.
Ask(p, r) ==
  /\ asked[p] = {}
  /\ asked' = [asked EXCEPT ![p] = {r}]
  /\ UNCHANGED <<decision_receipts, report>>

\* The row of a call becomes durable.
Store(p) ==
  /\ report[p] \in {"none", "UNKNOWN"}
  /\ \E r \in asked[p] :
       /\ \A row \in decision_receipts : row.by # p /\ ~Collide(row.receipt, r)
       /\ decision_receipts' = decision_receipts \cup {Row(r, p)}
  /\ UNCHANGED <<asked, report>>

\* The call reports: COMMITTED only for a payload that is in the table, by
\* this call or by an earlier one, NOT_COMMITTED only without a row of its own.
Report(p, durability) ==
  /\ asked[p] # {} /\ report[p] = "none"
  /\ durability = "COMMITTED" =>
       \A r \in asked[p] : \E row \in decision_receipts : row.receipt = r
  /\ durability = "NOT_COMMITTED" => \A row \in decision_receipts : row.by # p
  /\ report' = [report EXCEPT ![p] = durability]
  /\ UNCHANGED <<decision_receipts, asked>>

ContractNext ==
  \E p \in Persisters :
    \/ \E r \in Receipts : Ask(p, r)
    \/ Store(p)
    \/ \E durability \in {"COMMITTED", "NOT_COMMITTED", "UNKNOWN"} : Report(p, durability)

ContractSpec == ContractInit /\ [][ContractNext]_contractVars
=============================================================================
