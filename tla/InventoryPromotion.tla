------------------------- MODULE InventoryPromotion -------------------------
(***************************************************************************)
(* The indirect-authority experiment: a limited agent may ask a workflow   *)
(* for a restock but may not append to accepted inventory history.  The    *)
(* workflow turns the request into a candidate, and the authority service  *)
(* may append for it, either on arrival of a candidate or after semantic   *)
(* authority admission has found evidence, issued by a source that may     *)
(* assert it, that the stock was replenished.                              *)
(*                                                                         *)
(* Candidates, receipts and evidence are immutable values that their       *)
(* holders keep: any of them may be presented again, late, and next to     *)
(* values they were not made for.  The store, the service and the workflow *)
(* are synchronous: a call is one step.                                    *)
(***************************************************************************)
EXTENDS Integers, FiniteSets, Sequences

CONSTANTS
  RequestIds,        \* request_id values, which also name the candidates
  Products,          \* product_id values
  Quantities,        \* quantities callers pass
  ReceiptIds,        \* receipt_id values
  MaxFacts,          \* a bound on the length of accepted history
  MaxHeld            \* a bound on the candidates, receipts and evidence held

NoReceipt == "None"

ASSUME InventoryAssumption ==
  /\ Quantities \subseteq Int
  /\ MaxFacts \in Nat /\ MaxHeld \in Nat
  /\ NoReceipt \notin ReceiptIds

VARIABLES
  accepted_facts,    \* AuthoritativeInventoryStore._accepted_facts
  candidates,        \* CandidateStockReplenished values that were produced
  receipts,          \* WarehouseReceiptObservation values that were made
  evidence,          \* AuthorityEvidence values that were issued
  governed,          \* the workflow in use: with semantic admission or without
  last               \* what the last call returned or raised

vars == <<accepted_facts, candidates, receipts, evidence, governed, last>>

----------------------------------------------------------------------------
(* Local capabilities and the authority of sources.                        *)

\* _CAPABILITY_DECISIONS; what it does not name is denied.
AllowedCapabilities ==
  {<<"LIMITED_AGENT", "SUBMIT_RESTOCK_REQUEST">>,
   <<"RESTOCK_WORKFLOW", "SUBMIT_REPLENISHMENT_CANDIDATE">>,
   <<"INVENTORY_AUTHORITY_SERVICE", "APPEND_ACCEPTED_REPLENISHMENT">>}

\* Each operation has one target, which makes the check.
decide_local_capability(caller, operation) ==
  IF <<caller, operation>> \in AllowedCapabilities THEN "ALLOWED" ELSE "DENIED"

evidence_kind_supports(kind, proposition) ==
  <<kind, proposition>> \in {<<"AGENT_RESTOCK_REQUEST", "RESTOCK_REQUESTED">>,
                             <<"WAREHOUSE_RECEIPT_CONFIRMATION", "STOCK_REPLENISHED">>}

source_authorized_for(issuer, proposition) ==
  <<issuer, proposition>> \in {<<"LIMITED_AGENT", "RESTOCK_REQUESTED">>,
                               <<"WAREHOUSE_AUTHORITY", "STOCK_REPLENISHED">>}

\* _validate_product_and_quantity: product identities are not empty here.
IsQuantity(quantity) == quantity > 0

----------------------------------------------------------------------------
(* Values.                                                                 *)

\* _candidate_id_from_request_id is injective: a candidate is named by the
\* request_id it was derived from.
Candidate(request) ==
  [candidate_id |-> request.request_id, product_id |-> request.product_id,
   quantity |-> request.quantity]

\* AcceptedStockReplenished: the fact keeps no candidate and no evidence.
Fact(c) == [product_id |-> c.product_id, quantity |-> c.quantity]

Evidence(kind, issuer, id, receipt_id, product_id, quantity) ==
  [kind |-> kind, issuer |-> issuer, candidate_id |-> id, receipt_id |-> receipt_id,
   product_id |-> product_id, quantity |-> quantity]

\* LimitedAgent.issue_restock_request_evidence
RestockRequestEvidence(c) ==
  Evidence("AGENT_RESTOCK_REQUEST", "LIMITED_AGENT", c.candidate_id, NoReceipt,
           c.product_id, c.quantity)

\* WarehouseAuthority.issue_receipt_confirmation: the candidate's identity and
\* the receipt's facts.
ReceiptConfirmation(c, r) ==
  Evidence("WAREHOUSE_RECEIPT_CONFIRMATION", "WAREHOUSE_AUTHORITY", c.candidate_id,
           r.receipt_id, r.product_id, r.quantity)

----------------------------------------------------------------------------
(* Semantic authority admission.                                           *)

\* A mistake: the candidate's name is all that is compared.
evidence_matches_candidate_id(e, c) == e.candidate_id = c.candidate_id

evidence_matches_candidate(e, c) ==
  e.candidate_id = c.candidate_id /\ e.product_id = c.product_id /\ e.quantity = c.quantity

\* EvidenceEvaluation.qualifies_for_promotion: issued evidence only.
Qualifies(e, c) ==
  /\ e \in evidence
  /\ evidence_matches_candidate(e, c)
  /\ evidence_kind_supports(e.kind, "STOCK_REPLENISHED")
  /\ source_authorized_for(e.issuer, "STOCK_REPLENISHED")

\* SemanticAuthorityAdmission.evaluate: the first evidence that qualifies.
QualifyingEvidence(c, presented) ==
  {presented[i] : i \in {j \in DOMAIN presented :
                           /\ Qualifies(presented[j], c)
                           /\ \A k \in 1..(j - 1) : ~Qualifies(presented[k], c)}}

PromotionDecision(c, presented) ==
  IF QualifyingEvidence(c, presented) # {} THEN "ACCEPT" ELSE "REJECT"

----------------------------------------------------------------------------
(* The store, the service, the workflow and the agent.                     *)

Returned(call, decision) ==
  [call |-> call, decision |-> decision, qualifying_evidence |-> {}]
Raised(call) == Returned(call, "raised")

\* AuthoritativeInventoryStore.append_accepted_replenishment
append_accepted_replenishment(caller, fact) ==
  accepted_facts' =
    IF decide_local_capability(caller, "APPEND_ACCEPTED_REPLENISHMENT") = "ALLOWED"
    THEN Append(accepted_facts, fact) ELSE accepted_facts

HistoryHasRoom == Len(accepted_facts) < MaxFacts
HasRoom(held)  == Cardinality(held) < MaxHeld

\* LimitedAgent.attempt_direct_append
attempt_direct_append(product_id, quantity) ==
  /\ HistoryHasRoom
  /\ IF IsQuantity(quantity)
     THEN /\ append_accepted_replenishment("LIMITED_AGENT",
                                           [product_id |-> product_id, quantity |-> quantity])
          /\ last' = Returned("direct",
               decide_local_capability("LIMITED_AGENT", "APPEND_ACCEPTED_REPLENISHMENT"))
     ELSE last' = Raised("direct") /\ UNCHANGED accepted_facts
  /\ UNCHANGED <<candidates, receipts, evidence, governed>>

\* InventoryAuthorityService.promote_candidate_without_semantic_authority_admission
PromoteOnArrival(caller, c) ==
  IF decide_local_capability(caller, "SUBMIT_REPLENISHMENT_CANDIDATE") = "ALLOWED"
  THEN append_accepted_replenishment("INVENTORY_AUTHORITY_SERVICE", Fact(c))
  ELSE UNCHANGED accepted_facts

\* RestockWorkflow.handle_restock_request, of the first version of the workflow.
handle_restock_request(caller, request) ==
  /\ ~governed /\ HistoryHasRoom
  /\ IF /\ IsQuantity(request.quantity)
        /\ decide_local_capability(caller, "SUBMIT_RESTOCK_REQUEST") = "ALLOWED"
     THEN /\ PromoteOnArrival("RESTOCK_WORKFLOW", Candidate(request))
          /\ last' = Returned("ungoverned", "ALLOWED")
     ELSE /\ UNCHANGED accepted_facts
          /\ last' = IF IsQuantity(request.quantity) THEN Returned("ungoverned", "DENIED")
                     ELSE Raised("ungoverned")
  /\ UNCHANGED <<candidates, receipts, evidence, governed>>

\* RestockWorkflow.prepare_restock_candidate
prepare_restock_candidate(caller, request) ==
  /\ governed /\ HasRoom(candidates)
  /\ IF ~IsQuantity(request.quantity)
     THEN last' = Raised("prepare") /\ UNCHANGED candidates
     ELSE IF decide_local_capability(caller, "SUBMIT_RESTOCK_REQUEST") = "DENIED"
     THEN last' = Returned("prepare", "DENIED") /\ UNCHANGED candidates
     ELSE /\ candidates' = candidates \cup {Candidate(request)}
          /\ last' = Returned("prepare", "ALLOWED")
  /\ UNCHANGED <<accepted_facts, receipts, evidence, governed>>

\* The agent vouches for a candidate it holds.
issue_restock_request_evidence(c) ==
  /\ HasRoom(evidence)
  /\ evidence' = evidence \cup {RestockRequestEvidence(c)}
  /\ last' = Returned("issue", "RESTOCK_REQUESTED")
  /\ UNCHANGED <<accepted_facts, candidates, receipts, governed>>

\* WarehouseReceiptObservation: stock arrives, whatever was asked for; nothing
\* keeps a receipt_id from naming several receipts.
observe_receipt(receipt) ==
  /\ HasRoom(receipts)
  /\ IsQuantity(receipt.quantity)
  /\ receipts' = receipts \cup {receipt}
  /\ last' = Returned("receive", receipt.receipt_id)
  /\ UNCHANGED <<accepted_facts, candidates, evidence, governed>>

\* The warehouse confirms a receipt for a candidate.
issue_receipt_confirmation(c, r) ==
  /\ HasRoom(evidence)
  /\ evidence' = evidence \cup {ReceiptConfirmation(c, r)}
  /\ last' = Returned("issue", "STOCK_REPLENISHED")
  /\ UNCHANGED <<accepted_facts, candidates, receipts, governed>>

\* InventoryAuthorityService.promote_candidate_with_semantic_authority_admission,
\* called by the workflow, or by a component that has no such capability.
promote_candidate_with_semantic_authority_admission(caller, c, presented) ==
  /\ HistoryHasRoom
  /\ IF decide_local_capability(caller, "SUBMIT_REPLENISHMENT_CANDIDATE") = "DENIED"
     THEN last' = Returned("governed", "DENIED") /\ UNCHANGED accepted_facts
     ELSE /\ last' = [call |-> "governed", decision |-> PromotionDecision(c, presented),
                      qualifying_evidence |-> QualifyingEvidence(c, presented)]
          /\ IF PromotionDecision(c, presented) = "ACCEPT"
             THEN append_accepted_replenishment("INVENTORY_AUTHORITY_SERVICE", Fact(c))
             ELSE UNCHANGED accepted_facts
  /\ UNCHANGED <<candidates, receipts, evidence, governed>>

----------------------------------------------------------------------------
Requests == [request_id : RequestIds, product_id : Products, quantity : Quantities]
Receipts == [receipt_id : ReceiptIds, product_id : Products, quantity : Quantities]
Components == {"LIMITED_AGENT", "RESTOCK_WORKFLOW", "INVENTORY_AUTHORITY_SERVICE"}
Nothing == Returned("none", "none")

\* What a caller may present: no evidence, one, or two in either order.
Presentations == {<<>>} \cup {<<e>> : e \in evidence} \cup {<<e, f>> : e, f \in evidence}

Init ==
  /\ accepted_facts = <<>>
  /\ candidates = {} /\ receipts = {} /\ evidence = {}
  /\ governed \in BOOLEAN
  /\ last = Nothing

Next ==
  \/ \E p \in Products, q \in Quantities : attempt_direct_append(p, q)
  \/ \E caller \in Components, request \in Requests : handle_restock_request(caller, request)
  \/ \E caller \in Components, request \in Requests : prepare_restock_candidate(caller, request)
  \/ \E c \in candidates : issue_restock_request_evidence(c)
  \/ \E receipt \in Receipts : observe_receipt(receipt)
  \/ \E c \in candidates, r \in receipts : issue_receipt_confirmation(c, r)
  \/ \E caller \in Components, c \in candidates, presented \in Presentations :
       promote_candidate_with_semantic_authority_admission(caller, c, presented)

Spec == Init /\ [][Next]_vars

----------------------------------------------------------------------------
(* Properties.                                                             *)

Facts == {accepted_facts[i] : i \in DOMAIN accepted_facts}

\* In the governed composition accepted inventory is grounded: for every
\* accepted fact the warehouse has received exactly that product and quantity
\* and has confirmed it for a candidate that asked for exactly that, however
\* evidence, candidates and receipts were mixed on the way.
FactsAreGrounded ==
  governed => \A f \in Facts :
    \E c \in candidates, r \in receipts :
      /\ Fact(c) = f
      /\ Fact(r) = f
      /\ ReceiptConfirmation(c, r) \in evidence

\* The evidence an accepting promotion names is a confirmation by the warehouse
\* of the very fact that was appended last.
NamedEvidenceExplains ==
  last.call = "governed" /\ last.decision = "ACCEPT" =>
    \E e \in last.qualifying_evidence :
      /\ e \in evidence
      /\ e.issuer = "WAREHOUSE_AUTHORITY"
      /\ accepted_facts # <<>>
      /\ Fact(e) = accepted_facts[Len(accepted_facts)]

\* Promotion with semantic authority admission is grounded in what the
\* warehouse confirmed, and its result names the evidence for what it appended.
GovernedFactsAreGrounded == FactsAreGrounded /\ NamedEvidenceExplains
=============================================================================
