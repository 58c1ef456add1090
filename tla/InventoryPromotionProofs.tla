---------------------- MODULE InventoryPromotionProofs ----------------------
(***************************************************************************)
(* The proof that governed promotion is grounded, for any set of requests, *)
(* products, receipts and quantities and any length of history.            *)
(***************************************************************************)
EXTENDS InventoryPromotion, TLAPS

FactRecord == [product_id : Products, quantity : Quantities]

CandidateRecord ==
  [candidate_id : RequestIds, product_id : Products, quantity : Quantities]

\* Accepted history is a sequence of facts, and what is held has its shape.
HeldTypes ==
  /\ accepted_facts \in Seq(FactRecord)
  /\ \A c \in candidates : c \in CandidateRecord
  /\ \A r \in receipts : r \in Receipts

\* The warehouse confirms only what it has received, for a candidate that was
\* really produced; nobody else issues evidence of that kind.
EvidenceHasOrigin ==
  \A e \in evidence :
    e.kind = "WAREHOUSE_RECEIPT_CONFIRMATION" =>
      \E c \in candidates, r \in receipts : e = ReceiptConfirmation(c, r)

\* The inductive invariant.
IInv == HeldTypes /\ EvidenceHasOrigin /\ FactsAreGrounded /\ NamedEvidenceExplains

----------------------------------------------------------------------------

\* The facts of a history after an append are the old ones and the new one.
LEMMA FactsOfAppend ==
  ASSUME NEW S, NEW s \in Seq(S), NEW x \in S
  PROVE  /\ Append(s, x) \in Seq(S)
         /\ Append(s, x) # <<>>
         /\ Append(s, x)[Len(Append(s, x))] = x
         /\ {Append(s, x)[i] : i \in DOMAIN Append(s, x)}
              = {s[i] : i \in DOMAIN s} \cup {x}
<1>1. /\ Append(s, x) \in Seq(S)
      /\ Len(Append(s, x)) = Len(s) + 1
      /\ \A i \in 1..Len(s) : Append(s, x)[i] = s[i]
      /\ Append(s, x)[Len(s) + 1] = x
      /\ DOMAIN s = 1..Len(s) /\ DOMAIN Append(s, x) = 1..(Len(s) + 1) /\ Len(s) \in Nat
  OBVIOUS
<1>2. Append(s, x) # <<>>
  BY <1>1
<1>3. \A y : y \in {Append(s, x)[i] : i \in DOMAIN Append(s, x)}
               <=> y \in {s[i] : i \in DOMAIN s} \cup {x}
  <2>1. ASSUME NEW i \in 1..(Len(s) + 1)
        PROVE  Append(s, x)[i] \in {s[j] : j \in DOMAIN s} \cup {x}
    <3>1. i \in 1..Len(s) \/ i = Len(s) + 1
      BY <1>1
    <3> QED
      BY <3>1, <1>1
  <2>2. ASSUME NEW j \in DOMAIN s
        PROVE  s[j] \in {Append(s, x)[i] : i \in DOMAIN Append(s, x)}
    <3>1. j \in 1..(Len(s) + 1) /\ Append(s, x)[j] = s[j]
      BY <1>1
    <3> QED
      BY <3>1, <1>1
  <2>3. x \in {Append(s, x)[i] : i \in DOMAIN Append(s, x)}
    <3>1. Len(s) + 1 \in DOMAIN Append(s, x)
      BY <1>1
    <3> QED
      BY <3>1, <1>1
  <2> QED
    BY <2>1, <2>2, <2>3, <1>1
<1> QED
  BY <1>1, <1>2, <1>3

\* Evidence that qualifies a candidate for promotion was issued by the
\* warehouse for a receipt of exactly what the candidate asks for, and that
\* receipt confirms this very candidate.
LEMMA QualifiedIsReceived ==
  ASSUME HeldTypes, EvidenceHasOrigin,
         NEW c \in candidates, NEW e, Qualifies(e, c)
  PROVE  /\ e \in evidence /\ e.issuer = "WAREHOUSE_AUTHORITY" /\ Fact(e) = Fact(c)
         /\ \E r \in receipts : Fact(r) = Fact(c) /\ ReceiptConfirmation(c, r) \in evidence
<1>1. /\ e \in evidence
      /\ e.candidate_id = c.candidate_id /\ e.product_id = c.product_id
      /\ e.quantity = c.quantity
      /\ e.kind = "WAREHOUSE_RECEIPT_CONFIRMATION" /\ e.issuer = "WAREHOUSE_AUTHORITY"
  BY DEF Qualifies, evidence_matches_candidate, evidence_kind_supports, source_authorized_for
<1>2. PICK d \in candidates, r \in receipts : e = ReceiptConfirmation(d, r)
  BY <1>1 DEF EvidenceHasOrigin
<1>3. /\ e.candidate_id = d.candidate_id /\ e.product_id = r.product_id
      /\ e.quantity = r.quantity
  BY <1>2 DEF ReceiptConfirmation, Evidence
<1>4. ReceiptConfirmation(c, r) = e /\ Fact(r) = Fact(c) /\ Fact(e) = Fact(c)
  BY <1>1, <1>2, <1>3 DEF ReceiptConfirmation, Evidence, Fact
<1> QED
  BY <1>1, <1>4

\* Semantic admission accepts only when some issued evidence qualifies, and
\* the evidence it names qualifies.
LEMMA NamedEvidenceQualifies ==
  ASSUME NEW c, NEW presented, NEW e \in QualifyingEvidence(c, presented)
  PROVE  Qualifies(e, c)
BY DEF QualifyingEvidence

----------------------------------------------------------------------------
(* One lemma per operation.                                                *)

\* Issuing evidence, observing a receipt and preparing a candidate only add to
\* what is held and leave history alone: what was grounded stays grounded.
LEMMA GroundedStays ==
  ASSUME FactsAreGrounded, UNCHANGED <<accepted_facts, governed>>,
         candidates \subseteq candidates', receipts \subseteq receipts',
         evidence \subseteq evidence'
  PROVE  FactsAreGrounded'
<1>1. Facts' = Facts
  BY DEF Facts
<1>2. SUFFICES ASSUME governed, NEW f \in Facts
               PROVE  \E c \in candidates', r \in receipts' :
                        /\ Fact(c) = f /\ Fact(r) = f
                        /\ ReceiptConfirmation(c, r) \in evidence'
  BY <1>1 DEF FactsAreGrounded
<1> QED
  BY <1>2 DEF FactsAreGrounded

\* Nothing is held, presented or promoted when the experiment starts.
LEMMA InitIInv == Init => IInv
BY DEF Init, IInv, HeldTypes, EvidenceHasOrigin, FactsAreGrounded, Facts,
       NamedEvidenceExplains, Nothing, Returned

\* The agent's own attempt to append is denied.
LEMMA DirectAppendIInv ==
  ASSUME IInv, NEW p \in Products, NEW q \in Quantities, attempt_direct_append(p, q)
  PROVE  IInv'
<1>1. UNCHANGED <<accepted_facts, candidates, receipts, evidence, governed>>
  BY DEF attempt_direct_append, append_accepted_replenishment, decide_local_capability,
         AllowedCapabilities
<1>2. last'.call = "direct"
  BY DEF attempt_direct_append, Raised, Returned
<1>3. HeldTypes' /\ EvidenceHasOrigin'
  BY <1>1 DEF IInv, HeldTypes, EvidenceHasOrigin
<1>4. FactsAreGrounded'
  BY <1>1, GroundedStays DEF IInv
<1> QED
  BY <1>2, <1>3, <1>4 DEF IInv, NamedEvidenceExplains

\* The workflow without admission appends, but only where it is in use.
LEMMA UngovernedIInv ==
  ASSUME IInv, NEW caller \in Components, NEW request \in Requests,
         handle_restock_request(caller, request)
  PROVE  IInv'
<1>1. UNCHANGED <<candidates, receipts, evidence, governed>> /\ ~governed
  BY DEF handle_restock_request
<1>2. last'.call = "ungoverned"
  BY DEF handle_restock_request, Raised, Returned
<1>3. Fact(Candidate(request)) \in FactRecord
  BY DEF Requests, Fact, Candidate, FactRecord
<1>4. accepted_facts' = accepted_facts
      \/ accepted_facts' = Append(accepted_facts, Fact(Candidate(request)))
  BY DEF handle_restock_request, PromoteOnArrival, append_accepted_replenishment
<1>5. accepted_facts' \in Seq(FactRecord)
  BY <1>3, <1>4, FactsOfAppend DEF IInv, HeldTypes
<1>6. HeldTypes' /\ EvidenceHasOrigin'
  BY <1>1, <1>5 DEF IInv, HeldTypes, EvidenceHasOrigin
<1> QED
  BY <1>1, <1>2, <1>6 DEF IInv, NamedEvidenceExplains, FactsAreGrounded

\* prepare_restock_candidate adds a candidate and promotes nothing.
LEMMA PrepareIInv ==
  ASSUME IInv, NEW caller \in Components, NEW request \in Requests,
         prepare_restock_candidate(caller, request)
  PROVE  IInv'
<1>1. UNCHANGED <<accepted_facts, receipts, evidence, governed>>
  BY DEF prepare_restock_candidate
<1>2. last'.call = "prepare"
  BY DEF prepare_restock_candidate, Raised, Returned
<1>3. candidates' = candidates \/ candidates' = candidates \cup {Candidate(request)}
  BY DEF prepare_restock_candidate
<1>4. Candidate(request) \in CandidateRecord
  BY DEF Requests, Candidate, CandidateRecord
<1>5. HeldTypes' /\ EvidenceHasOrigin'
  BY <1>1, <1>3, <1>4 DEF IInv, HeldTypes, EvidenceHasOrigin
<1>6. FactsAreGrounded'
  BY <1>1, <1>3, GroundedStays DEF IInv
<1> QED
  BY <1>2, <1>5, <1>6 DEF IInv, NamedEvidenceExplains

\* Evidence of the request itself comes from an issuer that does not qualify.
LEMMA RestockEvidenceIInv ==
  ASSUME IInv, NEW c \in candidates, issue_restock_request_evidence(c)
  PROVE  IInv'
<1>1. UNCHANGED <<accepted_facts, candidates, receipts, governed>>
  BY DEF issue_restock_request_evidence
<1>2. last'.call = "issue" /\ evidence' = evidence \cup {RestockRequestEvidence(c)}
  BY DEF issue_restock_request_evidence, Returned
<1>3. RestockRequestEvidence(c).kind # "WAREHOUSE_RECEIPT_CONFIRMATION"
  BY DEF RestockRequestEvidence, Evidence
<1>4. HeldTypes' /\ EvidenceHasOrigin'
  BY <1>1, <1>2, <1>3 DEF IInv, HeldTypes, EvidenceHasOrigin
<1>5. FactsAreGrounded'
  BY <1>1, <1>2, GroundedStays DEF IInv
<1> QED
  BY <1>2, <1>4, <1>5 DEF IInv, NamedEvidenceExplains

\* A receipt the warehouse observes grounds nothing until it is confirmed.
LEMMA ObserveReceiptIInv ==
  ASSUME IInv, NEW receipt \in Receipts, observe_receipt(receipt)
  PROVE  IInv'
<1>1. UNCHANGED <<accepted_facts, candidates, evidence, governed>>
  BY DEF observe_receipt
<1>2. last'.call = "receive" /\ receipts' = receipts \cup {receipt}
  BY DEF observe_receipt, Returned
<1>3. HeldTypes' /\ EvidenceHasOrigin'
  BY <1>1, <1>2 DEF IInv, HeldTypes, EvidenceHasOrigin
<1>4. FactsAreGrounded'
  BY <1>1, <1>2, GroundedStays DEF IInv
<1> QED
  BY <1>2, <1>3, <1>4 DEF IInv, NamedEvidenceExplains

\* A confirmation is issued for a receipt that was observed and says what it says.
LEMMA ReceiptConfirmationIInv ==
  ASSUME IInv, NEW c \in candidates, NEW r \in receipts, issue_receipt_confirmation(c, r)
  PROVE  IInv'
<1>1. UNCHANGED <<accepted_facts, candidates, receipts, governed>>
  BY DEF issue_receipt_confirmation
<1>2. last'.call = "issue" /\ evidence' = evidence \cup {ReceiptConfirmation(c, r)}
  BY DEF issue_receipt_confirmation, Returned
<1>3. HeldTypes' /\ EvidenceHasOrigin'
  BY <1>1, <1>2 DEF IInv, HeldTypes, EvidenceHasOrigin
<1>4. FactsAreGrounded'
  BY <1>1, <1>2, GroundedStays DEF IInv
<1> QED
  BY <1>2, <1>3, <1>4 DEF IInv, NamedEvidenceExplains

\* The governed promotion: an append follows qualifying evidence.
LEMMA PromotionIInv ==
  ASSUME IInv, NEW caller \in Components, NEW c \in candidates, NEW presented \in Presentations,
         promote_candidate_with_semantic_authority_admission(caller, c, presented)
  PROVE  IInv'
<1>1. UNCHANGED <<candidates, receipts, evidence, governed>>
  BY DEF promote_candidate_with_semantic_authority_admission
<1>2. CASE accepted_facts' = accepted_facts /\ last'.decision # "ACCEPT"
  <2>1. HeldTypes' /\ EvidenceHasOrigin'
    BY <1>1, <1>2 DEF IInv, HeldTypes, EvidenceHasOrigin
  <2>2. FactsAreGrounded'
    BY <1>1, <1>2, GroundedStays DEF IInv
  <2> QED
    BY <1>2, <2>1, <2>2 DEF IInv, NamedEvidenceExplains
<1>3. CASE /\ QualifyingEvidence(c, presented) # {}
           /\ accepted_facts' = Append(accepted_facts, Fact(c))
           /\ last'.qualifying_evidence = QualifyingEvidence(c, presented)
  <2>1. Fact(c) \in FactRecord
    BY DEF IInv, HeldTypes, Fact, FactRecord, CandidateRecord
  <2>2. /\ accepted_facts' \in Seq(FactRecord)
        /\ accepted_facts' # <<>>
        /\ accepted_facts'[Len(accepted_facts')] = Fact(c)
        /\ Facts' = Facts \cup {Fact(c)}
    BY <1>3, <2>1, FactsOfAppend DEF IInv, HeldTypes, Facts
  <2>3. PICK e \in QualifyingEvidence(c, presented) : TRUE
    BY <1>3
  <2>4. Qualifies(e, c)
    BY <2>3, NamedEvidenceQualifies
  <2>5. /\ e \in evidence /\ e.issuer = "WAREHOUSE_AUTHORITY" /\ Fact(e) = Fact(c)
        /\ \E r \in receipts : Fact(r) = Fact(c) /\ ReceiptConfirmation(c, r) \in evidence
    BY <2>4, QualifiedIsReceived DEF IInv
  <2>6. HeldTypes' /\ EvidenceHasOrigin'
    BY <1>1, <2>2 DEF IInv, HeldTypes, EvidenceHasOrigin
  <2>7. FactsAreGrounded'
    BY <1>1, <2>2, <2>5 DEF IInv, FactsAreGrounded
  <2>8. NamedEvidenceExplains'
    BY <1>1, <1>3, <2>2, <2>3, <2>5 DEF NamedEvidenceExplains
  <2> QED
    BY <2>6, <2>7, <2>8 DEF IInv
<1>4. decide_local_capability("INVENTORY_AUTHORITY_SERVICE", "APPEND_ACCEPTED_REPLENISHMENT")
        = "ALLOWED"
  BY DEF decide_local_capability, AllowedCapabilities
<1> QED
  BY <1>2, <1>3, <1>4 DEF promote_candidate_with_semantic_authority_admission,
     PromotionDecision, append_accepted_replenishment, Returned

\* The invariant is inductive.
THEOREM NextIInv == IInv /\ [Next]_vars => IInv'
<1> SUFFICES ASSUME IInv, [Next]_vars PROVE IInv'
  OBVIOUS
<1>1. CASE UNCHANGED vars
  BY <1>1 DEF IInv, HeldTypes, EvidenceHasOrigin, FactsAreGrounded, Facts,
     NamedEvidenceExplains, vars
<1>2. CASE Next
  BY <1>2, DirectAppendIInv, UngovernedIInv, PrepareIInv, RestockEvidenceIInv,
     ObserveReceiptIInv, ReceiptConfirmationIInv, PromotionIInv DEF Next
<1> QED
  BY <1>1, <1>2

\* However candidates, receipts and evidence are presented again, late or next
\* to values they were not made for, and whatever components call: where
\* promotion goes through SemanticAuthorityAdmission, every accepted fact was
\* received and confirmed by the warehouse for a candidate that asked for it,
\* and an accepting promotion names a confirmation of what it appended.
THEOREM PromotionIsGrounded == Spec => []GovernedFactsAreGrounded
<1>1. IInv => GovernedFactsAreGrounded
  BY DEF IInv, GovernedFactsAreGrounded
<1> QED
  BY InitIInv, NextIInv, <1>1, PTL DEF Spec
=============================================================================
