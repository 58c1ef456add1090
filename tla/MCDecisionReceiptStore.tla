----------------------- MODULE MCDecisionReceiptStore -----------------------
(***************************************************************************)
(* An instance of DecisionReceiptStore for TLC: two calls of persist, of   *)
(* which one may stall for ever.                                           *)
(***************************************************************************)
EXTENDS DecisionReceiptStore

CONSTANTS i1, i2, e1, e2

Receipt(id, source, disposition, candidate, accepted) ==
  [receipt_id |-> id, evidence_source |-> source, disposition |-> disposition,
   candidate_event_id |-> candidate, accepted_event_id |-> accepted]

\* An admission, the same one under another receipt_id, another payload under
\* the first receipt_id, an observation of the same event from the read side,
\* and a receipt for an event that is not in accepted history.
MCReceipts ==
  {Receipt(i1, "WRITE_SIDE_ADMISSION", "ADMITTED_TO_ACCEPTED_HISTORY", e1, e1),
   Receipt(i2, "WRITE_SIDE_ADMISSION", "ADMITTED_TO_ACCEPTED_HISTORY", e1, e1),
   Receipt(i1, "WRITE_SIDE_ADMISSION", "SEMANTIC_ADMISSION_REJECTED", e2, NoEvent),
   Receipt(i2, "READ_SIDE_PATH", "UNKNOWN", NoEvent, e1),
   Receipt(i2, "WRITE_SIDE_ADMISSION", "MATCHED_EXISTING_ACCEPTED_EVENT", NoEvent, e2)}
MCAcceptedEvents == {e1}
=============================================================================
