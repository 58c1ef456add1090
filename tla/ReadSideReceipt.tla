-------------------------- MODULE ReadSideReceipt --------------------------
(***************************************************************************)
(* What becomes of the result of a read-side check: the semantic outcome   *)
(* its status stands for and the decision receipt built from both.  Pure   *)
(* operators; ProjectionSnapshots produces the results.                    *)
(*                                                                         *)
(* A result is [op, order_id, status, state, authority, snapshot_id,       *)
(* position]; the last four are sets of at most one value, empty for None. *)
(* op says which of the three result types it is:                          *)
(*   replay    ReplayValidationResult: state is persisted_state and        *)
(*             authority is expected_state;                                *)
(*   validate  ProjectionSnapshotReplayValidationResult: state is          *)
(*             snapshot_assisted_state and authority authority_state;      *)
(*   resolve   ProjectionSnapshotAssistedResolutionResult: state is        *)
(*             resolved_state, and there is no authority.                  *)
(***************************************************************************)
EXTENDS Integers

\* The rows of _STATUS_MAPPINGS for read-side statuses: ok and the category.
STATUS_MAPPINGS ==
  [MATCH                                |-> [ok |-> TRUE,  category |-> "VALID"],
   RESOLVED_FROM_SNAPSHOT               |-> [ok |-> TRUE,  category |-> "VALID"],
   MISSING_SNAPSHOT                     |-> [ok |-> FALSE, category |-> "FALLBACK_REQUIRED"],
   MISSING_PROJECTION                   |-> [ok |-> FALSE, category |-> "REBUILD_REQUIRED"],
   NO_ACCEPTED_HISTORY                  |-> [ok |-> FALSE, category |-> "UNRESOLVED"],
   NO_ACCEPTED_HISTORY_FOR_ORDER        |-> [ok |-> FALSE, category |-> "UNRESOLVED"],
   INVALID_SNAPSHOT_BOUNDARY            |-> [ok |-> FALSE, category |-> "UNTRUSTED"],
   INVALID_SNAPSHOT_PRECONDITION        |-> [ok |-> FALSE, category |-> "UNTRUSTED"],
   INVALID_SNAPSHOT_COMPATIBILITY       |-> [ok |-> FALSE, category |-> "UNTRUSTED"],
   TAIL_EVENT_SOURCE_CONTRACT_VIOLATION |-> [ok |-> FALSE, category |-> "UNRESOLVED"],
   TAIL_REPLAY_FAILED                   |-> [ok |-> FALSE, category |-> "FALLBACK_REQUIRED"],
   DRIFT                                |-> [ok |-> FALSE, category |-> "DRIFT"],
   SNAPSHOT_ASSISTED_DRIFT              |-> [ok |-> FALSE, category |-> "DRIFT"]]

map_runtime_technical_status(status, boundary) ==
  [boundary |-> boundary, ok |-> STATUS_MAPPINGS[status].ok,
   category |-> STATUS_MAPPINGS[status].category]

\* The three read-side adapters, each with its boundary.
SemanticOutcome(r) ==
  map_runtime_technical_status(
    r.status, IF r.op = "replay" THEN "LAYER_2_READ_SIDE" ELSE "SNAPSHOT_TRUST")

----------------------------------------------------------------------------
(* The shapes the mapper accepts; it raises ValueError on any other.       *)

\* _validate_present_order_state
StatesOfThisOrder(r) == \A s \in r.state \cup r.authority : s.order_id = r.order_id

\* _validate_replay_result_shape
ReplayShape(r) ==
  CASE r.status = "MATCH"               -> r.authority # {} /\ r.authority = r.state
    [] r.status = "MISSING_PROJECTION"  -> r.authority # {} /\ r.state = {}
    [] r.status = "DRIFT"               -> /\ r.authority # {} /\ r.state # {}
                                           /\ r.authority # r.state
    [] r.status = "NO_ACCEPTED_HISTORY" -> r.authority = {}
    [] OTHER                            -> FALSE

\* Lineage is an identity and a position together, or neither; the position is
\* positive once the producer has checked the boundary.
PairedLineage(r) == r.snapshot_id # {} <=> r.position # {}
PositivePosition(r) == 0 \notin r.position

\* _validate_snapshot_replay_result_shape
SnapshotReplayShape(r) ==
  LET lineage == r.snapshot_id # {}
  IN  /\ PairedLineage(r)
      /\ r.status \in {"MATCH", "TAIL_EVENT_SOURCE_CONTRACT_VIOLATION",
                       "SNAPSHOT_ASSISTED_DRIFT"} => PositivePosition(r)
      /\ CASE r.status = "MATCH" -> lineage /\ r.authority # {} /\ r.authority = r.state
           [] r.status = "MISSING_SNAPSHOT" -> ~lineage /\ r.state = {} /\ r.authority # {}
           [] r.status = "INVALID_SNAPSHOT_BOUNDARY" ->
                lineage /\ r.state = {} /\ r.authority # {}
           [] r.status \in {"TAIL_EVENT_SOURCE_CONTRACT_VIOLATION",
                            "SNAPSHOT_ASSISTED_DRIFT"} ->
                lineage /\ r.state # {} /\ r.authority # {}
           [] r.status = "NO_ACCEPTED_HISTORY_FOR_ORDER" -> r.state = {} /\ r.authority = {}
           [] OTHER -> FALSE

\* _validate_snapshot_assisted_result_shape
SnapshotAssistedShape(r) ==
  LET loaded == r.snapshot_id # {} /\ r.position # {}
  IN  CASE r.status = "INVALID_SNAPSHOT_PRECONDITION" ->
             r.snapshot_id = {} /\ r.position = {} /\ r.state = {}
        [] r.status = "MISSING_SNAPSHOT" ->
             r.snapshot_id # {} /\ r.position = {} /\ r.state = {}
        [] r.status = "RESOLVED_FROM_SNAPSHOT" -> loaded /\ PositivePosition(r) /\ r.state # {}
        [] r.status = "INVALID_SNAPSHOT_COMPATIBILITY" -> loaded /\ r.state = {}
        [] r.status \in {"TAIL_EVENT_SOURCE_CONTRACT_VIOLATION", "TAIL_REPLAY_FAILED"} ->
             loaded /\ PositivePosition(r) /\ r.state = {}
        [] OTHER -> FALSE

AcceptedShape(r) ==
  /\ StatesOfThisOrder(r)
  /\ CASE r.op = "replay"   -> ReplayShape(r)
       [] r.op = "validate" -> SnapshotReplayShape(r)
       [] r.op = "resolve"  -> SnapshotAssistedShape(r)

----------------------------------------------------------------------------
(* The receipt.                                                            *)

\* A tail-source failure is the runtime's, a disagreement the projection's.
SubjectType(r) ==
  CASE r.status \in {"NO_ACCEPTED_HISTORY", "NO_ACCEPTED_HISTORY_FOR_ORDER"} -> "ORDER"
    [] r.op = "replay" /\ r.status # "NO_ACCEPTED_HISTORY" -> "PROJECTION"
    [] r.status \in {"RESOLVED_FROM_SNAPSHOT", "SNAPSHOT_ASSISTED_DRIFT"} -> "PROJECTION"
    [] r.status \in {"TAIL_EVENT_SOURCE_CONTRACT_VIOLATION", "TAIL_REPLAY_FAILED",
                     "INVALID_SNAPSHOT_PRECONDITION"} -> "RUNTIME"
    [] OTHER -> "SNAPSHOT"

\* _replay_subject, _snapshot_replay_subject and _snapshot_assisted_subject.
Subject(r) ==
  [type |-> SubjectType(r),
   id   |-> CASE SubjectType(r) \in {"ORDER", "PROJECTION"} -> {r.order_id}
              [] SubjectType(r) = "RUNTIME" -> {}
              [] OTHER -> r.snapshot_id]

\* A snapshot that was loaded, as opposed to one that was only asked for.
SnapshotArtifactPresent(r) ==
  CASE r.op = "replay"   -> FALSE
    [] r.op = "validate" -> r.snapshot_id # {}
    [] r.op = "resolve"  -> r.status \notin {"MISSING_SNAPSHOT", "INVALID_SNAPSHOT_PRECONDITION"}

EvidenceSource(r) ==
  CASE r.op = "replay"   -> "READ_SIDE_PATH"
    [] r.op = "validate" -> "SNAPSHOT_TRUST_PATH"
    [] r.op = "resolve"  -> "SNAPSHOT_ASSISTED_PATH"

Correlation(r) ==
  [order_id |-> r.order_id, snapshot_id |-> r.snapshot_id, source_global_position |-> r.position,
   identity_source |-> IF SnapshotArtifactPresent(r) THEN "SNAPSHOT_LINEAGE"
                       ELSE "READ_SIDE_OBSERVATION"]

\* The typed tuple of the outcome, unchanged, beside the evidence of the path.
map_semantic_outcome_to_decision_receipt(outcome, source, subject, correlation) ==
  [evidence_source |-> source, outcome |-> outcome, subject |-> subject,
   correlation |-> correlation]

\* map_..._result_to_decision_receipt: the receipt, and none where it raises.
MappedReadSideReceipts(r) ==
  {map_semantic_outcome_to_decision_receipt(SemanticOutcome(x), EvidenceSource(x), Subject(x),
                                            Correlation(x)) :
     x \in {y \in {r} : AcceptedShape(y)}}
=============================================================================
