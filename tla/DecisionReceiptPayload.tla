----------------------- MODULE DecisionReceiptPayload -----------------------
(***************************************************************************)
(* The portable form of a DecisionReceipt and its form in a row of         *)
(* decision_receipts: construction, serialization and deserialization of   *)
(* version 1, the typed columns and JSONB, hydration, and the comparison   *)
(* of a receipt with the row that has its identity.                        *)
(*                                                                         *)
(* A Python or JSON value is <<type, value>>, so two values of different   *)
(* types are never equal: <<"null">>, <<"bool", b>>, <<"int", n>>,         *)
(* <<"float", n>>, <<"inf">>, <<"str", s>>, <<"list", q>>, <<"tuple", q>>, *)
(* <<"map", f>>, <<"uuid", u>>, <<"enum", s>> (a member of the enum of its *)
(* field), <<"strenum", s>> (a str Enum inside evidence) and <<"object">>  *)
(* (any other).  A UUID is named by its canonical text.  The supporting    *)
(* objects of a receipt are flattened: their field names are distinct.     *)
(***************************************************************************)
EXTENDS Integers, Sequences

CONSTANTS
  Int64Max,      \* _SIGNED_64_BIT_MAX, scaled down
  MaxJsonDepth,  \* MAX_JSON_DEPTH
  ExponentFrom,  \* floats from here on print with an exponent (1e16), scaled down
  UuidOf,        \* the texts that UUID(...) parses, to the canonical text
  BlankTexts,    \* the texts whose strip() is empty
  Inputs,        \* the arguments DecisionReceipt is called with
  LeafEdits,     \* <<field, value>>: what an edited payload may say
  VersionEdits,  \* versions an edited payload may claim
  MaxEdits       \* bound on the edits of a behaviour

ASSUME PayloadAssumption ==
  /\ ExponentFrom \in Nat /\ Int64Max \in Nat /\ ExponentFrom < Int64Max
  /\ MaxJsonDepth \in Nat
  /\ \A t \in DOMAIN UuidOf : UuidOf[UuidOf[t]] = UuidOf[t]

VARIABLES
  receipt,   \* the DecisionReceipt at hand, or None
  inserted,  \* the receipt whose INSERT made the row, or None
  row,       \* the columns of the row with its identity, or None
  payload,   \* the portable form in transit, or None
  edits,     \* how often a payload was edited
  answer     \* what the last operation answered

vars == <<receipt, inserted, row, payload, edits, answer>>

None == <<"null">>

----------------------------------------------------------------------------
(* The vocabularies and the fields *)

Admission == INSTANCE DecisionReceipt WITH NoEvent <- None

SemanticOutcomeCategory ==
  {"VALID", "UNRESOLVED", "UNTRUSTED", "DRIFT", "FALLBACK_REQUIRED", "REBUILD_REQUIRED",
   "BLOCK_REQUIRED", "ESCALATION_REQUIRED", "CONCURRENCY_UNCERTAIN", "RETRY_CLASSIFIED",
   "INTENT_INCONSISTENT"}

SemanticOutcomeCode ==
  {"SEMANTICALLY_VALID", "RUNTIME_UNRESOLVED", "DERIVED_STATE_UNTRUSTED", "DRIFT_DETECTED",
   "FAST_PATH_UNAVAILABLE", "REQUIRES_AUTHORITY_FALLBACK", "REQUIRES_REBUILD",
   "REQUIRES_OPERATOR_REVIEW", "REJECT_DOWNSTREAM_USAGE", "CONCURRENCY_UNCERTAIN",
   "IDEMPOTENT_REPLAY_ALLOWED", "SEMANTIC_CONFLICT_DETECTED", "INTENT_DRIFT_DETECTED"}

SemanticBoundary ==
  {"LAYER_1_WRITE_SIDE", "LAYER_2_READ_SIDE", "SNAPSHOT_TRUST", "IDEMPOTENCY",
   "CONCURRENCY_ADMISSION", "RUNTIME_GOVERNANCE"}

SemanticSeverity == {"INFO", "WARNING", "ERROR", "CRITICAL"}

SemanticRiskLevel == {"LOW", "MEDIUM", "HIGH", "CRITICAL", "UNKNOWN"}

SemanticReversibility ==
  {"REVERSIBLE", "REBUILDABLE", "COMPENSABLE", "IRREVERSIBLE", "UNKNOWN"}

DecisionReceiptEvidenceSource ==
  {"WRITE_SIDE_ADMISSION", "READ_SIDE_PATH", "SNAPSHOT_TRUST_PATH",
   "SNAPSHOT_ASSISTED_PATH", "RUNTIME_OBSERVATION", "UNKNOWN"}

DecisionReceiptSubjectType ==
  {"ORDER", "REQUEST", "CANDIDATE_EVENT", "ACCEPTED_EVENT", "SNAPSHOT", "PROJECTION",
   "RUNTIME", "UNKNOWN"}

DecisionReceiptIdentitySource ==
  {"ACCEPTED_HISTORY", "CANDIDATE_EVENT_IDENTITY", "WRITE_SIDE_CORRELATION",
   "READ_SIDE_OBSERVATION", "SNAPSHOT_LINEAGE", "CALLER_CONTEXT", "UNKNOWN"}

DecisionReceiptFlagState == {"TRUE", "FALSE", "NOT_EVALUATED"}

\* The exact key sets of the supporting objects.
NestedKeys ==
  [subject |-> {"subject_type", "subject_id"},
   correlation |-> {"order_id", "request_id", "candidate_event_id", "accepted_event_id",
                    "snapshot_id", "source_global_position", "identity_source"},
   actor |-> {"actor_id", "actor_role", "runtime_role"},
   cost_summary |-> {"elapsed_ms", "validation_elapsed_ms", "replay_elapsed_ms",
                     "transaction_elapsed_ms", "lock_wait_ms"},
   flags |-> {"fallback_required", "rebuild_required", "operator_review_required",
              "retry_candidate"},
   admission_evidence |-> {"disposition"}]

OwnKeys ==
  {"receipt_id", "outcome_id", "ok", "boundary", "category", "semantic_code", "severity",
   "risk_level", "reversibility", "reason", "evidence_source", "evidence_summary", "metadata"}

ReceiptKeys == OwnKeys \cup DOMAIN NestedKeys
OuterKeys   == {"receipt_serialization_version", "receipt"}

Fields == OwnKeys \cup UNION {NestedKeys[o] : o \in DOMAIN NestedKeys}

\* The enum of each enum field.
EnumOf ==
  [boundary |-> SemanticBoundary, category |-> SemanticOutcomeCategory,
   semantic_code |-> SemanticOutcomeCode, severity |-> SemanticSeverity,
   risk_level |-> SemanticRiskLevel, reversibility |-> SemanticReversibility,
   evidence_source |-> DecisionReceiptEvidenceSource,
   subject_type |-> DecisionReceiptSubjectType,
   identity_source |-> DecisionReceiptIdentitySource,
   fallback_required |-> DecisionReceiptFlagState, rebuild_required |-> DecisionReceiptFlagState,
   operator_review_required |-> DecisionReceiptFlagState,
   retry_candidate |-> DecisionReceiptFlagState,
   disposition |-> Admission!EventAdmissionDispositions]

JsonFields == {"evidence_summary", "metadata"}
UuidFields == {"receipt_id", "outcome_id", "candidate_event_id", "accepted_event_id", "snapshot_id"}
IntFields  == NestedKeys.cost_summary \cup {"source_global_position"}
TextFields == {"reason", "subject_id", "order_id", "request_id"} \cup NestedKeys.actor

\* The fields that may be None in their object.  admission_evidence is None as
\* a whole, which a receipt shows as a disposition of None.
Optional ==
  (UuidFields \ {"receipt_id", "outcome_id"}) \cup IntFields \cup (TextFields \ {"reason"})

----------------------------------------------------------------------------
(* JSON values *)

Is(v, type) == v[1] = type

Fits(n) == n \in -(Int64Max + 1)..Int64Max

\* ensure_json_value and ensure_json_object: accepted values.  A bool, an int
\* and a str may be of a subclass; mapping keys are strings here.
RECURSIVE JsonSafe(_, _)
JsonSafe(v, depth) ==
  /\ depth <= MaxJsonDepth
  /\ \/ v[1] \in {"null", "bool", "int", "float", "str", "strenum"}
     \/ Is(v, "map") /\ \A k \in DOMAIN v[2] : k # "" /\ JsonSafe(v[2][k], depth + 1)
     \/ v[1] \in {"list", "tuple"} /\ \A i \in DOMAIN v[2] : JsonSafe(v[2][i], depth + 1)

JsonObject(v) == Is(v, "map") /\ JsonSafe(v, 0)

\* What ensure_json_object returns: sequences frozen into tuples.
RECURSIVE Freeze(_)
Freeze(v) ==
  CASE v[1] \in {"list", "tuple"} -> <<"tuple", [i \in DOMAIN v[2] |-> Freeze(v[2][i])]>>
    [] Is(v, "map") -> <<"map", [k \in DOMAIN v[2] |-> Freeze(v[2][k])]>>
    [] OTHER -> v

\* _detach_json_value: integers must fit, exact types only, and tuples
\* become lists.
RECURSIVE Detachable(_)
Detachable(v) ==
  \/ v[1] \in {"null", "str", "bool", "float"}
  \/ Is(v, "int") /\ Fits(v[2])
  \/ v[1] \in {"map", "tuple"} /\ \A k \in DOMAIN v[2] : Detachable(v[2][k])

RECURSIVE Detach(_)
Detach(v) ==
  CASE Is(v, "tuple") -> <<"list", [i \in DOMAIN v[2] |-> Detach(v[2][i])]>>
    [] Is(v, "map") -> <<"map", [k \in DOMAIN v[2] |-> Detach(v[2][k])]>>
    [] OTHER -> v

\* What a JSONB column returns for a document: a number printed with an
\* exponent is stored as a numeric and comes back as an integer.
RECURSIVE Jsonb(_)
Jsonb(v) ==
  CASE Is(v, "float") /\ v[2] >= ExponentFrom -> <<"int", v[2]>>
    [] v[1] \in {"list", "map"} -> <<v[1], [k \in DOMAIN v[2] |-> Jsonb(v[2][k])]>>
    [] OTHER -> v

----------------------------------------------------------------------------
(* Construction *)

\* The checks of __post_init__ on one argument, by the type of its field.
ValidArgument(k, v) ==
  \/ k \in Optional \cup {"disposition"} /\ v = None
  \/ k \in UuidFields /\ Is(v, "uuid")
  \/ k = "ok" /\ Is(v, "bool")
  \/ k \in DOMAIN EnumOf /\ Is(v, "enum") /\ v[2] \in EnumOf[k]
  \/ k \in TextFields /\ Is(v, "str") /\ v[2] \notin BlankTexts
  \/ k \in IntFields /\ Is(v, "int") /\ v[2] >= 0
  \/ k \in JsonFields /\ JsonObject(v)

Constructible(a) ==
  /\ \A k \in Fields : ValidArgument(k, a[k])
  /\ a["disposition"] # None =>
       Admission!validate_admission_evidence(
         [disposition |-> a["disposition"][2], candidate_event_id |-> a["candidate_event_id"],
          accepted_event_id |-> a["accepted_event_id"]])

DecisionReceiptOf(a) == [k \in Fields |-> IF k \in JsonFields THEN Freeze(a[k]) ELSE a[k]]

----------------------------------------------------------------------------
(* Serialization, version 1 *)

\* serialize_decision_receipt raises unless every integer fits.
Portable(r) ==
  /\ \A k \in IntFields : r[k] # None => Fits(r[k][2])
  /\ \A k \in JsonFields : Detachable(r[k])

SerializedField(r, k) ==
  CASE r[k] = None -> None
    [] k \in UuidFields \cup DOMAIN EnumOf -> <<"str", r[k][2]>>
    [] k \in JsonFields -> Detach(r[k])
    [] OTHER -> r[k]

\* A mistake: absent values are left out instead of written as null.
DroppedNulls(r, ks) == <<"map", [k \in {f \in ks : r[f] # None} |-> SerializedField(r, k)]>>
SerializedObject(r, ks) == <<"map", [k \in ks |-> SerializedField(r, k)]>>

SerializedReceipt(r) ==
  [k \in ReceiptKeys |->
    CASE k = "admission_evidence" /\ r["disposition"] = None -> None
      [] k \in DOMAIN NestedKeys -> SerializedObject(r, NestedKeys[k])
      [] OTHER -> SerializedField(r, k)]

serialize_decision_receipt(r) ==
  <<"map", [receipt_serialization_version |-> <<"int", 1>>,
            receipt |-> <<"map", SerializedReceipt(r)>>]>>

----------------------------------------------------------------------------
(* Deserialization *)

\* A mistake: keys that the version does not know are ignored.
KnownKeysOnly(v, ks) == Is(v, "map") /\ ks \subseteq DOMAIN v[2]
ExactKeys(v, ks) == Is(v, "map") /\ DOMAIN v[2] = ks

\* The exact portable type of one field.
PortableField(k, v) ==
  \/ k \in Optional /\ v = None
  \/ k \in UuidFields /\ Is(v, "str") /\ v[2] \in DOMAIN UuidOf
  \/ k = "ok" /\ Is(v, "bool")
  \/ k \in DOMAIN EnumOf /\ Is(v, "str") /\ v[2] \in EnumOf[k]
  \/ k \in TextFields /\ Is(v, "str")
  \/ k \in IntFields /\ Is(v, "int") /\ Fits(v[2])
  \/ k \in JsonFields /\ JsonObject(v) /\ Detachable(Freeze(v))

NestedObject(body, o) ==
  \/ o = "admission_evidence" /\ body[o] = None
  \/ ExactKeys(body[o], NestedKeys[o]) /\ \A k \in NestedKeys[o] : PortableField(k, body[o][2][k])

WellFormed(p) ==
  /\ ExactKeys(p, OuterKeys)
  /\ p[2].receipt_serialization_version = <<"int", 1>>
  /\ ExactKeys(p[2].receipt, ReceiptKeys)
  /\ LET body == p[2].receipt[2]
     IN  /\ \A o \in DOMAIN NestedKeys : NestedObject(body, o)
         /\ \A k \in OwnKeys : PortableField(k, body[k])

FieldOf(body, k) ==
  IF k \in OwnKeys THEN body[k]
  ELSE LET o == CHOOSE n \in DOMAIN NestedKeys : k \in NestedKeys[n]
       IN  IF body[o] = None THEN None ELSE body[o][2][k]

NativeField(k, v) ==
  CASE v = None -> None
    [] k \in UuidFields -> <<"uuid", UuidOf[v[2]]>>
    [] k \in DOMAIN EnumOf -> <<"enum", v[2]>>
    [] OTHER -> v

Arguments(p) == [k \in Fields |-> NativeField(k, FieldOf(p[2].receipt[2], k))]

\* deserialize_decision_receipt: refused, or the receipt it constructs.
Deserializes(p) == WellFormed(p) /\ Constructible(Arguments(p))
deserialize_decision_receipt(p) == DecisionReceiptOf(Arguments(p))

----------------------------------------------------------------------------
(* The row *)

Columns(r) == [k \in Fields |->
  CASE k \in JsonFields -> Jsonb(Detach(r[k]))
    [] k \in DOMAIN EnumOf /\ r[k] # None -> <<"str", r[k][2]>>
    [] OTHER -> r[k]]

RowArguments(c) ==
  [k \in Fields |-> IF k \in DOMAIN EnumOf /\ c[k] # None THEN <<"enum", c[k][2]>> ELSE c[k]]

\* _persisted_decision_receipt_from_row constructs the receipt again, and
\* serializes it for the checks that serialization makes.
Persisted(c) == DecisionReceiptOf(RowArguments(c))
Hydrates(c) == Constructible(RowArguments(c)) /\ Portable(Persisted(c))

\* A mistake: _same_serialized_json_value with Python's own equality, where
\* True == 1 == 1.0.
RECURSIVE Coerced(_)
Coerced(v) ==
  CASE Is(v, "bool") -> <<"int", IF v[2] THEN 1 ELSE 0>>
    [] Is(v, "float") -> <<"int", v[2]>>
    [] v[1] \in {"list", "map"} -> <<v[1], [k \in DOMAIN v[2] |-> Coerced(v[2][k])]>>
    [] OTHER -> v
SameUnderCoercion(left, right) == Coerced(left) = Coerced(right)
same_serialized_json_value(left, right) == left = right

SameVersionedPayload(c, r) ==
  same_serialized_json_value(serialize_decision_receipt(Persisted(c)), serialize_decision_receipt(r))

----------------------------------------------------------------------------
(* The operations *)

Init ==
  /\ receipt = None /\ inserted = None /\ row = None /\ payload = None
  /\ edits = 0 /\ answer = "none"

Construct(a) ==
  /\ payload = None
  /\ receipt' = IF Constructible(a) THEN DecisionReceiptOf(a) ELSE None
  /\ answer' = IF Constructible(a) THEN "CONSTRUCTED" ELSE "INVALID"
  /\ UNCHANGED <<inserted, row, payload, edits>>

\* A mistake: the returned row is taken for granted.
InsertUnchecked ==
  /\ receipt # None /\ row = None
  /\ row' = IF Portable(receipt) THEN Columns(receipt) ELSE None
  /\ inserted' = IF Portable(receipt) THEN receipt ELSE None
  /\ answer' = IF Portable(receipt) THEN "INSERTED" ELSE "RAISED"
  /\ UNCHANGED <<receipt, payload, edits>>
\* PostgresDecisionReceiptStore.insert and the rollback of its caller when it
\* raises: serialization comes first, and the row that the INSERT returned is
\* hydrated before it counts.
Insert ==
  /\ receipt # None /\ row = None
  /\ IF Portable(receipt) /\ Hydrates(Columns(receipt))
       THEN row' = Columns(receipt) /\ inserted' = receipt /\ answer' = "INSERTED"
       ELSE UNCHANGED <<row, inserted>> /\ answer' = "RAISED"
  /\ UNCHANGED <<receipt, payload, edits>>

InsertAgain ==
  /\ receipt # None /\ row # None
  /\ receipt["receipt_id"] = row["receipt_id"]
  /\ answer' = CASE ~Portable(receipt) -> "RAISED"
                 [] ~Hydrates(row) -> "UNREADABLE"
                 [] SameVersionedPayload(row, receipt) -> "ALREADY_PRESENT"
                 [] OTHER -> "RECEIPT_ID_CONTENT_CONFLICT"
  /\ UNCHANGED <<receipt, inserted, row, payload, edits>>

Export ==
  /\ receipt # None /\ payload = None
  /\ payload' = IF Portable(receipt) THEN serialize_decision_receipt(receipt) ELSE None
  /\ answer' = IF Portable(receipt) THEN "EXPORTED" ELSE "RAISED"
  /\ UNCHANGED <<receipt, inserted, row, edits>>

\* The portable form is data: whoever holds it may edit it.
Body(p) == p[2].receipt[2]
WithBody(p, b) == [p EXCEPT ![2].receipt = <<"map", b>>]
Without(f, k) == [j \in DOMAIN f \ {k} |-> f[j]]
With(f, k, v) == [j \in DOMAIN f \cup {k} |-> IF j = k THEN v ELSE f[j]]
Within(b, k, edit(_)) ==
  IF k \in OwnKeys THEN edit(b)
  ELSE LET o == CHOOSE n \in DOMAIN NestedKeys : k \in NestedKeys[n]
       IN  IF b[o] = None THEN b ELSE [b EXCEPT ![o] = <<"map", edit(b[o][2])>>]

Edited(p) ==
  LET b == Body(p)
  IN  {WithBody(p, Within(b, e[1], LAMBDA f : With(f, e[1], e[2]))) : e \in LeafEdits}
        \cup {WithBody(p, Within(b, e[1], LAMBDA f : Without(f, e[1]))) : e \in LeafEdits}
        \cup {WithBody(p, With(b, o, v)) : o \in DOMAIN NestedKeys \cup {"extra"},
                                           v \in {None, <<"object">>, <<"map", <<>>>>}}
        \cup {[p EXCEPT ![2].receipt_serialization_version = v] : v \in VersionEdits}

Edit ==
  /\ payload # None /\ edits < MaxEdits /\ row = None
  /\ payload' \in Edited(payload)
  /\ edits' = edits + 1
  /\ answer' = "EDITED"
  /\ UNCHANGED <<receipt, inserted, row>>

Import ==
  /\ payload # None
  /\ receipt' = IF Deserializes(payload) THEN deserialize_decision_receipt(payload) ELSE None
  /\ answer' = IF Deserializes(payload) THEN "IMPORTED" ELSE "REFUSED"
  /\ payload' = None
  /\ UNCHANGED <<inserted, row, edits>>

Next ==
  \/ \E a \in Inputs : Construct(a)
  \/ Insert
  \/ InsertAgain
  \/ Export
  \/ Edit
  \/ Import

Spec == Init /\ [][Next]_vars

----------------------------------------------------------------------------
(* Properties *)

\* What serialization writes, deserialization reads back: a receipt that is
\* serialized and deserialized is the receipt it was, whatever is absent in
\* it, and what is exported is never refused.
RoundTripIsExact ==
  receipt # None /\ Portable(receipt) =>
    LET p == serialize_decision_receipt(receipt)
    IN  Deserializes(p) /\ deserialize_decision_receipt(p) = receipt

\* A payload, however it was edited, is refused or is the portable form of
\* the receipt it becomes, but for the spelling of UUIDs and tuples written
\* for lists: nothing in it is ignored, defaulted or coerced, and nothing it
\* becomes cannot be exported.
RECURSIVE Canonical(_)
Canonical(v) ==
  CASE Is(v, "str") /\ v[2] \in DOMAIN UuidOf -> <<"str", UuidOf[v[2]]>>
    [] Is(v, "map") -> <<"map", [k \in DOMAIN v[2] |-> Canonical(v[2][k])]>>
    [] v[1] \in {"list", "tuple"} -> <<"list", [i \in DOMAIN v[2] |-> Canonical(v[2][i])]>>
    [] OTHER -> v
PortableFormIsCanonical ==
  payload # None /\ Deserializes(payload) =>
    LET r == deserialize_decision_receipt(payload)
    IN  Portable(r) /\ Canonical(serialize_decision_receipt(r)) = Canonical(payload)

\* The receipt that a row gives back: the one inserted, with the numbers of
\* its evidence that JSONB returns as integers.
Stored(r) == [k \in Fields |-> IF k \in JsonFields THEN Freeze(Jsonb(Detach(r[k]))) ELSE r[k]]

\* A second insert is told ALREADY_PRESENT exactly when it brings what the
\* row holds: an identity is never reused for other content because the two
\* compare equal in Python, and a retry of the same receipt is recognised
\* unless JSONB changed a number of it.
SameIdentityIsCompared ==
  [][ InsertAgain =>
        /\ answer' = "ALREADY_PRESENT" => receipt = Stored(inserted)
        /\ answer' = "RECEIPT_ID_CONTENT_CONFLICT" =>
             receipt # inserted \/ Stored(inserted) # inserted ]_vars

\* Whatever insert reported as INSERTED can be loaded, and a later insert of
\* its identity is classified, never ended by a row that cannot be read.
StoredRowsHydrate ==
  /\ row # None => Hydrates(row) /\ Persisted(row) = Stored(inserted)
  /\ answer # "UNREADABLE"
=============================================================================
