---------------------- MODULE MCDecisionReceiptPayload ----------------------
(***************************************************************************)
(* Receipts with one or two unusual arguments: absent and blank texts,     *)
(* integers at the limits, bools where integers belong, evidence with      *)
(* nested sequences, deep, non-finite, foreign and large values.           *)
(***************************************************************************)
EXTENDS DecisionReceiptPayload, TLC

MCUuidOf == [u1 |-> "u1", U1 |-> "u1", u2 |-> "u2"]

\* Everything optional is absent.
Sparse ==
  [k \in Fields |->
    CASE k \in {"receipt_id", "outcome_id"} -> <<"uuid", "u1">>
      [] k \in Optional \cup {"disposition"} -> None
      [] k = "ok" -> <<"bool", TRUE>>
      [] k \in DOMAIN EnumOf -> <<"enum", CHOOSE e \in EnumOf[k] : TRUE>>
      [] k = "reason" -> <<"str", "why">>
      [] OTHER -> <<"map", <<>>>>]

\* Everything is present.
Full ==
  [k \in Fields |->
    CASE k \in UuidFields -> <<"uuid", "u1">>
      [] k = "disposition" -> <<"enum", "ADMITTED_TO_ACCEPTED_HISTORY">>
      [] k \in IntFields -> <<"int", 1>>
      [] k \in TextFields -> <<"str", "why">>
      [] k \in JsonFields -> <<"map", [a |-> <<"int", 1>>]>>
      [] OTHER -> Sparse[k]]

Nested(v) == <<"map", [a |-> v]>>
Evidence ==
  {<<"map", <<>>>>, <<"object">>, <<"map", ("" :> <<"null">>)>>} \cup
  {Nested(v) : v \in
    {<<"null">>, <<"bool", TRUE>>, <<"int", 1>>, <<"int", Int64Max>>, <<"int", Int64Max + 1>>,
     <<"float", 1>>, <<"float", ExponentFrom>>, <<"float", Int64Max + 1>>, <<"inf">>,
     <<"str", "1">>, <<"strenum", "LOW">>, <<"object">>,
     <<"list", <<<<"bool", TRUE>>, <<"int", 1>>>>>>,
     <<"list", <<<<"int", 1>>, <<"int", 1>>>>>>, <<"tuple", <<<<"int", 1>>, <<"int", 1>>>>>>,
     Nested(<<"null">>), Nested(Nested(<<"null">>))}}

Tries ==
  {<<"evidence_summary", v>> : v \in Evidence} \cup
  {<<"elapsed_ms", v>> : v \in {<<"bool", TRUE>>, <<"int", 0>>, <<"int", -1>>,
                                <<"int", Int64Max + 1>>, <<"float", 1>>, <<"str", "1">>, None}} \cup
  {<<"reason", v>> : v \in {<<"str", " ">>, None, <<"str", "other">>}} \cup
  {<<"subject_id", v>> : v \in {<<"str", " ">>, None, <<"int", 1>>, <<"str", "x">>}} \cup
  {<<"ok", v>> : v \in {<<"bool", FALSE>>, <<"int", 1>>}} \cup
  {<<"accepted_event_id", v>> : v \in {None, <<"uuid", "u2">>}} \cup
  {<<"disposition", v>> : v \in {None, <<"enum", "UNKNOWN">>,
                                 <<"enum", "MATCHED_EXISTING_ACCEPTED_EVENT">>}}

MCInputs == {[b EXCEPT ![t[1]] = t[2]] : b \in {Sparse, Full}, t \in Tries}

MCLeafEdits ==
  Tries \cup
  {<<"receipt_id", v>> : v \in {<<"str", "U1">>, <<"str", "u2">>, <<"str", "zz">>, <<"uuid", "u1">>}}
    \cup {<<"accepted_event_id", v>> : v \in {<<"str", "U1">>, <<"str", "u2">>}}
    \cup {<<"severity", v>> : v \in {<<"str", "INFO">>, <<"str", "info">>, <<"enum", "INFO">>}}
    \cup {<<"disposition", <<"str", "UNKNOWN">>>>}
    \cup {<<"category", <<"str", "VALID">>>>}

\* What an edited payload became is checked, and the behaviour ends there:
\* the receipts constructed from Inputs go on.
EndsWithImport == edits = 0 \/ payload # None

MCVersionEdits == {<<"int", 2>>, <<"bool", TRUE>>, <<"float", 1>>, None}
=============================================================================
