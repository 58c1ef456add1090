---------------------- MODULE SnapshotResolutionTrace ----------------------
(***************************************************************************)
(* ProjectionSnapshotAssistedResolutionTrace and its pairing with a        *)
(* result: which traces the constructors accept.  The contract stands on   *)
(* its own in the code - no resolver fills it in yet - so it is stated     *)
(* here as predicates, and ProjectionSnapshots checks that it fits what a  *)
(* resolution really does.                                                 *)
(*                                                                         *)
(* A trace is [stage, base, validated, replayed, expected, observed], all  *)
(* but the stage sets of at most one value, empty for None; observed is    *)
(* the event that ended the tail (the three observed_* fields, which are   *)
(* present together or not at all).                                        *)
(***************************************************************************)
EXTENDS Integers

PRE_SNAPSHOT_BASE_STAGES == {"SNAPSHOT_PRECONDITION", "SNAPSHOT_LOOKUP", "SNAPSHOT_COMPATIBILITY"}
PRE_TAIL_STAGES == PRE_SNAPSHOT_BASE_STAGES \cup {"SNAPSHOT_HYDRATION"}

RESULT_STATUS_TO_TERMINAL_STAGES ==
  [INVALID_SNAPSHOT_PRECONDITION        |-> {"SNAPSHOT_PRECONDITION"},
   MISSING_SNAPSHOT                     |-> {"SNAPSHOT_LOOKUP"},
   INVALID_SNAPSHOT_COMPATIBILITY       |-> {"SNAPSHOT_COMPATIBILITY", "SNAPSHOT_HYDRATION"},
   TAIL_EVENT_SOURCE_CONTRACT_VIOLATION |-> {"TAIL_SOURCE"},
   TAIL_REPLAY_FAILED                   |-> {"TAIL_REPLAY"},
   RESOLVED_FROM_SNAPSHOT               |-> {"COMPLETED"}]

\* _validate_stage_presence
StagePresence(t) ==
  /\ t.base = {} <=> t.stage \in PRE_SNAPSHOT_BASE_STAGES
  /\ CASE t.stage \in PRE_TAIL_STAGES -> /\ t.validated = {} /\ t.replayed = {}
                                         /\ t.expected = {} /\ t.observed = {}
       [] t.stage = "TAIL_SOURCE" -> t.expected # {} /\ t.replayed = {}
       [] t.stage = "TAIL_REPLAY" -> t.validated # {} /\ t.expected = {} /\ t.observed # {}
       [] t.stage = "COMPLETED"   -> t.expected = {} /\ t.observed = {}

\* The boundary that progress has reached, the snapshot's when there is none.
Boundary(progress, base) == IF progress # {} THEN progress ELSE base

\* A mistake: replay progress is measured from the validated tail.
ProgressCoherenceFromTail(t) ==
  /\ \A v \in t.validated \cup t.replayed : \A b \in t.base : v > b
  /\ \A r \in t.replayed : \E v \in t.validated : r <= v
  /\ t.stage = "TAIL_SOURCE" => t.expected = {n + 1 : n \in Boundary(t.validated, t.base)}
  /\ t.stage = "TAIL_REPLAY" =>
       {e.sequence : e \in t.observed} = {n + 1 : n \in Boundary(t.validated, t.base)}
  /\ t.stage = "COMPLETED" => t.validated = t.replayed

\* _validate_progress_coherence
ProgressCoherence(t) ==
  /\ \A v \in t.validated \cup t.replayed : \A b \in t.base : v > b
  /\ \A r \in t.replayed : \E v \in t.validated : r <= v
  /\ t.stage = "TAIL_SOURCE" => t.expected = {n + 1 : n \in Boundary(t.validated, t.base)}
  /\ t.stage = "TAIL_REPLAY" =>
       /\ {e.sequence : e \in t.observed} = {n + 1 : n \in Boundary(t.replayed, t.base)}
       /\ \A e \in t.observed, v \in t.validated : e.sequence <= v
  /\ t.stage = "COMPLETED" => t.validated = t.replayed

\* The constructor of the trace.
TraceConstructs(t) ==
  /\ \A n \in t.base \cup t.validated \cup t.replayed \cup t.expected : n > 0
  /\ StagePresence(t)
  /\ ProgressCoherence(t)

\* The constructor of ProjectionSnapshotAssistedResolutionExecution.
ExecutionConstructs(status, t) ==
  t.stage \in RESULT_STATUS_TO_TERMINAL_STAGES[status] /\ TraceConstructs(t)
=============================================================================
