-------------------------- MODULE ControlledRecovery --------------------------
(***************************************************************************)
(* The deterministic autonomous governance experiment: a planner proposes  *)
(* one fresh invocation for every append that came too late, with or       *)
(* without version evidence, and a controlled executor carries a proposal  *)
(* out through the authority of the invocation owner, or refuses it.       *)
(*                                                                         *)
(* Planning is a pure function of a completed result, so proposals need no *)
(* state: a caller may hold one for every result and under any signature.  *)
(* A refusal raises and changes nothing, so it is no step.                 *)
(***************************************************************************)
EXTENDS InvocationOwner

VARIABLE executed  \* the proposals that were handed to the owner

recoveryVars == <<ownerVars, executed>>

Completed == {w \in Invocations : result[w].outcome \notin {"none", "RAISED"}}

\* plan_recovery: a stale append, whatever its evidence.
Proposable(r) ==
  /\ r.outcome = "ADMISSION_REJECTED" /\ r.accepted_event = {}
  /\ \E p \in r.admission_result : p.verdict = "STALE_WRITE"

\* RecoveryProposal: what the planner was given.
Proposals ==
  [request_signature : Commands,
   source_result : {w \in Completed : Proposable(PostgresWriteSideResult(w))}]

\* ControlledExecutor, bound to the owner, the result of A1 and the owner's own
\* assessment; the signature it expects is its composer's.
Executors ==
  [expected_signature : Commands, retained_a1_result : initial_result,
   reinvocation_assessment : {cached_evaluation} \ {"none"}]

\* A mistake: nobody asks whose authorization it is.
AcceptsAnyAuthorization(x, proposal) ==
  /\ proposal.source_result = x.retained_a1_result
  /\ proposal.request_signature = x.expected_signature
  /\ x.reinvocation_assessment = "authorized"

\* ControlledExecutor.execute up to the owner: an authorization carries the
\* request_signature of the owner.
Accepts(x, proposal) ==
  /\ proposal.source_result = x.retained_a1_result
  /\ proposal.request_signature = x.expected_signature
  /\ x.reinvocation_assessment = "authorized"
  /\ request_signature = x.expected_signature

\* execute: the owner's one re-invocation, for a proposal that is accepted.
Execute(t) ==
  /\ InvokeAuthorizedReinvocation(t)
  /\ \E x \in Executors, proposal \in Proposals :
       Accepts(x, proposal) /\ executed' = executed \cup {proposal}

----------------------------------------------------------------------------
RecoveryInit == OwnerInit /\ executed = {}

RecoveryNext ==
  \/ OwnerNext /\ UNCHANGED executed
  \/ \E t \in Threads : Execute(t)

RecoverySpec == RecoveryInit /\ [][RecoveryNext]_recoveryVars

\* The planner's eagerness is harmless: whatever proposals are made, kept and
\* handed in, by whichever thread, at most one is carried out, it is about A1
\* and its request, and A1 was rejected at append on evidence that the stream
\* had moved on - a busy lock or a rejection without evidence is never
\* recovered along this path.
RecoveryIsEarned ==
  /\ Cardinality(executed) <= 1
  /\ \A proposal \in executed :
       /\ proposal.source_result = A1 /\ proposal.request_signature = request_signature
       /\ AppendVersionAdvanced(PostgresWriteSideResult(A1))
       /\ authority_spent /\ pc[A2] # "new"
=============================================================================
