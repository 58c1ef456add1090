---------------------- MODULE MCDecisionReceiptRuntime ----------------------
(***************************************************************************)
(* An instance of DecisionReceiptRuntime for TLC: one runtime owner with   *)
(* two threads, and one writer that is not the owner's.                    *)
(***************************************************************************)
EXTENDS DecisionReceiptRuntime, TLC

CONSTANTS r1, r2, o1, w3

Command(r, m) ==
  [request_id |-> r, command_type |-> "create", order_id |-> o1, amount |-> m]

MCInvocations == {A1, A2, w3}
MCRequests == {r1, r2}
MCOrders   == {o1}
MCAmounts  == {1000, 1020}
\* A request, the same with another payload, and another request for the order.
MCCommands == {Command(r1, 1000), Command(r1, 1020), Command(r2, 1000)}
MCConfigs ==
  {[placement |-> "PRE_TRANSACTION", gate |-> "pessimistic", validator |-> "Substitute"],
   [placement |-> "IN_TRANSACTION", gate |-> "optimistic", validator |-> "FullProof"],
   [placement |-> "IN_TRANSACTION", gate |-> "pessimistic", validator |-> "FullProof"]}
MCStreamKey == [o \in MCOrders |-> o]
ThreadSymmetry == Permutations(Threads)
=============================================================================
