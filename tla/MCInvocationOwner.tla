-------------------------- MODULE MCInvocationOwner --------------------------
(***************************************************************************)
(* Instances of InvocationOwner for TLC: the two invocations of one owner  *)
(* shared by two threads, and one writer that is not the owner's and may   *)
(* hold the lock, overtake A1 or accept the same request first.            *)
(***************************************************************************)
EXTENDS ControlledRecovery, BurstEvidence, TLC

CONSTANTS r1, r2, o1, o2, w3

Command(r, o, m) ==
  [request_id |-> r, command_type |-> "create", order_id |-> o, amount |-> m]

MCInvocations == {A1, A2, w3}
MCRequests == {r1, r2}
MCOrders   == {o1, o2}
MCAmounts  == {1000, 1005, 1020}
\* A request, the same with a sub-cent amount, the same with another payload,
\* and another request for the order and for another order.
MCCommands ==
  {Command(r1, o1, 1000), Command(r1, o1, 1005), Command(r1, o1, 1020),
   Command(r2, o1, 1000), Command(r2, o2, 1000)}
MCConfigs ==
  {[placement |-> "PRE_TRANSACTION", gate |-> "optimistic", validator |-> "FullProof"],
   [placement |-> "PRE_TRANSACTION", gate |-> "pessimistic", validator |-> "Substitute"],
   [placement |-> "IN_TRANSACTION", gate |-> "optimistic", validator |-> "FullProof"],
   [placement |-> "IN_TRANSACTION", gate |-> "pessimistic", validator |-> "FullProof"]}
\* The lock keys of the two orders collide.
MCStreamKey == [o \in MCOrders |-> o1]
ThreadSymmetry == Permutations(Threads)
=============================================================================
