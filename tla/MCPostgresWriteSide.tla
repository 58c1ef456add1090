------------------------ MODULE MCPostgresWriteSide ------------------------
(***************************************************************************)
(* Instances of PostgresWriteSide for TLC.  Three invocations are the      *)
(* least that lets one call race a second while a third retries, and the   *)
(* commands below make every pair of them interesting: an identical retry  *)
(* with another spelling of the amount, a payment, and a request_id reused *)
(* for another order.                                                      *)
(***************************************************************************)
EXTENDS PostgresWriteSide, TLC

CONSTANTS r1, r2, o1, o2

Command(type, r, o, m) ==
  [request_id |-> r, command_type |-> type, order_id |-> o, amount |-> m]

MCRequests == {r1, r2}
MCOrders   == {o1, o2}
\* 1.000 and 1.005 normalize to 1.00, 1.006 to 1.01 and 0.004 to nothing.
MCAmounts  == {1000, 1005, 1006, 4}

\* Both placements, both gates, and the two runtimes that allow more than
\* FullProof, which the other runs have.
MixedConfigs ==
  {[placement |-> "PRE_TRANSACTION", gate |-> "optimistic", validator |-> "Substitute"],
   [placement |-> "IN_TRANSACTION", gate |-> "pessimistic", validator |-> "NoOp"]}
InTransactionOptimistic ==
  {[placement |-> "IN_TRANSACTION", gate |-> "optimistic", validator |-> "FullProof"]}

\* One order, created by either of two requests, retried and paid, and a
\* request_id misused for another order.
RacingCommands ==
  {Command("create", r1, o1, 1000), Command("create", r1, o1, 1005),
   Command("create", r1, o2, 1000), Command("create", r2, o1, 1000),
   Command("pay", r2, o1, 1005)}
\* Calls that wait for one another's stream position and for one another's
\* request_id, for the three-way waits of liveness.
WaitingCommands == {Command("create", r1, o1, 1000), Command("create", r1, o2, 1000)}
DistinctKeys == [o \in MCOrders |-> o]

InvocationSymmetry == Permutations(Invocations)
=============================================================================
