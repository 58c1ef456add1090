----------------------- MODULE MCProjectionSnapshots -----------------------
(***************************************************************************)
(* ProjectionSnapshots with one order that is created and paid and another *)
(* that has no history, in whose name a snapshot of the first can be asked *)
(* for.                                                                    *)
(***************************************************************************)
EXTENDS ProjectionSnapshots, TLC

CONSTANTS o1, o2, r1

MCCommands ==
  {[request_id |-> r1, command_type |-> "create", order_id |-> o1, amount |-> 1000],
   [request_id |-> r1, command_type |-> "pay", order_id |-> o1, amount |-> 1000]}

SaverSymmetry == Permutations(Savers)
=============================================================================
