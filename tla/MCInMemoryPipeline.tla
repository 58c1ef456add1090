------------------------- MODULE MCInMemoryPipeline -------------------------
(***************************************************************************)
(* InMemoryPipeline with two callers who race with one request_id for the  *)
(* same order (with two payloads) and for another order, and with a        *)
(* payment.                                                                *)
(***************************************************************************)
EXTENDS InMemoryPipeline

CONSTANTS o1, o2, r1, r2

MCCommands ==
  {[request_id |-> r1, command_type |-> "create", order_id |-> o1, amount |-> 1000],
   [request_id |-> r1, command_type |-> "create", order_id |-> o1, amount |-> 1010],
   [request_id |-> r1, command_type |-> "create", order_id |-> o2, amount |-> 1000],
   [request_id |-> r2, command_type |-> "pay", order_id |-> o1, amount |-> 1000]}
=============================================================================
