---------------------------- MODULE MCHeldValues ----------------------------
(***************************************************************************)
(* An instance for TLC of the two components in which nothing runs         *)
(* concurrently and the hazard is a value presented late: OrderAggregate   *)
(* with the candidates its callers hold, and InventoryPromotion with its   *)
(* candidates, receipts and evidence.  They share nothing, so a behaviour  *)
(* exercises one of them while the other stays as it was built.            *)
(*                                                                         *)
(* Four candidate identities let a legal and a stale candidate of each     *)
(* type be outstanding together; the raw amounts lie on both sides of      *)
(* every rounding boundary of the first cents.  One request_id and two     *)
(* quantities make two inventory candidates with the same name and         *)
(* different claims; the quantity 0 is refused wherever it is passed.      *)
(***************************************************************************)
EXTENDS OrderAggregate, InventoryPromotion, TLC

CONSTANTS o1, r1

RawAmounts == -16..26

MCCommands ==
  [request_id : {r1}, command_type : CommandTypes, order_id : {o1}, amount : RawAmounts]

IdSymmetry == Permutations(EventIds)

HeldInit == AggregateInit /\ Init

HeldNext ==
  \/ Init /\ AggregateNext /\ UNCHANGED vars
  \/ AggregateInit /\ Next /\ UNCHANGED aggregate_vars

HeldSpec == HeldInit /\ [][HeldNext]_<<aggregate_vars, vars>>
=============================================================================
