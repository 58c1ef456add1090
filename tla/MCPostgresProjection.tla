------------------------ MODULE MCPostgresProjection ------------------------
(***************************************************************************)
(* PostgresProjection with two orders, whose transactions can overtake one *)
(* another between taking a global position and committing.                *)
(***************************************************************************)
EXTENDS PostgresProjection

CONSTANTS o1, o2, r1

MCCommands ==
  [request_id : {r1}, command_type : CommandTypes, order_id : {o1, o2}, amount : {1005}]
=============================================================================
