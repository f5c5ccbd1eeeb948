------------------------------- MODULE MCRoom --------------------------------
(***************************************************************************)
(* A small instance of OtRoom: the broker's source is Home Assistant's own *)
(* and stands in the room, or stands by the boiler, or is not enabled.     *)
(***************************************************************************)
EXTENDS OtRoom

SmallSettings ==
  {[enable |-> TRUE, role |-> "ROOM", stale |-> 2, forwarded |-> TRUE],
   [enable |-> TRUE, role |-> "AMBIENT", stale |-> 2, forwarded |-> TRUE],
   [enable |-> FALSE, role |-> "ROOM", stale |-> 2, forwarded |-> FALSE]}
==============================================================================
