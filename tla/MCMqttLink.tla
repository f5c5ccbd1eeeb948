----------------------------- MODULE MCMqttLink ------------------------------
(***************************************************************************)
(* Small instances of OtMqttLink: one boiler entity with limits of its     *)
(* own, one value of the executor's, one place in the inbox.               *)
(***************************************************************************)
EXTENDS OtMqttLink

SmallRegistry == <<"flow", "own">>
SmallSource   == [flow |-> "id25", own |-> Synthetic]
SmallBounds   == [flow |-> "id25", own |-> "id25"]

SmallDecode(e, raw) == raw

SmallAnswers ==
  {[id |-> "id25", type |-> "READ_ACK", raw |-> 1],
   [id |-> "id25", type |-> "UNKNOWN_DATAID", raw |-> 0]}

On  == [host |-> TRUE, prefix |-> "opentherm", discovery |-> TRUE]
SmallFirst    == {On}
SmallSettings == {On, [On EXCEPT !.prefix = "house", !.discovery = FALSE], [On EXCEPT !.host = FALSE]}

SmallVirtuals == {[entity |-> "own", val |-> 1]}
==============================================================================
