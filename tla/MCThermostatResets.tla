------------------------- MODULE MCThermostatResets --------------------------
(***************************************************************************)
(* Small instances of OtThermostatResets: HA owns the boiler all year, an  *)
(* hour of 2 time units, a failsafe armed for one or two of them, a        *)
(* watchdog of 2 units, no room sensor, a bus that carries every setpoint. *)
(***************************************************************************)
EXTENDS OtThermostatResets

HaConfig ==
  [mode |-> "HA", season |-> TRUE, watchdog |-> 2, failsafe_setpoint |-> 40,
   heat_limit_h |-> 2, min_cycle |-> 1, flow_min |-> 30, flow_max |-> 60,
   local_ch_enable |-> FALSE, local_setpoint |-> 50, dhw_setpoint |-> 0]

FixedArm  == {HaConfig}
EditedArm == {[HaConfig EXCEPT !.heat_limit_h = h] : h \in {1, 2}}

BlindInputs ==
  [room : {"stale"}, ha_stale : {FALSE}, report : {40}, readback : {None}]

NoRestore == {}
==============================================================================
