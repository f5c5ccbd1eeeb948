---------------------------- MODULE MCControlHeat ----------------------------
(***************************************************************************)
(* A small instance of OtControlHeat: the season on, either mode, late     *)
(* steps of one and a half hours each, so that every second one completes  *)
(* two hours, a watchdog and a minimum cycle that take two steps, a        *)
(* failsafe armed for four, every room reading, and a bus that may report  *)
(* the right setpoint, a foreign one or none.                              *)
(***************************************************************************)
EXTENDS OtControlHeat

HeatConfigs ==
  {[mode |-> m, season |-> TRUE, watchdog |-> 4, failsafe_setpoint |-> 40,
    heat_limit_h |-> 6, min_cycle |-> 4, flow_min |-> 30, flow_max |-> 60,
    local_ch_enable |-> TRUE, local_setpoint |-> 50, dhw_setpoint |-> 0] :
   m \in {"LOCAL", "HA"}}

HeatInputs ==
  [room : Rooms, ha_stale : {FALSE}, report : {None, 40, 50}, readback : {None}]

ColdBoot == [overdue |-> 0, heat_hours |-> 0, hh_ms |-> 0]
WarmBoot == [overdue |-> 3, heat_hours |-> 1, hh_ms |-> 1]
HeatBoots == {ColdBoot, WarmBoot}
==============================================================================
