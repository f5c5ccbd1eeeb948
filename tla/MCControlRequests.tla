-------------------------- MODULE MCControlRequests --------------------------
(***************************************************************************)
(* A small instance of OtControlRequests: boosts of up to two units on a   *)
(* clock of seven, booted anywhere on it, mode and season flipping; three  *)
(* stored DHW targets (unset among them), a boiler that rounds, two tries. *)
(***************************************************************************)
EXTENDS OtControlRequests

BaseConfig ==
  [mode |-> "LOCAL", season |-> TRUE, watchdog |-> 1, failsafe_setpoint |-> 40,
   heat_limit_h |-> 1, min_cycle |-> 0, flow_min |-> 30, flow_max |-> 60,
   local_ch_enable |-> FALSE, local_setpoint |-> 50, dhw_setpoint |-> 0]

RequestConfigs ==
  {[BaseConfig EXCEPT !.dhw_setpoint = t] : t \in {0, 50, 55}}
  \cup {[BaseConfig EXCEPT !.mode = "HA"], [BaseConfig EXCEPT !.season = FALSE]}

\* A level, the same one for longer than a boost may last, and one out of the band.
Boosts == {<<55, 2>>, <<55, 3>>, <<70, 1>>}

NoInput == [room |-> "stale", ha_stale |-> FALSE, report |-> None, readback |-> None]
RequestInputs == {[NoInput EXCEPT !.readback = r] : r \in {None, 50, 52}}

ColdBoot == {[overdue |-> 0, heat_hours |-> 0, hh_ms |-> 0]}
==============================================================================
