------------------------- MODULE MCControlOwnership --------------------------
(***************************************************************************)
(* Small instances of OtControlOwnership: four configurations (the mode    *)
(* and the season each way), a watchdog of 2 time units, HA sending one    *)
(* setpoint and one DHW setpoint, a bus that reports nothing.              *)
(***************************************************************************)
EXTENDS OtControlOwnership

BaseConfig ==
  [mode |-> "LOCAL", season |-> TRUE, watchdog |-> 2, failsafe_setpoint |-> 40,
   heat_limit_h |-> 1, min_cycle |-> 2, flow_min |-> 30, flow_max |-> 60,
   local_ch_enable |-> TRUE, local_setpoint |-> 50, dhw_setpoint |-> 0]

FixedWatchdog ==
  {[BaseConfig EXCEPT !.mode = m, !.season = s] : m \in {"LOCAL", "HA"}, s \in BOOLEAN}

\* The owner may raise the watchdog in the settings at any time.
EditedWatchdog ==
  {[BaseConfig EXCEPT !.mode = "HA", !.watchdog = w] : w \in {1, 3}}

\* Neither the room nor what the bus reports matters to ownership.
SourceInputs ==
  [room : {"stale"}, ha_stale : BOOLEAN, report : {None}, readback : {None}]

OneBoost == {<<50, 2>>}
NoBoost  == {}
ColdBoot == {[overdue |-> 0, heat_hours |-> 0, hh_ms |-> 0]}
AnyBoot  == ColdBoot \cup {[overdue |-> 2, heat_hours |-> 1, hh_ms |-> 0]}
==============================================================================
