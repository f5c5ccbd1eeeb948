-------------------------- MODULE OtThermostatResets --------------------------
(***************************************************************************)
(* What a reset may cost.  OtThermostat with history variables for the     *)
(* powered time that really passed since HA spoke:                         *)
(*                                                                         *)
(*   unasked   powered time since HA last asked for heat, up to            *)
(*             UnaskedMax; a reset takes it back to what completed ticks   *)
(*             counted                                                     *)
(*   banked    unasked as of the last tick that wrote both stores          *)
(*   quiet     time since HA's last accepted command                       *)
(*                                                                         *)
(* A power cut honestly costs the part-hour kept in RTC memory.            *)
(***************************************************************************)
EXTENDS OtThermostat

CONSTANT UnaskedMax   \* a bound of the model: unasked is not told apart beyond it

\* No step is late by as long as the accumulators can count (49 days).
ASSUME LateTickAssumption == \A dt \in Dts : HourMs - 1 + dt <= AgeMax /\ dt < ClockMod
ASSUME UnaskedAssumption ==
  /\ UnaskedMax \in Nat
  /\ \A cfg \in Configs : cfg.heat_limit_h <= HoursMax /\ cfg.heat_limit_h * HourMs <= UnaskedMax

VARIABLES unasked, banked, quiet

resetHistory == <<unasked, banked, quiet>>
rvars        == <<tvars, resetHistory>>

Sooner(a, b) == IF a < b THEN a ELSE b

\* A device HA has never asked for heat is idle without end.
RInit == TInit /\ unasked = UnaskedMax /\ banked = UnaskedMax /\ quiet = 0

RStep ==
  /\ TickStep
  /\ unasked' = Sooner(unasked + Elapsed, UnaskedMax)
  /\ quiet' = AddSat(quiet, Elapsed)
  /\ UNCHANGED banked

\* The last store of the tick banks what had passed by its step.
Banks ==
  /\ banked' = IF pc' = 0 THEN unasked ELSE banked
  /\ UNCHANGED <<unasked, quiet>>

RSave   == TickSave /\ Banks
RMirror == TickMirror /\ Banks

RAsk == Ask /\ unasked' = 0 /\ banked' = 0 /\ quiet' = 0

RCommand == Command /\ quiet' = 0 /\ UNCHANGED <<unasked, banked>>

RReset == Reset /\ unasked' = banked /\ UNCHANGED <<banked, quiet>>

RPowerCut ==
  /\ PowerCut
  /\ unasked' = IF banked > rtc.hh_ms THEN banked - rtc.hh_ms ELSE 0
  /\ banked' = unasked'
  /\ UNCHANGED quiet

RNext == RStep \/ RSave \/ RMirror \/ RAsk \/ RCommand \/ RReset \/ RPowerCut

RSpec == RInit /\ [][RNext]_rvars

\* The task ticks for as long as the device runs, and of the boots of a loop
\* that goes on for ever some get as far as the end of their first tick.
RFairSpec == RSpec /\ WF_rvars(RStep) /\ SF_rvars(RSave) /\ SF_rvars(RMirror)

-----------------------------------------------------------------------------
\* The powered time the stores would bring back if a reset came now.
Stored ==
  IF nvs = None THEN UnaskedMax ELSE nvs * HourMs + (IF rtc.intact THEN rtc.hh_ms ELSE 0)

\* A reset never lengthens the failsafe's arm: whenever it comes, between the
\* two stores included, what they hold is at least the powered time since HA
\* last asked for heat that completed ticks counted, up to where the arm has run
\* out anyway.  ("Save first, and the surviving skew errs SAFE", tick(); and of
\* a save that failed, "a lost hour only shortens the arm".)
ArmNeverLengthened ==
  \A cfg \in Configs : Stored >= Sooner(banked, cfg.heat_limit_h * HourMs)

\* The summer bound through reboots: a failsafe heats only while completed ticks
\* have counted less than failsafe_heat_days of powered time since HA last asked
\* for heat, however often the device has restarted.
SummerBound ==
  state = "FAILSAFE" /\ ch_out =>
    \E cfg \in Configs : banked < cfg.heat_limit_h * HourMs

\* A reboot loop does not put the failsafe off: a silent HA ends in failsafe,
\* even if no boot lasts as long as the watchdog.  (SEASON_OFF is what
\* ot_control_init leaves until the boot's first step.)
LoopEndsInFailsafe ==
  <>[](quiet = AgeMax) => <>[](state \in {"SEASON_OFF", "FAILSAFE"})
==============================================================================
