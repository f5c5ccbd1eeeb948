----------------------------- MODULE OtThermostat -----------------------------
(***************************************************************************)
(* What the firmware remembers across a reset: the thermostat task         *)
(* (components/ot_thermostat) around the executor of OtControl.            *)
(*                                                                         *)
(* Once a second the task steps the executor and then writes two stores    *)
(* that can never be written as one: the whole powered hours into flash    *)
(* (NVS), and the watchdog's count with the part-hour into RTC memory,     *)
(* which some resets keep and a power cut does not.  HA's commands land    *)
(* between any two of these, and a reset may come at any of them.          *)
(*                                                                         *)
(* What the task reports, publishes and queues to the bus after the stores *)
(* is left out: no store and no field of the executor depends on it.       *)
(***************************************************************************)
EXTENDS OtControl, Sequences

CONSTANTS
  SaveFails,   \* may a write to NVS fail?
  PowerCuts    \* a bound of the model: how many power cuts there may be

ASSUME ThermostatAssumption == SaveFails \in BOOLEAN /\ PowerCuts \in Nat

VARIABLES
  pc,     \* 0 between ticks, else which of Stores comes next
  out,    \* the step's output, as the rest of the tick knows it
  nvs,    \* the stored heat hours, None if never written
  rtc,    \* the record in RTC memory; intact means its check word fits
  cuts    \* power cuts so far

storeVars == <<pc, out, nvs, rtc, cuts>>
tvars == <<vars, storeVars>>

\* Mutant of Stores: the part-hour before the whole hours.
MirrorFirst == <<"mirror", "save">>

Stores == <<"save", "mirror">>

Blank == [overdue |-> 0, heat_hours |-> 0, hh_ms |-> 0]

\* Mutant of Restored: the watchdog starts again.
RestoredUnwatched(stored, kept, keeps_ram) ==
  [overdue    |-> 0,
   heat_hours |-> IF stored = None THEN HoursMax ELSE stored,
   hh_ms      |-> IF keeps_ram /\ kept.intact THEN kept.hh_ms ELSE 0]

\* RTC memory is believed only after a reset that keeps it, and only intact;
\* no stored hours mean that HA has never asked for heat.
Restored(stored, kept, keeps_ram) ==
  LET believed == keeps_ram /\ kept.intact
  IN  [overdue    |-> IF believed THEN kept.overdue ELSE 0,
       heat_hours |-> IF stored = None THEN HoursMax ELSE stored,
       hh_ms      |-> IF believed THEN kept.hh_ms ELSE 0]

Noise == [intact |-> FALSE, overdue |-> 0, hh_ms |-> 0]

TInit ==
  /\ pc = 0 /\ out = Blank /\ nvs = None /\ rtc = Noise /\ cuts = 0
  /\ \E cfg \in Configs : InitWith(cfg, Restored(None, Noise, FALSE), 0)

TickStep ==
  /\ pc = 0 /\ pc' = 1
  /\ \E cfg \in Configs, in \in Inputs, dt \in Dts : Step(cfg, in, dt)
  /\ out' = [overdue |-> overdue', heat_hours |-> heat_hours', hh_ms |-> hh_ms']
  /\ UNCHANGED <<nvs, rtc, cuts>>

\* Where the tick goes after the store at place n.
Onward(n) == IF n = Len(Stores) THEN 0 ELSE n + 1

\* A failed save is logged and not retried.
TickSave ==
  /\ pc # 0 /\ Stores[pc] = "save" /\ pc' = Onward(pc)
  /\ \/ persist_heat_hours /\ nvs' = out.heat_hours
     \/ (~persist_heat_hours \/ SaveFails) /\ UNCHANGED nvs
  /\ UNCHANGED <<vars, out, rtc, cuts>>

TickMirror ==
  /\ pc # 0 /\ Stores[pc] = "mirror" /\ pc' = Onward(pc)
  /\ rtc' = [intact |-> TRUE, overdue |-> out.overdue, hh_ms |-> out.hh_ms]
  /\ UNCHANGED <<vars, out, nvs, cuts>>

\* HA asks for heat.
Ask == (\E cfg \in Configs : HaChEnable(cfg, 1)) /\ UNCHANGED storeVars

\* HA says anything else that counts.
Command ==
  /\ \/ \E cfg \in Configs : HaChEnable(cfg, 0)
     \/ \E cfg \in Configs, v \in HaSetpoints : HaChSetpoint(cfg, v)
  /\ UNCHANGED storeVars

\* ot_control_init once more: InitWith, as a step.
InitAgain(cfg, r, at) ==
  /\ seen_ha' = (cfg.mode = "HA") /\ seen_season' = cfg.season
  /\ now' = at /\ state' = "SEASON_OFF"
  /\ ha_heard' = FALSE /\ ha_ch_enable' = FALSE /\ ha_setpoint' = cfg.failsafe_setpoint
  /\ overdue' = r.overdue /\ fs_latched' = FALSE
  /\ blind' = FALSE /\ fs_want' = FALSE /\ fs_cause' = "NONE" /\ fs_ms' = 0
  /\ failsafe_count' = 0 /\ last_failsafe_duration' = 0
  /\ heat_hours' = r.heat_hours /\ hh_ms' = r.hh_ms /\ hh_dirty' = FALSE
  /\ held' = Bound(cfg, cfg.failsafe_setpoint) /\ confirmed' = FALSE
  /\ ok_age' = 0 /\ ch_out' = FALSE /\ ch_age' = AgeMax
  /\ dhw_target' = 0 /\ dhw_tries' = 0 /\ dhw_age' = 0
  /\ dhw_reopen' = FALSE /\ dhw_reopen_dc' = 0 /\ dhw_unread_once' = (cfg.dhw_setpoint # 0)
  /\ boost_active' = FALSE /\ boost_setpoint' = 0 /\ boost_expires' = 0
  /\ reason' = "NONE" /\ send_dhw' = FALSE /\ persist_heat_hours' = FALSE

\* A boot after a reset: RAM is gone and the millisecond clock starts again.
Boot(keeps_ram) ==
  /\ pc' = 0 /\ out' = Blank
  /\ \E cfg \in Configs : InitAgain(cfg, Restored(nvs, rtc, keeps_ram), 0)
  /\ UNCHANGED nvs

\* A software reset, a panic, a watchdog or a brown-out.
Reset == Boot(TRUE) /\ UNCHANGED <<rtc, cuts>>

\* A power cut, or a brown-out that damaged the record.
PowerCut ==
  /\ cuts < PowerCuts /\ cuts' = cuts + 1
  /\ Boot(FALSE) /\ rtc' = Noise

TNext == TickStep \/ TickSave \/ TickMirror \/ Ask \/ Command \/ Reset \/ PowerCut

TSpec == TInit /\ [][TNext]_tvars

\* Every store keeps its type.
StoreType ==
  /\ pc \in 0..Len(Stores) /\ cuts \in 0..PowerCuts
  /\ out \in [overdue : 0..AgeMax, heat_hours : 0..HoursMax, hh_ms : 0..(HourMs - 1)]
  /\ nvs \in 0..HoursMax \cup {None}
  /\ rtc \in [intact : BOOLEAN, overdue : 0..AgeMax, hh_ms : 0..(HourMs - 1)]
==============================================================================
