------------------------------ MODULE OtControl ------------------------------
(***************************************************************************)
(* The executor core (components/ot_control): who owns each command, what  *)
(* the boiler is told once a second, and what happens when Home Assistant  *)
(* (HA) goes away.                                                         *)
(*                                                                         *)
(* The C code is pure: one caller-owned struct ot_control_t, and functions *)
(* that the thermostat task (Step), the httpd and the esp-mqtt tasks (the  *)
(* commands and the boost) call under one spinlock.  Hence one variable    *)
(* per field and one action per call.  Every call is handed a              *)
(* configuration snapshot that was built OUTSIDE the spinlock; the model   *)
(* lets it be any member of Configs, so a snapshot as stale as one likes   *)
(* is among the behaviours.                                                *)
(*                                                                         *)
(* Durations are the code's saturating accumulators in an abstract unit;   *)
(* AgeMax stands for UINT32_MAX.  The monotonic clock, which only the      *)
(* boost's deadline reads, wraps at ClockMod (2^32 in the code).           *)
(***************************************************************************)
EXTENDS Integers

CONSTANTS
  Configs,        \* the configuration snapshots a call may be handed
  Inputs,         \* what a step may read: the room, HA's source, the bus, ID 56
  HaSetpoints,    \* flow setpoints HA sends, in and out of bounds
  DhwCommands,    \* DHW setpoints a person or HA sends
  BoostRequests,  \* <<setpoint, duration>> pairs asked of the boost
  Restores,       \* what a boot may find preserved
  Dts,            \* lengths of the interval between two steps
  Lates,          \* how long after the last step a boost may be asked for
  AgeMax,         \* where the accumulators saturate      (UINT32_MAX)
  ClockMod,       \* where the monotonic clock wraps      (2^32)
  CountMod,       \* where failsafe_count wraps           (2^32)
  HoursMax,       \* where heat_hours saturates           (UINT16_MAX)
  HourMs,         \* OTC_HOUR_MS
  SecondMs,       \* the divisor of the published duration (1000)
  ResendMs,       \* OT_CONTROL_RESEND_MS
  DhwRetryMs,     \* DHW_RETRY_MS
  DhwMaxTries,    \* DHW_MAX_TRIES
  BoostMax        \* OT_CONTROL_BOOST_MAX_MINUTES, in the clock's unit

None == -1        \* "no report", "no readback": no temperature is negative

States  == {"SEASON_OFF", "BOOST", "LOCAL", "HA_WAITING", "FAILSAFE", "HA"}
Causes  == {"NONE", "WATCHDOG", "HA_BLIND"}
Reasons == {"NONE", "FS_DISARMED", "FS_BLIND", "FS_ROOM_COLD", "FS_ROOM_WARM",
            "MIN_CYCLE", "AWAIT_SETPOINT"}
Origins == {"WEB", "HA"}

\* The room as the failsafe sees it: nothing fresh, or a reading at or below
\* target - 0.3 K, inside the dead band, at or above target + 0.3 K.
Rooms == {"stale", "cold", "mild", "warm"}

ConfigType ==
  [mode : {"LOCAL", "HA"}, season : BOOLEAN, watchdog : Nat,
   failsafe_setpoint : Nat, heat_limit_h : Nat, min_cycle : Nat,
   flow_min : Nat, flow_max : Nat, local_ch_enable : BOOLEAN,
   local_setpoint : Nat, dhw_setpoint : Nat]

\* dhw_setpoint = 0 is the store's "unset".
RestoreType == [overdue : 0..AgeMax, heat_hours : 0..HoursMax, hh_ms : 0..(HourMs - 1)]

\* report is the ID 1 the bus confirmed since the last step, readback the
\* boiler's ID 56, both in 0.1 C.
InputType ==
  [room : Rooms, ha_stale : BOOLEAN, report : Nat \cup {None}, readback : Nat \cup {None}]

ASSUME ConfigsAssumption ==
  /\ Configs \subseteq ConfigType
  /\ \A cfg \in Configs : cfg.flow_min <= cfg.flow_max
ASSUME InputsAssumption ==
  /\ Inputs \subseteq InputType /\ HaSetpoints \subseteq Nat
  /\ DhwCommands \subseteq Nat /\ BoostRequests \subseteq Nat \X Nat
  /\ Restores \subseteq RestoreType /\ Dts \subseteq Nat \ {0}
  /\ Lates \subseteq Nat
ASSUME BoundsAssumption ==
  /\ HourMs \in Nat \ {0} /\ SecondMs \in Nat \ {0} /\ CountMod \in Nat \ {0}
  /\ BoostMax \in Nat \ {0} /\ DhwMaxTries \in Nat \ {0}
  /\ ResendMs \in Nat /\ DhwRetryMs \in Nat /\ HoursMax \in Nat
  /\ AgeMax \in Nat /\ AgeMax >= HourMs /\ AgeMax >= DhwRetryMs
  /\ ClockMod \in Nat /\ ClockMod > 2 * BoostMax
  /\ \A late \in Lates : ClockMod > 2 * (BoostMax + late)

VARIABLES
  \* what step() last observed of the configuration, and its verdict
  seen_ha, seen_season, now, state,
  \* HA's command, RAM only
  ha_heard, ha_ch_enable, ha_setpoint,
  \* the watchdog and the failsafe
  overdue, blind, fs_latched, fs_want, fs_cause, fs_ms, failsafe_count,
  last_failsafe_duration, heat_hours, hh_ms, hh_dirty,
  \* the held ID 1 and the CH bit
  held, confirmed, ok_age, ch_out, ch_age,
  \* the ID 56 reconciliation
  dhw_target, dhw_tries, dhw_age, dhw_reopen, dhw_reopen_dc, dhw_unread_once,
  \* the boost
  boost_active, boost_setpoint, boost_expires,
  \* the outputs of the last step that no field above repeats
  reason, send_dhw, persist_heat_hours

edgeVars  == <<seen_ha, seen_season, now, state>>
haVars    == <<ha_heard, ha_ch_enable, ha_setpoint>>
fsVars    == <<blind, fs_want, fs_cause, fs_ms, failsafe_count, last_failsafe_duration>>
heatVars  == <<heat_hours, hh_ms, hh_dirty>>
heldVars  == <<held, confirmed, ok_age, ch_out, ch_age>>
reopenVars == <<dhw_reopen, dhw_reopen_dc>>
tryVars   == <<dhw_target, dhw_tries, dhw_age, dhw_unread_once>>
boostVars == <<boost_active, boost_setpoint, boost_expires>>
outVars   == <<reason, send_dhw, persist_heat_hours>>
vars == <<edgeVars, haVars, overdue, fs_latched, fsVars, heatVars, heldVars,
          reopenVars, tryVars, boostVars, outVars>>

-----------------------------------------------------------------------------
(* Helpers. *)

\* Saturating addition: a wrapped duration would read as a fresh one.
AddSat(a, b) == IF a > AgeMax - b THEN AgeMax ELSE a + b

\* Mutant of Reached: the plain comparison, wrong around the wrap.
ReachedPlain(at, t) == at >= t

\* Has moment t come: the signed 32-bit difference, right within half a wrap.
Reached(at, t) == (at - t) % ClockMod < ClockMod \div 2

\* Quantised to 0.5 C, then inside the flow band; the bounds win.
Bound(cfg, dc) ==
  LET q == ((dc + 2) \div 5) * 5
      lifted == IF q < cfg.flow_min THEN cfg.flow_min ELSE q
  IN  IF lifted > cfg.flow_max THEN cfg.flow_max ELSE lifted

InBand(cfg, dc) == dc >= cfg.flow_min /\ dc <= cfg.flow_max

-----------------------------------------------------------------------------
(* Boot: ot_control_init, with what the task layer restored. *)

InitWith(cfg, r, at) ==
  /\ seen_ha = (cfg.mode = "HA") /\ seen_season = cfg.season
  /\ now = at /\ state = "SEASON_OFF"
  /\ ha_heard = FALSE /\ ha_ch_enable = FALSE /\ ha_setpoint = cfg.failsafe_setpoint
  /\ overdue = r.overdue /\ fs_latched = FALSE
  /\ blind = FALSE /\ fs_want = FALSE /\ fs_cause = "NONE" /\ fs_ms = 0
  /\ failsafe_count = 0 /\ last_failsafe_duration = 0
  /\ heat_hours = r.heat_hours /\ hh_ms = r.hh_ms /\ hh_dirty = FALSE
  /\ held = Bound(cfg, cfg.failsafe_setpoint) /\ confirmed = FALSE
  /\ ok_age = 0 /\ ch_out = FALSE /\ ch_age = AgeMax
  /\ dhw_target = 0 /\ dhw_tries = 0 /\ dhw_age = 0
  /\ dhw_reopen = FALSE /\ dhw_reopen_dc = 0 /\ dhw_unread_once = (cfg.dhw_setpoint # 0)
  /\ boost_active = FALSE /\ boost_setpoint = 0 /\ boost_expires = 0
  /\ reason = "NONE" /\ send_dhw = FALSE /\ persist_heat_hours = FALSE

Init == \E cfg \in Configs, r \in Restores, at \in 0..(ClockMod - 1) : InitWith(cfg, r, at)

-----------------------------------------------------------------------------
(* The step, in the order of the code. *)

\* Every duration advances before the edges are observed: the interval
\* belongs to the mode that was in effect during it.
HourDone(cfg, dt) ==
  AddSat(hh_ms, dt) >= HourMs /\ heat_hours < cfg.heat_limit_h

\* Mutant of AdvanceHours: a completed hour drops the part-hour behind it.
AdvanceWholeHours(dt) ==
  LET total == AddSat(hh_ms, dt)
      sum   == heat_hours + total \div HourMs
  IN  /\ hh_ms' = IF total >= HourMs THEN 0 ELSE total
      /\ heat_hours' = IF sum > HoursMax THEN HoursMax ELSE sum

AdvanceHours(dt) ==
  LET total == AddSat(hh_ms, dt)
      sum   == heat_hours + total \div HourMs
  IN  /\ hh_ms' = total % HourMs
      /\ heat_hours' = IF sum > HoursMax THEN HoursMax ELSE sum

\* Mutant of AdvanceWatchdog: only an HA that has spoken can fall silent.
AdvanceWhenHeard(dt) == overdue' = IF seen_ha /\ ha_heard THEN AddSat(overdue, dt) ELSE 0

AdvanceWatchdog(dt) == overdue' = IF seen_ha THEN AddSat(overdue, dt) ELSE 0

\* Mutant of Entry: the season coming back on is not one.
EntryByMode(cfg) == cfg.mode = "HA" /\ ~seen_ha

\* The entries into HA ownership: LOCAL -> HA, and season off -> on under HA.
Entry(cfg) ==
  /\ cfg.mode = "HA"
  /\ ~seen_ha \/ (cfg.season /\ ~seen_season)

\* Mutant of Forget: HA still counts as heard.
ForgetCommandOnly(cfg) ==
  /\ ha_ch_enable' = FALSE /\ ha_setpoint' = cfg.failsafe_setpoint
  /\ UNCHANGED ha_heard

Forget(cfg) ==
  /\ ha_heard' = FALSE /\ ha_ch_enable' = FALSE /\ ha_setpoint' = cfg.failsafe_setpoint

Observe(cfg) ==
  /\ seen_ha' = (cfg.mode = "HA")
  /\ seen_season' = cfg.season
  /\ IF Entry(cfg) THEN Forget(cfg) ELSE UNCHANGED haVars

\* Mutant of LatchedAfterObserve: there is no latch.
LatchIgnored(cfg) == FALSE

LatchedAfterObserve(cfg) == fs_latched /\ ~Entry(cfg)

\* Any mode edge ends a boost, and so does its deadline.
BoostEnds(cfg) ==
  IF seen_ha # (cfg.mode = "HA") \/ Reached(now', boost_expires)
    THEN boost_active' = FALSE /\ boost_setpoint' = 0 /\ boost_expires' = 0
    ELSE UNCHANGED boostVars

Expired(cfg) == overdue' >= cfg.watchdog

\* First match wins.
Ladder(cfg) ==
  IF ~cfg.season THEN "SEASON_OFF"
  ELSE IF ~seen_ha' THEN (IF boost_active' THEN "BOOST" ELSE "LOCAL")
  ELSE IF ~ha_heard' /\ ~Expired(cfg) THEN "HA_WAITING"
  ELSE IF LatchedAfterObserve(cfg) \/ Expired(cfg) \/ blind' THEN "FAILSAFE"
  ELSE "HA"

EntersFailsafe == state' = "FAILSAFE" /\ state # "FAILSAFE"
LeavesFailsafe == state' # "FAILSAFE" /\ state = "FAILSAFE"

TrackFailsafe(cfg, dt) ==
  /\ fs_latched' = (LatchedAfterObserve(cfg) \/ state' = "FAILSAFE")
  /\ fs_cause' = IF state' # "FAILSAFE" THEN fs_cause
                 ELSE IF Expired(cfg) THEN "WATCHDOG"
                 ELSE IF blind' THEN "HA_BLIND" ELSE "NONE"
  /\ fs_ms' = IF EntersFailsafe THEN 0 ELSE AddSat(fs_ms, dt)
  /\ failsafe_count' = IF EntersFailsafe THEN (failsafe_count + 1) % CountMod
                       ELSE failsafe_count
  /\ last_failsafe_duration' =
       IF LeavesFailsafe THEN AddSat(fs_ms, dt) \div SecondMs ELSE last_failsafe_duration

Disarmed(cfg) == heat_hours' >= cfg.heat_limit_h

\* Mutant of FsVerdict: inside the dead band the bit sent is taken for the verdict.
FsVerdictFromBit(cfg, room) ==
  ~Disarmed(cfg) /\ (room \in {"stale", "cold"} \/ (room = "mild" /\ ch_out))

\* Mutant of FsVerdict: only an unseen room wants heat, a cold one keeps the verdict.
FsVerdictKeepsCold(cfg, room) ==
  LET before == IF EntersFailsafe THEN ch_out ELSE fs_want
  IN  ~Disarmed(cfg) /\ (room = "stale" \/ (room \in {"cold", "mild"} /\ before))

\* The hysteresis' own verdict; on entry it starts from the bit last sent.
FsVerdict(cfg, room) ==
  LET before == IF EntersFailsafe THEN ch_out ELSE fs_want
  IN  /\ ~Disarmed(cfg)
      /\ room \in {"stale", "cold"} \/ (room = "mild" /\ before)

\* The minimum cycle binds the hysteresis only, and is measured on the bit.
TooSoon(cfg, room, dt) ==
  /\ ~Disarmed(cfg) /\ room # "stale"
  /\ FsVerdict(cfg, room) # ch_out
  /\ AddSat(ch_age, dt) < cfg.min_cycle

FsReason(cfg, room, dt) ==
  IF Disarmed(cfg) THEN "FS_DISARMED"
  ELSE IF room = "stale" THEN "FS_BLIND"
  ELSE IF TooSoon(cfg, room, dt) THEN "MIN_CYCLE"
  ELSE IF FsVerdict(cfg, room) THEN "FS_ROOM_COLD" ELSE "FS_ROOM_WARM"

FailsafeCh(cfg, room, dt) ==
  IF TooSoon(cfg, room, dt) THEN ch_out ELSE FsVerdict(cfg, room)

FsWantNext(cfg, room) ==
  IF state' = "FAILSAFE" THEN FsVerdict(cfg, room) ELSE fs_want

Want(cfg, room, dt) ==
  CASE state' = "BOOST"    -> TRUE
    [] state' = "LOCAL"    -> cfg.local_ch_enable
    [] state' = "FAILSAFE" -> FailsafeCh(cfg, room, dt)
    [] state' = "HA"       -> ha_ch_enable'
    [] OTHER               -> FALSE

Target(cfg) ==
  CASE state' = "BOOST"    -> boost_setpoint'
    [] state' = "LOCAL"    -> cfg.local_setpoint
    [] state' = "FAILSAFE" -> cfg.failsafe_setpoint
    [] state' = "HA"       -> ha_setpoint'
    [] OTHER               -> held

\* Mutant of HoldSetpoint: a foreign value on the wire does not un-confirm.
HoldIgnoresForeign(cfg, report, dt) ==
  /\ held' = Bound(cfg, Target(cfg))
  /\ confirmed' = (report = held' \/ (confirmed /\ held' = held))
  /\ ok_age' = IF report = held' THEN 0 ELSE AddSat(ok_age, dt)

\* A report of another value un-confirms; a changed held value un-confirms
\* before the report of this step is looked at.
HoldSetpoint(cfg, report, dt) ==
  /\ held' = Bound(cfg, Target(cfg))
  /\ confirmed' = IF report # None THEN report = held' ELSE confirmed /\ held' = held
  /\ ok_age' = IF report # None /\ report = held' THEN 0 ELSE AddSat(ok_age, dt)

\* CH never rises on a held value the bus has not carried; it may stay up.
AwaitsSetpoint(want) == want /\ ~ch_out /\ ~confirmed'

\* Mutant of DriveCh: only a rise restarts the bit's age.
DriveChAgesRise(want, dt) ==
  /\ ch_out' = (want /\ ~AwaitsSetpoint(want))
  /\ ch_age' = IF ch_out' /\ ~ch_out THEN 0 ELSE AddSat(ch_age, dt)

DriveCh(want, dt) ==
  /\ ch_out' = (want /\ ~AwaitsSetpoint(want))
  /\ ch_age' = IF ch_out' # ch_out THEN 0 ELSE AddSat(ch_age, dt)

ReasonNext(cfg, room, dt) ==
  IF AwaitsSetpoint(Want(cfg, room, dt)) THEN "AWAIT_SETPOINT"
  ELSE IF state' = "FAILSAFE" THEN FsReason(cfg, room, dt) ELSE "NONE"

\* dhw_due: the reconciliation of ID 56.  A new target, or a command whose
\* value the store now has, starts the tries afresh.
DhwReopened(cfg) == dhw_reopen /\ dhw_reopen_dc = cfg.dhw_setpoint

\* Mutant of DhwRenewed: a command for the stored value renews nothing.
DhwRenewedByTarget(cfg) == cfg.dhw_setpoint # dhw_target
DhwRenewed(cfg) == cfg.dhw_setpoint # dhw_target \/ DhwReopened(cfg)

DhwTries(cfg)   == IF DhwRenewed(cfg) THEN 0 ELSE dhw_tries
DhwAge(cfg, dt) == IF DhwRenewed(cfg) THEN AgeMax ELSE AddSat(dhw_age, dt)
DhwArmed(cfg)   == dhw_unread_once \/ DhwReopened(cfg)

DhwAgrees(cfg, readback) == readback # None /\ readback = cfg.dhw_setpoint

\* Mutant of DhwDue: one try too many.
DhwDueOnceMore(cfg, readback, dt) ==
  /\ ~DhwAgrees(cfg, readback) /\ (readback # None \/ DhwArmed(cfg))
  /\ DhwTries(cfg) <= DhwMaxTries /\ DhwAge(cfg, dt) >= DhwRetryMs

DhwDue(cfg, readback, dt) ==
  /\ ~DhwAgrees(cfg, readback)
  /\ readback # None \/ DhwArmed(cfg)
  /\ DhwTries(cfg) < DhwMaxTries
  /\ DhwAge(cfg, dt) >= DhwRetryMs

DhwReconcile(cfg, readback, dt) ==
  /\ dhw_target' = cfg.dhw_setpoint
  /\ dhw_reopen' = (dhw_reopen /\ ~DhwReopened(cfg))
  /\ dhw_tries' = IF DhwAgrees(cfg, readback) THEN 0
                  ELSE IF DhwDue(cfg, readback, dt) THEN DhwTries(cfg) + 1
                  ELSE DhwTries(cfg)
  /\ dhw_age' = IF DhwDue(cfg, readback, dt) THEN 0 ELSE DhwAge(cfg, dt)
  /\ send_dhw' = DhwDue(cfg, readback, dt)
  /\ dhw_unread_once' = (DhwArmed(cfg) /\ ~DhwAgrees(cfg, readback) /\ ~send_dhw')
  /\ UNCHANGED dhw_reopen_dc

DhwStep(cfg, readback, dt) ==
  \/ cfg.dhw_setpoint # 0 /\ DhwReconcile(cfg, readback, dt)
  \/ /\ cfg.dhw_setpoint = 0
     /\ dhw_age' = AddSat(dhw_age, dt) /\ send_dhw' = FALSE
     /\ UNCHANGED <<dhw_target, dhw_tries, dhw_unread_once, reopenVars>>

Step(cfg, in, dt) ==
  /\ now' = (now + dt) % ClockMod
  /\ AdvanceWatchdog(dt) /\ AdvanceHours(dt)
  /\ Observe(cfg)
  /\ BoostEnds(cfg)
  /\ blind' = in.ha_stale
  /\ state' = Ladder(cfg)
  /\ TrackFailsafe(cfg, dt)
  /\ fs_want' = FsWantNext(cfg, in.room)
  /\ HoldSetpoint(cfg, in.report, dt)
  /\ DriveCh(Want(cfg, in.room, dt), dt)
  /\ reason' = ReasonNext(cfg, in.room, dt)
  /\ DhwStep(cfg, in.readback, dt)
  /\ persist_heat_hours' = (HourDone(cfg, dt) \/ hh_dirty)
  /\ hh_dirty' = FALSE

\* Asked on every step until the bus confirms the held value, then as a refresh.
SendSetpoint == ~confirmed \/ ok_age >= ResendMs

-----------------------------------------------------------------------------
(* The commands: ot_control_check and ot_control_apply.  Ownership is       *)
(* judged by what the executor has seen, bounds by the snapshot.            *)

Owns(ha_mode, origin, cmd) ==
  IF origin = "HA" THEN ha_mode ELSE ~ha_mode \/ cmd = "SEASON"

ValueOk(cfg, origin, cmd, value) ==
  CASE cmd \in {"CH_ENABLE", "DHW_ENABLE"} -> value \in {0, 1}
    [] cmd = "SEASON"       -> value = 0 \/ (value = 1 /\ origin # "HA")
    [] cmd = "CH_SETPOINT"  -> InBand(cfg, value)
    [] cmd = "DHW_SETPOINT" -> value > 0

Accepts(cfg, origin, cmd, value) ==
  Owns(seen_ha, origin, cmd) /\ ValueOk(cfg, origin, cmd, value)

\* Every accepted HA CH command feeds the watchdog and ends ha_waiting.
Heard == overdue' = 0 /\ ha_heard' = TRUE

\* HA's CH_ENABLE.  Accepted in a failsafe whose cause is gone it is an entry:
\* what HA said before it is forgotten.
HaChEnable(cfg, value) ==
  /\ Accepts(cfg, "HA", "CH_ENABLE", value)
  /\ LET leaves == fs_latched /\ ~blind
     IN  /\ fs_latched' = (fs_latched /\ ~leaves)
         /\ ha_setpoint' = IF leaves THEN cfg.failsafe_setpoint ELSE ha_setpoint
  /\ Heard
  /\ ha_ch_enable' = (value = 1)
  /\ IF value = 1
       THEN hh_dirty' = (hh_dirty \/ heat_hours # 0) /\ heat_hours' = 0 /\ hh_ms' = 0
       ELSE UNCHANGED heatVars
  /\ UNCHANGED <<edgeVars, fsVars, heldVars, reopenVars, tryVars, boostVars, outVars>>

HaChSetpoint(cfg, value) ==
  /\ Accepts(cfg, "HA", "CH_SETPOINT", value)
  /\ Heard
  /\ ha_setpoint' = Bound(cfg, value)
  /\ UNCHANGED <<edgeVars, ha_ch_enable, fs_latched, fsVars, heatVars, heldVars,
                 reopenVars, tryVars, boostVars, outVars>>

\* A DHW setpoint, from whoever owns it, reopens its target.
DhwSetpoint(cfg, origin, value) ==
  /\ Accepts(cfg, origin, "DHW_SETPOINT", value)
  /\ dhw_reopen' = TRUE /\ dhw_reopen_dc' = value
  /\ UNCHANGED <<edgeVars, haVars, overdue, fs_latched, fsVars, heatVars, heldVars,
                 tryVars, boostVars, outVars>>

-----------------------------------------------------------------------------
(* The boost. *)

BoostAllowed(cfg, setpoint, minutes) ==
  /\ ~seen_ha /\ seen_season
  /\ minutes > 0 /\ minutes <= BoostMax
  /\ InBand(cfg, setpoint)

\* The deadline counts from the call, which comes some time after the last step.
BoostStart(cfg, setpoint, minutes, late) ==
  /\ BoostAllowed(cfg, setpoint, minutes)
  /\ boost_active' = TRUE /\ boost_setpoint' = setpoint
  /\ boost_expires' = (now + late + minutes) % ClockMod
  /\ UNCHANGED <<edgeVars, haVars, overdue, fs_latched, fsVars, heatVars, heldVars,
                 reopenVars, tryVars, outVars>>

BoostCancel ==
  /\ boost_active' = FALSE /\ boost_setpoint' = 0 /\ boost_expires' = 0
  /\ UNCHANGED <<edgeVars, haVars, overdue, fs_latched, fsVars, heatVars, heldVars,
                 reopenVars, tryVars, outVars>>

-----------------------------------------------------------------------------
Next ==
  \/ \E cfg \in Configs, in \in Inputs, dt \in Dts : Step(cfg, in, dt)
  \/ \E cfg \in Configs, v \in {0, 1} : HaChEnable(cfg, v)
  \/ \E cfg \in Configs, v \in HaSetpoints : HaChSetpoint(cfg, v)
  \/ \E cfg \in Configs, o \in Origins, v \in DhwCommands : DhwSetpoint(cfg, o, v)
  \/ \E cfg \in Configs, b \in BoostRequests, late \in Lates : BoostStart(cfg, b[1], b[2], late)
  \/ BoostCancel

Spec == Init /\ [][Next]_vars

\* The time a step was told has passed.
Elapsed == (now' - now) % ClockMod

FlagType ==
  /\ seen_ha \in BOOLEAN /\ seen_season \in BOOLEAN
  /\ ha_heard \in BOOLEAN /\ ha_ch_enable \in BOOLEAN
  /\ blind \in BOOLEAN /\ fs_latched \in BOOLEAN /\ fs_want \in BOOLEAN
  /\ hh_dirty \in BOOLEAN /\ confirmed \in BOOLEAN /\ ch_out \in BOOLEAN
  /\ dhw_reopen \in BOOLEAN /\ dhw_unread_once \in BOOLEAN /\ boost_active \in BOOLEAN
  /\ send_dhw \in BOOLEAN /\ persist_heat_hours \in BOOLEAN

VerdictType == state \in States /\ fs_cause \in Causes /\ reason \in Reasons

AgeType ==
  /\ overdue \in 0..AgeMax /\ fs_ms \in 0..AgeMax /\ last_failsafe_duration \in 0..AgeMax
  /\ ok_age \in 0..AgeMax /\ ch_age \in 0..AgeMax /\ dhw_age \in 0..AgeMax

DialType ==
  /\ now \in 0..(ClockMod - 1) /\ boost_expires \in 0..(ClockMod - 1)
  /\ heat_hours \in 0..HoursMax /\ hh_ms \in 0..(HourMs - 1)
  /\ failsafe_count \in 0..(CountMod - 1) /\ dhw_tries \in 0..DhwMaxTries

TemperatureType ==
  /\ held \in Nat /\ ha_setpoint \in Nat /\ boost_setpoint \in Nat
  /\ dhw_target \in Nat /\ dhw_reopen_dc \in Nat

\* Every field keeps its type; the accumulators stay under their saturation.
TypeOK == FlagType /\ VerdictType /\ AgeType /\ DialType /\ TemperatureType
==============================================================================
