--------------------------- MODULE OtControl_proofs --------------------------
(***************************************************************************)
(* The executor, for every set of configurations, inputs, intervals and    *)
(* bounds: its fields keep their types; what HA may do to the boiler; what *)
(* becomes of a boost and of a DHW setpoint; and when CH may rise.         *)
(***************************************************************************)
EXTENDS OtControlOwnership, OtControlRequests, OtControlHeat, OtThermostatResets, TLAPS

\* The bounds as plain inequalities.
LEMMA BoundFacts ==
  /\ AgeMax \in Nat /\ AgeMax >= HourMs /\ HoursMax \in Nat /\ DhwMaxTries \in Nat
  /\ HourMs \in Nat /\ HourMs >= 1 /\ SecondMs \in Nat /\ SecondMs >= 1
  /\ CountMod \in Nat /\ CountMod >= 1 /\ ClockMod \in Nat /\ ClockMod >= 1
  /\ DhwMaxTries >= 1
BY BoundsAssumption

\* Saturating addition stays under the saturation bound.
LEMMA AddSatType ==
  ASSUME NEW a \in 0..AgeMax, NEW b \in Nat
  PROVE  AddSat(a, b) \in 0..AgeMax
BY BoundFacts DEF AddSat

\* A bounded setpoint is a temperature.
LEMMA BoundType ==
  ASSUME NEW cfg \in Configs, NEW dc \in Nat
  PROVE  Bound(cfg, dc) \in Nat
BY ConfigsAssumption DEF Bound, ConfigType

\* The remainder of a clock or a counter stays on its dial.
LEMMA ModType ==
  ASSUME NEW a \in Int, NEW b \in Nat, b >= 1
  PROVE  a % b \in 0..(b - 1)
OBVIOUS

\* A quotient by the number of milliseconds in a second or an hour.
LEMMA DivType ==
  ASSUME NEW a \in Nat, NEW b \in Nat, b >= 1
  PROVE  a \div b \in 0..a
OBVIOUS

\* A boot leaves every field in its type, whatever the task restores.
LEMMA BootType ==
  ASSUME NEW cfg \in Configs, NEW r \in RestoreType, NEW at \in 0..(ClockMod - 1),
         InitWith(cfg, r, at)
  PROVE  TypeOK
<1>1. cfg \in ConfigType
  BY ConfigsAssumption
<1>2. Bound(cfg, cfg.failsafe_setpoint) \in Nat
  BY <1>1, BoundType DEF ConfigType
<1>3. FlagType
  BY <1>1, Zenon DEF InitWith, FlagType, ConfigType
<1>4. VerdictType
  BY DEF InitWith, VerdictType, States, Causes, Reasons
<1>5. AgeType
  BY BoundFacts DEF InitWith, AgeType, RestoreType
<1>6. DialType
  BY BoundFacts DEF InitWith, DialType, RestoreType
<1>7. TemperatureType
  BY <1>1, <1>2 DEF InitWith, TemperatureType, ConfigType
<1>8. QED
  BY <1>3, <1>4, <1>5, <1>6, <1>7 DEF TypeOK

\* The first one restores what Restores says.
LEMMA InitType == Init => TypeOK
BY BootType, InputsAssumption DEF Init

\* A step of the thermostat task keeps every field in its type.
LEMMA StepType ==
  ASSUME TypeOK, NEW cfg \in Configs, NEW in \in Inputs, NEW dt \in Dts, Step(cfg, in, dt)
  PROVE  TypeOK'
<1>1. cfg \in ConfigType /\ in \in InputType /\ dt \in Nat
  BY ConfigsAssumption, InputsAssumption
<1>2. \A a \in 0..AgeMax : AddSat(a, dt) \in 0..AgeMax
  BY <1>1, AddSatType
<1>3. AgeType /\ DialType /\ TemperatureType /\ FlagType /\ VerdictType
  BY DEF TypeOK
<1>4. FlagType'
  <2>1. seen_ha' \in BOOLEAN /\ seen_season' \in BOOLEAN
    BY <1>1, Zenon DEF Step, Observe, ConfigType
  <2>2. ha_heard' \in BOOLEAN /\ ha_ch_enable' \in BOOLEAN
    BY <1>3, Zenon DEF Step, Observe, Forget, haVars, FlagType
  <2>3. blind' \in BOOLEAN
    BY <1>1, Zenon DEF Step, InputType
  <2>4. fs_latched' \in BOOLEAN /\ fs_want' \in BOOLEAN
    BY <1>3, Zenon DEF Step, TrackFailsafe, FsWantNext, FsVerdict, FlagType
  <2>5. hh_dirty' \in BOOLEAN /\ persist_heat_hours' \in BOOLEAN
    BY Zenon DEF Step
  <2>6. confirmed' \in BOOLEAN /\ ch_out' \in BOOLEAN
    BY Zenon DEF Step, HoldSetpoint, DriveCh
  <2>7. dhw_reopen' \in BOOLEAN /\ dhw_unread_once' \in BOOLEAN /\ send_dhw' \in BOOLEAN
    BY <1>3, Zenon DEF Step, DhwStep, DhwReconcile, DhwDue, reopenVars, FlagType
  <2>8. boost_active' \in BOOLEAN
    BY <1>3, Zenon DEF Step, BoostEnds, boostVars, FlagType
  <2>9. QED
    BY <2>1, <2>2, <2>3, <2>4, <2>5, <2>6, <2>7, <2>8 DEF FlagType
<1>5. VerdictType'
  <2>1. state' \in States
    BY DEF Step, Ladder, States
  <2>2. fs_cause' \in Causes
    BY <1>3 DEF Step, TrackFailsafe, VerdictType, Causes
  <2>3. reason' \in Reasons
    BY DEF Step, ReasonNext, FsReason, Reasons
  <2>4. QED
    BY <2>1, <2>2, <2>3 DEF VerdictType
<1>6. AgeType'
  <2>1. overdue' \in 0..AgeMax
    BY <1>2, <1>3, BoundFacts DEF Step, AdvanceWatchdog, AgeType
  <2>2. fs_ms' \in 0..AgeMax
    BY <1>2, <1>3, BoundFacts DEF Step, TrackFailsafe, AgeType
  <2>3. last_failsafe_duration' \in 0..AgeMax
    <3>1. AddSat(fs_ms, dt) \div SecondMs \in 0..AgeMax
      BY <1>2, <1>3, DivType, BoundFacts DEF AgeType
    <3>2. QED
      BY <1>3, <3>1 DEF Step, TrackFailsafe, AgeType
  <2>4. ok_age' \in 0..AgeMax /\ ch_age' \in 0..AgeMax
    BY <1>2, <1>3, BoundFacts DEF Step, HoldSetpoint, DriveCh, AgeType
  <2>5. dhw_age' \in 0..AgeMax
    BY <1>2, <1>3, BoundFacts DEF Step, DhwStep, DhwReconcile, DhwAge, AgeType
  <2>6. QED
    BY <2>1, <2>2, <2>3, <2>4, <2>5 DEF AgeType
<1>7. DialType'
  <2>1. now' \in 0..(ClockMod - 1)
    BY <1>1, <1>3, ModType, BoundFacts DEF Step, DialType
  <2>2. boost_expires' \in 0..(ClockMod - 1)
    BY <1>3, BoundFacts DEF Step, BoostEnds, boostVars, DialType
  <2>3. heat_hours' \in 0..HoursMax /\ hh_ms' \in 0..(HourMs - 1)
    <3>1. hh_ms \in 0..AgeMax
      BY <1>3, BoundFacts DEF DialType
    <3>2. AddSat(hh_ms, dt) \in 0..AgeMax
      BY <1>2, <3>1
    <3>3. AddSat(hh_ms, dt) % HourMs \in 0..(HourMs - 1)
      BY <3>2, ModType, BoundFacts
    <3>4. AddSat(hh_ms, dt) \div HourMs \in Nat
      BY <3>2, DivType, BoundFacts
    <3>5. QED
      BY <1>3, <3>3, <3>4, BoundFacts DEF Step, AdvanceHours, DialType
  <2>4. failsafe_count' \in 0..(CountMod - 1)
    <3>1. (failsafe_count + 1) % CountMod \in 0..(CountMod - 1)
      BY <1>3, ModType, BoundFacts DEF DialType
    <3>2. QED
      BY <1>3, <3>1 DEF Step, TrackFailsafe, DialType
  <2>5. dhw_tries' \in 0..DhwMaxTries
    <3>1. DhwTries(cfg) \in 0..DhwMaxTries
      BY <1>3, BoundFacts DEF DhwTries, DialType
    <3>2. DhwDue(cfg, in.readback, dt) => DhwTries(cfg) < DhwMaxTries
      BY DEF DhwDue
    <3>3. QED
      BY <1>3, <3>1, <3>2, BoundFacts DEF Step, DhwStep, DhwReconcile, DialType
  <2>6. QED
    BY <2>1, <2>2, <2>3, <2>4, <2>5 DEF DialType
<1>8. TemperatureType'
  <2>1. ha_setpoint' \in Nat
    BY <1>1, <1>3 DEF Step, Observe, Forget, haVars, ConfigType, TemperatureType
  <2>2. boost_setpoint' \in Nat
    BY <1>3 DEF Step, BoostEnds, boostVars, TemperatureType
  <2>3. held' \in Nat
    <3>1. Target(cfg) \in Nat
      BY <1>1, <1>3, <2>1, <2>2 DEF Target, ConfigType, TemperatureType
    <3>2. QED
      BY <3>1, BoundType DEF Step, HoldSetpoint
  <2>4. dhw_target' \in Nat /\ dhw_reopen_dc' \in Nat
    BY <1>1, <1>3 DEF Step, DhwStep, DhwReconcile, reopenVars, ConfigType, TemperatureType
  <2>5. QED
    BY <2>1, <2>2, <2>3, <2>4 DEF TemperatureType
<1>9. QED
  BY <1>4, <1>5, <1>6, <1>7, <1>8 DEF TypeOK

\* No command, boost or cancellation takes a field out of its type.
LEMMA CommandsType ==
  ASSUME TypeOK,
         \/ \E cfg \in Configs, v \in {0, 1} : HaChEnable(cfg, v)
         \/ \E cfg \in Configs, v \in HaSetpoints : HaChSetpoint(cfg, v)
         \/ \E cfg \in Configs, o \in Origins, v \in DhwCommands : DhwSetpoint(cfg, o, v)
         \/ \E cfg \in Configs, b \in BoostRequests, late \in Lates : BoostStart(cfg, b[1], b[2], late)
         \/ BoostCancel
  PROVE  TypeOK'
<1> USE DEF edgeVars, haVars, fsVars, heatVars, heldVars, reopenVars, tryVars, boostVars, outVars
<1>1. ASSUME NEW cfg \in Configs, NEW v \in {0, 1}, HaChEnable(cfg, v) PROVE TypeOK'
  <2>1. cfg.failsafe_setpoint \in Nat
    BY ConfigsAssumption DEF ConfigType
  <2>2. FlagType'
    <3>1. fs_latched' \in BOOLEAN /\ ha_heard' \in BOOLEAN /\ ha_ch_enable' \in BOOLEAN
      BY <1>1, Zenon DEF HaChEnable, Heard
    <3>2. hh_dirty' \in BOOLEAN
      BY <1>1, Zenon DEF HaChEnable, TypeOK, FlagType
    <3>3. UNCHANGED <<edgeVars, fsVars, heldVars, reopenVars, tryVars, boostVars, outVars>>
      BY <1>1 DEF HaChEnable
    <3>4. QED
      BY <3>1, <3>2, <3>3, Zenon DEF TypeOK, FlagType
  <2>3. VerdictType' /\ AgeType' /\ DialType' /\ TemperatureType'
    BY <1>1, <2>1, BoundFacts
    DEF HaChEnable, Heard, TypeOK, VerdictType, AgeType, DialType, TemperatureType
  <2>4. QED
    BY <2>2, <2>3 DEF TypeOK
<1>2. ASSUME NEW cfg \in Configs, NEW v \in HaSetpoints, HaChSetpoint(cfg, v) PROVE TypeOK'
  <2>1. Bound(cfg, v) \in Nat
    BY InputsAssumption, BoundType
  <2>2. FlagType'
    BY <1>2 DEF HaChSetpoint, Heard, TypeOK, FlagType
  <2>3. VerdictType' /\ AgeType' /\ DialType' /\ TemperatureType'
    BY <1>2, <2>1, BoundFacts
    DEF HaChSetpoint, Heard, TypeOK, VerdictType, AgeType, DialType, TemperatureType
  <2>4. QED
    BY <2>2, <2>3 DEF TypeOK
<1>3. ASSUME NEW cfg \in Configs, NEW o \in Origins, NEW v \in DhwCommands,
             DhwSetpoint(cfg, o, v)
      PROVE  TypeOK'
  <2>1. FlagType'
    BY <1>3 DEF DhwSetpoint, TypeOK, FlagType
  <2>2. VerdictType' /\ AgeType' /\ DialType' /\ TemperatureType'
    BY <1>3, InputsAssumption
    DEF DhwSetpoint, TypeOK, VerdictType, AgeType, DialType, TemperatureType
  <2>3. QED
    BY <2>1, <2>2 DEF TypeOK
<1>4. ASSUME NEW cfg \in Configs, NEW b \in BoostRequests, NEW late \in Lates,
             BoostStart(cfg, b[1], b[2], late)
      PROVE  TypeOK'
  <2>1. b[1] \in Nat /\ b[2] \in Nat /\ late \in Nat
    BY InputsAssumption
  <2>2. (now + late + b[2]) % ClockMod \in 0..(ClockMod - 1)
    <3>1. now + late + b[2] \in Int
      BY <2>1 DEF TypeOK, DialType
    <3>2. QED
      BY <3>1, ModType, BoundFacts
  <2>3. FlagType'
    BY <1>4 DEF BoostStart, TypeOK, FlagType
  <2>4. VerdictType' /\ AgeType' /\ DialType' /\ TemperatureType'
    BY <1>4, <2>1, <2>2
    DEF BoostStart, TypeOK, VerdictType, AgeType, DialType, TemperatureType
  <2>5. QED
    BY <2>3, <2>4 DEF TypeOK
<1>5. ASSUME BoostCancel PROVE TypeOK'
  <2>1. FlagType'
    <3>1. boost_active' \in BOOLEAN
      BY <1>5, Zenon DEF BoostCancel
    <3>2. QED
      BY <1>5, <3>1 DEF BoostCancel, TypeOK, FlagType
  <2>2. VerdictType' /\ AgeType' /\ DialType' /\ TemperatureType'
    BY <1>5, BoundFacts
    DEF BoostCancel, TypeOK, VerdictType, AgeType, DialType, TemperatureType
  <2>3. QED
    BY <2>1, <2>2 DEF TypeOK
<1>6. QED
  BY <1>1, <1>2, <1>3, <1>4, <1>5

\* Whatever the executor is asked and told, its fields keep their types and its
\* saturating accumulators never pass the saturation.
LEMMA NextType == TypeOK /\ [Next]_vars => TypeOK'
<1> SUFFICES ASSUME TypeOK, [Next]_vars PROVE TypeOK'
  OBVIOUS
<1>1. CASE Next
  BY <1>1, StepType, CommandsType DEF Next
<1>2. CASE UNCHANGED vars
  BY <1>2 DEF vars, edgeVars, haVars, fsVars, heatVars, heldVars, reopenVars, tryVars,
     boostVars, outVars, TypeOK, FlagType, VerdictType, AgeType, DialType, TemperatureType
<1>3. QED
  BY <1>1, <1>2

\* The type invariant of the executor core (ot_control_t and its outputs).
THEOREM TypeCorrect == Spec => []TypeOK
<1>1. QED
  BY InitType, NextType, PTL DEF Spec

-----------------------------------------------------------------------------
(* Ownership.  OwnershipInv is inductive for any configurations;            *)
(* CommandIsCurrent also needs a watchdog nobody edits (OneWatchdog): an    *)
(* edit that raises it lets a latched failsafe fall back to ha_waiting.     *)

\* Every step of the history specification is a step of the executor.
LEMMA HistoryRefines == [HNext]_hvars => [Next]_vars
BY DEF HNext, HStep, HHaChEnable, HHaChSetpoint, HDhwSetpoint, HBoost, hvars, Next

\* The fields keep their types whatever the history variables record.
THEOREM TypeCorrectH == HSpec => []TypeOK
<1>1. HInit => TypeOK
  BY InitType DEF HInit
<1>2. TypeOK /\ [HNext]_hvars => TypeOK'
  BY HistoryRefines, NextType
<1>3. QED
  BY <1>1, <1>2, PTL DEF HSpec

SilenceType == silence \in 0..AgeMax

\* Saturating addition keeps the order.
LEMMA AddSatMonotone ==
  ASSUME NEW a \in 0..AgeMax, NEW b \in 0..AgeMax, a <= b, NEW d \in Nat
  PROVE  AddSat(a, d) <= AddSat(b, d) /\ a <= AddSat(a, d)
BY BoundFacts DEF AddSat

\* What a step does to the fields that ownership is about.
LEMMA StepFacts ==
  ASSUME NEW cfg \in Configs, NEW in \in Inputs, NEW dt \in Dts, Step(cfg, in, dt)
  PROVE  /\ seen_ha' = (cfg.mode = "HA") /\ seen_season' = cfg.season
         /\ overdue' = IF seen_ha THEN AddSat(overdue, dt) ELSE 0
         /\ IF Entry(cfg) THEN Forget(cfg) ELSE UNCHANGED haVars
         /\ state' = Ladder(cfg)
         /\ fs_latched' = (LatchedAfterObserve(cfg) \/ state' = "FAILSAFE")
         /\ BoostEnds(cfg)
BY DEF Step, Observe, AdvanceWatchdog, TrackFailsafe

\* At boot nobody has been heard and no boost runs, whatever was restored.
LEMMA InitOwnership == HInit => OwnershipInv /\ SilenceType
BY BoundFacts DEF HInit, Init, InitWith, OwnershipInv, SilenceType, BoostIsLocal,
   SilenceCovered, HaIsAlive, FailsafeHeld

\* The inductive step of OwnershipInv.
LEMMA NextOwnership ==
  OwnershipInv /\ SilenceType /\ TypeOK /\ [HNext]_hvars => OwnershipInv' /\ SilenceType'
<1> SUFFICES ASSUME OwnershipInv, SilenceType, TypeOK, [HNext]_hvars
             PROVE  OwnershipInv' /\ SilenceType'
  OBVIOUS
<1> USE DEF OwnershipInv
<1>1. ASSUME NEW cfg \in Configs, NEW in \in Inputs, NEW dt \in Dts, Step(cfg, in, dt),
             silence' = AddSat(silence, dt), released' = FALSE
      PROVE  OwnershipInv' /\ SilenceType'
  <2>1. dt \in Nat /\ overdue \in 0..AgeMax
    BY InputsAssumption DEF TypeOK, AgeType
  <2>2. SilenceType'
    BY <1>1, <2>1, AddSatType DEF SilenceType
  <2>3. BoostIsLocal'
    BY <1>1, StepFacts DEF BoostIsLocal, BoostEnds, boostVars
  <2>4. SilenceCovered'
    <3>1. SUFFICES ASSUME seen_ha', ha_heard' PROVE silence' <= overdue'
      BY DEF SilenceCovered
    <3>2. ~Entry(cfg)
      BY <1>1, <3>1, StepFacts DEF Forget
    <3>3. seen_ha /\ ha_heard
      BY <1>1, <3>1, <3>2, StepFacts DEF Entry, haVars
    <3>4. silence <= overdue
      BY <3>3 DEF SilenceCovered
    <3>5. QED
      BY <1>1, <2>1, <3>3, <3>4, StepFacts, AddSatMonotone DEF SilenceType
  <2>5. HaIsAlive'
    <3>1. SUFFICES ASSUME state' = "HA" PROVE silence' < cfg.watchdog
      BY DEF HaIsAlive
    <3>2. seen_ha' /\ overdue' < cfg.watchdog
      <4>1. ~(overdue' >= cfg.watchdog) /\ seen_ha'
        BY <1>1, <3>1, StepFacts DEF Ladder, Expired
      <4>2. overdue' \in 0..AgeMax
        BY <1>1, StepType DEF TypeOK, AgeType
      <4>3. cfg.watchdog \in Nat
        BY ConfigsAssumption DEF ConfigType
      <4>4. QED
        BY <4>1, <4>2, <4>3
    <3>3. ha_heard'
      BY <1>1, <3>1, <3>2, StepFacts DEF Ladder, Expired
    <3>4. silence' <= overdue'
      BY <2>4, <3>2, <3>3 DEF SilenceCovered
    <3>5. overdue' \in Nat /\ silence' \in Nat /\ cfg.watchdog \in Nat
      BY <1>1, <2>2, StepType, ConfigsAssumption DEF TypeOK, AgeType, SilenceType, ConfigType
    <3>6. QED
      BY <3>2, <3>4, <3>5
  <2>6. FailsafeHeld'
    BY <1>1, StepFacts DEF FailsafeHeld, Ladder, Owned
  <2>7. QED
    BY <2>2, <2>3, <2>4, <2>5, <2>6
<1>2. ASSUME NEW cfg \in Configs, NEW v \in {0, 1}, HaChEnable(cfg, v), silence' = 0,
             released' = (released \/ Releases)
      PROVE  OwnershipInv' /\ SilenceType'
  BY <1>2, BoundFacts, ConfigsAssumption
  DEF HaChEnable, Heard, edgeVars, fsVars, boostVars, SilenceType, BoostIsLocal,
      SilenceCovered, HaIsAlive, FailsafeHeld, Owned, Releases, ConfigType, TypeOK, FlagType
<1>3. ASSUME NEW cfg \in Configs, NEW v \in HaSetpoints, HaChSetpoint(cfg, v), silence' = 0,
             UNCHANGED released
      PROVE  OwnershipInv' /\ SilenceType'
  BY <1>3, BoundFacts, ConfigsAssumption
  DEF HaChSetpoint, Heard, edgeVars, fsVars, boostVars, SilenceType, BoostIsLocal,
      SilenceCovered, HaIsAlive, FailsafeHeld, Owned, ConfigType
<1>4. ASSUME NEW cfg \in Configs, NEW o \in Origins, NEW v \in DhwCommands,
             DhwSetpoint(cfg, o, v), UNCHANGED history
      PROVE  OwnershipInv' /\ SilenceType'
  BY <1>4 DEF DhwSetpoint, edgeVars, haVars, boostVars, history, SilenceType, BoostIsLocal,
     SilenceCovered, HaIsAlive, FailsafeHeld, Owned
<1>5. ASSUME \/ \E cfg \in Configs, b \in BoostRequests, late \in Lates : BoostStart(cfg, b[1], b[2], late)
             \/ BoostCancel,
             UNCHANGED history
      PROVE  OwnershipInv' /\ SilenceType'
  BY <1>5 DEF BoostStart, BoostAllowed, BoostCancel, edgeVars, haVars, history, SilenceType,
     BoostIsLocal, SilenceCovered, HaIsAlive, FailsafeHeld, Owned
<1>6. CASE UNCHANGED hvars
  BY <1>6 DEF hvars, vars, edgeVars, haVars, boostVars, history, SilenceType, BoostIsLocal,
     SilenceCovered, HaIsAlive, FailsafeHeld, Owned
<1>7. QED
  BY <1>1, <1>2, <1>3, <1>4, <1>5, <1>6
  DEF HNext, HStep, HHaChEnable, HHaChSetpoint, HDhwSetpoint, HBoost, history

\* OwnershipInv holds throughout, with the types it rests on.
THEOREM OwnershipCorrect == HSpec => [](OwnershipInv /\ SilenceType /\ TypeOK)
<1>1. HInit => OwnershipInv /\ SilenceType /\ TypeOK
  BY InitOwnership, InitType DEF HInit
<1>2. OwnershipInv /\ SilenceType /\ TypeOK /\ [HNext]_hvars
        => (OwnershipInv /\ SilenceType /\ TypeOK)'
  BY NextOwnership, HistoryRefines, NextType
<1>3. QED
  BY <1>1, <1>2, PTL DEF HSpec

\* The executor is in state "HA" only while HA's last word is younger than the
\* watchdog, whatever the mode, the season and the failsafe did in between.
THEOREM HaAlive == HSpec => []HaIsAlive
<1>1. OwnershipInv => HaIsAlive
  BY DEF OwnershipInv
<1>2. QED
  BY <1>1, OwnershipCorrect, PTL

\* A boost never outlives LOCAL ownership.
THEOREM BoostLocal == HSpec => []BoostIsLocal
<1>1. OwnershipInv => BoostIsLocal
  BY DEF OwnershipInv
<1>2. QED
  BY <1>1, OwnershipCorrect, PTL

\* Only a CH_ENABLE that HA sent with its source fresh ends a failsafe in HA's
\* favour.
THEOREM FailsafeReleased == HSpec => FailsafeNeedsRelease
<1>1. OwnershipInv /\ [HNext]_hvars
        => [state = "FAILSAFE" /\ state' = "HA" => released]_hvars
  <2> SUFFICES ASSUME OwnershipInv, HNext, state = "FAILSAFE", state' = "HA"
               PROVE  released
    OBVIOUS
  <2>1. ASSUME NEW cfg \in Configs, NEW in \in Inputs, NEW dt \in Dts, Step(cfg, in, dt)
        PROVE  ~fs_latched
    <3>1. ~LatchedAfterObserve(cfg) /\ (ha_heard' \/ Expired(cfg)) /\ ~Expired(cfg)
      BY <2>1, StepFacts DEF Ladder
    <3>2. CASE Entry(cfg)
      BY <2>1, <3>1, <3>2, StepFacts DEF Forget
    <3>3. CASE ~Entry(cfg)
      BY <3>1, <3>3 DEF LatchedAfterObserve
    <3>4. QED
      BY <3>2, <3>3
  <2>2. CASE HStep
    BY <2>1, <2>2 DEF HStep, OwnershipInv, FailsafeHeld
  <2>3. CASE ~HStep
    BY <2>3 DEF HNext, HHaChEnable, HHaChSetpoint, HDhwSetpoint, HBoost, HaChEnable,
       HaChSetpoint, DhwSetpoint, BoostStart, BoostCancel, edgeVars
  <2>4. QED
    BY <2>2, <2>3
<1>2. QED
  BY <1>1, OwnershipCorrect, PTL DEF HSpec, FailsafeNeedsRelease

-----------------------------------------------------------------------------
\* Nobody edits the watchdog while the device runs.
OneWatchdog == \A c1, c2 \in Configs : c1.watchdog = c2.watchdog

CurrentInv == LatchShows /\ SaidCurrent

\* At boot there is neither a command nor a latch.
LEMMA InitCurrent == HInit => CurrentInv
<1> SUFFICES ASSUME HInit PROVE CurrentInv
  OBVIOUS
<1>1. PICK cfg \in Configs, r \in Restores, at \in 0..(ClockMod - 1) : InitWith(cfg, r, at)
  BY DEF HInit, Init
<1>2. fs_latched = FALSE /\ ha_ch_enable = FALSE /\ ha_setpoint = cfg.failsafe_setpoint
  BY <1>1 DEF InitWith
<1>3. said_sp = None
  BY DEF HInit
<1>4. LatchShows
  BY <1>2 DEF LatchShows
<1>5. SaidCurrent
  BY <1>2, <1>3 DEF SaidCurrent
<1>6. QED
  BY <1>4, <1>5 DEF CurrentInv

\* The inductive step: a step, then each command.
LEMMA NextCurrent ==
  ASSUME OneWatchdog, CurrentInv, OwnershipInv, TypeOK, HNext
  PROVE  CurrentInv'
<1>1. overdue \in 0..AgeMax
  BY DEF TypeOK, AgeType
<1>2. ASSUME NEW cfg \in Configs, NEW in \in Inputs, NEW dt \in Dts, Step(cfg, in, dt),
             IF Owned /\ Owned' THEN UNCHANGED <<said_on, said_sp>>
                                ELSE said_on' = FALSE /\ said_sp' = None
      PROVE  CurrentInv'
  <2>1. Owned' /\ ~Owned => Entry(cfg)
    BY <1>2, StepFacts DEF Owned, Entry
  <2>2. Owned => ~Entry(cfg)
    BY DEF Owned, Entry
  <2>3. SaidCurrent'
    <3>1. CASE Owned
      BY <1>2, <2>2, <3>1, StepFacts DEF CurrentInv, SaidCurrent, haVars
    <3>2. CASE ~Owned
      BY <1>2, <2>1, <3>2, StepFacts DEF SaidCurrent, Forget
    <3>3. QED
      BY <3>1, <3>2
  <2>4. Expired(cfg) => Overran'
    BY DEF OneWatchdog, Expired, Overran
  <2>5. Owned /\ Overran => Expired(cfg)
    <3>1. SUFFICES ASSUME Owned, Overran PROVE overdue' >= cfg.watchdog
      BY DEF Expired
    <3>2. overdue' = AddSat(overdue, dt) /\ overdue >= cfg.watchdog
      BY <1>2, <3>1, StepFacts DEF Owned, Overran
    <3>3. overdue <= AddSat(overdue, dt) /\ AddSat(overdue, dt) \in 0..AgeMax
      BY <1>1, AddSatMonotone, AddSatType, InputsAssumption
    <3>4. cfg.watchdog \in Nat
      BY ConfigsAssumption DEF ConfigType
    <3>5. QED
      BY <1>1, <3>2, <3>3, <3>4
  <2>6. LatchShows'
    <3>1. SUFFICES ASSUME Owned', fs_latched'
                   PROVE  state' = "FAILSAFE" /\ (ha_heard' \/ Overran')
      BY DEF LatchShows
    <3>2. state' = "FAILSAFE" => ha_heard' \/ Overran'
      BY <1>2, <2>4, StepFacts DEF Ladder
    <3>3. ASSUME state' # "FAILSAFE" PROVE FALSE
      <4>1. LatchedAfterObserve(cfg)
        BY <1>2, <3>1, <3>3, StepFacts
      <4>2. Owned /\ fs_latched /\ ~Entry(cfg)
        BY <2>1, <3>1, <4>1 DEF LatchedAfterObserve
      <4>3. ha_heard' \/ Expired(cfg)
        BY <1>2, <2>5, <4>2, StepFacts DEF CurrentInv, LatchShows, haVars
      <4>4. state' = "FAILSAFE"
        BY <1>2, <3>1, <4>1, <4>3, StepFacts DEF Ladder, Owned
      <4>5. QED
        BY <3>3, <4>4
    <3>4. QED
      BY <3>2, <3>3
  <2>7. QED
    BY <2>3, <2>6 DEF CurrentInv
<1>3. ASSUME NEW cfg \in Configs, NEW v \in {0, 1}, HaChEnable(cfg, v), said_on' = (v = 1),
             said_sp' = IF Releases /\ ~released THEN None ELSE said_sp
      PROVE  CurrentInv'
  <2>1. LatchShows'
    BY <1>3 DEF HaChEnable, Heard, edgeVars, CurrentInv, LatchShows, Owned
  <2>2. Owned => ((Releases /\ ~released) <=> (fs_latched /\ ~blind))
    BY DEF CurrentInv, LatchShows, OwnershipInv, FailsafeHeld, Releases
  <2>3. SaidCurrent'
    BY <1>3, <2>2 DEF HaChEnable, edgeVars, CurrentInv, SaidCurrent, Owned
  <2>4. QED
    BY <2>1, <2>3 DEF CurrentInv
<1>4. ASSUME NEW cfg \in Configs, NEW v \in HaSetpoints, HaChSetpoint(cfg, v),
             said_sp' = Bound(cfg, v), UNCHANGED said_on
      PROVE  CurrentInv'
  <2>1. Bound(cfg, v) # None
    BY InputsAssumption, BoundType DEF None
  <2>2. QED
    BY <1>4, <2>1 DEF HaChSetpoint, Heard, edgeVars, CurrentInv, LatchShows, SaidCurrent, Owned
<1>5. ASSUME NEW cfg \in Configs, NEW o \in Origins, NEW v \in DhwCommands,
             DhwSetpoint(cfg, o, v), UNCHANGED history
      PROVE  CurrentInv'
  BY <1>5 DEF DhwSetpoint, edgeVars, haVars, history, CurrentInv, LatchShows, Overran,
     SaidCurrent, Owned
<1>6. ASSUME \/ \E cfg \in Configs, b \in BoostRequests, late \in Lates : BoostStart(cfg, b[1], b[2], late)
             \/ BoostCancel,
             UNCHANGED history
      PROVE  CurrentInv'
  BY <1>6 DEF BoostStart, BoostCancel, edgeVars, haVars, history, CurrentInv, LatchShows,
     Overran, SaidCurrent, Owned
<1>7. QED
  BY <1>2, <1>3, <1>4, <1>5, <1>6
  DEF HNext, HStep, HHaChEnable, HHaChSetpoint, HDhwSetpoint, HBoost

\* With a watchdog that stays put CurrentInv is an invariant too.
LEMMA CurrentCorrect == OneWatchdog => (HSpec => [](CurrentInv /\ OwnershipInv))
<1> SUFFICES ASSUME OneWatchdog PROVE HSpec => [](CurrentInv /\ OwnershipInv)
  OBVIOUS
<1>1. HInit => CurrentInv
  BY InitCurrent
<1>2. CurrentInv /\ OwnershipInv /\ TypeOK /\ [HNext]_hvars => CurrentInv'
  <2>1. CASE HNext
    BY <2>1, NextCurrent
  <2>2. CASE UNCHANGED hvars
    BY <2>2 DEF hvars, vars, edgeVars, haVars, history, CurrentInv, LatchShows, Overran,
       SaidCurrent, Owned
  <2>3. QED
    BY <2>1, <2>2
<1>3. QED
  BY <1>1, <1>2, OwnershipCorrect, PTL DEF HSpec

\* Then nothing HA said before it took over, or before a failsafe was released,
\* is ever followed.
THEOREM CommandCurrent == OneWatchdog => (HSpec => []CommandIsCurrent)
<1>1. CurrentInv /\ OwnershipInv => CommandIsCurrent
  BY DEF CurrentInv, SaidCurrent, OwnershipInv, FailsafeHeld, CommandIsCurrent
<1>2. QED
  BY <1>1, CurrentCorrect, PTL

\* Likewise a latched failsafe never falls back to waiting for HA.
THEOREM LatchNeverWaits == OneWatchdog => (HSpec => []LatchedNeverWaits)
<1>1. CurrentInv /\ OwnershipInv => LatchedNeverWaits
  BY DEF CurrentInv, LatchShows, OwnershipInv, FailsafeHeld, LatchedNeverWaits
<1>2. QED
  BY <1>1, CurrentCorrect, PTL
-----------------------------------------------------------------------------
(* What a person asks for.  The tries counted by the code cover the writes  *)
(* that really went out, and a command not yet carried out is still marked  *)
(* as one that reopens its target.                                          *)

\* Every step of the history specification is a step of the executor.
LEMMA RequestsRefine == [QNext]_qvars => [Next]_vars
BY DEF QNext, QStep, QDhwSetpoint, QBoostStart, QBoostCancel, qvars, Next

\* The fields keep their types whatever the history variables record.
LEMMA TypeCorrectQ == QSpec => []TypeOK
<1>1. QInit => TypeOK
  BY InitType DEF QInit
<1>2. TypeOK /\ [QNext]_qvars => TypeOK'
  BY RequestsRefine, NextType
<1>3. QED
  BY <1>1, <1>2, PTL DEF QSpec

\* No more writes than tries; a command that reopens the target has just
\* started both afresh.
WritesCounted ==
  /\ writes \in Nat /\ writes <= dhw_tries
  /\ dhw_reopen /\ dhw_reopen_dc = dhw_target => writes = 0

\* A command that is owed is one the executor still means to carry out.
OwedReopens ==
  /\ owed \in Nat \cup {None}
  /\ owed # None => owed > 0 /\ dhw_reopen /\ dhw_reopen_dc = owed

RequestInv == WritesCounted /\ OwedReopens

\* At a step at which the store holds the commanded value the command is done.
LEMMA OwedIsPaid ==
  ASSUME OwedReopens, NEW cfg \in Configs, NEW in \in Inputs, NEW dt \in Dts,
         Step(cfg, in, dt), owed # None, cfg.dhw_setpoint = owed
  PROVE  send_dhw' \/ Agrees(cfg, in)
<1>1. DhwReopened(cfg) /\ cfg.dhw_setpoint # 0
  BY DEF OwedReopens, DhwReopened
<1>2. DhwRenewed(cfg) /\ DhwArmed(cfg)
  BY <1>1 DEF DhwRenewed, DhwArmed
<1>3. DhwTries(cfg) < DhwMaxTries /\ DhwAge(cfg, dt) >= DhwRetryMs
  BY <1>2, BoundsAssumption DEF DhwTries, DhwAge
<1>4. DhwAgrees(cfg, in.readback) <=> Agrees(cfg, in)
  BY DEF DhwAgrees, Agrees
<1>5. send_dhw' = DhwDue(cfg, in.readback, dt)
  BY <1>1 DEF Step, DhwStep, DhwReconcile
<1>6. QED
  BY <1>2, <1>3, <1>4, <1>5 DEF DhwDue

\* The inductive step for one step of the thermostat task.
LEMMA StepRequests ==
  ASSUME RequestInv, TypeOK, NEW cfg \in Configs, NEW in \in Inputs, NEW dt \in Dts,
         Step(cfg, in, dt),
         owed' = IF cfg.dhw_setpoint = owed /\ (send_dhw' \/ Agrees(cfg, in)) THEN None ELSE owed,
         writes' = LET before == IF dhw_target' # dhw_target \/ Agrees(cfg, in) THEN 0 ELSE writes
                   IN  IF send_dhw' THEN before + 1 ELSE before
  PROVE  RequestInv'
<1>1. DhwStep(cfg, in.readback, dt)
  BY DEF Step
<1>2. DhwAgrees(cfg, in.readback) <=> Agrees(cfg, in)
  BY DEF DhwAgrees, Agrees
<1>3. writes \in Nat /\ dhw_tries \in Nat /\ writes <= dhw_tries
  BY DEF RequestInv, WritesCounted, TypeOK, DialType
<1>4. WritesCounted'
  <2>1. CASE cfg.dhw_setpoint = 0
    BY <1>1, <1>3, <2>1 DEF DhwStep, reopenVars, RequestInv, WritesCounted
  <2>2. CASE cfg.dhw_setpoint # 0
    <3>1. DhwReconcile(cfg, in.readback, dt)
      BY <1>1, <2>2 DEF DhwStep
    <3>2. ~(dhw_reopen' /\ dhw_reopen_dc' = dhw_target')
      BY <3>1 DEF DhwReconcile, DhwReopened
    <3>3. CASE Agrees(cfg, in)
      BY <1>2, <3>1, <3>2, <3>3 DEF DhwReconcile, DhwDue, WritesCounted
    <3>4. CASE ~Agrees(cfg, in)
      <4>1. PICK before \in Nat : /\ before = IF dhw_target' # dhw_target THEN 0 ELSE writes
                                  /\ writes' = IF send_dhw' THEN before + 1 ELSE before
        BY <1>3, <3>4
      <4>2. before <= DhwTries(cfg) /\ DhwTries(cfg) \in Nat
        BY <1>3, <3>1, <4>1
        DEF DhwTries, DhwRenewed, DhwReopened, DhwReconcile, RequestInv, WritesCounted
      <4>3. dhw_tries' = IF send_dhw' THEN DhwTries(cfg) + 1 ELSE DhwTries(cfg)
        BY <1>2, <3>1, <3>4 DEF DhwReconcile
      <4>4. QED
        BY <3>2, <4>1, <4>2, <4>3 DEF WritesCounted
    <3>5. QED
      BY <3>3, <3>4
  <2>3. QED
    BY <2>1, <2>2
<1>5. OwedReopens'
  <2>1. owed' \in Nat \cup {None}
    BY DEF RequestInv, OwedReopens
  <2>2. SUFFICES ASSUME owed' # None
                 PROVE  owed' > 0 /\ dhw_reopen' /\ dhw_reopen_dc' = owed'
    BY <2>1 DEF OwedReopens
  <2>3. owed' = owed /\ owed > 0 /\ dhw_reopen /\ dhw_reopen_dc = owed
    BY <2>2 DEF RequestInv, OwedReopens
  <2>4. cfg.dhw_setpoint # owed
    BY <2>2, <2>3, OwedIsPaid DEF RequestInv
  <2>5. dhw_reopen' /\ dhw_reopen_dc' = dhw_reopen_dc
    BY <1>1, <2>3, <2>4 DEF DhwStep, DhwReconcile, DhwReopened, reopenVars
  <2>6. QED
    BY <2>3, <2>5
<1>6. QED
  BY <1>4, <1>5 DEF RequestInv

\* A command starts the tries of its target afresh, and the boost touches none
\* of it.
LEMMA NextRequests == RequestInv /\ TypeOK /\ [QNext]_qvars => RequestInv'
<1> SUFFICES ASSUME RequestInv, TypeOK, [QNext]_qvars PROVE RequestInv'
  OBVIOUS
<1>1. CASE QStep
  BY <1>1, StepRequests DEF QStep
<1>2. CASE QDhwSetpoint
  <2>1. PICK cfg \in Configs, o \in Origins, v \in DhwCommands :
          DhwSetpoint(cfg, o, v) /\ owed' = v /\ writes' = 0
    BY <1>2 DEF QDhwSetpoint
  <2>2. v \in Nat /\ v > 0
    BY <2>1, InputsAssumption DEF DhwSetpoint, Accepts, ValueOk
  <2>3. dhw_tries \in Nat /\ dhw_tries' = dhw_tries
    BY <2>1 DEF DhwSetpoint, tryVars, TypeOK, DialType
  <2>4. QED
    BY <2>1, <2>2, <2>3 DEF DhwSetpoint, RequestInv, WritesCounted, OwedReopens
<1>3. CASE QBoostStart \/ QBoostCancel \/ UNCHANGED qvars
  BY <1>3 DEF QBoostStart, QBoostCancel, BoostStart, BoostCancel, qvars, vars, dhwHistory,
     tryVars, reopenVars, RequestInv, WritesCounted, OwedReopens
<1>4. QED
  BY <1>1, <1>2, <1>3 DEF QNext

\* RequestInv holds throughout, with the types it rests on.
LEMMA RequestsCorrect == QSpec => [](RequestInv /\ TypeOK)
<1>1. QInit => RequestInv
  BY DEF QInit, Init, InitWith, RequestInv, WritesCounted, OwedReopens, None
<1>2. QED
  BY <1>1, NextRequests, TypeCorrectQ, PTL DEF QSpec

\* A boiler that never agrees is written at most DHW_MAX_TRIES times for one
\* target, however commands, snapshots and readbacks interleave.
THEOREM WritesBounded == QSpec => []DhwWritesBounded
<1>1. RequestInv /\ TypeOK => DhwWritesBounded
  BY BoundFacts DEF RequestInv, WritesCounted, TypeOK, DialType, DhwWritesBounded
<1>2. QED
  BY <1>1, RequestsCorrect, PTL

\* A DHW command is carried out at the step at which the store first holds its
\* value, however often that value was given up on before.
THEOREM CommandsCarriedOut == QSpec => DhwCommandCarriedOut
<1>1. RequestInv /\ [QNext]_qvars
        => [Stepped /\ owed # None /\ stored' = owed => owed' = None]_qvars
  <2> SUFFICES ASSUME RequestInv, QNext, Stepped, owed # None, stored' = owed
               PROVE  owed' = None
    OBVIOUS
  <2>1. CASE QStep
    BY <2>1, OwedIsPaid DEF QStep, RequestInv
  <2>2. CASE ~QStep
    BY <2>2 DEF QNext, QDhwSetpoint, QBoostStart, QBoostCancel, DhwSetpoint, BoostStart,
       BoostCancel, edgeVars, Stepped
  <2>3. QED
    BY <2>1, <2>2
<1>2. QED
  BY <1>1, RequestsCorrect, PTL DEF QSpec, DhwCommandCarriedOut

-----------------------------------------------------------------------------
(* The boost's deadline on a clock that wraps.                              *)

\* On a dial of b an offset of at most one turn is taken back.
LEMMA ModShift ==
  ASSUME NEW b \in Nat, b >= 1, NEW a \in 0..(b - 1), NEW x \in Int,
         x = a \/ x = a + b \/ x = a - b
  PROVE  x % b = a
OBVIOUS

\* While a boost runs the deadline is that much real time ahead of the clock,
\* around the wrap or not, and less than half a turn of it.
BoostClock ==
  /\ boost_left \in Nat
  /\ boost_active =>
       /\ boost_left > 0 /\ 2 * boost_left < ClockMod
       /\ boost_expires = now + boost_left \/ boost_expires = now + boost_left - ClockMod
  /\ ~boost_active => boost_left = 0

\* The deadline is reached exactly when no real time is left.
LEMMA DeadlineReached ==
  ASSUME BoostClock, TypeOK, boost_active, NEW dt \in Dts, now' = (now + dt) % ClockMod
  PROVE  /\ Reached(now', boost_expires) <=> boost_left <= dt
         /\ now' = now + dt \/ now' = now + dt - ClockMod
<1> DEFINE M == ClockMod
<1> DEFINE d == now' - boost_expires
<1>1. /\ M \in Nat /\ M >= 2 /\ dt \in Nat /\ dt >= 1 /\ dt <= M \div 2
      /\ now \in 0..(M - 1) /\ boost_expires \in 0..(M - 1)
      /\ boost_left \in Nat /\ boost_left > 0 /\ 2 * boost_left < M
  BY BoundsAssumption, InputsAssumption, TimelyStepAssumption DEF BoostClock, TypeOK, DialType
<1>2. 2 * (M \div 2) <= M /\ M < 2 * (M \div 2) + 2 /\ M \div 2 \in Nat
  BY <1>1
<1>3. now' = now + dt \/ now' = now + dt - M
  <2>1. CASE now + dt < M
    BY <1>1, <2>1, ModShift
  <2>2. CASE now + dt >= M
    BY <1>1, <1>2, <2>2, ModShift
  <2>3. QED
    BY <1>1, <2>1, <2>2
<1>4. now' \in 0..(M - 1)
  BY <1>1, ModType
<1>5. boost_expires = now + boost_left \/ boost_expires = now + boost_left - M
  BY DEF BoostClock
<1>6. d \in Int /\ (d = dt - boost_left \/ d = dt - boost_left + M \/ d = dt - boost_left - M)
  BY <1>1, <1>3, <1>5
<1>7. CASE boost_left <= dt
  <2>1. dt - boost_left \in 0..(M - 1) /\ dt - boost_left < M \div 2
    BY <1>1, <1>2, <1>7
  <2>2. PICK a \in 0..(M - 1) : a = dt - boost_left
    BY <2>1
  <2>3. PICK x \in Int : x = d
    BY <1>6
  <2>4. d % M = a
    <3>1. x = a \/ x = a + M \/ x = a - M
      BY <1>1, <1>6, <2>2, <2>3
    <3>2. x % M = a
      BY <1>1, <3>1, ModShift
    <3>3. QED
      BY <2>3, <3>2
  <2>5. QED
    BY <1>3, <1>7, <2>1, <2>2, <2>4 DEF Reached
<1>8. CASE boost_left > dt
  <2>1. dt - boost_left + M \in 0..(M - 1) /\ ~(dt - boost_left + M < M \div 2)
    BY <1>1, <1>2, <1>8
  <2>2. d > -M /\ d < M
    BY <1>1, <1>4
  <2>3. d = dt - boost_left + M \/ d = dt - boost_left
    BY <1>1, <1>6, <1>8, <2>2
  <2>4. d % M = dt - boost_left + M
    BY <1>1, <2>1, <2>3, ModShift
  <2>5. ~Reached(now', boost_expires)
    BY <2>1, <2>4 DEF Reached
  <2>6. QED
    BY <1>1, <1>3, <1>8, <2>5
<1>9. QED
  BY <1>1, <1>7, <1>8

\* The inductive step: time passes, a boost starts, anything else.
LEMMA NextBoost == BoostClock /\ TypeOK /\ [QNext]_qvars => BoostClock'
<1> SUFFICES ASSUME BoostClock, TypeOK, [QNext]_qvars PROVE BoostClock'
  OBVIOUS
<1>1. ASSUME NEW cfg \in Configs, NEW in \in Inputs, NEW dt \in Dts, Step(cfg, in, dt),
             boost_left' = IF seen_ha' # seen_ha \/ boost_left <= dt THEN 0 ELSE boost_left - dt
      PROVE  BoostClock'
  <2>1. BoostEnds(cfg) /\ now' = (now + dt) % ClockMod /\ seen_ha' = (cfg.mode = "HA")
    BY <1>1 DEF Step, Observe
  <2>2. /\ dt \in Nat /\ dt >= 1 /\ boost_left \in Nat /\ boost_left' \in Nat
        /\ ClockMod \in Nat /\ now \in Int
    BY <1>1, InputsAssumption, BoundFacts DEF BoostClock, TypeOK, DialType
  <2>3. seen_ha \in BOOLEAN /\ boost_active \in BOOLEAN
    BY DEF TypeOK, FlagType
  <2>4. CASE ~boost_active
    <3>1. ~boost_active' /\ boost_left' = 0
      BY <1>1, <2>1, <2>2, <2>4 DEF BoostEnds, boostVars, BoostClock
    <3>2. QED
      BY <3>1 DEF BoostClock
  <2>5. CASE boost_active /\ (seen_ha' # seen_ha \/ boost_left <= dt)
    <3>1. seen_ha # (cfg.mode = "HA") \/ Reached(now', boost_expires)
      BY <2>1, <2>5, DeadlineReached
    <3>2. ~boost_active' /\ boost_left' = 0
      BY <1>1, <2>1, <2>5, <3>1 DEF BoostEnds
    <3>3. QED
      BY <3>2 DEF BoostClock
  <2>6. CASE boost_active /\ seen_ha' = seen_ha /\ ~(boost_left <= dt)
    <3>1. ~(seen_ha # (cfg.mode = "HA")) /\ ~Reached(now', boost_expires)
      BY <2>1, <2>6, DeadlineReached
    <3>2. boost_active' /\ boost_expires' = boost_expires /\ boost_left' = boost_left - dt
      BY <1>1, <2>1, <2>6, <3>1 DEF BoostEnds, boostVars
    <3>3. now' = now + dt \/ now' = now + dt - ClockMod
      BY <2>1, <2>6, DeadlineReached
    <3>4. /\ boost_left > 0 /\ 2 * boost_left < ClockMod
          /\ boost_expires = now + boost_left \/ boost_expires = now + boost_left - ClockMod
      BY <2>6 DEF BoostClock
    <3>5. now' \in 0..(ClockMod - 1) /\ boost_expires \in 0..(ClockMod - 1)
      BY <1>1, StepType DEF TypeOK, DialType
    <3>6. boost_left' > 0 /\ 2 * boost_left' < ClockMod
      BY <2>2, <2>6, <3>2, <3>4
    <3>7. \/ boost_expires = now' + (boost_left - dt)
          \/ boost_expires = now' + (boost_left - dt) - ClockMod
      <4>1. now' \in Int /\ boost_expires \in Int
        BY <2>2, <3>5
      <4>2. boost_left > dt
        BY <2>2, <2>6
      <4>3. CASE now' = now + dt
        BY <2>2, <3>4, <4>3
      <4>4. CASE now' = now + dt - ClockMod
        <5>1. now' + (boost_left - dt) = now + boost_left - ClockMod
          BY <2>2, <4>4
        <5>2. boost_expires = now + boost_left - ClockMod
          BY <2>2, <3>4, <3>5, <4>2, <4>4
        <5>3. QED
          BY <5>1, <5>2
      <4>5. QED
        BY <3>3, <4>3, <4>4
    <3>8. QED
      BY <2>2, <3>2, <3>6, <3>7 DEF BoostClock
  <2>7. QED
    BY <2>3, <2>4, <2>5, <2>6
<1>2. ASSUME NEW cfg \in Configs, NEW b \in BoostRequests, NEW late \in Lates,
             BoostStart(cfg, b[1], b[2], late), boost_left' = late + b[2]
      PROVE  BoostClock'
  <2>1. /\ late \in Nat /\ b[2] \in Nat /\ b[2] > 0 /\ b[2] <= BoostMax
        /\ BoostMax \in Nat /\ ClockMod \in Nat /\ ClockMod > 2 * (BoostMax + late)
        /\ now \in 0..(ClockMod - 1)
    BY <1>2, InputsAssumption, BoundsAssumption DEF BoostStart, BoostAllowed, TypeOK, DialType
  <2>2. boost_left' \in Nat /\ boost_left' > 0 /\ 2 * boost_left' < ClockMod
    BY <1>2, <2>1
  <2>3. boost_active' /\ now' = now /\ boost_expires' = (now + late + b[2]) % ClockMod
    BY <1>2 DEF BoostStart, edgeVars
  <2>4. (now + late + b[2]) % ClockMod \in {now + late + b[2], now + late + b[2] - ClockMod}
    <3>1. CASE now + late + b[2] < ClockMod
      BY <2>1, <3>1, ModShift
    <3>2. CASE now + late + b[2] >= ClockMod
      <4>1. PICK a \in 0..(ClockMod - 1) : a = now + late + b[2] - ClockMod
        BY <2>1, <3>2
      <4>2. now + late + b[2] \in Int /\ now + late + b[2] = a + ClockMod
        BY <2>1, <4>1
      <4>3. QED
        BY <2>1, <4>1, <4>2, ModShift
    <3>3. QED
      BY <2>1, <3>1, <3>2
  <2>5. QED
    BY <1>2, <2>1, <2>2, <2>3, <2>4 DEF BoostClock
<1>3. CASE QDhwSetpoint \/ QBoostCancel \/ UNCHANGED qvars
  BY <1>3 DEF QDhwSetpoint, DhwSetpoint, QBoostCancel, BoostCancel, qvars, vars, edgeVars,
     boostVars, BoostClock
<1>4. QED
  BY <1>1, <1>2, <1>3 DEF QNext, QStep, QBoostStart

\* A boost runs exactly while real time is left of it, wherever the millisecond
\* clock wraps.
THEOREM BoostsOnTime == QSpec => []BoostOnTime
<1>1. QInit => BoostClock
  BY DEF QInit, Init, InitWith, BoostClock
<1>2. BoostClock /\ TypeOK => BoostOnTime
  BY DEF BoostClock, BoostOnTime
<1>3. QED
  BY <1>1, <1>2, NextBoost, TypeCorrectQ, PTL DEF QSpec

-----------------------------------------------------------------------------
(* When CH may rise, how often it may move, and when it must be up.         *)

\* Every step of the history specification is a step of the executor.
LEMMA BurnerRefines == [BNext]_bvars => [Next]_vars
BY DEF BNext, BStep, BHaChEnable, BHaChSetpoint, bvars, Next

\* The fields keep their types whatever the history variables record.
LEMMA TypeCorrectB == BSpec => []TypeOK
<1>1. BInit => TypeOK
  BY InitType DEF BInit
<1>2. TypeOK /\ [BNext]_bvars => TypeOK'
  BY BurnerRefines, NextType
<1>3. QED
  BY <1>1, <1>2, PTL DEF BSpec

\* "confirmed" says what it means, and the bit's age is that of the real bit.
BitInv ==
  /\ confirmed <=> wire = held
  /\ bit_age = ch_age

\* Only the task's step moves the bit, its age and what was confirmed.
LEMMA NextBit == BitInv /\ TypeOK /\ [BNext]_bvars => BitInv'
<1> SUFFICES ASSUME BitInv, TypeOK, [BNext]_bvars PROVE BitInv'
  OBVIOUS
<1>1. CASE BStep
  <2>1. PICK cfg \in Configs, in \in Inputs, dt \in Dts :
          /\ Step(cfg, in, dt)
          /\ wire' = IF in.report # None THEN in.report
                     ELSE IF held' = held THEN wire ELSE None
          /\ bit_age' = IF ch_out' # ch_out THEN 0 ELSE AddSat(bit_age, dt)
    BY <1>1 DEF BStep
  <2>2. held' # None
    <3>1. TypeOK'
      BY <2>1, StepType
    <3>2. held' \in Nat
      BY <3>1 DEF TypeOK, TemperatureType
    <3>3. QED
      BY <3>2 DEF None
  <2>3. confirmed' = IF in.report # None THEN in.report = held' ELSE confirmed /\ held' = held
    BY <2>1 DEF Step, HoldSetpoint
  <2>4. (confirmed <=> wire = held)'
    BY <2>1, <2>2, <2>3, Zenon DEF BitInv
  <2>5. bit_age' = ch_age'
    BY <2>1 DEF Step, DriveCh, BitInv
  <2>6. QED
    BY <2>4, <2>5 DEF BitInv
<1>2. CASE BHaChEnable \/ BHaChSetpoint \/ UNCHANGED bvars
  BY <1>2 DEF BHaChEnable, BHaChSetpoint, HaChEnable, HaChSetpoint, bvars, vars,
     burnerHistory, heldVars, BitInv
<1>3. QED
  BY <1>1, <1>2 DEF BNext

\* BitInv holds throughout, with the types.
LEMMA BitCorrect == BSpec => [](BitInv /\ TypeOK)
<1>1. BInit => BitInv
  <2> SUFFICES ASSUME BInit PROVE BitInv
    OBVIOUS
  <2>1. held \in Nat
    BY InitType DEF BInit, TypeOK, TemperatureType
  <2>2. ~confirmed /\ wire = None /\ bit_age = ch_age
    BY DEF BInit, Init, InitWith
  <2>3. QED
    BY <2>1, <2>2 DEF BitInv, None
<1>2. QED
  BY <1>1, NextBit, TypeCorrectB, PTL DEF BSpec

\* CH never rises on a setpoint the boiler does not have: the bus carried it since
\* it was taken.
THEOREM RisesAreCarried == BSpec => RiseIsCarried
<1>1. BitInv /\ TypeOK /\ [BNext]_bvars => [~ch_out /\ ch_out' => wire' = held']_bvars
  <2> SUFFICES ASSUME BitInv, TypeOK, BNext, ~ch_out, ch_out' PROVE wire' = held'
    OBVIOUS
  <2>1. BitInv'
    BY NextBit
  <2>2. CASE BStep
    <3>1. PICK cfg \in Configs, in \in Inputs, dt \in Dts : DriveCh(Want(cfg, in.room, dt), dt)
      BY <2>2 DEF BStep, Step
    <3>2. confirmed'
      BY <3>1 DEF DriveCh, AwaitsSetpoint
    <3>3. QED
      BY <2>1, <3>2 DEF BitInv
  <2>3. CASE ~BStep
    BY <2>3 DEF BNext, BHaChEnable, BHaChSetpoint, HaChEnable, HaChSetpoint, heldVars
  <2>4. QED
    BY <2>2, <2>3
<1>2. QED
  BY <1>1, BitCorrect, PTL DEF BSpec, RiseIsCarried

\* The clock tells how long a step took: no step is late by a whole turn.
LEMMA ElapsedIs ==
  ASSUME TypeOK, NEW cfg \in Configs, NEW in \in Inputs, NEW dt \in Dts, Step(cfg, in, dt)
  PROVE  Elapsed = dt
<1>1. /\ dt \in 0..(ClockMod - 1) /\ now \in 0..(ClockMod - 1) /\ ClockMod \in Nat
      /\ ClockMod >= 1
  BY LateStepAssumption, InputsAssumption, BoundFacts DEF TypeOK, DialType
<1>2. now' = (now + dt) % ClockMod
  BY DEF Step
<1>3. now' = now + dt \/ now' = now + dt - ClockMod
  <2>1. CASE now + dt < ClockMod
    BY <1>1, <1>2, <2>1, ModShift
  <2>2. CASE now + dt >= ClockMod
    <3>1. PICK a \in 0..(ClockMod - 1) : a = now + dt - ClockMod
      BY <1>1, <2>2
    <3>2. now + dt \in Int /\ now + dt = a + ClockMod
      BY <1>1, <3>1
    <3>3. QED
      BY <1>1, <1>2, <3>1, <3>2, ModShift
  <2>3. QED
    BY <1>1, <2>1, <2>2
<1>4. PICK x \in Int : x = now' - now
  BY <1>1, <1>3
<1>5. x = dt \/ x = dt - ClockMod
  BY <1>1, <1>3, <1>4
<1>6. x % ClockMod = dt
  BY <1>1, <1>5, ModShift
<1>7. QED
  BY <1>4, <1>6 DEF Elapsed

\* The room hysteresis never moves the bit inside the minimum cycle.
THEOREM CyclesRespected == BSpec => CycleRespected
<1>1. BitInv /\ TypeOK /\ [BNext]_bvars
        => [ch_out' # ch_out /\ reason' \in {"FS_ROOM_COLD", "FS_ROOM_WARM"} => ~BitTooYoung]_bvars
  <2> SUFFICES ASSUME BitInv, TypeOK, BNext, ch_out' # ch_out,
                      reason' \in {"FS_ROOM_COLD", "FS_ROOM_WARM"}
               PROVE  ~BitTooYoung
    OBVIOUS
  <2>1. ASSUME NEW cfg \in Configs, NEW in \in Inputs, NEW dt \in Dts, Step(cfg, in, dt),
               given' = [cfg |-> cfg, room |-> in.room]
        PROVE  ~BitTooYoung
    <3>1. state' = "FAILSAFE" /\ ~TooSoon(cfg, in.room, dt) /\ in.room # "stale" /\ ~Disarmed(cfg)
          /\ ~AwaitsSetpoint(Want(cfg, in.room, dt))
      BY <2>1 DEF Step, ReasonNext, FsReason
    <3>2. ch_out' = FsVerdict(cfg, in.room)
      BY <2>1, <3>1 DEF Step, DriveCh, Want, FailsafeCh, FsVerdict
    <3>3. ~(AddSat(ch_age, dt) < cfg.min_cycle)
      BY <3>1, <3>2 DEF TooSoon
    <3>4. Elapsed = dt /\ bit_age = ch_age /\ given'.cfg = cfg
      BY <2>1, ElapsedIs DEF BitInv
    <3>5. QED
      BY <3>3, <3>4 DEF BitTooYoung
  <2>2. CASE BStep
    BY <2>1, <2>2 DEF BStep
  <2>3. CASE ~BStep
    BY <2>3 DEF BNext, BHaChEnable, BHaChSetpoint, HaChEnable, HaChSetpoint, heldVars
  <2>4. QED
    BY <2>2, <2>3
<1>2. QED
  BY <1>1, BitCorrect, PTL DEF BSpec, CycleRespected

\* Products keep the order.
LEMMA TimesMonotone ==
  ASSUME NEW a \in Nat, NEW b \in Nat, a <= b, NEW h \in Nat
  PROVE  a * h <= b * h
<1>1. PICK c \in Nat : b = a + c
  BY SMT
<1>2. b * h = a * h + c * h /\ c * h \in Nat
  BY <1>1
<1>3. a * h \in Nat /\ b * h \in Nat
  OBVIOUS
<1>4. QED
  BY <1>2, <1>3

\* A quotient and its remainder make up the whole.
LEMMA QuotientAndRemainder ==
  ASSUME NEW t \in Nat, NEW h \in Nat, h >= 1
  PROVE  t = (t \div h) * h + (t % h)
OBVIOUS

\* Counting whole hours, and no more of them than there are, invents no time.
LEMMA HoursAdvance ==
  ASSUME NEW h \in Nat, h >= 1, NEW n \in Nat, NEW t \in Nat, NEW n1 \in Nat, NEW m1 \in Nat,
         n1 <= n + (t \div h), m1 = t % h
  PROVE  n1 * h + m1 <= n * h + t
<1>1. PICK q \in Nat : q = t \div h
  BY DivType
<1>2. t = q * h + m1
  BY <1>1, QuotientAndRemainder
<1>3. PICK m \in Nat : m = n + q
  BY <1>1
<1>4. n1 * h <= m * h
  BY <1>1, <1>3, TimesMonotone
<1>5. m * h = n * h + q * h
  BY <1>3
<1>6. PICK a \in Nat, b \in Nat, c \in Nat : a = n1 * h /\ b = n * h /\ c = q * h
  OBVIOUS
<1>7. a <= b + c /\ t = c + m1
  BY <1>2, <1>4, <1>5, <1>6
<1>8. a + m1 <= b + t
  BY <1>7
<1>9. QED
  BY <1>6, <1>8

\* What is never counted early stays so while both clocks run on.
LEMMA IdleAdvance ==
  ASSUME NEW h \in Nat, NEW n \in Nat, NEW m \in Nat, NEW d \in Nat, NEW n1 \in Nat,
         NEW m1 \in Nat, NEW top \in Nat, NEW i \in Nat,
         n1 * h + m1 <= n * h + (m + d), i = top \/ i >= n * h + m,
         NEW i1, i1 = IF i + d > top THEN top ELSE i + d
  PROVE  i1 \in Nat /\ (i1 = top \/ i1 >= n1 * h + m1)
<1> DEFINE before == n * h
<1> DEFINE after == n1 * h
<1>1. /\ before \in Nat /\ after \in Nat /\ after + m1 <= before + (m + d)
      /\ i = top \/ i >= before + m
  OBVIOUS
<1>2. SUFFICES i1 \in Nat /\ (i1 = top \/ i1 >= after + m1)
  OBVIOUS
<1> HIDE DEF before, after
<1>3. QED
  BY <1>1

\* A limit within the bound is covered once as many hours are counted.
LEMMA IdleReached ==
  ASSUME NEW h \in Nat, NEW limit \in Nat, NEW n \in Nat, limit <= n, NEW m \in Nat,
         NEW top \in Nat, limit * h <= top, NEW i \in Nat, i = top \/ i >= n * h + m
  PROVE  i >= limit * h
<1> DEFINE need == limit * h
<1> DEFINE counted == n * h
<1>1. /\ need \in Nat /\ counted \in Nat /\ need <= top
      /\ i = top \/ i >= counted + m
  OBVIOUS
<1>2. need <= counted
  BY TimesMonotone
<1>3. SUFFICES i >= need
  OBVIOUS
<1> HIDE DEF need, counted
<1>4. QED
  BY <1>1, <1>2

\* The code's hour counter never runs ahead of the time since HA asked for heat.
IdleCovers == idle \in Nat /\ (idle = IdleMax \/ idle >= heat_hours * HourMs + hh_ms)

\* The inductive step.
LEMMA NextIdle == IdleCovers /\ TypeOK /\ [BNext]_bvars => IdleCovers'
<1> SUFFICES ASSUME IdleCovers, TypeOK, [BNext]_bvars PROVE IdleCovers'
  OBVIOUS
<1>1. /\ heat_hours \in Nat /\ hh_ms \in 0..(HourMs - 1) /\ HourMs \in Nat /\ HourMs >= 1
      /\ HoursMax \in Nat /\ IdleMax \in Nat /\ AgeMax \in Nat /\ idle \in Nat
  BY BoundFacts, IdleAssumption DEF TypeOK, DialType, IdleCovers
<1>2. ASSUME NEW cfg \in Configs, NEW in \in Inputs, NEW dt \in Dts, Step(cfg, in, dt),
             idle' = AddIdle(idle, dt)
      PROVE  IdleCovers'
  <2>1. dt \in Nat /\ HourMs - 1 + dt <= AgeMax
    BY InputsAssumption, LateStepAssumption
  <2>2. AddSat(hh_ms, dt) = hh_ms + dt
    BY <1>1, <2>1 DEF AddSat
  <2>3. hh_ms + dt \in Nat
    BY <1>1, <2>1
  <2>4. heat_hours' \in Nat /\ hh_ms' \in Nat
    BY <1>1, <1>2, StepType DEF TypeOK, DialType
  <2>5. /\ hh_ms' = (hh_ms + dt) % HourMs
        /\ heat_hours' <= heat_hours + ((hh_ms + dt) \div HourMs)
    <3>1. (hh_ms + dt) \div HourMs \in Nat
      BY <1>1, <2>3, DivType
    <3>2. QED
      BY <1>1, <1>2, <2>2, <2>3, <3>1 DEF Step, AdvanceHours
  <2>6. heat_hours' * HourMs + hh_ms' <= heat_hours * HourMs + (hh_ms + dt)
    BY <1>1, <2>3, <2>4, <2>5, HoursAdvance
  <2>7. idle = IdleMax \/ idle >= heat_hours * HourMs + hh_ms
    BY DEF IdleCovers
  <2>8. idle' = IF idle + dt > IdleMax THEN IdleMax ELSE idle + dt
    BY <1>2 DEF AddIdle
  <2>9. idle' \in Nat /\ (idle' = IdleMax \/ idle' >= heat_hours' * HourMs + hh_ms')
    <3>1. PICK n1 \in Nat, m1 \in Nat : n1 = heat_hours' /\ m1 = hh_ms'
      BY <2>4
    <3>2. n1 * HourMs + m1 <= heat_hours * HourMs + (hh_ms + dt)
      BY <2>6, <3>1, Zenon
    <3>3. idle' \in Nat /\ (idle' = IdleMax \/ idle' >= n1 * HourMs + m1)
      <4>1. PICK i1 : i1 = idle' /\ i1 = IF idle + dt > IdleMax THEN IdleMax ELSE idle + dt
        BY <2>8
      <4>2. /\ hh_ms \in Nat /\ heat_hours \in Nat /\ idle \in Nat /\ IdleMax \in Nat
            /\ HourMs \in Nat /\ dt \in Nat
        BY <1>1, <2>1
      <4>3. i1 = IF idle + dt > IdleMax THEN IdleMax ELSE idle + dt
        BY <4>1
      <4>4. n1 \in Nat /\ m1 \in Nat
        BY <3>1
      <4>5. i1 \in Nat /\ (i1 = IdleMax \/ i1 >= n1 * HourMs + m1)
        BY <2>7, <3>2, <4>2, <4>3, <4>4, IdleAdvance, SMTT(30)
      <4>6. QED
        BY <4>1, <4>5, Zenon
    <3>4. QED
      BY <3>1, <3>3, Zenon
  <2>10. QED
    BY <2>9 DEF IdleCovers
<1>3. CASE BHaChEnable
  <2>1. PICK v \in {0, 1} : /\ idle' = (IF v = 1 THEN 0 ELSE idle)
                            /\ IF v = 1 THEN heat_hours' = 0 /\ hh_ms' = 0
                                        ELSE UNCHANGED <<heat_hours, hh_ms>>
    BY <1>3 DEF BHaChEnable, HaChEnable, heatVars
  <2>2. CASE v = 1
    BY <1>1, <2>1, <2>2 DEF IdleCovers
  <2>3. CASE v = 0
    BY <2>1, <2>3 DEF IdleCovers
  <2>4. QED
    BY <2>2, <2>3
<1>4. CASE BHaChSetpoint \/ UNCHANGED bvars
  BY <1>4 DEF BHaChSetpoint, HaChSetpoint, bvars, vars, burnerHistory, heatVars, IdleCovers
<1>5. QED
  BY <1>2, <1>3, <1>4 DEF BNext, BStep

\* IdleCovers holds throughout: a boot starts it from what was preserved.
LEMMA IdleCorrect == BSpec => [](IdleCovers /\ BitInv /\ TypeOK)
<1>1. BInit => IdleCovers
  <2> SUFFICES ASSUME BInit PROVE IdleCovers
    OBVIOUS
  <2>1. TypeOK /\ idle = AddIdle(heat_hours * HourMs, hh_ms)
    BY InitType DEF BInit
  <2>2. PICK a \in Nat : a = heat_hours * HourMs
    BY <2>1, BoundFacts DEF TypeOK, DialType
  <2>3. hh_ms \in Nat /\ IdleMax \in Nat
    BY <2>1, BoundFacts, IdleAssumption DEF TypeOK, DialType
  <2>4. QED
    BY <2>1, <2>2, <2>3 DEF IdleCovers, AddIdle
<1>2. QED
  BY <1>1, NextIdle, BitCorrect, PTL DEF BSpec

\* A step whose executor refuses to heat comes after the time the settings allow.
LEMMA DisarmedIsIdle ==
  ASSUME TypeOK, IdleCovers', NEW cfg \in Configs, NEW in \in Inputs, NEW dt \in Dts,
         Step(cfg, in, dt), given' = [cfg |-> cfg, room |-> in.room], Disarmed(cfg)
  PROVE  idle' >= HeatLimit' /\ ~(idle' < HeatLimit')
<1>1. TypeOK'
  BY StepType
<1>2. heat_hours' \in Nat /\ hh_ms' \in Nat /\ HourMs \in Nat /\ IdleMax \in Nat
  BY <1>1, BoundFacts, IdleAssumption DEF TypeOK, DialType
<1>3. cfg.heat_limit_h \in Nat /\ cfg.heat_limit_h <= heat_hours'
  BY <1>2, ConfigsAssumption DEF Disarmed, ConfigType
<1>4. cfg.heat_limit_h * HourMs <= IdleMax
  BY IdleAssumption
<1>5. idle' \in Nat /\ (idle' = IdleMax \/ idle' >= heat_hours' * HourMs + hh_ms')
  BY DEF IdleCovers
<1>6. idle' >= cfg.heat_limit_h * HourMs
  BY <1>2, <1>3, <1>4, <1>5, IdleReached
<1>7. HeatLimit' = cfg.heat_limit_h * HourMs /\ cfg.heat_limit_h * HourMs \in Nat
  BY <1>2, <1>3 DEF HeatLimit
<1>8. PICK limit \in Nat : limit = cfg.heat_limit_h * HourMs
  BY <1>7
<1>9. QED
  BY <1>5, <1>6, <1>7, <1>8

\* A room once cold in this failsafe, and not warm since, is still wanted warmer:
\* the hysteresis remembers it, whatever became of the bit.
ChillWanted == chilled => state = "FAILSAFE" /\ fs_want

\* The inductive step: inside the dead band the verdict stands.
LEMMA NextChill == ChillWanted /\ IdleCovers' /\ TypeOK /\ [BNext]_bvars => ChillWanted'
<1> SUFFICES ASSUME ChillWanted, IdleCovers', TypeOK, [BNext]_bvars PROVE ChillWanted'
  OBVIOUS
<1>1. ASSUME NEW cfg \in Configs, NEW in \in Inputs, NEW dt \in Dts, Step(cfg, in, dt),
             given' = [cfg |-> cfg, room |-> in.room], chilled',
             chilled' = /\ state' = "FAILSAFE" /\ idle' < HeatLimit'
                        /\ in.room \in {"stale", "cold"} \/ (in.room = "mild" /\ chilled)
      PROVE  state' = "FAILSAFE" /\ fs_want'
  <2>1. state' = "FAILSAFE" /\ ~Disarmed(cfg)
    BY <1>1, DisarmedIsIdle
  <2>2. fs_want' = FsVerdict(cfg, in.room)
    BY <1>1, <2>1 DEF Step, FsWantNext
  <2>3. in.room \in {"stale", "cold"} \/ (in.room = "mild" /\ fs_want /\ ~EntersFailsafe)
    BY <1>1 DEF ChillWanted, EntersFailsafe
  <2>4. QED
    BY <2>1, <2>2, <2>3 DEF FsVerdict
<1>2. CASE BStep
  BY <1>1, <1>2 DEF BStep, ChillWanted
<1>3. CASE BHaChEnable \/ BHaChSetpoint \/ UNCHANGED bvars
  BY <1>3 DEF BHaChEnable, BHaChSetpoint, HaChEnable, HaChSetpoint, bvars, vars,
     burnerHistory, edgeVars, fsVars, ChillWanted
<1>4. QED
  BY <1>2, <1>3 DEF BNext

\* Both histories of the house agree with what the executor remembers.
LEMMA ChillCorrect == BSpec => [](ChillWanted /\ IdleCovers /\ BitInv /\ TypeOK)
<1>1. BInit => ChillWanted
  BY DEF BInit, ChillWanted
<1>2. QED
  BY <1>1, NextChill, IdleCorrect, PTL DEF BSpec

\* A house is not left to freeze: a failsafe leaves CH down only in a room that is
\* warm, or that came to the dead band from there; or once HA has not asked for heat
\* for as long as the settings allow; or for a setpoint the bus has yet to carry; or,
\* when the room is seen, for the rest of the minimum cycle.
THEOREM ColdHousesHeat == BSpec => ColdHouseHeats
<1> DEFINE Excused == \/ given'.room = "warm"
                      \/ given'.room = "mild" /\ ~chilled'
                      \/ idle' >= HeatLimit'
                      \/ ~ch_out /\ wire' # held'
                      \/ ~ch_out /\ given'.room # "stale" /\ BitTooYoung
<1>1. ChillWanted' /\ IdleCovers' /\ BitInv /\ BitInv' /\ TypeOK /\ [BNext]_bvars
        => [now' # now /\ state' = "FAILSAFE" /\ ~ch_out' => Excused]_bvars
  <2> SUFFICES ASSUME ChillWanted', IdleCovers', BitInv, BitInv', TypeOK, BNext, now' # now,
                      state' = "FAILSAFE", ~ch_out'
               PROVE  Excused
    OBVIOUS
  <2>1. PICK cfg \in Configs, in \in Inputs, dt \in Dts :
          Step(cfg, in, dt) /\ given' = [cfg |-> cfg, room |-> in.room]
    BY DEF BNext, BStep, BHaChEnable, BHaChSetpoint, HaChEnable, HaChSetpoint, edgeVars
  <2>2. given'.room = in.room /\ given'.cfg = cfg
    BY <2>1
  <2>3. CASE Disarmed(cfg)
    BY <2>1, <2>3, DisarmedIsIdle
  <2>4. CASE AwaitsSetpoint(Want(cfg, in.room, dt))
    BY <2>4 DEF AwaitsSetpoint, BitInv
  <2>5. CASE ~Disarmed(cfg) /\ ~AwaitsSetpoint(Want(cfg, in.room, dt))
    <3>1. ~FailsafeCh(cfg, in.room, dt)
      BY <2>1, <2>5 DEF Step, DriveCh, Want
    <3>2. CASE TooSoon(cfg, in.room, dt)
      <4>1. ~ch_out /\ in.room # "stale" /\ AddSat(ch_age, dt) < cfg.min_cycle
        BY <3>1, <3>2 DEF FailsafeCh, TooSoon
      <4>2. Elapsed = dt /\ bit_age = ch_age
        BY <2>1, ElapsedIs DEF BitInv
      <4>3. QED
        BY <2>2, <4>1, <4>2 DEF BitTooYoung
    <3>3. CASE ~TooSoon(cfg, in.room, dt)
      <4>1. ~FsVerdict(cfg, in.room)
        BY <3>1, <3>3 DEF FailsafeCh
      <4>2. in.room \notin {"stale", "cold"}
        BY <2>5, <4>1 DEF FsVerdict
      <4>3. in.room \in {"warm", "mild"}
        BY <4>2, InputsAssumption DEF InputType, Rooms
      <4>4. ~chilled'
        BY <2>1, <4>1 DEF ChillWanted, Step, FsWantNext
      <4>5. QED
        BY <2>2, <4>3, <4>4
    <3>4. QED
      BY <3>2, <3>3
  <2>6. QED
    BY <2>3, <2>4, <2>5
<1>2. QED
  BY <1>1, ChillCorrect, PTL DEF BSpec, ColdHouseHeats

-----------------------------------------------------------------------------
(* What a reset may cost: the task around the executor.                     *)

\* A boot that is a step.
LEMMA BootAgainType ==
  ASSUME NEW cfg \in Configs, NEW r \in RestoreType, InitAgain(cfg, r, 0)
  PROVE  TypeOK'
<1>1. cfg \in ConfigType
  BY ConfigsAssumption
<1>2. Bound(cfg, cfg.failsafe_setpoint) \in Nat
  BY <1>1, BoundType DEF ConfigType
<1>3. FlagType'
  BY <1>1, Zenon DEF InitAgain, FlagType, ConfigType
<1>4. VerdictType'
  BY DEF InitAgain, VerdictType, States, Causes, Reasons
<1>5. AgeType'
  BY BoundFacts DEF InitAgain, AgeType, RestoreType
<1>6. DialType'
  BY BoundFacts DEF InitAgain, DialType, RestoreType
<1>7. TemperatureType'
  BY <1>1, <1>2 DEF InitAgain, TemperatureType, ConfigType
<1>8. QED
  BY <1>3, <1>4, <1>5, <1>6, <1>7 DEF TypeOK

\* What is restored from the stores is something a boot may find.
LEMMA RestoredType ==
  ASSUME StoreType, NEW keeps_ram \in BOOLEAN
  PROVE  Restored(nvs, rtc, keeps_ram) \in RestoreType
<1>1. AgeMax \in Nat /\ HoursMax \in Nat /\ HourMs \in Nat /\ HourMs >= 1
  BY BoundFacts
<1>2. QED
  BY <1>1 DEF StoreType, Restored, RestoreType, None

LEMMA StoresAre == Len(Stores) = 2 /\ Stores[1] = "save" /\ Stores[2] = "mirror"
BY DEF Stores

\* A store of the tick, or a boot, or none of them.
LEMMA StoresType == TypeOK /\ StoreType /\ [TNext]_tvars => TypeOK' /\ StoreType'
<1> SUFFICES ASSUME TypeOK, StoreType, [TNext]_tvars PROVE TypeOK' /\ StoreType'
  OBVIOUS
<1>1. AgeMax \in Nat /\ HoursMax \in Nat /\ HourMs \in Nat /\ HourMs >= 1
  BY BoundFacts
<1>2. CASE TickStep
  <2>1. TypeOK'
    BY <1>2, StepType DEF TickStep
  <2>2. overdue' \in 0..AgeMax /\ heat_hours' \in 0..HoursMax /\ hh_ms' \in 0..(HourMs - 1)
    BY <2>1 DEF TypeOK, AgeType, DialType
  <2>3. /\ pc' = 1 /\ UNCHANGED <<nvs, rtc, cuts>>
        /\ out' = [overdue |-> overdue', heat_hours |-> heat_hours', hh_ms |-> hh_ms']
    BY <1>2 DEF TickStep
  <2>4. StoreType'
    BY <2>2, <2>3, StoresAre DEF StoreType
  <2>5. QED
    BY <2>1, <2>4
<1>3. CASE TickSave \/ TickMirror
  <2>1. TypeOK'
    BY <1>3, NextType DEF TickSave, TickMirror
  <2>2. pc' \in 0..Len(Stores)
    BY <1>3, StoresAre DEF TickSave, TickMirror, Onward, StoreType
  <2>3. nvs' \in 0..HoursMax \cup {None}
    BY <1>3 DEF TickSave, TickMirror, StoreType
  <2>4. rtc' \in [intact : BOOLEAN, overdue : 0..AgeMax, hh_ms : 0..(HourMs - 1)]
    <3>1. CASE rtc' = rtc
      BY <3>1 DEF StoreType
    <3>2. CASE rtc' = [intact |-> TRUE, overdue |-> out.overdue, hh_ms |-> out.hh_ms]
      BY <3>2 DEF StoreType
    <3>3. QED
      BY <1>3, <3>1, <3>2 DEF TickSave, TickMirror
  <2>5. QED
    BY <1>3, <2>1, <2>2, <2>3, <2>4 DEF TickSave, TickMirror, StoreType
<1>4. CASE Ask \/ Command
  <2>1. UNCHANGED storeVars /\ TypeOK'
    BY <1>4, CommandsType DEF Ask, Command
  <2>2. QED
    BY <2>1 DEF storeVars, StoreType
<1>5. CASE Reset \/ PowerCut
  <2>1. PICK cfg \in Configs, keeps_ram \in BOOLEAN : InitAgain(cfg, Restored(nvs, rtc, keeps_ram), 0)
    BY <1>5 DEF Reset, PowerCut, Boot
  <2>2. TypeOK'
    BY <2>1, BootAgainType, RestoredType
  <2>3. pc' = 0 /\ out' = Blank /\ nvs' = nvs /\ (rtc' = rtc \/ rtc' = Noise)
    BY <1>5 DEF Reset, PowerCut, Boot
  <2>4. cuts' \in 0..PowerCuts
    <3>1. cuts \in 0..PowerCuts /\ PowerCuts \in Nat
      BY ThermostatAssumption DEF StoreType
    <3>2. cuts' = cuts \/ (cuts < PowerCuts /\ cuts' = cuts + 1)
      BY <1>5 DEF Reset, PowerCut
    <3>3. QED
      BY <3>1, <3>2
  <2>5. /\ Blank \in [overdue : 0..AgeMax, heat_hours : 0..HoursMax, hh_ms : 0..(HourMs - 1)]
        /\ Noise \in [intact : BOOLEAN, overdue : 0..AgeMax, hh_ms : 0..(HourMs - 1)]
    BY <1>1 DEF Blank, Noise
  <2>6. QED
    BY <2>2, <2>3, <2>4, <2>5, StoresAre DEF StoreType
<1>6. CASE UNCHANGED tvars
  <2>1. UNCHANGED vars /\ UNCHANGED storeVars
    BY <1>6 DEF tvars
  <2>2. TypeOK'
    BY <2>1, NextType
  <2>3. QED
    BY <2>1, <2>2 DEF storeVars, StoreType
<1>7. QED
  BY <1>2, <1>3, <1>4, <1>5, <1>6 DEF TNext

\* Every step of the history specification is a step of the task.
LEMMA ResetsRefine == [RNext]_rvars => [TNext]_tvars
BY DEF RNext, RStep, RSave, RMirror, RAsk, RCommand, RReset, RPowerCut, rvars, TNext

\* Executor and stores keep their types through every reset.
THEOREM TypeCorrectR == RSpec => [](TypeOK /\ StoreType)
<1>1. RInit => TypeOK /\ StoreType
  <2> SUFFICES ASSUME RInit PROVE TypeOK /\ StoreType
    OBVIOUS
  <2>1. pc = 0 /\ out = Blank /\ nvs = None /\ rtc = Noise /\ cuts = 0
    BY DEF RInit, TInit
  <2>2. StoreType
    BY <2>1, BoundFacts, ThermostatAssumption, StoresAre DEF StoreType, Blank, Noise
  <2>3. PICK cfg \in Configs : InitWith(cfg, Restored(nvs, rtc, FALSE), 0)
    BY <2>1 DEF RInit, TInit
  <2>4. 0 \in 0..(ClockMod - 1)
    BY BoundFacts
  <2>5. Restored(nvs, rtc, FALSE) \in RestoreType
    BY <2>2, RestoredType
  <2>6. TypeOK
    BY <2>3, <2>4, <2>5, BootType
  <2>7. QED
    BY <2>2, <2>6
<1>2. TypeOK /\ StoreType /\ [RNext]_rvars => (TypeOK /\ StoreType)'
  BY StoresType, ResetsRefine
<1>3. QED
  BY <1>1, <1>2, PTL DEF RSpec

-----------------------------------------------------------------------------
(* The counted hours never fall behind the powered time.  This rests on two *)
(* things the code does not promise: that no save fails (nothing retries    *)
(* it, while the part-hour beside it has started again), and that nobody    *)
(* edits the failsafe's heat limit (hours past the limit are not saved, and *)
(* a limit raised later would miss them).                                   *)

\* Nobody edits the heat limit while the device runs.
OneLimit == \A c1, c2 \in Configs : c1.heat_limit_h = c2.heat_limit_h

\* That limit, in hours.
Arm == CHOOSE n \in 0..HoursMax : \A cfg \in Configs : cfg.heat_limit_h = n

\* n hours and a part m of one account for a time t.
Covers(n, m, t) == n * HourMs + m >= t

\* What ticks banked is part of what passed, and a torn record counts nothing.
Times ==
  /\ unasked \in 0..UnaskedMax /\ banked \in 0..unasked
  /\ ~rtc.intact => rtc.hh_ms = 0

\* RAM, the tick's snapshot of it and the stores account for the time, or the
\* arm has run out.
RamCovers == heat_hours >= Arm \/ Covers(heat_hours, hh_ms, unasked)
OutCovers == pc # 0 => out.heat_hours >= Arm \/ Covers(out.heat_hours, out.hh_ms, unasked)
StoresCover == nvs = None \/ nvs >= Arm \/ Covers(nvs, rtc.hh_ms, banked)

\* HA has just asked for heat, which the next save will record.
JustAsked == hh_dirty => heat_hours = 0 /\ unasked = 0 /\ banked = 0

\* RAM is what the tick stores, unless HA asked for heat in between.
OutIsRam == pc # 0 => out.heat_hours = heat_hours \/ hh_dirty

\* Flash is not behind RAM where it matters, or about to be written,
FlashCatchesUp ==
  /\ pc = 0 => hh_dirty \/ nvs = None \/ nvs >= Arm \/ nvs >= heat_hours
  /\ pc = 1 => persist_heat_hours \/ nvs = None \/ nvs >= Arm \/ nvs >= out.heat_hours
  /\ pc = 2 => nvs = None \/ nvs >= Arm \/ nvs >= out.heat_hours

\* nor ahead of it, so that a save takes nothing back that was banked.
FlashNotAhead ==
  /\ pc = 1 /\ persist_heat_hours => banked = 0 \/ (nvs # None /\ nvs <= out.heat_hours)
  /\ pc # 1 \/ ~persist_heat_hours => hh_dirty \/ nvs = None \/ nvs <= heat_hours

\* Flash is blank only until HA asks for heat.
BlankUntilAsked ==
  nvs = None => heat_hours >= Arm \/ hh_dirty \/ (pc = 1 /\ persist_heat_hours)

\* A failsafe that heats is within its arm.
WithinArm ==
  state = "FAILSAFE" /\ ch_out => \E cfg \in Configs : unasked < cfg.heat_limit_h * HourMs

ArmInv ==
  /\ Times /\ RamCovers /\ OutCovers /\ StoresCover /\ JustAsked /\ OutIsRam
  /\ FlashCatchesUp /\ FlashNotAhead /\ BlankUntilAsked /\ WithinArm

LEMMA ArmIs ==
  ASSUME OneLimit
  PROVE  Arm \in 0..HoursMax /\ \A cfg \in Configs : cfg.heat_limit_h = Arm
<1>1. \A cfg \in Configs : cfg.heat_limit_h \in 0..HoursMax
  <2> SUFFICES ASSUME NEW cfg \in Configs PROVE cfg.heat_limit_h \in 0..HoursMax
    BY Zenon
  <2>1. cfg.heat_limit_h \in Nat
    BY ConfigsAssumption DEF ConfigType
  <2>2. cfg.heat_limit_h <= HoursMax /\ HoursMax \in Nat
    BY UnaskedAssumption, BoundFacts
  <2>3. QED
    BY <2>1, <2>2
<1>2. 0 \in 0..HoursMax
  BY BoundFacts
<1>3. \E n \in 0..HoursMax : \A cfg \in Configs : cfg.heat_limit_h = n
  BY <1>1, <1>2, Zenon DEF OneLimit
<1>4. QED
  BY <1>3, Zenon DEF Arm

LEMMA CoversNothing ==
  ASSUME NEW n \in Nat, NEW m \in Nat
  PROVE  Covers(n, m, 0)
<1>1. n * HourMs \in Nat
  BY BoundFacts
<1>2. QED
  BY <1>1 DEF Covers

\* More hours cover it too, and they cover less time.
LEMMA CoversMore ==
  ASSUME NEW n \in Nat, NEW n1 \in Nat, n <= n1, NEW m \in Nat,
         NEW t \in Nat, NEW t1 \in Nat, t1 <= t, Covers(n, m, t)
  PROVE  Covers(n1, m, t1)
<1>1. n * HourMs \in Nat /\ n1 * HourMs \in Nat /\ n * HourMs <= n1 * HourMs
  BY BoundFacts, TimesMonotone
<1>2. n * HourMs + m >= t
  BY DEF Covers
<1> DEFINE a == n * HourMs
<1> DEFINE b == n1 * HourMs
<1>3. a \in Nat /\ b \in Nat /\ a <= b /\ a + m >= t
  BY <1>1, <1>2
<1> HIDE DEF a, b
<1>4. b + m >= t1
  BY <1>3
<1>5. QED
  BY <1>4 DEF b, Covers

\* Counted hours and the time run on together.
LEMMA CoversOn ==
  ASSUME NEW n \in Nat, NEW m \in Nat, NEW t \in Nat, NEW d \in Nat, Covers(n, m, t),
         NEW t1 \in Nat, t1 <= t + d
  PROVE  Covers(n + ((m + d) \div HourMs), (m + d) % HourMs, t1)
<1>1. HourMs \in Nat /\ HourMs >= 1
  BY BoundFacts
<1>0. PICK s \in Nat : s = m + d
  OBVIOUS
<1>2. PICK q \in Nat : q = s \div HourMs
  BY <1>0, <1>1, DivType
<1>3. PICK r \in Nat : r = s % HourMs
  <2>1. s % HourMs \in 0..(HourMs - 1)
    BY <1>1, ModType
  <2>2. QED
    BY <1>1, <2>1
<1>4. m + d = q * HourMs + r
  BY <1>0, <1>1, <1>2, <1>3, QuotientAndRemainder
<1>5. (n + q) * HourMs = n * HourMs + q * HourMs /\ n * HourMs \in Nat /\ q * HourMs \in Nat
  BY <1>1
<1>6. n * HourMs + m >= t
  BY DEF Covers
<1> DEFINE a == n * HourMs
<1> DEFINE b == q * HourMs
<1>7. a \in Nat /\ b \in Nat /\ m + d = b + r /\ a + m >= t
  BY <1>4, <1>5, <1>6
<1>8. (n + q) * HourMs + r = a + b + r
  BY <1>3, <1>5
<1> HIDE DEF a, b
<1>9. a + b + r >= t1
  BY <1>7, <1>3
<1>10. Covers(n + q, r, t1)
  BY <1>8, <1>9, Zenon DEF Covers
<1>11. QED
  BY <1>0, <1>2, <1>3, <1>10, Zenon

\* Without the part-hour, what is covered is shorter by it.
LEMMA CoversWithout ==
  ASSUME NEW n \in Nat, NEW m \in Nat, NEW t \in Nat, Covers(n, m, t)
  PROVE  Covers(n, 0, IF t > m THEN t - m ELSE 0)
<1> DEFINE a == n * HourMs
<1>1. a \in Nat /\ a + m >= t
  BY BoundFacts DEF Covers
<1> HIDE DEF a
<1>2. a + 0 >= (IF t > m THEN t - m ELSE 0)
  BY <1>1
<1>3. QED
  BY <1>2 DEF a, Covers

\* Fewer hours than the limit, and a part, fall short of the limit.
LEMMA CoversShort ==
  ASSUME NEW n \in Nat, NEW limit \in Nat, n < limit, NEW m \in Nat, m < HourMs,
         NEW t \in Nat, Covers(n, m, t)
  PROVE  t < limit * HourMs
<1>1. HourMs \in Nat
  BY BoundFacts
<1>2. (n + 1) * HourMs <= limit * HourMs
  BY <1>1, TimesMonotone
<1>3. (n + 1) * HourMs = n * HourMs + HourMs
  BY <1>1
<1> DEFINE a == n * HourMs
<1> DEFINE b == limit * HourMs
<1>4. a \in Nat /\ b \in Nat /\ a + HourMs <= b /\ a + m >= t
  BY <1>1, <1>2, <1>3 DEF Covers
<1> HIDE DEF a, b
<1>5. t < b
  BY <1>1, <1>4
<1>6. QED
  BY <1>5 DEF b

\* The types those lemmas ask for.
LEMMA ArmTypes ==
  ASSUME TypeOK, StoreType, Times
  PROVE  /\ heat_hours \in 0..HoursMax /\ hh_ms \in Nat /\ hh_ms < HourMs
         /\ out.heat_hours \in 0..HoursMax /\ out.hh_ms \in Nat
         /\ nvs = None \/ nvs \in 0..HoursMax
         /\ rtc.hh_ms \in Nat
         /\ unasked \in Nat /\ unasked <= UnaskedMax /\ banked \in Nat /\ banked <= unasked
         /\ HoursMax \in Nat /\ UnaskedMax \in Nat /\ HourMs \in Nat /\ HourMs >= 1
         /\ pc \in 0..2
<1>1. HoursMax \in Nat /\ HourMs \in Nat /\ HourMs >= 1 /\ UnaskedMax \in Nat
  BY BoundFacts, UnaskedAssumption
<1>2. heat_hours \in 0..HoursMax /\ hh_ms \in 0..(HourMs - 1)
  BY DEF TypeOK, DialType
<1>3. /\ out.heat_hours \in 0..HoursMax /\ out.hh_ms \in 0..(HourMs - 1)
      /\ nvs = None \/ nvs \in 0..HoursMax
      /\ rtc.hh_ms \in 0..(HourMs - 1)
  BY DEF StoreType
<1>4. pc \in 0..2
  BY StoresAre DEF StoreType
<1>5. QED
  BY <1>1, <1>2, <1>3, <1>4 DEF Times

-----------------------------------------------------------------------------
(* One lemma per action of the reset model.                                 *)

\* How a step counts the hours.
LEMMA StepHours ==
  ASSUME OneLimit, TypeOK, NEW cfg \in Configs, NEW in \in Inputs, NEW dt \in Dts, Step(cfg, in, dt)
  PROVE  /\ heat_hours' \in 0..HoursMax /\ hh_ms' \in Nat /\ hh_ms' < HourMs
         /\ heat_hours <= heat_hours'
         /\ \/ heat_hours' = HoursMax
            \/ /\ heat_hours' = heat_hours + ((hh_ms + dt) \div HourMs)
               /\ hh_ms' = (hh_ms + dt) % HourMs
         /\ hh_dirty' = FALSE /\ (hh_dirty => persist_heat_hours')
         /\ persist_heat_hours' => hh_dirty \/ heat_hours < Arm
         /\ persist_heat_hours' \/ heat_hours' = heat_hours \/ heat_hours >= Arm
<1>1. /\ heat_hours \in 0..HoursMax /\ hh_ms \in 0..(HourMs - 1) /\ hh_dirty \in BOOLEAN
      /\ HoursMax \in Nat /\ HourMs \in Nat /\ HourMs >= 1
      /\ dt \in Nat /\ HourMs - 1 + dt <= AgeMax /\ AgeMax \in Nat
      /\ Arm \in 0..HoursMax /\ cfg.heat_limit_h = Arm
  BY BoundFacts, InputsAssumption, LateTickAssumption, ArmIs DEF TypeOK, DialType, FlagType
<1>2. AddSat(hh_ms, dt) = hh_ms + dt
  BY <1>1 DEF AddSat
<1>3. PICK s \in Nat : s = hh_ms + dt
  BY <1>1
<1>4. PICK q \in Nat : q = s \div HourMs
  BY <1>1, <1>3, DivType
<1>5. s < HourMs => q = 0
  BY <1>1, <1>3, <1>4
<1>6. /\ hh_ms' = s % HourMs
      /\ heat_hours' = IF heat_hours + q > HoursMax THEN HoursMax ELSE heat_hours + q
  BY <1>2, <1>3, <1>4, Zenon DEF Step, AdvanceHours
<1>7. s % HourMs \in 0..(HourMs - 1)
  BY <1>1, ModType
<1>8. PICK n \in 0..HoursMax :
        /\ n = heat_hours' /\ heat_hours <= n /\ (n = HoursMax \/ n = heat_hours + q)
        /\ s < HourMs => n = heat_hours
  <2>1. PICK n : n = IF heat_hours + q > HoursMax THEN HoursMax ELSE heat_hours + q
    OBVIOUS
  <2>2. n \in 0..HoursMax /\ heat_hours <= n /\ (n = HoursMax \/ n = heat_hours + q)
    BY <1>1, <1>4, <2>1
  <2>3. s < HourMs => n = heat_hours
    BY <1>1, <1>5, <2>1
  <2>4. n = heat_hours'
    BY <1>6, <2>1, Zenon
  <2>5. QED
    BY <2>2, <2>3, <2>4, Zenon
<1>9. persist_heat_hours' = ((s >= HourMs /\ heat_hours < Arm) \/ hh_dirty) /\ hh_dirty' = FALSE
  BY <1>1, <1>2, <1>3, Zenon DEF Step, HourDone
<1>10. persist_heat_hours' \/ n = heat_hours \/ heat_hours >= Arm
  <2>1. s < HourMs \/ (s >= HourMs /\ heat_hours < Arm) \/ heat_hours >= Arm
    BY <1>1
  <2>2. QED
    BY <1>8, <1>9, <2>1, Zenon
<1>11. hh_ms' \in Nat /\ hh_ms' < HourMs
  <2>1. PICK r \in 0..(HourMs - 1) : r = s % HourMs
    BY <1>7
  <2>2. r \in Nat /\ r < HourMs
    BY <1>1, <2>1
  <2>3. QED
    BY <1>6, <2>1, <2>2, Zenon
<1>12. (hh_dirty => persist_heat_hours') /\ (persist_heat_hours' => hh_dirty \/ heat_hours < Arm)
  BY <1>9, Zenon
<1>13. QED
  BY <1>3, <1>4, <1>6, <1>8, <1>9, <1>10, <1>11, <1>12, Zenon

\* A failsafe that heats after a step has counted fewer hours than the limit.
LEMMA StepArmed ==
  ASSUME NEW cfg \in Configs, NEW in \in Inputs, NEW dt \in Dts, Step(cfg, in, dt),
         state' = "FAILSAFE", ch_out'
  PROVE  ~(heat_hours' >= cfg.heat_limit_h)
<1>1. FailsafeCh(cfg, in.room, dt)
  BY DEF Step, DriveCh, Want
<1>2. ~Disarmed(cfg)
  BY <1>1 DEF FailsafeCh, TooSoon, FsVerdict
<1>3. QED
  BY <1>2 DEF Disarmed

LEMMA ArmStep == ASSUME OneLimit, TypeOK, StoreType, ArmInv, RStep PROVE ArmInv'
<1>1. PICK cfg \in Configs, in \in Inputs, dt \in Dts : Step(cfg, in, dt)
  BY DEF RStep, TickStep
<1>2. /\ pc = 0 /\ pc' = 1 /\ UNCHANGED <<nvs, rtc, banked>>
      /\ out' = [overdue |-> overdue', heat_hours |-> heat_hours', hh_ms |-> hh_ms']
      /\ unasked' = Sooner(unasked + Elapsed, UnaskedMax)
  BY DEF RStep, TickStep
<1>3. PICK t \in Nat : t = unasked' /\ t <= UnaskedMax /\ t <= unasked + dt /\ unasked <= t
  <2>1. unasked' = Sooner(unasked + dt, UnaskedMax)
    BY <1>1, <1>2, ElapsedIs, Zenon
  <2>2. PICK t : t = Sooner(unasked + dt, UnaskedMax)
    OBVIOUS
  <2>3. t \in Nat /\ t <= UnaskedMax /\ t <= unasked + dt /\ unasked <= t
    BY <2>2, ArmTypes, InputsAssumption DEF Sooner, ArmInv
  <2>4. QED
    BY <2>1, <2>2, <2>3, Zenon
<1>4. PICK n \in 0..HoursMax, m \in Nat :
        /\ n = heat_hours' /\ m = hh_ms' /\ m < HourMs /\ heat_hours <= n
        /\ \/ n = HoursMax
           \/ n = heat_hours + ((hh_ms + dt) \div HourMs) /\ m = (hh_ms + dt) % HourMs
        /\ hh_dirty' = FALSE /\ (hh_dirty => persist_heat_hours')
        /\ persist_heat_hours' => hh_dirty \/ heat_hours < Arm
        /\ persist_heat_hours' \/ n = heat_hours \/ heat_hours >= Arm
  BY <1>1, StepHours, Zenon
<1>5. /\ heat_hours \in 0..HoursMax /\ hh_ms \in Nat /\ dt \in Nat /\ HoursMax \in Nat
      /\ nvs = None \/ nvs \in 0..HoursMax
      /\ unasked \in Nat /\ banked \in 0..unasked /\ Arm \in 0..HoursMax
      /\ cfg.heat_limit_h = Arm /\ n \in Nat /\ UnaskedMax \in Nat
  BY ArmTypes, ArmIs, InputsAssumption DEF ArmInv
<1>6. n >= Arm \/ Covers(n, m, t)
  <2>1. CASE heat_hours >= Arm \/ n = HoursMax
    BY <1>4, <1>5, <2>1
  <2>2. CASE Covers(heat_hours, hh_ms, unasked) /\ n # HoursMax
    <3>1. Covers(heat_hours + ((hh_ms + dt) \div HourMs), (hh_ms + dt) % HourMs, t)
      <4>1. heat_hours \in Nat
        BY <1>5
      <4>2. QED
        BY <1>3, <1>5, <2>2, <4>1, CoversOn, Zenon
    <3>2. QED
      BY <1>4, <2>2, <3>1, Zenon
  <2>3. QED
    BY <2>1, <2>2, Zenon DEF ArmInv, RamCovers
<1>7. Times'
  <2>1. t \in 0..UnaskedMax /\ banked \in 0..t
    BY <1>3, <1>5
  <2>2. QED
    BY <1>2, <1>3, <2>1, Zenon DEF Times, ArmInv
<1>8. RamCovers'
  BY <1>3, <1>4, <1>6, Zenon DEF RamCovers
<1>9. out'.heat_hours = heat_hours' /\ out'.hh_ms = hh_ms'
  BY <1>2
<1>10. OutCovers' /\ OutIsRam'
  BY <1>8, <1>9, Zenon DEF RamCovers, OutCovers, OutIsRam
<1>11. StoresCover'
  BY <1>2, Zenon DEF ArmInv, StoresCover
<1>12. JustAsked'
  BY <1>4, Zenon DEF JustAsked
<1>13. FlashCatchesUp'
  <2>1. persist_heat_hours' \/ nvs = None \/ nvs >= Arm \/ nvs >= n
    <3>1. hh_dirty \/ nvs = None \/ nvs >= Arm \/ nvs >= heat_hours
      BY <1>2 DEF ArmInv, FlashCatchesUp
    <3>2. nvs \in 0..HoursMax /\ nvs >= heat_hours /\ heat_hours >= Arm => nvs >= Arm
      BY <1>5
    <3>3. QED
      BY <1>4, <1>5, <3>1, <3>2, Zenon
  <2>2. pc' # 0 /\ pc' # 2
    BY <1>2
  <2>3. QED
    BY <1>2, <1>4, <1>9, <2>1, <2>2, Zenon DEF FlashCatchesUp
<1>14. FlashNotAhead'
  <2>1. hh_dirty \/ nvs = None \/ nvs <= heat_hours
    BY <1>2 DEF ArmInv, FlashNotAhead
  <2>2. nvs # None /\ nvs <= heat_hours => nvs <= n
    BY <1>4, <1>5
  <2>3. hh_dirty => banked = 0
    BY DEF ArmInv, JustAsked
  <2>4. nvs = None => heat_hours >= Arm \/ hh_dirty
    BY <1>2 DEF ArmInv, BlankUntilAsked
  <2>5. heat_hours >= Arm => ~(heat_hours < Arm)
    BY <1>5
  <2>6. persist_heat_hours' => banked = 0 \/ (nvs # None /\ nvs <= n)
    BY <1>4, <2>1, <2>2, <2>3, <2>4, <2>5, Zenon
  <2>7. ~persist_heat_hours' => nvs = None \/ nvs <= n
    BY <1>4, <2>1, <2>2, Zenon
  <2>8. QED
    BY <1>2, <1>4, <1>9, <2>6, <2>7, Zenon DEF FlashNotAhead
<1>15. BlankUntilAsked'
  <2>1. nvs = None => heat_hours >= Arm \/ hh_dirty
    BY <1>2 DEF ArmInv, BlankUntilAsked
  <2>2. heat_hours >= Arm => n >= Arm
    BY <1>4, <1>5
  <2>3. QED
    BY <1>2, <1>4, <2>1, <2>2, Zenon DEF BlankUntilAsked
<1>16. WithinArm'
  <2> SUFFICES ASSUME state' = "FAILSAFE", ch_out' PROVE t < cfg.heat_limit_h * HourMs
    BY <1>3, Zenon DEF WithinArm
  <2>1. ~(n >= cfg.heat_limit_h)
    BY <1>1, <1>4, StepArmed, Zenon
  <2>2. n < Arm /\ Arm \in Nat /\ Covers(n, m, t)
    BY <1>5, <1>6, <2>1
  <2>3. QED
    BY <1>4, <1>5, <2>2, CoversShort
<1>17. QED
  BY <1>7, <1>8, <1>10, <1>11, <1>12, <1>13, <1>14, <1>15, <1>16 DEF ArmInv

LEMMA ArmSave == ASSUME ~SaveFails, OneLimit, TypeOK, StoreType, ArmInv, RSave PROVE ArmInv'
<1>1. /\ pc = 1 /\ pc' = 2 /\ UNCHANGED <<vars, out, rtc, unasked, banked>>
      /\ IF persist_heat_hours THEN nvs' = out.heat_hours ELSE nvs' = nvs
  <2>1. pc = 1 /\ pc' = 2
    BY StoresAre DEF RSave, TickSave, Onward, StoreType
  <2>2. QED
    BY <2>1 DEF RSave, TickSave, Banks
<1>2. UNCHANGED <<heat_hours, hh_ms, hh_dirty, persist_heat_hours, state, ch_out>>
  BY <1>1 DEF vars, heatVars, outVars, edgeVars, heldVars
<1>3. /\ out.heat_hours \in Nat /\ out.hh_ms \in Nat /\ rtc.hh_ms \in Nat
      /\ nvs = None \/ nvs \in Nat
      /\ banked \in Nat /\ Arm \in Nat /\ out.heat_hours # None
  BY ArmTypes, ArmIs DEF ArmInv, None
<1>4. Times' /\ RamCovers' /\ JustAsked' /\ WithinArm'
  BY <1>1, <1>2, Zenon DEF ArmInv, Times, RamCovers, JustAsked, WithinArm
<1>5. OutCovers' /\ OutIsRam'
  BY <1>1, <1>2 DEF ArmInv, OutCovers, OutIsRam
<1>6. CASE persist_heat_hours
  <2>1. nvs' = out.heat_hours
    BY <1>1, <1>6
  <2>2. banked = 0 \/ (nvs # None /\ nvs <= out.heat_hours)
    BY <1>1, <1>6 DEF ArmInv, FlashNotAhead
  <2>3. out.heat_hours >= Arm \/ Covers(out.heat_hours, rtc.hh_ms, banked)
    <3>1. CASE banked = 0
      BY <1>3, <3>1, CoversNothing
    <3>2. CASE nvs \in Nat /\ nvs <= out.heat_hours /\ nvs >= Arm
      BY <1>3, <3>2
    <3>3. CASE nvs \in Nat /\ nvs <= out.heat_hours /\ Covers(nvs, rtc.hh_ms, banked)
      <4>1. banked <= banked
        BY <1>3
      <4>2. QED
        BY <1>3, <3>3, <4>1, CoversMore, Zenon
    <3>4. QED
      BY <1>3, <2>2, <3>1, <3>2, <3>3 DEF ArmInv, StoresCover
  <2>4. StoresCover'
    BY <1>1, <2>1, <2>3, Zenon DEF StoresCover
  <2>5. FlashCatchesUp'
    <3>1. out.heat_hours >= out.heat_hours
      BY <1>3
    <3>2. pc' # 0 /\ pc' # 1
      BY <1>1
    <3>3. QED
      BY <1>1, <2>1, <3>1, <3>2, Zenon DEF FlashCatchesUp
  <2>6. FlashNotAhead'
    <3>1. hh_dirty \/ out.heat_hours = heat_hours
      BY <1>1 DEF ArmInv, OutIsRam
    <3>2. out.heat_hours = heat_hours => out.heat_hours <= heat_hours
      BY <1>3
    <3>3. pc' # 1
      BY <1>1
    <3>4. QED
      BY <1>2, <2>1, <3>1, <3>2, <3>3, Zenon DEF FlashNotAhead
  <2>7. BlankUntilAsked'
    BY <1>3, <2>1, Zenon DEF BlankUntilAsked
  <2>8. QED
    BY <1>4, <1>5, <2>4, <2>5, <2>6, <2>7 DEF ArmInv
<1>7. CASE ~persist_heat_hours
  <2>1. nvs' = nvs
    BY <1>1, <1>7
  <2>2. StoresCover'
    BY <1>1, <2>1, Zenon DEF ArmInv, StoresCover
  <2>3. FlashCatchesUp' /\ FlashNotAhead' /\ BlankUntilAsked'
    BY <1>1, <1>2, <1>7, <2>1 DEF ArmInv, FlashCatchesUp, FlashNotAhead, BlankUntilAsked
  <2>4. QED
    BY <1>4, <1>5, <2>2, <2>3 DEF ArmInv
<1>8. QED
  BY <1>6, <1>7

LEMMA ArmMirror == ASSUME OneLimit, TypeOK, StoreType, ArmInv, RMirror PROVE ArmInv'
<1>1. /\ pc = 2 /\ pc' = 0 /\ UNCHANGED <<vars, out, nvs, unasked>> /\ banked' = unasked
      /\ rtc' = [intact |-> TRUE, overdue |-> out.overdue, hh_ms |-> out.hh_ms]
  <2>1. pc = 2 /\ pc' = 0
    BY StoresAre DEF RMirror, TickMirror, Onward, StoreType
  <2>2. QED
    BY <2>1 DEF RMirror, TickMirror, Banks
<1>2. UNCHANGED <<heat_hours, hh_ms, hh_dirty, persist_heat_hours, state, ch_out>>
  BY <1>1 DEF vars, heatVars, outVars, edgeVars, heldVars
<1>3. /\ out.heat_hours \in Nat /\ out.hh_ms \in Nat
      /\ nvs = None \/ nvs \in Nat
      /\ unasked \in 0..UnaskedMax /\ unasked \in Nat /\ Arm \in Nat
  BY ArmTypes, ArmIs DEF ArmInv
<1>4. rtc'.hh_ms = out.hh_ms /\ rtc'.intact
  BY <1>1
<1>5. Times'
  <2>1. unasked \in 0..unasked
    BY <1>3
  <2>2. QED
    BY <1>1, <1>3, <1>4, <2>1, Zenon DEF Times
<1>6. RamCovers' /\ WithinArm'
  BY <1>1, <1>2, Zenon DEF ArmInv, RamCovers, WithinArm
<1>7. OutCovers' /\ OutIsRam'
  BY <1>1 DEF OutCovers, OutIsRam
<1>8. JustAsked'
  BY <1>1, <1>2, Zenon DEF ArmInv, JustAsked
<1>9. nvs = None \/ nvs >= Arm \/ nvs >= out.heat_hours
  BY <1>1 DEF ArmInv, FlashCatchesUp
<1>10. StoresCover'
  <2>1. out.heat_hours >= Arm \/ Covers(out.heat_hours, out.hh_ms, unasked)
    BY <1>1 DEF ArmInv, OutCovers
  <2>2. nvs = None \/ nvs >= Arm \/ Covers(nvs, out.hh_ms, unasked)
    <3>1. CASE nvs \in Nat /\ nvs >= out.heat_hours /\ out.heat_hours >= Arm
      BY <1>3, <3>1
    <3>2. CASE nvs \in Nat /\ nvs >= out.heat_hours /\ Covers(out.heat_hours, out.hh_ms, unasked)
      <4>1. out.heat_hours <= nvs /\ unasked <= unasked
        BY <1>3, <3>2
      <4>2. QED
        BY <1>3, <3>2, <4>1, CoversMore, Zenon
    <3>3. QED
      BY <1>3, <1>9, <2>1, <3>1, <3>2
  <2>3. QED
    BY <1>1, <1>4, <2>2, Zenon DEF StoresCover
<1>11. FlashCatchesUp' /\ FlashNotAhead' /\ BlankUntilAsked'
  BY <1>1, <1>2, <1>9 DEF ArmInv, OutIsRam, FlashCatchesUp, FlashNotAhead, BlankUntilAsked
<1>12. QED
  BY <1>5, <1>6, <1>7, <1>8, <1>10, <1>11 DEF ArmInv

LEMMA ArmAsk == ASSUME OneLimit, TypeOK, StoreType, ArmInv, RAsk PROVE ArmInv'
<1>1. /\ UNCHANGED <<pc, out, nvs, rtc, persist_heat_hours, state, ch_out>>
      /\ unasked' = 0 /\ banked' = 0 /\ heat_hours' = 0 /\ hh_ms' = 0
      /\ hh_dirty' = (hh_dirty \/ heat_hours # 0)
  BY DEF RAsk, Ask, HaChEnable, storeVars, edgeVars, heldVars, outVars
<1>2. /\ out.heat_hours \in Nat /\ out.hh_ms \in Nat /\ heat_hours \in Nat
      /\ nvs = None \/ nvs \in Nat
      /\ unasked \in Nat /\ rtc.hh_ms \in Nat /\ UnaskedMax \in Nat /\ Arm \in Nat
  BY ArmTypes, ArmIs DEF ArmInv
<1>3. Times'
  <2>1. 0 \in 0..UnaskedMax /\ 0 \in 0..0
    BY <1>2
  <2>2. QED
    BY <1>1, <2>1, Zenon DEF ArmInv, Times
<1>4. RamCovers' /\ OutCovers' /\ StoresCover'
  <2>1. Covers(0, 0, 0) /\ Covers(out.heat_hours, out.hh_ms, 0)
    BY <1>2, CoversNothing
  <2>2. nvs = None \/ Covers(nvs, rtc.hh_ms, 0)
    BY <1>2, CoversNothing, Zenon
  <2>3. QED
    BY <1>1, <2>1, <2>2, Zenon DEF RamCovers, OutCovers, StoresCover
<1>5. JustAsked'
  BY <1>1, Zenon DEF JustAsked
<1>6. OutIsRam'
  BY <1>1 DEF ArmInv, OutIsRam
<1>7. hh_dirty' \/ heat_hours = 0
  BY <1>1
<1>8. FlashCatchesUp'
  <2>1. nvs = None \/ nvs >= 0
    BY <1>2
  <2>2. QED
    BY <1>1, <1>7, <2>1, Zenon DEF ArmInv, FlashCatchesUp
<1>9. FlashNotAhead'
  <2>1. heat_hours = 0 /\ nvs <= heat_hours => nvs <= 0
    OBVIOUS
  <2>2. hh_dirty => hh_dirty'
    BY <1>1, Zenon
  <2>3. QED
    BY <1>1, <1>7, <2>1, <2>2, Zenon DEF ArmInv, FlashNotAhead
<1>10. BlankUntilAsked'
  <2>1. heat_hours = 0 /\ heat_hours >= Arm => 0 >= Arm
    OBVIOUS
  <2>2. hh_dirty => hh_dirty'
    BY <1>1, Zenon
  <2>3. QED
    BY <1>1, <1>7, <2>1, <2>2, Zenon DEF ArmInv, BlankUntilAsked
<1>11. WithinArm'
  <2> SUFFICES ASSUME state = "FAILSAFE", ch_out
               PROVE  \E cfg \in Configs : 0 < cfg.heat_limit_h * HourMs
    BY <1>1, Zenon DEF WithinArm
  <2>1. PICK cfg \in Configs : unasked < cfg.heat_limit_h * HourMs
    BY DEF ArmInv, WithinArm
  <2>2. PICK a \in Nat : a = cfg.heat_limit_h * HourMs
    BY ConfigsAssumption, BoundFacts DEF ConfigType
  <2>3. 0 < a
    BY <1>2, <2>1, <2>2
  <2>4. QED
    BY <2>2, <2>3
<1>12. QED
  BY <1>3, <1>4, <1>5, <1>6, <1>8, <1>9, <1>10, <1>11 DEF ArmInv

LEMMA ArmCommand ==
  ASSUME ArmInv, RCommand \/ UNCHANGED rvars
  PROVE  ArmInv'
<1>1. /\ UNCHANGED <<pc, out, nvs, rtc, unasked, banked>>
      /\ UNCHANGED <<heat_hours, hh_ms, hh_dirty, persist_heat_hours, state, ch_out>>
  BY DEF RCommand, Command, HaChEnable, HaChSetpoint, heatVars, storeVars, edgeVars, heldVars,
         outVars, rvars, tvars, vars, resetHistory
<1>2. Times' /\ RamCovers' /\ OutCovers' /\ StoresCover'
  BY <1>1, Zenon DEF ArmInv, Times, RamCovers, OutCovers, StoresCover
<1>3. JustAsked' /\ OutIsRam' /\ FlashCatchesUp'
  BY <1>1, Zenon DEF ArmInv, JustAsked, OutIsRam, FlashCatchesUp
<1>4. FlashNotAhead' /\ BlankUntilAsked' /\ WithinArm'
  BY <1>1, Zenon DEF ArmInv, FlashNotAhead, BlankUntilAsked, WithinArm
<1>5. QED
  BY <1>2, <1>3, <1>4 DEF ArmInv

\* A boot from the stores, whatever they cover.
LEMMA ArmBoot ==
  ASSUME OneLimit, StoreType, NEW keeps_ram \in BOOLEAN, Boot(keeps_ram), Times', StoresCover',
         unasked' = banked',
         rtc'.hh_ms = IF keeps_ram /\ rtc.intact THEN rtc.hh_ms ELSE 0
  PROVE  ArmInv'
<1>1. PICK cfg \in Configs : InitAgain(cfg, Restored(nvs, rtc, keeps_ram), 0)
  BY DEF Boot
<1>2. /\ pc' = 0 /\ nvs' = nvs
      /\ heat_hours' = (IF nvs = None THEN HoursMax ELSE nvs) /\ hh_ms' = rtc'.hh_ms
      /\ ~hh_dirty' /\ ~ch_out' /\ ~persist_heat_hours'
  BY <1>1, Zenon DEF Boot, InitAgain, Restored
<1>3. (nvs = None \/ nvs \in Nat) /\ HoursMax >= Arm
  BY ArmIs, BoundFacts DEF StoreType
<1>4. RamCovers'
  BY <1>2, <1>3, Zenon DEF StoresCover, RamCovers
<1>5. OutCovers' /\ OutIsRam' /\ JustAsked' /\ WithinArm'
  BY <1>2, Zenon DEF OutCovers, OutIsRam, JustAsked, WithinArm
<1>6. nvs = None \/ (nvs >= nvs /\ nvs <= nvs)
  BY <1>3
<1>7. pc' # 1 /\ pc' # 2
  BY <1>2
<1>8. FlashCatchesUp' /\ FlashNotAhead' /\ BlankUntilAsked'
  BY <1>2, <1>3, <1>6, <1>7, Zenon DEF FlashCatchesUp, FlashNotAhead, BlankUntilAsked
<1>9. QED
  BY <1>4, <1>5, <1>8 DEF ArmInv

LEMMA ArmReset == ASSUME OneLimit, TypeOK, StoreType, ArmInv, RReset PROVE ArmInv'
<1>1. Boot(TRUE) /\ UNCHANGED <<rtc, nvs, banked>> /\ unasked' = banked
  BY DEF RReset, Reset, Boot
<1>2. Times'
  <2>1. banked \in 0..UnaskedMax /\ banked \in 0..banked
    BY ArmTypes DEF ArmInv
  <2>2. QED
    BY <1>1, <2>1, Zenon DEF ArmInv, Times
<1>3. StoresCover'
  BY <1>1, Zenon DEF ArmInv, StoresCover
<1>4. rtc'.hh_ms = IF rtc.intact THEN rtc.hh_ms ELSE 0
  BY <1>1 DEF ArmInv, Times
<1>5. QED
  BY <1>1, <1>2, <1>3, <1>4, ArmBoot

\* The power cut takes the part-hour from what was banked and from the stores.
LEMMA ArmPowerCut == ASSUME OneLimit, TypeOK, StoreType, ArmInv, RPowerCut PROVE ArmInv'
<1>1. Boot(FALSE) /\ nvs' = nvs /\ rtc' = Noise /\ rtc'.hh_ms = 0 /\ ~rtc'.intact
  BY DEF RPowerCut, PowerCut, Boot, Noise
<1>2. PICK t : t = IF banked > rtc.hh_ms THEN banked - rtc.hh_ms ELSE 0
  OBVIOUS
<1>3. unasked' = t /\ banked' = t
  BY <1>2 DEF RPowerCut
<1>4. t \in 0..UnaskedMax /\ t \in 0..t
  BY <1>2, ArmTypes DEF ArmInv
<1>5. Times'
  BY <1>1, <1>3, <1>4, Zenon DEF Times
<1>6. StoresCover'
  <2>1. nvs = None \/ nvs \in Nat
    BY ArmTypes DEF ArmInv
  <2>2. banked \in Nat /\ rtc.hh_ms \in Nat
    BY ArmTypes DEF ArmInv
  <2>3. Covers(nvs, rtc.hh_ms, banked) /\ nvs \in Nat => Covers(nvs, 0, t)
    BY <1>2, <2>2, CoversWithout, Zenon
  <2>4. QED
    BY <1>1, <1>3, <2>1, <2>3, Zenon DEF ArmInv, StoresCover
<1>7. QED
  BY <1>1, <1>3, <1>5, <1>6, ArmBoot

\* ArmInv holds throughout.
LEMMA ArmCorrect ==
  ASSUME ~SaveFails, OneLimit
  PROVE  RSpec => [](ArmInv /\ TypeOK /\ StoreType)
<1>1. RInit => ArmInv
  <2> SUFFICES ASSUME RInit PROVE ArmInv
    OBVIOUS
  <2>1. /\ pc = 0 /\ nvs = None /\ rtc = Noise /\ unasked = UnaskedMax /\ banked = UnaskedMax
        /\ heat_hours = HoursMax /\ ~hh_dirty /\ ~ch_out /\ ~persist_heat_hours
    BY DEF RInit, TInit, InitWith, Restored
  <2>2. UnaskedMax \in Nat /\ Arm \in 0..HoursMax /\ HoursMax \in Nat
    BY ArmIs, UnaskedAssumption, BoundFacts
  <2>3. rtc.hh_ms = 0 /\ heat_hours >= Arm /\ UnaskedMax \in 0..UnaskedMax
    BY <2>1, <2>2 DEF Noise
  <2>4. Times /\ RamCovers /\ OutCovers /\ StoresCover
    BY <2>1, <2>3, Zenon DEF Times, RamCovers, OutCovers, StoresCover
  <2>5. pc # 1 /\ pc # 2
    BY <2>1
  <2>6. JustAsked /\ OutIsRam /\ FlashCatchesUp /\ FlashNotAhead /\ BlankUntilAsked /\ WithinArm
    BY <2>1, <2>3, <2>5, Zenon
       DEF JustAsked, OutIsRam, FlashCatchesUp, FlashNotAhead, BlankUntilAsked, WithinArm
  <2>7. QED
    BY <2>4, <2>6 DEF ArmInv
<1>2. ArmInv /\ TypeOK /\ StoreType /\ [RNext]_rvars => ArmInv'
  BY ArmStep, ArmSave, ArmMirror, ArmAsk, ArmCommand, ArmReset, ArmPowerCut, Zenon DEF RNext
<1>3. QED
  BY <1>1, <1>2, TypeCorrectR, PTL DEF RSpec

\* What the stores would bring back, in hours and a part.
LEMMA StoredIs ==
  ASSUME TypeOK, StoreType, ArmInv, nvs # None
  PROVE  Stored = nvs * HourMs + rtc.hh_ms /\ nvs \in Nat
<1>1. nvs \in Nat /\ rtc.hh_ms \in Nat
  BY ArmTypes DEF ArmInv
<1>2. rtc.hh_ms = IF rtc.intact THEN rtc.hh_ms ELSE 0
  BY DEF ArmInv, Times
<1>3. QED
  BY <1>1, <1>2, Zenon DEF Stored

LEMMA StoresSuffice ==
  ASSUME OneLimit, TypeOK, StoreType, ArmInv, NEW cfg \in Configs
  PROVE  Stored >= Sooner(banked, cfg.heat_limit_h * HourMs)
<1>1. cfg.heat_limit_h = Arm /\ Arm \in Nat
  BY ArmIs, BoundFacts
<1>2. PICK a \in Nat : a = Arm * HourMs
  BY <1>1, BoundFacts
<1>3. banked \in Nat /\ banked <= UnaskedMax /\ UnaskedMax \in Nat
  BY ArmTypes DEF ArmInv
<1>4. PICK s \in Nat : s = Sooner(banked, a) /\ s <= banked /\ s <= a
  BY <1>2, <1>3 DEF Sooner
<1>5. Stored >= s
  <2>1. CASE nvs = None
    BY <1>3, <1>4, <2>1 DEF Stored
  <2>2. CASE nvs # None
    <3>1. PICK b \in Nat, p \in Nat : b = nvs * HourMs /\ p = rtc.hh_ms
      BY <2>2, StoredIs, ArmTypes, BoundFacts DEF ArmInv
    <3>2. Stored = b + p
      BY <2>2, <3>1, StoredIs, Zenon
    <3>3. CASE nvs >= Arm
      <4>1. Arm * HourMs <= nvs * HourMs
        BY <1>1, <2>2, <3>3, StoredIs, TimesMonotone, BoundFacts
      <4>2. a <= b
        BY <1>2, <3>1, <4>1, Zenon
      <4>3. QED
        BY <1>4, <3>2, <4>2
    <3>4. CASE Covers(nvs, rtc.hh_ms, banked)
      <4>1. b + p >= banked
        BY <3>1, <3>4, Zenon DEF Covers
      <4>2. QED
        BY <1>3, <1>4, <3>2, <4>1
    <3>5. QED
      BY <2>2, <3>3, <3>4 DEF ArmInv, StoresCover
  <2>3. QED
    BY <2>1, <2>2
<1>6. QED
  BY <1>1, <1>2, <1>4, <1>5, Zenon

\* A reset never lengthens the failsafe's arm: whenever it comes, what the two
\* stores hold is at least the powered time that completed ticks counted since HA
\* last asked for heat, up to where the arm has run out anyway.
THEOREM ArmsNeverLengthen ==
  ASSUME ~SaveFails, OneLimit
  PROVE  RSpec => []ArmNeverLengthened
<1>1. ArmInv /\ TypeOK /\ StoreType => ArmNeverLengthened
  BY StoresSuffice, Zenon DEF ArmNeverLengthened
<1>2. QED
  BY <1>1, ArmCorrect, PTL

\* The summer bound through reboots: a failsafe heats only while completed ticks
\* have counted less than the limit's powered time since HA last asked for heat.
THEOREM SummersBounded ==
  ASSUME ~SaveFails, OneLimit
  PROVE  RSpec => []SummerBound
<1>1. ArmInv /\ TypeOK /\ StoreType => SummerBound
  <2> SUFFICES ASSUME ArmInv, TypeOK, StoreType, state = "FAILSAFE", ch_out
               PROVE  \E cfg \in Configs : banked < cfg.heat_limit_h * HourMs
    BY DEF SummerBound
  <2>1. PICK cfg \in Configs : unasked < cfg.heat_limit_h * HourMs
    BY DEF ArmInv, WithinArm
  <2>2. PICK a \in Nat : a = cfg.heat_limit_h * HourMs
    BY ConfigsAssumption, BoundFacts DEF ConfigType
  <2>3. banked < a
    BY <2>1, <2>2, ArmTypes DEF ArmInv
  <2>4. QED
    BY <2>2, <2>3
<1>2. QED
  BY <1>1, ArmCorrect, PTL

=============================================================================
