---------------------------- MODULE OtControlHeat ----------------------------
(***************************************************************************)
(* When the boiler is told to heat.  The executor of OtControl with        *)
(* history variables for what really happened to the bus, the bit and the  *)
(* house:                                                                  *)
(*                                                                         *)
(*   given     the settings and the room reading the last step was given   *)
(*   wire      the ID 1 the bus last carried since the setpoint now held   *)
(*             was taken, None before                                      *)
(*   idle      powered time since HA last asked for heat, up to IdleMax    *)
(*   bit_age   time since the CH bit last moved                            *)
(*   chilled   in this failsafe, while heat was allowed, the room was cold *)
(*             or unseen, and it has not been warm since                   *)
(***************************************************************************)
EXTENDS OtControl

CONSTANT IdleMax   \* a bound of the model: idle is not told apart beyond it

\* No step is late by as long as the accumulators can count (49 days).
ASSUME LateStepAssumption == \A dt \in Dts : HourMs - 1 + dt <= AgeMax /\ dt < ClockMod
ASSUME IdleAssumption ==
  /\ IdleMax \in Nat
  /\ \A cfg \in Configs : cfg.heat_limit_h <= HoursMax /\ cfg.heat_limit_h * HourMs <= IdleMax

VARIABLES given, wire, idle, bit_age, chilled

burnerHistory == <<given, wire, idle, bit_age, chilled>>
bvars         == <<vars, burnerHistory>>

AddIdle(a, b) == IF a + b > IdleMax THEN IdleMax ELSE a + b

\* The powered time the settings of the last step allow a failsafe to heat.
HeatLimit == given.cfg.heat_limit_h * HourMs

BInit ==
  /\ Init
  /\ given \in [cfg : Configs, room : Rooms]
  /\ wire = None /\ bit_age = AgeMax /\ chilled = FALSE
  /\ idle = AddIdle(heat_hours * HourMs, hh_ms)

BStep ==
  \E cfg \in Configs, in \in Inputs, dt \in Dts :
    /\ Step(cfg, in, dt)
    /\ given' = [cfg |-> cfg, room |-> in.room]
    /\ wire' = IF in.report # None THEN in.report
               ELSE IF held' = held THEN wire ELSE None
    /\ idle' = AddIdle(idle, dt)
    /\ bit_age' = IF ch_out' # ch_out THEN 0 ELSE AddSat(bit_age, dt)
    /\ chilled' = /\ state' = "FAILSAFE" /\ idle' < HeatLimit'
                  /\ in.room \in {"stale", "cold"} \/ (in.room = "mild" /\ chilled)

BHaChEnable ==
  \E cfg \in Configs, v \in {0, 1} :
    /\ HaChEnable(cfg, v)
    /\ idle' = IF v = 1 THEN 0 ELSE idle
    /\ UNCHANGED <<given, wire, bit_age, chilled>>

BHaChSetpoint ==
  /\ \E cfg \in Configs, v \in HaSetpoints : HaChSetpoint(cfg, v)
  /\ UNCHANGED burnerHistory

BNext == BStep \/ BHaChEnable \/ BHaChSetpoint

BSpec == BInit /\ [][BNext]_bvars

-----------------------------------------------------------------------------
\* CH never rises on a setpoint the boiler does not have: at the step that
\* raises the bit, the last ID 1 the bus carried is the one now held, and it was
\* carried since that setpoint was taken, whatever foreign value went out between.
RiseIsCarried == [][~ch_out /\ ch_out' => wire' = held']_bvars

\* The step now taken finds the bit younger than the minimum cycle.
BitTooYoung == AddSat(bit_age, Elapsed) < given'.cfg.min_cycle

\* The room hysteresis never cycles the burner faster than the minimum cycle,
\* measured on the bit really sent, whoever moved it last.
CycleRespected ==
  [][ch_out' # ch_out /\ reason' \in {"FS_ROOM_COLD", "FS_ROOM_WARM"} => ~BitTooYoung]_bvars

\* A house is not left to freeze.  A step of a failsafe that leaves CH down was
\* given a warm room; or one inside the dead band that has not been cold or
\* unseen since it was last warm; or HA has not asked for heat for as long as
\* the settings allow; or CH was down already, and either the bus has yet to
\* carry the setpoint or a room that is seen must wait for the minimum cycle.
\* What the executor gives as its reason is not believed.
ColdHouseHeats ==
  [][now' # now /\ state' = "FAILSAFE" /\ ~ch_out' =>
       \/ given'.room = "warm"
       \/ given'.room = "mild" /\ ~chilled'
       \/ idle' >= HeatLimit'
       \/ ~ch_out /\ wire' # held'
       \/ ~ch_out /\ given'.room # "stale" /\ BitTooYoung]_bvars
==============================================================================
