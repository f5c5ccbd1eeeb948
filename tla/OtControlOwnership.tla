------------------------- MODULE OtControlOwnership --------------------------
(***************************************************************************)
(* What Home Assistant may do to the boiler, and for how long after it     *)
(* spoke.  The executor of OtControl with history variables that remember  *)
(* what HA really said, independently of the fields the code keeps:        *)
(*                                                                         *)
(*   silence     time since the last accepted HA CH command, of any age    *)
(*   said_on     HA's last accepted CH_ENABLE in the present ownership     *)
(*   said_sp     HA's last accepted setpoint in it, None if there is none  *)
(*   released    since the last step HA sent a CH_ENABLE in a failsafe     *)
(*               whose source was not blind                                *)
(*                                                                         *)
(* The present ownership begins when a step first sees HA mode with the    *)
(* season on, and again when a failsafe is released.                       *)
(***************************************************************************)
EXTENDS OtControl

VARIABLES silence, said_on, said_sp, released

history == <<silence, said_on, said_sp, released>>
hvars   == <<vars, history>>

Owned == seen_ha /\ seen_season

HInit ==
  /\ Init
  /\ silence = AgeMax /\ said_on = FALSE /\ said_sp = None /\ released = FALSE

HStep ==
  \E cfg \in Configs, in \in Inputs, dt \in Dts :
    /\ Step(cfg, in, dt)
    /\ silence' = AddSat(silence, dt)
    /\ released' = FALSE
    /\ IF Owned /\ Owned'
         THEN UNCHANGED <<said_on, said_sp>>
         ELSE said_on' = FALSE /\ said_sp' = None

Releases == state = "FAILSAFE" /\ ~blind

HHaChEnable ==
  \E cfg \in Configs, v \in {0, 1} :
    /\ HaChEnable(cfg, v)
    /\ silence' = 0
    /\ released' = (released \/ Releases)
    /\ said_on' = (v = 1)
    /\ said_sp' = IF Releases /\ ~released THEN None ELSE said_sp

HHaChSetpoint ==
  \E cfg \in Configs, v \in HaSetpoints :
    /\ HaChSetpoint(cfg, v)
    /\ silence' = 0 /\ said_sp' = Bound(cfg, v)
    /\ UNCHANGED <<said_on, released>>

HDhwSetpoint ==
  /\ \E cfg \in Configs, o \in Origins, v \in DhwCommands : DhwSetpoint(cfg, o, v)
  /\ UNCHANGED history

HBoost ==
  /\ \/ \E cfg \in Configs, b \in BoostRequests, late \in Lates : BoostStart(cfg, b[1], b[2], late)
     \/ BoostCancel
  /\ UNCHANGED history

HNext == HStep \/ HHaChEnable \/ HHaChSetpoint \/ HDhwSetpoint \/ HBoost

HSpec == HInit /\ [][HNext]_hvars

\* The thermostat task steps the executor once a second for as long as the
\* device runs; nothing obliges HA or a person to speak.
HFairSpec == HSpec /\ WF_hvars(HStep)

-----------------------------------------------------------------------------
\* The executor follows HA only while HA is heard: it is in state "HA" only if
\* HA's last accepted CH command is younger than the watchdog, however the
\* mode, the season and the failsafe went in between.  (The watchdog's own
\* accumulator is cleared in LOCAL mode, so it alone does not show this.)
HaIsAlive == state = "HA" => \E cfg \in Configs : silence < cfg.watchdog

\* Nothing HA said before it took over (or before a failsafe was released)
\* survives the take-over: in state "HA" a request for heat was made in this
\* ownership, and the setpoint is the one sent in it, or the owner's failsafe
\* setpoint where HA has sent none.
CommandIsCurrent ==
  state = "HA" =>
    /\ ha_ch_enable => said_on
    /\ IF said_sp = None THEN \E cfg \in Configs : ha_setpoint = cfg.failsafe_setpoint
                         ELSE ha_setpoint = said_sp

\* A failsafe gives way to HA only at the step right after HA sent a CH_ENABLE
\* while its room source was not stale: a setpoint, a fresh sensor or a fed
\* watchdog alone never ends it.
FailsafeNeedsRelease ==
  [][state = "FAILSAFE" /\ state' = "HA" => released]_hvars

\* The watchdog ran out, whichever snapshot is asked.
Overran == \A cfg \in Configs : overdue >= cfg.watchdog

\* A boost is a person's request and never outlives LOCAL ownership: it does
\* not exist while the executor has seen HA mode.
BoostIsLocal == boost_active => ~seen_ha

\* "a latched failsafe always has ha_heard or an expired watchdog, so row 4
\* never sees one" (ot_control.c, above ladder).
LatchedNeverWaits == ~(state = "HA_WAITING" /\ fs_latched)

\* What makes these hold, as one inductive invariant.  HA's watchdog is never
\* younger than HA's last word; a failsafe is latched until it is released;
\* and, as long as nobody edits the watchdog, a latched failsafe that HA owns
\* is the executor's state, which is why a release is noticed as one.
SilenceCovered == seen_ha /\ ha_heard => silence <= overdue

FailsafeHeld ==
  /\ state \in {"HA_WAITING", "FAILSAFE", "HA"} => Owned
  /\ state = "FAILSAFE" => fs_latched \/ released
  /\ released => ~fs_latched

LatchShows == Owned /\ fs_latched => state = "FAILSAFE" /\ (ha_heard \/ Overran)

SaidCurrent ==
  Owned =>
    /\ ha_ch_enable => said_on
    /\ IF said_sp = None THEN \E cfg \in Configs : ha_setpoint = cfg.failsafe_setpoint
                         ELSE ha_setpoint = said_sp

OwnershipInv == BoostIsLocal /\ SilenceCovered /\ HaIsAlive /\ FailsafeHeld

\* A silent HA is always noticed: if from some time on HA owns the boiler and
\* says nothing, the executor ends up in failsafe and stays there.
SilenceEndsInFailsafe ==
  <>[](Owned /\ silence = AgeMax) => <>[](state = "FAILSAFE")
==============================================================================
