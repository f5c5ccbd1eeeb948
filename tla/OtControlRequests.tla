-------------------------- MODULE OtControlRequests --------------------------
(***************************************************************************)
(* What a person asks of the executor: a boost for a while, and a DHW      *)
(* setpoint the boiler should hold.  OtControl with history variables for  *)
(* what was asked and what went out:                                       *)
(*                                                                         *)
(*   boost_left    real time from the last step to the boost's deadline,   *)
(*                 0 with none                                             *)
(*   stored        the DHW setpoint in the last step's snapshot, 0 if unset *)
(*   owed          the DHW setpoint last commanded and not yet carried out *)
(*   writes        writes of ID 56 since a command, a new target or the    *)
(*                 boiler's agreement                                      *)
(***************************************************************************)
EXTENDS OtControl

\* No step is late by as long as half the clock's range (24 days).
ASSUME TimelyStepAssumption == \A dt \in Dts : dt <= ClockMod \div 2

VARIABLES boost_left, stored, owed, writes

dhwHistory == <<stored, owed, writes>>
qvars == <<vars, boost_left, dhwHistory>>

QInit ==
  /\ Init
  /\ boost_left = 0 /\ stored = 0 /\ owed = None /\ writes = 0

Agrees(cfg, in) == in.readback # None /\ in.readback = cfg.dhw_setpoint

QStep ==
  \E cfg \in Configs, in \in Inputs, dt \in Dts :
    /\ Step(cfg, in, dt)
    /\ boost_left' = IF seen_ha' # seen_ha \/ boost_left <= dt THEN 0 ELSE boost_left - dt
    /\ stored' = cfg.dhw_setpoint
    /\ owed' = IF cfg.dhw_setpoint = owed /\ (send_dhw' \/ Agrees(cfg, in))
                 THEN None ELSE owed
    /\ LET before == IF dhw_target' # dhw_target \/ Agrees(cfg, in) THEN 0 ELSE writes
       IN  writes' = IF send_dhw' THEN before + 1 ELSE before

QDhwSetpoint ==
  \E cfg \in Configs, o \in Origins, v \in DhwCommands :
    /\ DhwSetpoint(cfg, o, v)
    /\ owed' = v /\ writes' = 0
    /\ UNCHANGED <<boost_left, stored>>

QBoostStart ==
  \E cfg \in Configs, b \in BoostRequests, late \in Lates :
    /\ BoostStart(cfg, b[1], b[2], late)
    /\ boost_left' = late + b[2]
    /\ UNCHANGED dhwHistory

QBoostCancel ==
  /\ BoostCancel
  /\ boost_left' = 0
  /\ UNCHANGED dhwHistory

QNext == QStep \/ QDhwSetpoint \/ QBoostStart \/ QBoostCancel

QSpec == QInit /\ [][QNext]_qvars

-----------------------------------------------------------------------------
Stepped == now' # now

\* A boost ends at its deadline and not before, wherever the millisecond clock
\* wraps: unless cancelled or ended by a change of mode it runs exactly while
\* real time is left of it.
BoostOnTime == boost_active <=> boost_left > 0

\* A boiler that never agrees is not written for ever (its flash wears out):
\* after DHW_MAX_TRIES writes a target is given up until it changes, the boiler
\* agrees, or somebody asks again.
DhwWritesBounded == writes <= DhwMaxTries

\* A command just given is carried out: at the step at which the store first
\* holds the commanded value it is written, or the boiler already holds it.
DhwCommandCarriedOut ==
  [][Stepped /\ owed # None /\ stored' = owed => owed' = None]_qvars

==============================================================================
