--------------------------- MODULE OtNetRecovery ----------------------------
(***************************************************************************)
(* The way back: what OtNet owes a device nobody can reach by wire.        *)
(* History variables:                                                      *)
(*                                                                         *)
(*   worked   the pairs that ever had an address                           *)
(*   since    the time since the access point last came up or went down,   *)
(*            not told apart beyond AgeMax                                 *)
(***************************************************************************)
EXTENDS OtNet

VARIABLES worked, since

rvars == <<nvars, worked, since>>

\* What is known good when the device leaves its first state has worked.
RInit == NInit /\ worked = {nvs.good} \ {None} /\ since = AgeMax

RTask    == Task /\ UNCHANGED worked /\ since' = IF ApUp' # ApUp THEN 0 ELSE since
RPass    == Pass /\ UNCHANGED worked /\ since' = IF since < AgeMax THEN since + 1 ELSE since
ROwner   == Owner /\ UNCHANGED <<worked, since>>
RAnswers == Answers /\ UNCHANGED <<worked, since>>
RAddress == GetsAddress /\ worked' = worked \cup {link.on} /\ UNCHANGED since
RDrops   == Drops /\ UNCHANGED <<worked, since>>
RRestart == Restart /\ UNCHANGED worked /\ since' = AgeMax

RNext == RTask \/ RPass \/ ROwner \/ RAnswers \/ RAddress \/ RDrops \/ RRestart

RSpec == RInit /\ [][RNext]_rvars

\* The task runs, time passes, and an attempt to join ends one way or the other.
RFairSpec == RSpec /\ WF_rvars(RTask) /\ SF_rvars(RPass) /\ WF_rvars(RAnswers)

-----------------------------------------------------------------------------
\* "An address on the owner's network is the ONLY thing that makes a pair
\* known-good": what a rollback would put back has worked.  (apply_action,
\* ot_config_nvs_commit_known_good.)
KnownGoodWorked == nvs.good \in worked \cup {None}

\* However clients keep knocking, an access point that came up goes down again
\* by the ceiling: a step of the task later it is off the air.  (window_open_at,
\* tick() 1, ot_prov_mode.)
AccessPointBounded == ApUp /\ stepped => since < SetupCeiling

\* The station of a device with a network to try never stops trying: again and
\* again it is joining, or it has an address.  ("A dropped CONNECT is a station
\* that never tries again": set_action, arm_retry, tick() 3 and 4.)
StationTriesAgain ==
  []<>(s.has_credentials => link.now \in {"joining", "addressed"})

\* "There is never a state with no network, no access point and no way back":
\* again and again a device with a network to try is on it, or has its access
\* point up, or will have it up at the next boot.  (tick() 5 and 6, init.)
WayBack ==
  []<>(s.has_credentials => link.now = "addressed" \/ ApUp \/ nvs.no_address)

\* So it is for a device that its networks turn away, through rollbacks, power
\* cuts and attempts that end in any order.
WayBackWhenTurnedAway == fate = "turned_away" => WayBack

\* "The next one is thirty minutes after this one CAME DOWN": the access point
\* raised by itself is a duty cycle, not an open access point for ever.
\* (tick() 1 and 5.)  No run checks it: TLC finds it violated (README,
\* Divergences).
DutyCycle ==
  [][RTask /\ ApUp' /\ ~ApUp /\ s_sta_ready => since >= FallbackAfter]_rvars
==============================================================================
