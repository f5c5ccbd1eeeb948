------------------------------- MODULE OtFields -------------------------------
(***************************************************************************)
(* What one setting may hold (ot_config_check.c) and what the executor is  *)
(* given of it (ot_control_io.c).  OtConfig takes these checks as sets of  *)
(* legal values; here a text is the sequence of its bytes, without a NUL   *)
(* at the end.                                                             *)
(***************************************************************************)
EXTENDS Integers, Sequences

SsidMax == 32      PskMin == 8        PskMax == 64
HostMax == 253     UserMax == 128     BrokerPassMax == 128
PrefixMax == 64    NameMax == 48      TzMax == 63
UiPassMin == 8     UiPassMax == 128

Digit     == 48..57
Letter    == (65..90) \cup (97..122)
Hex       == Digit \cup (65..70) \cup (97..102)
IsControl == (0..31) \cup {127}
HostChar  == Letter \cup Digit \cup {45, 46, 58, 91, 93, 95}      \* - . : [ ] _
Dollar == 36   Slash == 47   Plus == 43   Hash == 35   Blank32 == 32

Made(text, of) == \A i \in DOMAIN text : text[i] \in of
Free(text, of) == \A i \in DOMAIN text : text[i] \notin of

SsidText(t) == Len(t) \in 1..SsidMax /\ Free(t, {0})

\* Sixty-four characters are the key itself, in hexadecimal.
PskText(t) ==
  \/ Len(t) = 0
  \/ Len(t) \in PskMin..PskMax /\ Free(t, {0}) /\ (Len(t) = PskMax => Made(t, Hex))

HostText(t) == Len(t) <= HostMax /\ Made(t, HostChar)

PortNumber(n) == n \in 1..65535

UserText(t) == Len(t) <= UserMax
BrokerPasswordText(t) == Len(t) <= BrokerPassMax

NtpText(t) == Len(t) > 0 /\ HostText(t)

TzText(t) == Len(t) \in 1..TzMax /\ Made(t, 33..126)

PrefixText(t) ==
  /\ Len(t) \in 1..PrefixMax
  /\ t[1] # Dollar
  /\ t[1] # Slash /\ t[Len(t)] # Slash
  /\ Free(t, {Plus, Hash, Blank32} \cup IsControl)
  /\ \A i \in 1..Len(t) - 1 : ~(t[i] = Slash /\ t[i + 1] = Slash)

NameText(t) == Len(t) \in 1..NameMax /\ Free(t, IsControl)

UiPasswordText(t) == Len(t) \in UiPassMin..UiPassMax /\ Free(t, IsControl)

\* RANGES: least, greatest, step.
Half == 5
Ranges ==
  [control_mode |-> <<0, 1, 1>>, watchdog_s |-> <<60, 7200, 1>>,
   failsafe_setpoint_dc |-> <<100, 900, Half>>, failsafe_room_target_dc |-> <<50, 300, 1>>,
   failsafe_heat_days |-> <<1, 30, 1>>, failsafe_min_cycle_s |-> <<60, 3600, 1>>,
   flow_min_dc |-> <<100, 900, Half>>, flow_max_dc |-> <<100, 900, Half>>,
   local_ch_setpoint_dc |-> <<100, 900, Half>>, dhw_setpoint_dc |-> <<0, 900, 1>>,
   room_mqtt_role |-> <<0, 1, 1>>, room_mqtt_stale_s |-> <<10, 65535, 1>>]

\* ot_config_check_range: what is not a number here is refused.
CheckRange(f, v) ==
  /\ f \in DOMAIN Ranges
  /\ v \in Ranges[f][1]..Ranges[f][2] /\ v % Ranges[f][3] = 0

-----------------------------------------------------------------------------
(* The executor's side.                                                     *)

\* dc_of: 16 bits with a sign of 16 without.
DcOf(v) == IF v > 32767 THEN 32767 ELSE v

\* ot_control_io_cfg, of a document whatever it holds.
ControlCfg(pub) ==
  [mode |-> IF pub.control_mode = 1 THEN "HA" ELSE "LOCAL",
   heating_season |-> pub.heating_season, watchdog_s |-> pub.watchdog_s,
   failsafe_setpoint_dc |-> DcOf(pub.failsafe_setpoint_dc),
   failsafe_room_target_dc |-> DcOf(pub.failsafe_room_target_dc),
   failsafe_heat_days |-> IF pub.failsafe_heat_days > 255 THEN 255 ELSE pub.failsafe_heat_days,
   failsafe_min_cycle_s |-> pub.failsafe_min_cycle_s,
   flow_min_dc |-> DcOf(pub.flow_min_dc), flow_max_dc |-> DcOf(pub.flow_max_dc),
   local_ch_enable |-> pub.local_ch_enable, local_ch_setpoint_dc |-> DcOf(pub.local_ch_setpoint_dc),
   dhw_enable |-> pub.dhw_enable, dhw_setpoint_set |-> pub.dhw_setpoint_dc # 0,
   dhw_setpoint_dc |-> DcOf(pub.dhw_setpoint_dc)]

\* What cannot be stored as it is: below zero, the widest number there is.
TooWide == 2147483647
StoredDc(dc) == IF dc < 0 THEN TooWide ELSE dc

-----------------------------------------------------------------------------
(* Claims.                                                                  *)

\* The topic a prefix is the root of, level by level.
Levels(t) ==
  LET cuts == {0, Len(t) + 1} \cup {i \in DOMAIN t : t[i] = Slash}
      next(i) == CHOOSE j \in cuts : j > i /\ \A k \in cuts : k > i => j <= k
  IN  {SubSeq(t, i + 1, next(i) - 1) : i \in cuts \ {Len(t) + 1}}

\* An accepted prefix names levels of its own: none empty, none a wildcard,
\* none the broker's.
TopicIsOurs(texts) ==
  \A t \in texts : PrefixText(t) =>
    \A l \in Levels(t) : l # <<>> /\ Free(l, {Plus, Hash}) /\ (l = SubSeq(t, 1, Len(l)) => l[1] # Dollar)

\* A number the settings accept is the number the executor runs on.
AcceptedIsGiven(numbers) ==
  \A v \in numbers : CheckRange("flow_max_dc", v) /\ CheckRange("dhw_setpoint_dc", v) => DcOf(v) = v

\* A temperature of the executor that would be below zero is refused by the
\* settings, never wrapped into one they accept.
NegativeIsRefused(numbers) ==
  \A v \in numbers : \A f \in {"local_ch_setpoint_dc", "dhw_setpoint_dc"} :
    CheckRange(f, StoredDc(v)) => v = StoredDc(v)
==============================================================================
