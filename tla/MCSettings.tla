----------------------------- MODULE MCSettings ------------------------------
(***************************************************************************)
(* Small instances of OtSettings: two networks, two brokers, four flow     *)
(* temperatures, two plain settings, and stores of every schema.           *)
(***************************************************************************)
EXTENDS OtSettings, OtFields

CONSTANTS s1, s2, k1, h1, h2, u1

SmallPlain   == {"topic_prefix", "heating_season"}
SmallLegal   == [topic_prefix |-> {"opentherm", "house"}, heating_season |-> {"on", "off"}]
SmallDefault == [topic_prefix |-> "opentherm", heating_season |-> "off"]
SmallOwned   == {"heating_season"}

\* A document the owner may already have, as an earlier save left it.
Blank ==
  [f \in DOMAIN Defaults \cup {"good", "schema", "retired"} |->
     CASE f = "plain"   -> [g \in Plain |-> None]
       [] f = "schema"  -> 0
       [] f = "retired" -> [k \in {"cl_dhw_en", "cl_man_ch"} |-> None]
       [] OTHER -> None]

Settled ==
  [Blank EXCEPT !.wifi = [ssid |-> s1, psk |-> k1], !.good = [ssid |-> s1, psk |-> k1],
                !.mqtt_host = h1, !.mqtt_password = <<h1>>, !.control_mode = "HA",
                !.schema = 2, !.dhw_enable = FALSE]

Schema1 == [Blank EXCEPT !.retired = [cl_dhw_en |-> FALSE, cl_man_ch |-> TRUE], !.schema = 1,
                         !.wifi = [ssid |-> s1, psk |-> k1]]
Leftovers == [Settled EXCEPT !.retired = [cl_dhw_en |-> TRUE, cl_man_ch |-> TRUE]]
Newer     == [Settled EXCEPT !.schema = 3, !.retired = [cl_dhw_en |-> None, cl_man_ch |-> TRUE]]
Damaged   == [Settled EXCEPT !.wifi = Bad, !.mqtt_host = Bad, !.ui_password = Bad,
                             !.flow_min = 4, !.flow_max = 9, !.failsafe_setpoint = 0,
                             !.plain = [topic_prefix |-> Bad, heating_season |-> "on"]]

SmallStores == {Blank, Settled, Schema1, Leftovers, Newer, Damaged}

Edit == [Page(Defaults) EXCEPT !.mqtt_host = None, !.mqtt_password = None, !.control_mode = None,
                               !.flow_min = None, !.flow_max = None, !.failsafe_setpoint = None,
                               !.ui_password = None, !.plain = NoPatch.plain]

\* What the owner types into the page.
SmallBodies(doc) ==
  {[Page(doc) EXCEPT !.mqtt_host = h2],
   [Page(doc) EXCEPT !.mqtt_host = h2, !.mqtt_password = <<h2>>, !.control_mode = "HA"],
   [Page(doc) EXCEPT !.mqtt_host = NoHost, !.control_mode = "LOCAL"],
   [Edit EXCEPT !.mqtt_host = h1],
   [Edit EXCEPT !.flow_min = 3, !.flow_max = 4, !.failsafe_setpoint = 4],
   [Edit EXCEPT !.flow_max = 2], [Edit EXCEPT !.control_mode = "HA"],
   [Edit EXCEPT !.ui_password = u1], [Edit EXCEPT !.mqtt_host = NoHost, !.dhw_enable = FALSE],
   [Edit EXCEPT !.wifi_ssid = s2, !.wifi_psk = Sentinel]}

SmallCommands ==
  {[NoPatch EXCEPT !.dhw_enable = TRUE], [NoPatch EXCEPT !.local_ch_setpoint = 3],
   [NoPatch EXCEPT !.plain = [heating_season |-> "on"]]}

\* The page above puts a password beside the address it is for.
ASSUME \A store \in Stores : TypedForItsHost(Loaded(store))

-----------------------------------------------------------------------------
(* Claims over OtFields.                                                    *)

Scraps == UNION {[1..n -> {Dollar, Slash, Plus, Hash, Blank32, 31, 97}] : n \in 0..4}
Long(byte) == {[i \in 1..n |-> byte] : n \in {7, 8, 32, 33, 48, 49, 63, 64, 65, 128, 129, 253, 254}}

\* No accepted prefix reaches a topic that is not this device's.
ASSUME TopicIsOurs(Scraps \cup Long(97) \cup Long(Slash))

\* What is stored as hot water or flow is what the executor holds, and a
\* document damaged beyond that stops at the end of its range.
ASSUME /\ AcceptedIsGiven(0..1000 \cup {32767, 32768, 40000, 65535})
       /\ NegativeIsRefused(-5..1000)
       /\ DcOf(40000) = 32767

\* The half-degree grid lies within the band, so rounding never leaves it.
ASSUME \A f \in DOMAIN Ranges : \A v \in {Ranges[f][1], Ranges[f][2]} : CheckRange(f, v)

\* Each text at its longest and one past it; a key of 64 characters is one.
ASSUME /\ {Len(t) : t \in {t \in Long(97) : PskText(t)}} = {8, 32, 33, 48, 49, 63, 64}
       /\ {Len(t) : t \in {t \in Long(122) : PskText(t)}} = {8, 32, 33, 48, 49, 63}
       /\ {Len(t) : t \in {t \in Long(97) : UiPasswordText(t)}} = {8, 32, 33, 48, 49, 63, 64, 65, 128}
       /\ \A t \in Long(97) :
            /\ (SsidText(t) <=> Len(t) <= 32) /\ (NameText(t) <=> Len(t) <= 48)
            /\ (TzText(t) <=> Len(t) <= 63)   /\ (HostText(t) <=> Len(t) <= 253)
       /\ HostText(<<>>) /\ ~NtpText(<<>>) /\ ~TzText(<<97, 32, 97>>) /\ ~NameText(<<97, 127>>)
==============================================================================
