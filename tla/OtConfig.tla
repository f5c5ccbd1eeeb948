------------------------------ MODULE OtConfig -------------------------------
(***************************************************************************)
(* The half of components/ot_config that has no flash in it: what a stored *)
(* document may hold (ot_config_check.c), what a fresh device holds and    *)
(* what damage is repaired to (ot_config_defaults.c), and what a submitted *)
(* document means when it mentions half of itself (ot_config_apply.c).     *)
(*                                                                         *)
(* A document is a record.  The settings that stand in no rule with any    *)
(* other (port, user, prefix, name, zone, time server, the flags, and the  *)
(* numbers that have only a range) are one function, `plain`.  Flow        *)
(* temperatures are positions on the half-degree grid.  The value of a     *)
(* broker password is the broker it was typed for, in angle brackets; that *)
(* of a web password's record is the password it was derived from.         *)
(***************************************************************************)
EXTENDS Integers

CONSTANTS
  None,          \* not mentioned by a patch; nothing stored
  Empty,         \* the empty string, submitted for a secret
  Sentinel,      \* what a stored secret is shown as, submitted back
  Bad,           \* a value no check accepts, damaged in flash or mistyped
  Open,          \* the key of a network without one
  Ssids, Psks,   \* names and keys the checks accept
  Hosts,         \* broker addresses the check accepts; NoHost is "no broker"
  NoHost,
  UiPasswords,   \* web passwords the check accepts
  Plain,         \* the names of the plain settings
  PlainLegal,    \* what each of them may hold
  PlainDefault,
  FlowLo, FlowHi,                \* the range of a flow temperature
  DefaultMin, DefaultMax, DefaultFailsafe, DefaultLocal

\* The defaults are documents the checks accept.
ASSUME ConfigAssumption ==
  /\ {FlowLo, FlowHi, DefaultMin, DefaultMax, DefaultFailsafe, DefaultLocal} \subseteq Int
  /\ FlowLo <= DefaultMin /\ DefaultMin < DefaultMax /\ DefaultMax <= FlowHi
  /\ DefaultFailsafe \in DefaultMin..DefaultMax
  /\ DefaultLocal \in DefaultMin..DefaultMax
  /\ \A f \in Plain : PlainDefault[f] \in PlainLegal[f]
  /\ NoHost \notin Hosts /\ Bad \notin Hosts /\ None \notin Hosts
  /\ None \notin UiPasswords

Flow == FlowLo..FlowHi

Wifis == [ssid : Ssids, psk : Psks \cup {Open}]

\* "Nothing stored" is not a value of any setting, nor a damaged one.
ASSUME ValuesAssumption ==
  /\ None \notin BOOLEAN /\ None \notin Int /\ None \notin {NoHost, Bad} /\ None \notin {"LOCAL", "HA"}
  /\ None \notin Wifis /\ \A f \in Plain : None \notin PlainLegal[f]

\* One predicate for what the station is handed and what is shown as stored.
WifiUsable(wifi) == wifi \in Wifis

\* The rules that span fields.
CheckFlow(lo, hi, failsafe) ==
  IF lo >= hi THEN "flow"
  ELSE IF failsafe \notin lo..hi THEN "failsafe" ELSE "ok"

CheckMode(mode, host) ==
  IF mode = "HA" /\ host = NoHost THEN "mode-needs-broker" ELSE "ok"

\* Mutant of IntoBand: the upper edge alone.
IntoBandLowered(v, lo, hi) == IF v > hi THEN hi ELSE v

IntoBand(v, lo, hi) == IF v < lo THEN lo ELSE IF v > hi THEN hi ELSE v

Defaults ==
  [wifi |-> None, mqtt_host |-> NoHost, mqtt_password |-> None,
   plain |-> [f \in Plain |-> PlainDefault[f]], dhw_enable |-> TRUE,
   control_mode |-> "LOCAL", flow_min |-> DefaultMin, flow_max |-> DefaultMax,
   failsafe_setpoint |-> DefaultFailsafe, local_ch_setpoint |-> DefaultLocal,
   ui_password |-> None]

-----------------------------------------------------------------------------
\* Repair: every field to something the checks accept, whatever was read.

InFlow(v, fallback) == IF v \in Flow THEN v ELSE fallback

\* The band and the failsafe inside it: each alone, then all three together.
SaneFlow(raw) ==
  LET lo == InFlow(raw.flow_min, DefaultMin)
      hi == InFlow(raw.flow_max, DefaultMax)
      fs == InFlow(raw.failsafe_setpoint, IntoBand(DefaultFailsafe, lo, hi))
  IN  IF CheckFlow(lo, hi, fs) = "ok"
      THEN [lo |-> lo, hi |-> hi, failsafe |-> fs]
      ELSE [lo |-> DefaultMin, hi |-> DefaultMax, failsafe |-> DefaultFailsafe]

SaneHost(raw) == IF raw.mqtt_host \in Hosts \cup {NoHost} THEN raw.mqtt_host ELSE NoHost

SaneMode(raw) ==
  IF raw.control_mode = "HA" /\ CheckMode("HA", SaneHost(raw)) = "ok" THEN "HA" ELSE "LOCAL"

Sanitize(raw) ==
  LET flow == SaneFlow(raw)
  IN  [wifi          |-> IF WifiUsable(raw.wifi) THEN raw.wifi ELSE None,
       mqtt_host     |-> SaneHost(raw),
       mqtt_password |-> IF raw.mqtt_password = Bad THEN None ELSE raw.mqtt_password,
       plain         |-> [f \in Plain |-> IF raw.plain[f] \in PlainLegal[f]
                                          THEN raw.plain[f] ELSE PlainDefault[f]],
       dhw_enable    |-> raw.dhw_enable,
       control_mode  |-> SaneMode(raw),
       flow_min      |-> flow.lo,
       flow_max      |-> flow.hi,
       failsafe_setpoint |-> flow.failsafe,
       local_ch_setpoint |-> IntoBand(InFlow(raw.local_ch_setpoint, DefaultLocal),
                                      flow.lo, flow.hi),
       ui_password   |-> IF raw.ui_password \in UiPasswords THEN raw.ui_password ELSE None]

-----------------------------------------------------------------------------
\* A submitted document.  A field it does not mention is None.

NoPatch ==
  [wifi_ssid |-> None, wifi_psk |-> None, mqtt_host |-> None, mqtt_password |-> None,
   plain |-> [f \in {} |-> None], dhw_enable |-> None, control_mode |-> None,
   flow_min |-> None, flow_max |-> None, failsafe_setpoint |-> None,
   local_ch_setpoint |-> None, ui_password |-> None]

\* What a submitted secret asks for.
Decide(has_stored, submitted) ==
  CASE submitted = None     -> "KEEP"
    [] submitted = Sentinel -> IF has_stored THEN "KEEP" ELSE "REJECT"
    [] submitted = Empty    -> IF has_stored THEN "CLEAR" ELSE "KEEP"
    [] OTHER                -> "STORE"

\* The merged document's value: the patch's where it has one.
Merged(submitted, stored) == IF submitted = None THEN stored ELSE submitted

\* Both halves of a pair or neither; a key shown as the sentinel is kept for
\* the network it was stored with and for no other.
WifiChoice(doc, p) ==
  LET keep == [err |-> "ok", wifi |-> doc.wifi]
      fail(e) == [err |-> e, wifi |-> doc.wifi]
      ssid == IF doc.wifi = None THEN Empty ELSE doc.wifi.ssid
      psk  == IF p.wifi_psk = Empty THEN Open ELSE p.wifi_psk
  IN  IF p.wifi_ssid = None /\ p.wifi_psk = None THEN keep
      ELSE IF (p.wifi_ssid = None) # (p.wifi_psk = None) THEN fail("wifi-pair")
      ELSE IF p.wifi_psk = Sentinel THEN (IF p.wifi_ssid = ssid THEN keep ELSE fail("wifi-pair"))
      ELSE IF p.wifi_ssid = Empty /\ p.wifi_psk = Empty THEN [err |-> "ok", wifi |-> None]
      ELSE IF p.wifi_ssid \notin Ssids THEN fail("ssid")
      ELSE IF psk \notin Psks \cup {Open} THEN fail("psk")
      ELSE [err |-> "ok", wifi |-> [ssid |-> p.wifi_ssid, psk |-> psk]]

\* Mutant of BrokerRefusal: a kept password follows the address.
BrokerRefusalLax(doc, p) ==
  CASE p.mqtt_host \notin Hosts \cup {NoHost, None} -> "mqtt-host"
    [] Decide(doc.mqtt_password # None, p.mqtt_password) = "REJECT" -> "mqtt-password"
    [] OTHER -> "ok"

\* A kept password goes to no address but its own; clearing the address is
\* not an address.
BrokerRefusal(doc, p) ==
  LET secret == Decide(doc.mqtt_password # None, p.mqtt_password)
  IN  CASE p.mqtt_host \notin Hosts \cup {NoHost, None} -> "mqtt-host"
        [] secret = "REJECT" \/ p.mqtt_password = Bad -> "mqtt-password"
        [] /\ p.mqtt_host \in Hosts /\ p.mqtt_host # doc.mqtt_host
           /\ doc.mqtt_password # None /\ secret = "KEEP" -> "broker-pair"
        [] OTHER -> "ok"

\* Each number against its own bounds, then the rules on the merged document.
NumberRefusal(doc, p) ==
  LET flows == {p.flow_min, p.flow_max, p.failsafe_setpoint, p.local_ch_setpoint} \ {None}
      flow  == CheckFlow(Merged(p.flow_min, doc.flow_min), Merged(p.flow_max, doc.flow_max),
                         Merged(p.failsafe_setpoint, doc.failsafe_setpoint))
  IN  CASE \E f \in DOMAIN p.plain : p.plain[f] \notin PlainLegal[f] -> "plain"
        [] ~(flows \subseteq Flow) \/ p.control_mode \notin {"LOCAL", "HA", None} -> "range"
        [] flow # "ok" -> flow
        [] OTHER -> CheckMode(Merged(p.control_mode, doc.control_mode),
                              Merged(p.mqtt_host, doc.mqtt_host))

\* The web password last: it costs a key derivation, which may fail.
UiRefusal(doc, p, hashes) ==
  LET secret == Decide(doc.ui_password # None, p.ui_password)
  IN  CASE secret = "REJECT" -> "ui-password"
        [] secret = "STORE" /\ p.ui_password \notin UiPasswords -> "ui-password"
        [] secret = "STORE" /\ ~hashes -> "no-hash"
        [] OTHER -> "ok"

Refusal(doc, p, hashes) ==
  LET wifi == WifiChoice(doc, p).err
      broker == BrokerRefusal(doc, p)
      number == NumberRefusal(doc, p)
  IN  CASE wifi # "ok" -> wifi
        [] broker # "ok" -> broker
        [] number # "ok" -> number
        [] OTHER -> UiRefusal(doc, p, hashes)

Secret(stored, submitted) ==
  CASE Decide(stored # None, submitted) = "STORE" -> submitted
    [] Decide(stored # None, submitted) = "CLEAR" -> None
    [] OTHER -> stored

\* Past every check nothing can fail.  A local setpoint outside the merged
\* band is moved to its nearest edge.
Committed(doc, p) ==
  LET lo == Merged(p.flow_min, doc.flow_min)
      hi == Merged(p.flow_max, doc.flow_max)
  IN  [wifi          |-> WifiChoice(doc, p).wifi,
       mqtt_host     |-> Merged(p.mqtt_host, doc.mqtt_host),
       mqtt_password |-> Secret(doc.mqtt_password, p.mqtt_password),
       plain         |-> [f \in Plain |-> IF f \in DOMAIN p.plain THEN p.plain[f]
                                          ELSE doc.plain[f]],
       dhw_enable    |-> Merged(p.dhw_enable, doc.dhw_enable),
       control_mode  |-> Merged(p.control_mode, doc.control_mode),
       flow_min      |-> lo,
       flow_max      |-> hi,
       failsafe_setpoint |-> Merged(p.failsafe_setpoint, doc.failsafe_setpoint),
       local_ch_setpoint |-> IntoBand(Merged(p.local_ch_setpoint, doc.local_ch_setpoint), lo, hi),
       ui_password   |-> Secret(doc.ui_password, p.ui_password)]

\* Refused whole or taken whole.
Apply(doc, p, read_only, hashes) ==
  IF read_only THEN [err |-> "read-only", doc |-> doc]
  ELSE IF Refusal(doc, p, hashes) # "ok"
  THEN [err |-> Refusal(doc, p, hashes), doc |-> doc]
  ELSE [err |-> "ok", doc |-> Committed(doc, p)]

-----------------------------------------------------------------------------
\* What a document must satisfy for the rest of the firmware to run on it.
Legal(doc) ==
  /\ doc.wifi \in Wifis \cup {None}
  /\ doc.mqtt_host \in Hosts \cup {NoHost}
  /\ \A f \in Plain : doc.plain[f] \in PlainLegal[f]
  /\ {doc.flow_min, doc.flow_max, doc.failsafe_setpoint, doc.local_ch_setpoint} \subseteq Flow
  /\ doc.flow_min < doc.flow_max
  /\ doc.failsafe_setpoint \in doc.flow_min..doc.flow_max
  /\ doc.local_ch_setpoint \in doc.flow_min..doc.flow_max
  /\ doc.control_mode \in {"LOCAL", "HA"}
  /\ doc.control_mode = "HA" => doc.mqtt_host # NoHost
  /\ doc.ui_password \in UiPasswords \cup {None}

-----------------------------------------------------------------------------
(* What a request body means (components/ot_wire over ot_secrets): the     *)
(* settings document, the provisioning document, and the document a client *)
(* is shown.  A body is a patch in which any field may also be Junk: of the*)
(* wrong type, or longer than the device can store.  Text and JSON are     *)
(* abstracted; a body that is no JSON object at all is Junk itself.        *)

CONSTANTS
  Junk,            \* not a value of the field's type
  ExecutorOwned    \* the plain settings that change through commands alone

\* A stored secret is shown as the sentinel, an absent one as empty.
Redact(stored) == IF stored = None THEN Empty ELSE Sentinel

\* ot_config_project: the document without its three secrets.
Shown(doc) ==
  [doc EXCEPT !.wifi = IF @ = None THEN None
                       ELSE [@ EXCEPT !.psk = IF @ = Open THEN Empty ELSE Sentinel],
              !.mqtt_password = Redact(@),
              !.ui_password   = Redact(@)]

\* What GET /api/config shows of a document, less what POST /api/config does
\* not take back: the settings page submits all of it.
Page(doc) ==
  LET pub == Shown(doc)
  IN  [NoPatch EXCEPT !.mqtt_host = pub.mqtt_host, !.mqtt_password = pub.mqtt_password,
                      !.plain = [f \in Plain \ ExecutorOwned |-> pub.plain[f]],
                      !.control_mode = pub.control_mode,
                      !.flow_min = pub.flow_min, !.flow_max = pub.flow_max,
                      !.failsafe_setpoint = pub.failsafe_setpoint,
                      !.ui_password = pub.ui_password]

Mentions(body, names) == \E f \in names : body[f] # None

Judged == {"mqtt_host", "mqtt_password", "control_mode", "flow_min", "flow_max",
           "failsafe_setpoint", "ui_password"}

\* The settings document: no network in it, nothing the executor owns, and
\* every other field of its type or the whole body is refused.
ParseConfig(body) ==
  LET fail(s) == [status |-> s, patch |-> NoPatch]
  IN  CASE body = Junk -> fail("bad-body")
        [] Mentions(body, {"wifi_ssid", "wifi_psk"}) -> fail("wrong-route")
        [] \/ Mentions(body, {"dhw_enable", "local_ch_setpoint"})
           \/ DOMAIN body.plain \cap ExecutorOwned # {} -> fail("read-only-field")
        [] \/ \E f \in Judged : body[f] = Junk
           \/ \E f \in DOMAIN body.plain : body.plain[f] = Junk -> fail("bad-field")
        [] OTHER -> [status |-> "ok", patch |-> body]

\* The provisioning document: a name, and a key in one of three states.  A
\* key that is kept is kept for the name it is stored with.
ParseProvision(ssid, psk, stored) ==
  LET has     == stored # None /\ stored.psk # Open
      action  == Decide(has, psk)
      key     == CASE action = "STORE" -> psk
                   [] action = "KEEP" /\ has -> stored.psk
                   [] OTHER -> Open
      fail(e) == [status |-> e, wifi |-> None]
  IN  CASE ssid \in {None, Junk} \/ psk = Junk -> fail("bad-field")
        [] action = "REJECT" -> fail("psk")
        [] action = "KEEP" /\ has /\ ssid # stored.ssid -> fail("wifi-pair")
        [] ssid \notin Ssids -> fail("ssid")
        [] key \notin Psks \cup {Open} -> fail("psk")
        [] OTHER -> [status |-> "ok", wifi |-> [ssid |-> ssid, psk |-> key]]
==============================================================================
