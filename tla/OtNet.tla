------------------------------- MODULE OtNet --------------------------------
(***************************************************************************)
(* The provisioning task of components/ot_net around the machine of        *)
(* OtProvision: the radio's events and the owner's request are facts in a  *)
(* queue; the task drains it, ticks the machine and carries out what the   *)
(* machine owes in the flash and on the radio.  Requests run on the HTTP   *)
(* server's task, so a pair reaches the flash, RAM and the machine at      *)
(* three moments, with the task's own steps in between.                    *)
(*                                                                         *)
(* The radio and the owner's networks are external: link is what the       *)
(* station really does.  esp_wifi_connect does nothing while the station   *)
(* is already joining or joined.                                           *)
(*                                                                         *)
(* Left out: the scan (it borrows the station for a moment), the captive   *)
(* DNS server, and a queue that overflows its sixteen places.              *)
(***************************************************************************)
EXTENDS OtProvision, Sequences, SequencesExt

CONSTANTS
  Pairs,       \* credentials: an SSID with its key
  None,        \* no pair
  Homes,       \* the pair a device may start with, or None: out of the box
  Overlaps,    \* may a request overlap with what the task does for another pair?
  Fates,       \* what the networks may do to the station (OtNetRecovery)
  QueueMax,    \* bounds of the model: the queue's length,
  SavesMax,    \* requests,
  CutsMax      \* and power cuts

ASSUME NetAssumption ==
  /\ None \notin Pairs /\ Homes \subseteq Pairs \cup {None} /\ Overlaps \in BOOLEAN
  /\ Fates \subseteq {"turned_away", "starved", "mixed"}
  /\ QueueMax \in Nat /\ SavesMax \in Nat /\ CutsMax \in Nat

VARIABLES
  s,                 \* s_prov
  pc,                \* where the task is: drain, step, or in the middle of a write
  stepped,           \* has the task stepped since the last fact or unit of time?
  s_events,          \* the queue: STA_READY, STA_STOPPED, AP_STARTED, AP_STOPPED, ASSOCIATED,
                     \* GOT_IP, REFUSED, OURS, CREDENTIALS_SAVED, CLIENT_SEEN
  s_connect_wanted, s_sta_ready, s_associated,
  s_radio_mode,      \* the mode last applied
  ram,               \* s_config.wifi
  nvs,               \* the namespace cfg_wifi in flash
  request,           \* the pair of a request between its save and its announcement
  link,              \* external: the station's link, and the pair it is for
  fate,              \* external: how the owner's networks treat the station
  saves, cuts        \* requests and power cuts so far

taskVars == <<s, pc, stepped, s_events, s_connect_wanted, s_sta_ready, s_associated,
              s_radio_mode, ram>>
nvars == <<taskVars, nvs, request, link, fate, saves, cuts>>

Idle == [now |-> "none", on |-> None]

ApUp == s_radio_mode \in ApModes

\* A pair that is stored has passed the checks that make it usable.
HasPair(flash, key) == flash[key] # None

\* ot_net_start, from what the flash holds.
FromFlash(flash) ==
  Booted([has_credentials       |-> HasPair(flash, "sta"),
          has_known_good        |-> HasPair(flash, "good"),
          window_closed_before  |-> flash.closed,
          address_never_arrived |-> flash.no_address])

Off ==
  /\ pc = "drain" /\ stepped = FALSE /\ s_events = <<>> /\ s_connect_wanted = FALSE
  /\ s_sta_ready = FALSE /\ s_associated = FALSE /\ s_radio_mode = "OFF"
  /\ request = None /\ link = Idle

\* A device out of the box, or one whose network has worked.
NInit ==
  /\ \E p \in Homes :
       nvs = [sta |-> p, good |-> p, closed |-> FALSE, no_address |-> FALSE]
  /\ s = FromFlash(nvs) /\ ram = nvs.sta
  /\ Off /\ fate \in Fates /\ saves = 0 /\ cuts = 0

-----------------------------------------------------------------------------
\* The task.

Heard(fact) ==
  CASE fact = "AP_STARTED"        -> OnApStarted(s)
    [] fact = "AP_STOPPED"        -> OnApStopped(s)
    [] fact = "ASSOCIATED"        -> OnAssociated(s)
    [] fact = "GOT_IP"            -> OnConnected(s)
    [] fact = "REFUSED"           -> OnDisconnected(s, "UNREACHED")
    [] fact = "OURS"              -> OnDisconnected(s, "NONE")
    [] fact = "CREDENTIALS_SAVED" -> OnCredentialsSaved(s)
    [] fact = "CLIENT_SEEN"       -> OnClientSeen(s)
    [] OTHER                      -> s

Feed ==
  /\ pc = "drain" /\ s_events # <<>>
  /\ LET fact == Head(s_events)
     IN  /\ s' = Heard(fact)
         /\ s_sta_ready' = (fact = "STA_READY" \/ (s_sta_ready /\ fact # "STA_STOPPED"))
         /\ s_associated' = CASE fact = "ASSOCIATED" -> TRUE
                              [] fact \in {"REFUSED", "OURS", "STA_STOPPED"} -> FALSE
                              [] OTHER -> s_associated
  /\ s_events' = Tail(s_events) /\ stepped' = FALSE
  /\ UNCHANGED <<pc, s_connect_wanted, s_radio_mode, ram, nvs, request, link, fate, saves, cuts>>

\* The queue has been silent for as long as the task waits.
Drained ==
  /\ pc = "drain" /\ s_events = <<>> /\ ~stepped /\ pc' = "step"
  /\ UNCHANGED <<s, stepped, s_events, s_connect_wanted, s_sta_ready, s_associated,
                 s_radio_mode, ram, nvs, request, link, fate, saves, cuts>>

\* otnet_on_wifi_event: the fact queued for an event.  Of a disconnection the
\* machine's answer is queued in place of the reason.
OnWifiEvent(event, reason) ==
  CASE event = "STA_START"         -> "STA_READY"
    [] event = "STA_STOP"          -> "STA_STOPPED"
    [] event = "STA_CONNECTED"     -> "ASSOCIATED"
    [] event = "STA_GOT_IP"        -> "GOT_IP"
    [] event = "STA_DISCONNECTED"  -> IF Classify(reason) = "NONE" THEN "OURS" ELSE "REFUSED"
    [] event = "AP_START"          -> "AP_STARTED"
    [] event = "AP_STOP"           -> "AP_STOPPED"
    [] event = "AP_STACONNECTED"   -> "CLIENT_SEEN"

\* WIFI_REASON_ASSOC_LEAVE and WIFI_REASON_NO_AP_FOUND.
Leave == 8
Absent == 201

\* What esp_wifi_set_mode reports back.
Reports(old, new) ==
  (IF new \in StaModes /\ old \notin StaModes THEN <<OnWifiEvent("STA_START", 0)>> ELSE <<>>) \o
  (IF new \notin StaModes /\ old \in StaModes THEN <<OnWifiEvent("STA_STOP", 0)>> ELSE <<>>) \o
  (IF new \in ApModes /\ old \notin ApModes THEN <<OnWifiEvent("AP_START", 0)>> ELSE <<>>) \o
  (IF new \notin ApModes /\ old \in ApModes THEN <<OnWifiEvent("AP_STOP", 0)>> ELSE <<>>)

\* The rest of the turn: the mode is applied, a wanted connection is issued
\* with the pair pair once the station is up, and the two flags are stored.
FinishTurn(machine, wanted, pair) ==
  LET mode     == Mode(machine)
      connects == wanted /\ s_sta_ready /\ mode \in StaModes
      leaves   == connects /\ s_associated /\ link.now \in {"associated", "addressed"}
      joins    == connects /\ (leaves \/ link.now = "none")
  IN  /\ s_radio_mode' = mode
      /\ s_sta_ready' = (s_sta_ready /\ mode # "OFF")
      /\ s_connect_wanted' = (wanted /\ ~connects)
      /\ link' = IF joins THEN [now |-> "joining", on |-> pair] ELSE link
      /\ s_events' = s_events \o Reports(s_radio_mode, mode)
                              \o (IF leaves THEN <<OnWifiEvent("STA_DISCONNECTED", Leave)>> ELSE <<>>)
      /\ pc' = "drain" /\ stepped' = TRUE

\* Both or neither.
SaveFlags(flash, closed, no_address) ==
  [flash EXCEPT !.closed = closed, !.no_address = no_address]

Flags(flash, machine) ==
  SaveFlags(flash, machine.window_ever_closed, machine.address_never_arrived)

\* Tick the machine and take what it owes; a nudge is carried out at once.
Turn ==
  /\ pc = "step"
  /\ \E t \in {Tick(s)} :
       /\ s' = [t EXCEPT !.action = "NONE"]
       /\ CASE t.action = "COMMIT" ->
                 /\ pc' = "commit"
                 /\ UNCHANGED <<stepped, s_events, s_connect_wanted, s_sta_ready,
                                s_radio_mode, link, nvs>>
            [] t.action = "RESTORE" ->
                 /\ pc' = "restore"
                 /\ UNCHANGED <<stepped, s_events, s_connect_wanted, s_sta_ready,
                                s_radio_mode, link, nvs>>
            [] OTHER ->
                 /\ FinishTurn(t, s_connect_wanted \/ t.action = "CONNECT", ram)
                 /\ nvs' = Flags(nvs, t)
  /\ UNCHANGED <<s_associated, ram, request, fate, saves, cuts>>

\* ot_config_nvs_commit_known_good: whatever pair is stored now.
Commit ==
  /\ pc = "commit"
  /\ nvs' = Flags([nvs EXCEPT !.good = nvs.sta], s)
  /\ FinishTurn(s, s_connect_wanted, ram)
  /\ UNCHANGED <<s, s_associated, ram, request, fate, saves, cuts>>

\* ot_config_nvs_restore_known_good.
Restore ==
  /\ pc = "restore" /\ pc' = "restored"
  /\ nvs' = [nvs EXCEPT !.sta = nvs.good]
  /\ UNCHANGED <<s, stepped, s_events, s_connect_wanted, s_sta_ready, s_associated,
                 s_radio_mode, ram, request, link, fate, saves, cuts>>

\* The pair read back, known good when it was read, becomes the one in use.
Restored ==
  /\ pc = "restored" /\ ram' = nvs.good
  /\ nvs' = Flags(nvs, s)
  /\ FinishTurn(s, TRUE, nvs.good)
  /\ UNCHANGED <<s, s_associated, request, fate, saves, cuts>>

\* Time passes while the task waits, and never without it.  A network that turns
\* the station away does so sooner than the retry that could cut it short: the
\* backoff grows until it is longer than any handshake.
Pass ==
  /\ pc = "drain" /\ stepped /\ s_events = <<>> /\ stepped' = FALSE
  /\ fate = "turned_away" => link.now \notin {"joining", "associated"}
  /\ s' = Aged(s)
  /\ UNCHANGED <<pc, s_events, s_connect_wanted, s_sta_ready, s_associated, s_radio_mode,
                 ram, nvs, request, link, fate, saves, cuts>>

-----------------------------------------------------------------------------
\* The owner.

\* ot_net_provision stores the pair first.  Somebody must be able to reach the
\* device: over its access point or over the network it is on.
SaveWifi ==
  /\ request = None /\ saves < SavesMax /\ saves' = saves + 1
  /\ ApUp \/ link.now = "addressed"
  /\ ~Overlaps => pc = "drain" /\ s.action = "NONE" /\ ~Contains(s_events, "GOT_IP")
  /\ \E p \in Pairs \ {nvs.sta} : request' = p /\ nvs' = [nvs EXCEPT !.sta = p]
  /\ UNCHANGED <<taskVars, link, fate, cuts>>

\* Then it is put in use, and the machine is told.
Announce ==
  /\ request # None /\ request' = None /\ Len(s_events) < QueueMax
  /\ ram' = request /\ s_events' = Append(s_events, "CREDENTIALS_SAVED")
  /\ UNCHANGED <<s, pc, stepped, s_connect_wanted, s_sta_ready, s_associated,
                 s_radio_mode, nvs, link, fate, saves, cuts>>

Post(fact) ==
  /\ Len(s_events) < QueueMax /\ s_events' = Append(s_events, fact)
  /\ UNCHANGED <<s, pc, stepped, s_connect_wanted, s_sta_ready, s_associated,
                 s_radio_mode, ram, nvs, request, fate, saves, cuts>>

\* Clients on the access point ask for pages: once a turn stands for any number.
ClientSeen == ApUp /\ stepped /\ s_events = <<>> /\ Post("CLIENT_SEEN") /\ UNCHANGED link

-----------------------------------------------------------------------------
\* The radio and the networks.  A network of fate "starved" takes the station
\* in and may give it no address; one of fate "turned_away" may refuse it.

Associates ==
  /\ link.now = "joining" /\ Post(OnWifiEvent("STA_CONNECTED", 0))
  /\ link' = [link EXCEPT !.now = "associated"]

\* The owner's address, from the network of the pair in use.
GetsAddress ==
  /\ link.now = "associated" /\ Post(OnWifiEvent("STA_GOT_IP", 0))
  /\ ~Overlaps => link.on = nvs.sta /\ link.on = ram
  /\ link' = [link EXCEPT !.now = "addressed"]

TurnedAway ==
  /\ link.now \in {"joining", "associated"} /\ fate # "starved"
  /\ Post(OnWifiEvent("STA_DISCONNECTED", Absent)) /\ link' = Idle

\* A network that worked is gone.
Drops == link.now = "addressed" /\ Post(OnWifiEvent("STA_DISCONNECTED", Absent)) /\ link' = Idle

\* A power cut and the boot after it.
Restart ==
  /\ cuts < CutsMax /\ cuts' = cuts + 1
  /\ s' = FromFlash(nvs) /\ ram' = nvs.sta
  /\ pc' = "drain" /\ stepped' = FALSE /\ s_events' = <<>> /\ s_connect_wanted' = FALSE
  /\ s_sta_ready' = FALSE /\ s_associated' = FALSE /\ s_radio_mode' = "OFF"
  /\ request' = None /\ link' = Idle
  /\ UNCHANGED <<nvs, fate, saves>>

-----------------------------------------------------------------------------
Task    == Feed \/ Drained \/ Turn \/ Commit \/ Restore \/ Restored
Owner   == SaveWifi \/ Announce \/ ClientSeen
Answers == Associates \/ TurnedAway
Radio   == Answers \/ GetsAddress \/ Drops

NNext == Task \/ Pass \/ Owner \/ Radio \/ Restart

NSpec == NInit /\ [][NNext]_nvars
==============================================================================
