------------------------------- MODULE OtRoom --------------------------------
(***************************************************************************)
(* components/ot_room, ot_thermostat_room.c and ot_thermostat_room_cfg.c:  *)
(* the sources of room temperature.  Slot 0 is the shield's own sensor     *)
(* (ds18b20_task of main.cpp), slot 1 the broker's topic when the settings *)
(* have it.  A foreign task leaves a reading in the mailbox, one place for *)
(* each slot; once a tick the thermostat's task rebuilds the registry if   *)
(* the settings changed (TickRefresh), then drains the mailbox into it,    *)
(* advances it and chooses what to steer by and what to show (TickRoom).   *)
(***************************************************************************)
EXTENDS OtSensor

CONSTANTS
  ShieldStale,      \* 60000: the shield's own limit
  Settings,         \* the settings of the broker's source a page can store
  ShieldReadings,   \* what the sensor on the board may read
  BrokerReadings,   \* what the room topic may carry
  Gaps,             \* time from one tick to the next
  Edits,            \* bound on changes of the settings
  AgeBound,         \* bound on the history of ages
  NoReading         \* an empty place of the mailbox

ASSUME RoomAssumption ==
  /\ ShieldStale \in Nat /\ ShieldStale < ClockWidth
  /\ AgeBound \in Nat /\ AgeBound >= ClockWidth
  /\ \A m \in Settings : m \in [enable : BOOLEAN, role : {"AMBIENT", "ROOM"},
                                stale : Nat, forwarded : BOOLEAN]
                          /\ m.stale < ClockWidth
  /\ Gaps \subseteq 1..(ClockWidth - 1)
  /\ NoReading \notin (ShieldReadings \cup BrokerReadings)
  /\ (ShieldReadings \cup BrokerReadings) \ {Junk} \subseteq Int

VARIABLES
  inbox,   \* s_room_inbox
  live,    \* the settings in force
  built,   \* the settings s_room was built from (s_fp)
  slots,   \* the configuration of s_room
  room,    \* the sensors of s_room
  clock,   \* the time of the tick under way, and of the last one
  due,     \* the registry is up to date and the tick goes on
  steer,   \* what the tick gives the executor
  shown,   \* what it publishes: the slot chosen, if any, and its value
  age,     \* history: true time since each slot's value was believed
  since,   \* history: the settings each slot's value was believed under
  refused, \* history: readings of a sensor's range refused since then
  edits    \* bound

rVars == <<inbox, live, built, slots, room, clock, due, steer, shown, age, since, refused, edits>>

Nobody == -1
NoSteer == [fresh |-> FALSE, value |-> 0, slot |-> Nobody, blind |-> FALSE]
NoDisplay == [have |-> FALSE, value |-> 0, slot |-> Nobody]

\* ot_thermostat_room_build_cfg: the broker's slot is there only when enabled.
BuildCfg(m) ==
  LET shield == [role |-> "AMBIENT", forwarded |-> FALSE, stale |-> ShieldStale]
      broker == [role |-> m.role, forwarded |-> m.forwarded, stale |-> m.stale]
  IN  IF m.enable THEN [i \in {0, 1} |-> IF i = 0 THEN shield ELSE broker]
      ELSE [i \in {0} |-> shield]

\* ot_room_init: every slot starts empty.
Registry(cfg) == [i \in DOMAIN cfg |-> Sensor(cfg[i].stale)]

\* Mutant of Reload: only the configuration is replaced.
ReloadKeeps(m, old) ==
  [i \in DOMAIN BuildCfg(m) |->
     IF i \in DOMAIN old THEN [old[i] EXCEPT !.stale = BuildCfg(m)[i].stale]
     ELSE Sensor(BuildCfg(m)[i].stale)]

\* load_cfg.
Reload(m, old) == Registry(BuildCfg(m))

\* ot_room_submit for every place of the mailbox: a slot that is not
\* configured takes nothing.
Submitted(r, box, now) ==
  [i \in DOMAIN r |-> IF box[i] = NoReading THEN r[i] ELSE Update(r[i], box[i], now)]

\* ot_room_tick.
Stepped(r, now) == [i \in DOMAIN r |-> Advance(r[i], now)]

FreshOf(r, cfg, role) == {i \in DOMAIN r : cfg[i].role = role /\ State(r[i]) = "FRESH"}

First(s) == CHOOSE i \in s : \A j \in s : i <= j

\* ot_room_select_steer: a source that stands by the boiler is never in it.
\* Home Assistant's own source gone stale is told whatever the choice.
SelectSteer(r, cfg) ==
  LET fresh == FreshOf(r, cfg, "ROOM")
      blind == \E i \in DOMAIN r :
                 cfg[i].role = "ROOM" /\ cfg[i].forwarded /\ State(r[i]) = "STALE"
  IN  IF fresh = {} THEN [NoSteer EXCEPT !.blind = blind]
      ELSE [fresh |-> TRUE, value |-> r[First(fresh)].value, slot |-> First(fresh),
            blind |-> blind]

\* ot_room_select_display: a source in the room first, else one by the boiler.
SelectDisplay(r, cfg) ==
  LET inRoom == FreshOf(r, cfg, "ROOM")
      fresh  == IF inRoom # {} THEN inRoom ELSE FreshOf(r, cfg, "AMBIENT")
  IN  IF fresh = {} THEN NoDisplay
      ELSE [have |-> TRUE, value |-> r[First(fresh)].value, slot |-> First(fresh)]

\* ot_thermostat_room_init; settings of the last boot are already loaded.
RInit ==
  /\ live \in Settings
  /\ built = live /\ slots = BuildCfg(live) /\ room = Registry(BuildCfg(live))
  /\ inbox = [i \in {0, 1} |-> NoReading]
  /\ clock \in 0..(ClockWidth - 1) /\ due = FALSE
  /\ steer = NoSteer /\ shown = NoDisplay
  /\ age = [i \in {0, 1} |-> 0] /\ since = [i \in {0, 1} |-> live]
  /\ refused = [i \in {0, 1} |-> 0]
  /\ edits = 0

\* ot_thermostat_room_submit, on the task of the sensor or of the broker: a
\* newer reading takes the place of one not drained yet.
Submit(i, celsius) ==
  /\ inbox' = [inbox EXCEPT ![i] = celsius]
  /\ UNCHANGED <<live, built, slots, room, clock, due, steer, shown, age, since, refused, edits>>

\* A page stores other settings, at any moment.
Reconfigure(m) ==
  /\ edits < Edits /\ m # live
  /\ live' = m /\ edits' = edits + 1
  /\ UNCHANGED <<inbox, built, slots, room, clock, due, steer, shown, age, since, refused>>

Longer(a, gap) == IF a + gap > AgeBound THEN AgeBound ELSE a + gap

\* ot_thermostat_room_refresh_cfg.
TickRefresh(gap) ==
  /\ ~due /\ due' = TRUE
  /\ clock' = (clock + gap) % ClockWidth
  /\ built' = live
  /\ IF built # live
     THEN slots' = BuildCfg(live) /\ room' = Reload(live, room)
     ELSE UNCHANGED <<slots, room>>
  /\ LET kept == {i \in DOMAIN room' : room'[i].have}
     IN  /\ age' = [i \in {0, 1} |-> IF i \in kept THEN Longer(age[i], gap) ELSE 0]
         /\ since' = [i \in {0, 1} |-> IF i \in kept THEN since[i] ELSE live]
         /\ refused' = [i \in {0, 1} |-> IF i \in kept THEN refused[i] ELSE 0]
  /\ UNCHANGED <<inbox, live, steer, shown, edits>>

\* ot_thermostat_room_tick.
TickRoom ==
  /\ due /\ due' = FALSE
  /\ room' = Stepped(Submitted(room, inbox, clock), clock)
  /\ inbox' = [i \in {0, 1} |-> NoReading]
  /\ steer' = SelectSteer(room', slots)
  /\ shown' = SelectDisplay(room', slots)
  /\ LET taken == {i \in DOMAIN room :
                     inbox[i] # NoReading /\ room'[i].have /\ room'[i].overdue = 0}
     IN  /\ age' = [i \in {0, 1} |-> IF i \in taken THEN 0 ELSE age[i]]
         /\ since' = [i \in {0, 1} |-> IF i \in taken THEN built ELSE since[i]]
         /\ refused' = [i \in {0, 1} |->
                           IF i \in taken \/ i \notin DOMAIN room THEN 0
                           ELSE IF inbox[i] \in {NoReading, Junk} \/ refused[i] > MaxJumpRejects
                           THEN refused[i]
                           ELSE refused[i] + 1]
  /\ UNCHANGED <<live, built, slots, clock, edits>>

RNext ==
  \/ \E celsius \in ShieldReadings : Submit(0, celsius)
  \/ \E celsius \in BrokerReadings : Submit(1, celsius)
  \/ \E m \in Settings : Reconfigure(m)
  \/ \E gap \in Gaps : TickRefresh(gap)
  \/ TickRoom

RSpec == RInit /\ [][RNext]_rVars

-----------------------------------------------------------------------------
(* Properties: each is about what the executor was given at the last tick.  *)

\* What is steered by was believed less than its limit ago, in true time: no
\* silence is so long that the clock's wrap or the counter's end makes an old
\* value young again.
SteerYoung == ~due /\ steer.fresh => age[steer.slot] < slots[steer.slot].stale

\* Only a source that stands in the room steers, under the settings the tick
\* read and not those its value came under: after a change nothing steers
\* until a reading is drained again.
SteersFromRoom ==
  ~due /\ steer.fresh => slots[steer.slot].role = "ROOM" /\ since[steer.slot] = built

\* A value far from the one before is believed after as many refused readings
\* in a row as the filter allows, and neither sooner nor later: spikes that come
\* between good readings never add up to one, and a lasting change gets through.
JumpsConfirmed ==
  [][\A i \in DOMAIN room \cap DOMAIN room' :
       /\ room'[i].have /\ Jumps(room[i], room'[i].value) => refused[i] >= MaxJumpRejects
       /\ refused'[i] <= MaxJumpRejects]_rVars

==============================================================================
