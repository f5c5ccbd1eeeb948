# A verification development of the OpenTherm thermostat firmware

TLA+ models of the firmware in this repository, the TLC configurations that check them on small
instances, and theorems about them that TLAPS proves for every instance. In the paths below
`src/` stands for the root of the repository (`src/components/...` are the ESP-IDF components).

1. [The system](#1-the-system): components, state, operations, interaction, what is hard
2. [The models](#2-the-models): which module stands for which code, and how
3. [The runs](#3-the-runs): what each checks, its bounds, its fairness
4. [The theorems](#4-the-theorems): what is proved, along which argument
5. [Where documentation and code disagree](#5-where-documentation-and-code-disagree)
6. [What is not modelled, and the plan](#6-what-is-not-modelled-and-the-plan)

`PROJECT.json` holds the same facts in a form for tools: components, runs, the mutant each property
detects, the source lines of each definition, hazards, findings, theorems.

## 1. The system

The device is an OpenTherm **master** on an ESP32: it talks to the boiler about once a second, and
decides itself whether the boiler heats, from the settings of its owner (web interface), from Home
Assistant (HA, over MQTT), and from what it does when HA goes silent (the *failsafe*). Eight tasks run
at fixed priorities; what they share is under spinlocks and mutexes, and snapshots of the settings are
taken outside them.

| task (priority) | does | shares |
| --- | --- | --- |
| `bus_task` (10) | the conversation with the boiler | schedule and write bookkeeping under a spinlock |
| `ot_net` (5) | Wi-Fi, provisioning, settings | recursive mutexes; an event queue of 16 |
| `ot_thermostat` (4) | the 1 s tick: step the executor, store, tell the bus | executor under a spinlock; commands under a mutex |
| MQTT link (3), esp-mqtt's own | publishing, inbox of 8 commands | flags, the inbox |
| httpd, esp_timer | REST, the live socket | work items, dirty marks |
| DS18B20, LED, captive DNS | sensor, indicator, setup portal | a mailbox; a stop handshake |

### Inventory

The decision and the bus - what the models below are about:

| component | state | operations | interacts with | hard | correct means |
| --- | --- | --- | --- | --- | --- |
| `ot_control` | one struct: what was last observed, HA's command, the watchdog and failsafe, the held ID 1 and CH bit, the ID 56 reconciliation, the boost | `init`, `step` (1 Hz), `apply` (commands), `boost_start/cancel` | called by `ot_thermostat` under its spinlock, with snapshots that may be stale | commands between steps, wrapping clock, saturating durations, ownership changing hands | HA drives only while it is alive and by what it said in this ownership; a failsafe ends only by a decision; CH never rises on a setpoint the boiler lacks; a failsafe neither freezes a house nor heats all summer |
| `ot_bus_sched` | turn flag, queue of one write, sweep, poll ring with cursor | `step`, `done`, `write`, `scan`, `disable` | called by `bus_task` and by writers under the bus spinlock | everything lands during an exchange | the status has every second slot; writes first; nobody loses a turn |
| `ot_bus_track` | write generation, last answered ID 1 | `write`, `step`, `done` | between `ot_bus` and `ot_bus_sched` | a write queued while another is on the wire | each accepted write goes out once, unless evicted |
| `ot_bus` | the task's loop, introduction, statistics, line test | `write`, `write_if_idle`, `set_status`, `scan`, `line_test` | `ot_master` (the wire), `ot_state` (judges replies) | unlocked exchange between two critical sections | the loop never stops |
| `ot_thermostat` | the executor, its last snapshot and output, `owed` ID 56 | `tick`, `control_apply`, `boost_*` | settings of `ot_net`, the bus, NVS and RTC memory | reset between two stores; order of apply and persist | a reset neither lengthens the failsafe's arm nor restarts the watchdog |
| `ot_control_io` | none (pure); RTC record layout | `confirm`, `readback`, `send`, `rtc_store`, `restore` | between the executor, bus and stores | what a reset kept | only an intact record after a reset that keeps RAM is believed |
| `ot_sensor`, `ot_room` | slots with validity, rejected jumps, freshness | `submit`, `tick`, `select_steer`, `select_display` | mailbox from DS18B20, MQTT, HA | a clock that wraps; a config change drops a reading in flight | a stale or ambient source never steers; a jump is believed when it lasts |
| `ot_state` | value, validity, unknown streak, dirty mark per consumer | `apply_dataid`, `set_virtual`, `take_dirty` | bus task writes, MQTT and web read | marks taken and lost | an identifier is dropped only after a streak |

Network and configuration:

| component | state | operations | hard | correct means |
| --- | --- | --- | --- | --- |
| `ot_provision` | station attempts, setup AP, candidate pair, window flags | `tick`, one function per event | timeouts against late radio events | a pair that never worked is not promoted; the way back in stays open |
| `ot_net` | the machine above, radio, settings in RAM | event queue, `config_apply`, `provision` | full queue, failed save, commit racing a second save | RAM and flash agree when nothing is under way |
| `ot_config` | the settings, key by key in NVS | `apply` (all or nothing), `save`, `load` with migration and repair, `commit_known_good` | power cut or failed write between keys, stores of other builds | the device runs on a legal document and a migration loses nothing |
| `ot_auth`, `ot_policy` | none: a stored record, a table of rules | `auth_check`, `http_check` | a route lets operations through on a device without a password; one of them silences the bus | who knows the password gets in, nobody else changes anything on a device that has one |
| `ot_ticket` | a table of one-shot tickets | `issue`, `redeem` | eviction, expiry over a wrapping clock | a ticket is redeemed once, and young |
| `ot_http` | sockets, queued work, marks taken | routes; the push tick | descriptors reused, a send that fails, one set of marks for all | every open socket comes to show every change after its snapshot |
| `ot_command` | none | `check`, `encode` | judged early, carried out later | an owner's command is kept, a former owner's is not |
| `ot_mqtt_link`, `ot_mqtt`, `ot_ha` | connection flags, inbox, owed publications, discovery plan | the library's events; the task's round | drops, refusals and reconnects in the middle of a pass, new settings | the broker comes to hold everything, and nothing of the settings before |
| `ot_captive`, `ot_led`, `ot_onewire`, `ot_log`, `ot_observe` | small drivers and rings | - | stop handshake (`ot_captive`) | - |
| `ot_frame`, `ot_encode`, `ot_decode`, `ot_wire`, `ot_json`, `ot_api`, `ot_registry`, `ot_time`, `ot_secrets` | none | conversions and checks | - | - |
| `board`, `web_assets`, `src/main.cpp`, `web/`, `tools/` | pins, generated files, boot order, SPA, generators | - | - | - |

Boot (`src/src/main.cpp`): log, NVS, master, state, **bus, network, thermostat, MQTT, HTTP**, sensor, LED.
Each failure is stepped over and none reboots: master silence longer than a few seconds is a heat demand
to the boiler, so the bus comes first and nothing stops it.

The full list of hazards, each at its line and with the properties that cover it, is in `PROJECT.json`.

## 2. The models

| module | models | role |
| --- | --- | --- |
| `OtControl` | `ot_control.c`, `_apply`, `_check`, `_boost`, `_failsafe` | the executor: one variable per field, one action per call |
| `OtControlOwnership` | - | `OtControl` with a history of what HA really said; ownership properties, inductive parts |
| `OtControlHeat` | - | `OtControl` with a history of the room readings, the wire and the bit; properties of the burner |
| `OtControlRequests` | - | `OtControl` with a history of boosts and DHW commands |
| `OtBus` | `ot_bus.c`, `ot_bus_sched.c`, `ot_bus_track.c` | the bus task and everything that writes to its state |
| `OtBusRounds` | - | `OtBus` with a history of turns; fairness of the schedule |
| `OtWriteSlot` | the contracts of `ot_bus.h`, `ot_bus_sched.h`, `ot_bus_track.h` | the abstract specification of writing; `OtBus` refines it |
| `OtThermostat` | `ot_thermostat.c` (tick and start), `ot_thermostat_persist.c`, restore of `ot_control_io.c` | composes `OtControl` with the two stores, commands between them, resets |
| `OtThermostatResets` | - | `OtThermostat` with a history of powered time |
| `OtProvision` | `ot_provision.c` | the pure machine of Wi-Fi provisioning: operators from its struct to its struct |
| `OtNet` | `ot_net_prov.c`, `ot_net_radio.c`, start of `ot_net.c`, the pair in `ot_config_nvs_*.c` | composes `OtProvision` with the task, flash, the owner's requests, the radio and power cuts |
| `OtNetRecovery` | - | `OtNet` with a history of what worked and of the access point; the way back |
| `OtConfig` | `ot_config_apply.c`, `_defaults`, parts of `_check`; `ot_wire_config.c`, `ot_wire_provision.c`, `ot_config_project` | the document, patches and repair; bodies into patches, the settings page: operators |
| `OtSettings` | `ot_config_nvs_*.c`, `ot_net_config.c`, requests of `ot_net_prov.c` | composes it with flash written key by key, failures, power cuts |
| `OtState` | `ot_state.c` | operators from a struct to a struct |
| `OtWs` | `ot_http_ws.c`, `ot_http_ws_push.c`, `ot_ticket.c` | composes it with tickets, the timer, the server's task, sockets and pages |
| `OtMqttLink` | `ot_mqtt_link*.c`, the owed set of `ot_mqtt_out.c`; `ot_ha_plan.c`, `ot_mqtt_in.c`, parts of `ot_ha.c` | composes `OtState` and the discovery plan with two tasks, a broker, a network |
| `OtSensor` | `ot_sensor.c` | one slot: operators |
| `OtRoom` | `ot_room.c`, `ot_thermostat_room*.c` | composes slots with the mailbox, the tick and the settings |
| `OtAccess`, `OtAuth` | `ot_http_policy.c`, `ot_http_gate.c`; `ot_auth.c`, `ot_config_record.c` | the gate and the password: operators |
| `OtCommands` | `ot_command*.c`, `ot_http_registry.c`, `ot_thermostat_control_apply`, `ot_control_io_send` | a command from request to store and bus, over `OtWriteSlot` |
| `OtJson`, `OtOps` | `ot_json*.cpp`; `ot_http_ops.c`, `ot_wire_command.c`, `ot_http_body.c` | readers over tokens; operations: operators |
| `OtFields` | `ot_config_check.c`, `ot_control_io_cfg` | which texts and numbers are taken, and what the executor is given |
| `OtLine` | `ot_frame.c`, `ot_codec.c`; `ot_encode.c`, `ot_decode.c`, `ot_master.c` | words, and words as levels of the line |
| `OtServices` | `ot_log.c`, `ot_captive_dns.c`, `ot_led.c` | the log ring, the portal's answer, the light |
| `MC*` | - | small instances |
| `*_proofs` | - | theorems (section 4) |

Pure components are operators or recursive functions; where a state machine uses them they are checked in
it, and where none does a claim over their bounded inputs is an `ASSUME` of an `MC` module, which TLC
evaluates at the start of the run (list in section 3).

The modules that hold history variables add no behaviour: every action of theirs is an action of the
module they extend together with the bookkeeping, so what they show holds of the program's fields.

### The executor (`OtControl`)

The C code is a pure struct with functions, called under one spinlock. So each call is atomic, and the
interleaving that matters is the order of calls between two steps, with whatever snapshot each is given.
A call gets *any* member of `Configs`: settings may change at any time, and the snapshot a command
sees may be older than the mode already stored. That is more than the code does (there, a command gets the
last step's snapshot) and no less.

- **Step** has the order of `ot_control_step`: durations advance, then edges are observed, the boost ends,
  the ladder picks the state, the failsafe is tracked, the held setpoint and the CH bit follow, then ID 56.
  The equations refer to primed variables where the code reads what it has just assigned.
- **Durations** are saturating (`AddSat`, `AgeMax` for `UINT32_MAX`). The clock, which only the boost reads,
  wraps at `ClockMod`, and `Reached` is the signed difference of the code.
- **The room** is what the failsafe tells apart: no fresh reading, or below, inside, above the +-0.3 K band.
- **Commands.** HA's `CH_ENABLE` and `CH_SETPOINT` and everybody's `DHW_SETPOINT` change the executor. The
  other accepted commands only return a value to be stored (the web's CH switch, `DHW_ENABLE`, the season):
  here they are a change of configuration. `ValueOk` and `Owns` are the whole of `ot_control_check`.

### The bus (`OtBus`)

`pc` is where `bus_task` stands between its critical sections: building a step (`Build`), talking
without the lock, recording the outcome (`Done`), and judging a reply, which may drop an identifier from
the ring (`Judge`). Writers, `set_status` and `scan` run between any two of them.

Abstractions, all towards more behaviour: a conversation may begin at any moment (the pace and the gap are
the operator `Pace`, which a claim checks over a whole turn of the clock; the line test is in `OtCommands`),
a reply may carry any identifier (nothing compares it with the one
asked) and any verdict. `CountBurst` bounds the writes queued during one conversation below `GenMod`
(2^32 in under a second). `ot_bus_scan_stop` has no caller in the repository and is left out.
Statistics, the link verdict and the observer's table are output.

### The tick (`OtThermostat`)

A tick is `TickStep` (the critical section with the executor's step), then the two stores in the order
`Stores` gives; `out` is the tick's own copy of the step's output, so a command that lands between the
step and a store is not yet in what is stored, as in the code. `Reset` keeps RTC memory (software reset,
panic, watchdogs, brown-out); `PowerCut` does not (power-on, and a brown-out whose dip damaged the
record). `Restored` is `ot_control_io_restore`. What the tick does after the stores - report, status byte,
writes queued to the bus, publishing - touches neither a store nor the executor, and is left out.

### Provisioning (`OtProvision`, `OtNet`)

`OtProvision` has one operator per function of `ot_provision.c`; the tick is its six steps in order. Its
clocks are ages: the time since the timestamp was taken, 0 while the flag beside it is down.
`Classify` sorts the radio's reasons, `Backoff` is the doubling wait and `WindowRemaining`, `FallbackIn` are
the countdowns shown to the owner: claims check them. In `OtNet` the wait is constant (`RetryBackoff`), and
the three answers that earn the access point are one.

`OtNet` runs it. `Feed` takes one fact from the queue; when the queue has been silent the task steps (`Turn`):
it ticks, takes what the machine owes, and applies mode and connection. A write to the flash is a
state of its own (`Commit`, `Restore`, `Restored`), because requests run on the HTTP server's task beside it:
`SaveWifi` stores a pair, `Announce` puts it in RAM and tells the machine. `Pass` lets a unit of time go by
while the task waits. The radio is external: `link` is what the station really does, and the
facts it posts reach the machine only through the queue. `fate` is how the owner's networks treat the station:
they turn it away (or give it an address), or they take it in and may never give it one. `Restart` is
a power cut at any point. With `Overlaps = FALSE` a request does not coincide with what the task and the
radio are still doing for the pair before; `net_second_pair` shows why this is assumed.

Assumed besides: the queue is silent for 250 ms now and then (it is drained before every tick, so facts that
never pause would stop the clock), its sixteen places suffice, and writes to the flash succeed (`OtSettings` lets
them fail).

### The settings (`OtConfig`, `OtSettings`)

A document is a record of the fields the rules speak of; the settings with a range of their own and no
relation to others are `Plain`. `Apply` judges a patch in the code's order and changes all or nothing;
`Sanitize` is what a load repairs. A save and a boot's migration are jobs: lists of writes, done one per step
(`WriteOk`, `WriteFails`), with `PowerCut` between any two. The machine lock is held for the whole of a job, so
one runs at a time; the network's pair goes to flash outside the lock and to RAM under it
(`ProvisionStore`, `ProvisionTell`, and a rollback's `RestoreStore`, `RestoreTell`). With `Overlaps = FALSE`
a pair is not on its way while a save runs (section 5, 6). Stores are blank, settled, of schema 1, half
migrated, of a newer build, and damaged. Secrets are shown as a sentinel and kept, cleared or set (`Decide`).
A stored broker password is the host it was typed for, so that a property can tell.

### The live socket (`OtState`, `OtWs`)

The bus task changes the store at any time. The timer queues one piece of work a second while there is
somebody to serve; the server's task does it in several steps (`phase`), because the store may change between
them: prune the list, send snapshots, take the marks one by one, send the delta, ping. A descriptor that is
closed is given out again (`Open`). `shown` is what the page behind a descriptor holds.

### The broker (`OtMqttLink`)

The library's task runs `on_event`; between the two flags it sets on a connection the link's task may run
(`half`). The link's task goes round `pc`: `Drain`, `Follow` (and `SayOffline`, `Stop`, `Drain`, `Start` when the
settings moved), then a pass of at most `PerPass` publications: availability, subscriptions, the two small topics
(owner and reason), marks taken, states, documents. Each is accepted, or refused and still owed. The broker
retains (`held`), and tells a will when a connection dies (`will`). A message carries the prefix it
came under.

### The room (`OtSensor`, `OtRoom`)

Foreign tasks leave readings in a mailbox of one place per slot; the tick rebuilds the registry when the
settings changed (`TickRefresh`), then drains, ages, selects (`TickRoom`). Clock and counter wrap
and saturate at `ClockWidth`. `Junk` is a reading outside the sensor's range.

### Commands and the gate (`OtAccess`, `OtAuth`, `OtCommands`, `OtJson`, `OtOps`)

A request passes `Allowed` (route, host, type, password as the gate asks them), the early check against the
stored mode, then `Apply` and `Persist` under `s_apply`, where the executor's mode decides. The link's task
carries HA's commands the same way. Beside them run the tick (`TickRead`, `TickStep`, `TickSend`), the bus as
`OtWriteSlot` promises it, a page that saves mode or password, a line test. The executor is cut down to the
mode and season it last stepped with, HA's setpoint and the held ID 1; when it asks for ID 56 is left
open. Time: at most `BusTicks` ticks begin while one write waits or is on the wire, since a tick is a second
and a conversation a fraction of one.

`OtJson` reads documents as tokens (what a character means is left to the scanner): the check of a whole
document, and the readers that seek a key. `OtOps` reads bodies and operations. `OtAuth` takes headers as
symbols of Base64. `OtLine` is a frame as the lengths of levels the decoder samples.

## 3. The runs

| run | instance | states | question |
| --- | --- | --- | --- |
| `control_ownership` | 4 configurations (mode x season), watchdog 2, one boost, one DHW command, warm and cold boots | 32,040 | who owns the boiler |
| `control_heat` | either mode, every room, every report of ID 1, late steps of 3 units with an hour of 2, thresholds of two and four steps | 248,096 | what the burner does |
| `control_requests` | boosts of every length up to the bound, calls up to 1 unit after the step, clock modulo 7; boilers that agree, round or report nothing; three targets, the store lagging behind | 48,790 | boost and wrapping clock; ID 56 |
| `bus` | ring of 3, introduction of 1, a hand write, the executor's write, a sweep of 2 given backwards | 257,116 | writes, turns, ring, refinement |
| `thermostat_resets` | HA mode, steps of 1 or 2 units with an hour of 2, arm of 2 hours, watchdog 2, resets anywhere, 1 power cut | 183,487 | what a reset may cost |
| `net_recovery` | out of the box or with a network that works, one new pair, one power cut, either fate; limits of 1 to 4 units | 152,006 | what is kept and the way back |
| `net_second_pair` | as `net_recovery`, a request at any moment; expected to fail | - | section 5, 1 |
| `settings` | 2 networks, 2 brokers, 4 flow temperatures, 2 plain settings, 6 stores; 2 submissions, 1 failed write, 1 power cut | 260,087 | what a save, a cut and a migration leave |
| `live_socket` | 1 identifier with 1 entity, 1 virtual value, 2 places, 3 descriptors, 2 tickets of 1 second; 3 changes, 3 openings, 1 refusal, 6 events in all | 425,658 | what a page shows |
| `broker_link` | 2 entities, 2 prefixes, inbox of 1, passes of 2; 2 events of the world and 1 refused publication | 366,915 | what the broker holds |
| `room` | shield and one topic, ROOM, AMBIENT or off; clock and counter modulo 4, gaps of 1 and 3, three rejections | 124,928 | what steers |
| `commands` | pages with and without the password, a foreign page, HA; 2 orders, 1 turn of the ladder, 1 request for ID 56, 1 move of the world, 3 events in all | 130,025 | what becomes of a command |

**What they show.** `control_ownership`: HA drives only while its last accepted command is younger than the
watchdog (`HaIsAlive`), by what it said since its present ownership began (`CommandIsCurrent`); a failsafe
gives way only to a `CH_ENABLE` sent while the source was fresh (`FailsafeNeedsRelease`); a silent HA
always ends in failsafe (`SilenceEndsInFailsafe`, liveness).
`control_heat`: CH rises only on a setpoint the bus carried since it was taken (`RiseIsCarried`), the hysteresis
keeps the minimum cycle (`CycleRespected`), and a failsafe leaves CH down only in a room that is warm or came to
the dead band from there, for the minimum cycle of a room that is seen, for a setpoint not yet carried, or
once HA has not asked for heat for as long as the settings allow (`ColdHouseHeats`). The property judges the reading the
step was given and what the house was since the failsafe began (`given`, `chilled`), never the reason the
executor publishes; a dead band read from the bit instead of the verdict breaks it, and so does a
cold room taken for one inside the band. `control_requests`: a boost lasts exactly as long as asked across the wrap
(`BoostOnTime`); writes of ID 56 to a boiler that never agrees are bounded (`DhwWritesBounded`) and a command is
carried out (`DhwCommandCarriedOut`). `bus`: `OtBus` implements `OtWriteSlot` (`WritesReachWire`); at most
one conversation precedes a waiting write (`WritePrompt`); the ring is gone round in order although
identifiers drop out (`RingInOrder`).
`thermostat_resets`: a reset at any point of the tick leaves at least the powered time that completed
ticks counted (`ArmNeverLengthened`), the summer bound holds through reboots (`SummerBound`), and a reboot
loop faster than the watchdog still ends in failsafe (`LoopEndsInFailsafe`).
`net_recovery`: the pair a rollback would put back has had an address (`KnownGoodWorked`); an open access point
is off the air by its ceiling however often clients ask (`AccessPointBounded`); the station never stops
trying (`StationTriesAgain`); a device its networks turn away is again and again on one, or has its access
point up, or will at the next boot (`WayBackWhenTurnedAway`).

`settings`: the executor runs on a legal document whatever the store holds (`DocumentLegal`); when nothing
is under way a restart brings back what the owner sees, unless a write failed (`QuietMeansStored`); a kept
broker password stays with its host (`PasswordForItsHost`); a migration cut anywhere keeps the owner's hot
water (`HotWaterKept`); a newer build's store is written to in its pair alone (`NewerStoreUntouched`).
`live_socket`: an open socket shows the store or is owed the difference (`PageCurrentOrOwed`) and comes to show
it (`PageCatchesUp`); an identifier is given up only after so many refusals in a row
(`GivenUpAfterTwo`); a socket opens on a young ticket that opened none before (`TicketOnceInTime`).
`broker_link`: what the broker does not hold is owed (`HeldOrOwed`); `online` stands only for a device that is
there, whose will is to come, or whose goodbye the library refused (`OnlineMeansThere`); a
message is judged under the settings it came under (`JudgedAsItArrived`); a link that stays up ends with
everything published (`BrokerCatchesUp`).
`room`: what steers was believed less than its limit ago in true time (`SteerYoung`), is a room source of the
settings in force (`SteersFromRoom`), and a jump is believed after the rejections the filter
asks for, no sooner and no later (`JumpsConfirmed`).
`commands`: with no command between effect and save, the store holds each setting as its last writer left it
(`StoreKeepsLast`); a command the early check let through leaves no mark once the executor has seen
the mode flip (`NoLateOwner`); an asked ID 56 reaches the bus (`AskedIsWritten`, liveness); only the owner's word
starts a line test (`SilencedByOwner`).

**Claims on operators** (`ASSUME`s of the `MC` modules, evaluated when the run starts):

| module | claims |
| --- | --- |
| `MCBus` | a slot never begins before the gap nor later than its deadline, wherever the clock stands (`Pace`); every word arrives with every mixture of tolerated lengths, and half a frame or a wrong length never gives another word (`OtLine`); frames carry their fields and a turned bit is noticed (also `OtLine`) |
| `MCCommands` | the owner gets in with every password the settings take, nobody with another; damaged headers and records are refused (`OtAuth`); a document that passes the check is read the same by every reader (`OtJson`); an operation runs with the numbers it was given or not at all (`OtOps`) |
| `MCSettings` | a topic prefix is one level of ours; what is stored is what the executor gets; each text at its longest and one past it (`OtFields`) |
| `MCWs` | the countdowns of the page agree with what the tick of `OtProvision` does |
| `MCNetRecovery` | the wait grows to its limit at any width of the word; the reasons of the radio (`OtProvision`, `OtNet`); the log keeps its last lines, the portal's answers fit, the light turns red after its grace (`OtServices`) |

**Why the bounds are enough.** The code compares durations with thresholds and never with each other, so a
unit of time with thresholds of 1 to 3 units and saturation at or just above the largest threshold gives
every order of events around every threshold. In `control_heat` a step is an hour and a
half, so steps complete one hour and leave a rest, or complete two at once. The clock's modulus is just above twice the longest
boost, the smallest at which the signed comparison is right, so every position of the wrap occurs. On the
bus, one hand write and one of the executor's are all that the queue of one tells apart; a ring of three
has a first, a middle and a last place for the cursor and for what drops out. One power cut separates the
counts of before and after it; a second adds nothing that the first has not reset.

In `net_recovery` the limits keep the order that matters: an address is due before the trial ends, the short
window is shorter than the first, the ceiling above both, the fallback not below the ceiling. One new pair
and one power cut reach every state of flash, RAM and machine that two pairs can be in; a queue of two
is never full when the task waits.

In `settings` two submissions let a second save find what the first left, one of them possibly failed and cut;
the flow temperatures are as many as the band, failsafe and local setpoint need to be in every
order. In `live_socket` three descriptors on two places let a place be taken again and a descriptor be given out again;
one socket's failed send leaves another that must not lose the marks. `Events` bounds all kinds of events
together, so that any six of them meet. In `broker_link` any two events (a change, an edit, a drop, a message, a new address)
meet a refusal; a pass of two publications is never enough for everything owed, so every
interruption of a pass occurs. In `room` the clock wraps every four units and gaps reach three: a
silence passes the wrap several times. In `commands` two writers, one tick in hand and one move of
the mode give every order of early check, flip, effect and save.

**Fairness.** The thermostat task steps for as long as the device runs (`WF` of the step): its loop ends in
a delay and takes no lock that is held for long. `bus_task` never leaves its loop and an exchange ends by
its timeout. Nothing obliges HA, a person or the boiler to do anything. For reboot loops,
strong fairness of the two stores says that of infinitely many boots infinitely many end their first tick: a
device of which no boot ever gets there runs no program to speak of. In `OtNet` the provisioning task runs
(its priority is above everything that computes), time passes again and again while it waits (strong fairness:
the task keeps interrupting the wait), and an attempt to join is answered. A network that turns the station
away answers before the next unit of time: the backoff doubles up to thirty seconds, longer than any handshake.
In `OtWs` the timer is periodic and the server's task drains its control socket; nothing obliges a browser. In
`OtMqttLink` the link's task goes round for ever and the library reports and reconnects for ever;
`BrokerCatchesUp` says only what follows if the connection stays. In `OtCommands` the tick, the bus and the
end of a line test go on, and a boiler asked again and again answers again and again (strong fairness): one that
never answers holds ID 1 in front of ID 56 for ever.

Deadlock is checked except in `settings`, `live_socket` and `commands`: there everything that starts
something is an event from outside, their number is bounded, and a device nobody talks to rests.

## 4. The theorems

TLAPS proves these for every value of the constants that the named assumptions of the modules allow; TLC
evaluates the same assumptions on the instances of section 3. Every invariant and every action property of the
runs is proved; a theorem that needs more than the assumptions says so in its statement, and the table in its last column.

| theorem | says | besides, assumes |
| --- | --- | --- |
| **`OtControl_proofs`** (with its history modules and `OtThermostatResets`) | | |
| `TypeCorrect`, `TypeCorrectR` | every field, both stores and the tick keep their types; no accumulator passes its saturation | |
| `HaAlive`, `BoostLocal`, `FailsafeReleased` | `HaIsAlive`, `BoostIsLocal`, `FailsafeNeedsRelease` | |
| `CommandCurrent`, `LatchNeverWaits` | `CommandIsCurrent`, `LatchedNeverWaits` | `OneWatchdog` |
| `RisesAreCarried`, `CyclesRespected`, `ColdHousesHeat` | `RiseIsCarried`, `CycleRespected`, `ColdHouseHeats` | |
| `BoostsOnTime`, `WritesBounded`, `CommandsCarriedOut` | `BoostOnTime`, `DhwWritesBounded`, `DhwCommandCarriedOut` | |
| `ArmsNeverLengthen`, `SummersBounded` | `ArmNeverLengthened`, `SummerBound` | `~SaveFails`, `OneLimit` |
| **`OtBus_proofs`** | | |
| `WritesHeld`, `WritesOnce` | `WriteHeld`; `OtBus` implements `OtWriteSlot` | |
| `WritesArePrompt`, `RingsInOrder` | `WritePrompt`, `RingInOrder` | |
| `PaceIsKept` | `Pace`: a task that waits as it is told talks then and not before, after the gap, and knows when it is late | nothing lasts a turn of the clock |
| **`OtSettings_proofs`** | | |
| `DocumentAlwaysLegal`, `NewerUntouched`, `HotWaterSurvives` | `DocumentLegal`, `NewerStoreUntouched`, `HotWaterKept` | |
| `StoredWhenQuiet` | `QuietMeansStored` | `~Overlaps` |
| `PasswordGoesHome` | `PasswordForItsHost` | `TypedForItsHost` |
| **`OtNetRecovery_proofs`** | | |
| `AccessPointGoesDown` | `AccessPointBounded` | no limit is 0 |
| `KnownGoodHasWorked` | `KnownGoodWorked` | `~Overlaps` |
| `WaitNeverCollapses` | `Backoff`: never nothing, never shrinks, doubles up to its limit, whatever the word's width | |
| `CountdownsAreTrue` | the countdowns of the status page agree with what the machine does then | |
| **`OtRoom_proofs`** | | |
| `SteersYoung`, `SteersInRoom`, `JumpsAreAsked` | `SteerYoung`, `SteersFromRoom`, `JumpsConfirmed` | |
| **`OtWs_proofs`** | | |
| `PagesServed`, `TicketsOnce`, `GivenUpAfterARow` | `PageCurrentOrOwed`, `TicketOnceInTime`, `GivenUpAfterTwo` | |
| **`OtMqttLink_proofs`** | | |
| `NothingForgotten`, `OnlineIsTrue`, `JudgedUnderItsOwn` | `HeldOrOwed`, `OnlineMeansThere`, `JudgedAsItArrived` | |
| **`OtCommands_proofs`** | | |
| `StoreKeepsTheLast`, `OwnerSilences`, `NoLateOwners` | `StoreKeepsLast`, `SilencedByOwner`, `NoLateOwner` | |

**What the hypotheses stand for.** `OneWatchdog`, `OneLimit`: nobody edits that setting while the device runs.
`~SaveFails`: flash takes what it is given. `~Overlaps`: no request coincides with what is still done for the
one before. Each is where section 5 has a counterexample (2, 5, 4, 6 and 1 there), so none can be dropped. A limit
of 0 of `OtProvision` means "never" and opens a window without end; the device's are not 0. `TypedForItsHost`: what the owner
types into the password field is for the address beside it. The modules' own assumptions are typing, with
these exceptions: a clock is more than twice the longest boost (`BoundsAssumption`), a step is late by
less than a turn of it (`LateStepAssumption`, `LateTickAssumption`) and, for the boost, by at most half a turn
(`TimelyStepAssumption`): turns of 49 days; counters and histories are wide enough for the limits
they are compared with; no identifier is twice in the ring (`RingAssumption`); a source goes stale within a turn of its
clock (`RoomAssumption`).

**Type correctness** is inductive part by part (`FlagType`, `VerdictType`, `AgeType`, `DialType`,
`TemperatureType`); the arithmetic of saturation, hours and the clock is in lemmas of its own.

**Ownership.** `HaIsAlive` is not inductive: nothing in it says how the executor's own count relates to the
silence. `SilenceCovered` does (while HA owns the boiler and has been heard, the count is at least the
silence, although LOCAL mode clears it), and `FailsafeHeld` ties the state to the latch and to what a release
did. Their conjunction with `BoostIsLocal` and `HaIsAlive` is `OwnershipInv`, inductive for every set
of configurations. `CommandIsCurrent` and `LatchedNeverWaits` need `LatchShows` besides: a latched failsafe
that HA owns is the executor's state and has a cause. An edit of the watchdog breaks exactly that
(section 5, 2), so these two are proved under `OneWatchdog`.

**The burner.** `BitInv` ties what the code calls confirmed to the setpoint really on the wire, and its age of the
bit to the bit's; `RiseIsCarried` and `CycleRespected` are steps from there, the second by the lemma that a clock
read modulo `ClockMod` tells any step's length. `ColdHouseHeats` needs `IdleCovers`: the hours the code counts
never run ahead of the time since HA asked for heat, however that time is cut into hours and remainders; and
`ChillWanted`: a room once cold in this failsafe, and not warm since, is what the hysteresis still remembers, whatever
became of the bit.

**Requests.** `BoostClock` says where the deadline stands on the dial: as far ahead of the clock as real
time is left, around the wrap or not, and less than half a turn. `RequestInv` relates writes made to tries
counted, and a command still owed to the reopening that will carry it out.

**Resets.** `ArmInv` places every part of the elapsed time. RAM, the tick's copy of it, and NVS with RTC
memory together each account for what ticks banked, or the arm has run out anyway (`RamCovers`, `OutCovers`,
`StoresCover`); between the two stores the flash catches up with RAM before RTC memory drops its part of an hour
(`FlashCatchesUp`, `FlashNotAhead`); a command of HA that lands in the middle of a tick leaves everything at zero until
the next save (`JustAsked`, `OutIsRam`). One lemma per place of the tick shows that it hands on what it found. A save
that fails breaks `FlashCatchesUp`, an edited limit `RamCovers` (section 5, 4 and 5).

**The bus.** `WriteHeld` says that during the conversation of a write the queue still holds it, or a newer one
that moved the generation, and that the generation moved exactly if something was queued (`burst`, the
model's count, makes the wrap of `gen` harmless). It gives the refinement: the abstract slot is the
queue, except while it only repeats what is on the wire. `Prompt` counts what began while a write waited.

**The ring.** `OnTurn` says where the cursor stands: behind everybody whose place is up to the last one polled and
in front of everybody else, or back at the start when all have had their turn. That survives an identifier leaving
in the middle of anything (`DisableKeeps`), because what is left of the first places of the ring is where what is left of
more begins (`KeptAdds`). `Kept` is a recursive function; the induction it needs is over a set of naturals, by the least
number outside it (`SetInduction`, from the library's `WFMin`), so no operator parameter is instantiated. The doubling wait of
`Backoff` is proved the same way: longer loops go through the values of shorter ones (`RoundsAgree`).

**The settings.** Legality of RAM alone is not inductive: a rollback puts the remembered pair into RAM past every
check, and a boot loads whatever flash holds. `IInv` adds: every pair on its way is usable, and a stored one that
is not is one no task in RAM knows of (`Pairs`); a job has writes left for keys flash has, and a save ends
with the web password, so that what follows a failed erase is there to be left out (`Jobs`); flash has a place
for every key (`IsStore`); over a newer build's store no job runs and RAM is read-only (`Newer`), which is
what `NewerUntouched` needs. `Repaired` shows that `Sanitize` makes any document legal and `Patched` that a patch
not refused keeps it legal; both rest on `InBand`, which says where `IntoBand` puts a temperature.
`StoredWhenQuiet` needs how RAM and flash differ while something is under way (`SyncInv`): a save that has not failed has
written every key that is no longer on its list (`Saving`), a migration carries the hot water before it erases what that
was read from (`Migrating`), outside a save a restart would bring back RAM's document but for the pair (`Synced`), and the
pair has one owner at a time (`OnePair`). Its hard part is about loading: it reads key by key, repairs the rest
apart from the network, and leaves a legal document alone, so that a store written from RAM loads as RAM. There is one lemma per action.

**The way back.** A fact about the access point is in the queue at most once, and only while radio and
machine disagree about it (`Queue`); the window's clock runs from when the air opened (`Clock`). With the tick's own judgement
(`Judged`) that bounds the time on the air. `KnownGoodWorked` follows from `Earned`: from the address that
earns a promotion to the write that carries it out the stored pair is one that worked, which is what an overlapping request breaks.

**The room.** `Histories` relates what a slot counts on its wrapping clock, saturating, to its true age, and its
rejections to those that really happened; `Chosen` keeps the last selection true to the registry until the next tick.
The lemmas are about the clock: a gap shorter than a turn is told right, and saturation hides nothing below a limit.

**The live socket.** `PageCurrentOrOwed` is nearly inductive: it needs that work has marks in hand only between taking
and sending them and that nobody joins the list while it runs (`Working`), and that no descriptor stands in the
list twice (`Listed`). Tickets need `Serials` (a live ticket is one that was issued, unspent, and as old as it looks), the
streak `Rows`.

**The broker.** `HeldOrOwed` and `OnlineMeansThere` hold together with the life of a client (`Linked`), the inbox
(`InHand`: no message outlives the client it came to) and a client's parting (`Parting`), with one lemma per action and
one per retained publication.

**Commands.** `Pending`: what was last asked differs from the store in the field of the one command that is between
its effect and its save (`OneApplied`), and in nothing else. `Doorkeeper`: httpd carries out one
request at a time, so a request let in while a password is set has proven the one its operation finds.

**Only model-checked:** liveness (`SilenceEndsInFailsafe`, `LoopEndsInFailsafe`, `StationTriesAgain`,
`WayBackWhenTurnedAway`, `PageCatchesUp`, `BrokerCatchesUp`, `AskedIsWritten`), which is out of the
prover's reach; and the claims on operators of section 3 but three (`Pace`, `Backoff`, the countdowns): most are about
recursion over texts, tokens and levels, and each would need an induction of its own.

## 5. Where documentation and code disagree

The first has a run. The others TLC shows when a configuration is changed as said, with the property named as
the only one.

1. **An untried pair can be promoted** (`net_second_pair`; `ot_provision.c`). Save a new pair while the old
   one's commit, or the address that leads to it, is on its way: the pair that worked is overwritten.
2. **A latched failsafe can become `HA_WAITING`** (the comment over `ladder` in `ot_control.c`). Raise `watchdog_s`
   while a failsafe that never heard HA is latched. `control_ownership.cfg` with `Configs <- EditedWatchdog`,
   `BoostRequests <- NoBoost`, `AgeMax = 3`; `LatchedNeverWaits`.
3. **A sweep can skip its first identifier** (`src/components/ot_bus/README.md`). Start it while a read of the
   ring is on the wire. `bus.cfg`; `SweepWhole`.
4. **A lost hour lengthens the arm** (`ot_thermostat_persist.c` and `src/docs/architecture/failure-model.md` say
   it shortens it). A failed save and a reset before the next one. `thermostat_resets.cfg` with
   `SaveFails = TRUE`; `ArmNeverLengthened`.
5. **Hours counted in RAM alone are forgotten** ("harmless" in `ot_control_failsafe.c`). Raise
   `failsafe_heat_days` after the arm ran out, then restart. `thermostat_resets.cfg` with
   `Configs <- EditedArm`; `SummerBound`.
6. **A pair that met a save is gone at the next boot** (`ot_net_prov.c`: "Stored FIRST"). The pair is in flash before
   RAM; a save of other settings in between writes RAM's old pair over it, and the machine then tries a pair
   the flash does not have. `settings.cfg` with `Overlaps = TRUE`; `QuietMeansStored`.
7. **The fallback's access point comes back at once** (`test_provision.cpp` and `ot_provision.c`). One refused
   attempt while it is up, and its closing does not restart the half hour. `net_recovery.cfg` with
   `Fates <- TurnedAwayOnly`, `SavesMax = 0`; `DutyCycle`.

Read in the code while modelling, with no run:

- `on_event` sets `g_connected` before `g_republish` (`ot_mqtt_link_client.c:43-44`); a pass between the two
  publishes by the books of the connection before, although availability goes "BEFORE everything"
  (`ot_mqtt_link_publish.c:76`). Everything is owed again a moment later.
- A client that fails to start is not started again until the settings change (`ot_mqtt_link.c:142-152`).
- Broker host and password are "one record" (`ot_config_apply.c:116`) but two keys in NVS: a power cut between
  them leaves the new host with the old password (`PasswordForItsHost` excuses `torn`).
- Settings take effect although their save failed, and HTTP answers success; the comment in
  `ot_net_config.c` says why.
- A pair restored by a rollback is not repaired as one loaded at boot is.
- A delta too long for its buffer loses its marks without closing the socket (`ot_http_ws_push.c:247-252`), against
  "there is no third outcome" (`:207`).
- The table against duplicate keys has 16 places (`ot_json_check.cpp`): of the longer documents a key
  beyond them given twice is taken once.
- The gate's header buffer holds 511 characters, less than the longest header `ot_auth.c` is sized for:
  a password of 128 with a user name beyond 249 is refused.
- The comments speak of a reset gesture (`ot_config_apply.c:323`, `ot_config_nvs.h:128`); nothing calls
  `ot_config_nvs_reset`.
- `ot_log` is "safe from any task" (`ot_log/README.md:22`), but its cursor and count have no lock; and a ring full of
  long lines that are not ASCII is larger than the buffer it is served from, so `GET /api/log` fails until they
  have gone.
- The stop of the captive DNS, when it gives up waiting, leaves its task's handle set, and no later start succeeds.

`PROJECT.json` quotes the lines of the first.

## 6. What is not modelled, and the plan

- **Outside the models:** text (topics, JSON characters and escapes, discovery documents, the documents served,
  generated tables), peripherals below the frame (the timer interrupt against the task that waits for it,
  1-wire), output (LED curves, statistics, the observer's table), the browser's application.
- **Assumed:** a gap of 250 ms in the facts of `ot_net` now and then, and room in its queue; conversations shorter
  than a tick (`BusTicks`); no second pair while one is on its way, in `net_recovery` and `settings`.
- **Sampled, as in the code:** a mode or season that flips there and back between two steps is no entry into HA
  ownership (`ot_control.c:49` says so and calls it harmless), and `CommandIsCurrent` counts none.
- **Left out of a modelled part:** in `OtCommands` the executor's ladder, boost and failsafe (they are `OtControl`),
  a save that fails under a command (it is `OtSettings`), the commands that only switch hot water or heating; the
  fixed delay after a refused password; an NVS that cannot be opened at boot (the document is then
  the defaults, and the next save writes them); a client or task that cannot be created; fragments of messages;
  the captive DNS's stop handshake; `ot_http_stop`, which has no caller; the radio's scan.

| next | properties to aim at | theorem worth proving |
| --- | --- | --- |
| `OtSettings` composed with `OtNet` | one model of the pair from request to known-good slot, with failed writes | that each of the two implements its half |
| `OtCommands` over `OtControl` | an accepted command is carried out through every state of the ladder | the executor of `OtCommands` as an abstraction of `OtControl` |
| `OtNet`, extended | a queue that overflows or is never silent | `AccessPointBounded` with a full queue |
| `OtWs` | several entities with one socket joining in each phase | - |
