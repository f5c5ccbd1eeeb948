----------------------------- MODULE OtSettings ------------------------------
(***************************************************************************)
(* The document in RAM and the document in flash: loading and saving it    *)
(* (ot_config_nvs_*.c), and the tasks that change it (ot_net_config.c,     *)
(* ot_net_prov.c).                                                         *)
(*                                                                         *)
(* NVS writes one key at a time, and a power cut may fall between any two. *)
(* A save and a boot's migration are therefore jobs: lists of writes, done *)
(* one per step. The machine lock is held for the whole of a save and of a *)
(* load, so one job runs at a time; the network pair is written to flash   *)
(* outside the lock and to RAM under it, by the request that provisions    *)
(* and by the rollback.                                                    *)
(***************************************************************************)
EXTENDS OtConfig, Sequences, FiniteSets

CONSTANTS
  Stores,       \* what flash may hold when the device is first seen
  Current,      \* the schema this build writes
  V1Dhw,        \* the retired key schema 1 kept the hot water bit under
  Bodies(_),    \* documents submitted to POST /api/config
  Commands,     \* patches the executor submits
  Overlaps,     \* may a pair be on its way while a save runs?
  Edits, Fails, Cuts   \* bounds of the model: submissions, failed writes, cuts

ASSUME SettingsAssumption ==
  Overlaps \in BOOLEAN /\ {Edits, Fails, Cuts} \subseteq Nat /\ Current \in Nat \ {0, 1}

\* Flash has a place for every key; the pair remembered as good was once in
\* use; a command is about no network.
ASSUME StoresAssumption ==
  /\ \A s \in Stores : /\ s = [k \in DOMAIN Defaults \cup {"good", "schema", "retired"} |-> s[k]]
                       /\ s.good \in Wifis \cup {None} /\ s.schema \in Nat
  /\ \A p \in Commands : p.wifi_ssid = None /\ p.wifi_psk = None

\* A broker password is typed beside the address it is for, and an earlier save
\* left one beside its address; a command is about no broker.
ASSUME PasswordsAssumption ==
  /\ \A s \in Stores : s.mqtt_host \in Hosts => s.mqtt_password \in {None, Bad, <<s.mqtt_host>>}
  /\ \A p \in Commands : p.mqtt_host = None /\ p.mqtt_password = None

VARIABLES
  ram,          \* s_config
  read_only,    \* was the store written by a newer build?
  flash,        \* the keys; None is a key never written or erased
  job,          \* "none", "boot" or "save"
  todo,         \* what is left of it
  asking,       \* the pair a provisioning request has in flash, not yet in RAM
  rolling,      \* the pair a rollback has in flash, not yet in RAM
  dirty,        \* has a write of a save failed: "clean", "now" in this save or
                \* the last, "old" in one before it
  torn,         \* has a restart found a save cut short or failed?
  left          \* what the bounds leave: submissions, failures, cuts

svars == <<ram, read_only, flash, job, todo, asking, rolling, dirty, torn, left>>

-----------------------------------------------------------------------------
\* Loading.

\* A key that is not there, or that this build cannot take, leaves what the
\* document already holds.
Read(stored, default) == IF stored = None THEN default ELSE stored

\* Below schema 2 the old hot water key is read first and the new one over it.
HotWater(store) ==
  Read(store.dhw_enable,
       Read(IF store.schema < 2 THEN store.retired[V1Dhw] ELSE None, Defaults.dhw_enable))

\* Defaults first, every key over them, then repair.
Loaded(store) ==
  Sanitize([f \in DOMAIN Defaults |->
    CASE f = "plain"      -> [g \in Plain |-> Read(store.plain[g], PlainDefault[g])]
      [] f = "dhw_enable" -> HotWater(store)
      [] OTHER            -> Read(store[f], Defaults[f])])

SchemaCheck(stored) ==
  IF stored = Current THEN "CURRENT" ELSE IF stored < Current THEN "MIGRATE" ELSE "FUTURE"

\* Mutants of BootWrites: the old keys first; a newer store is written to.
BootWritesEraseFirst(store) ==
  CASE SchemaCheck(store.schema) = "MIGRATE" -> <<"retired", "dhw_enable", "schema">>
    [] SchemaCheck(store.schema) = "CURRENT" -> <<"retired">>
    [] OTHER -> <<>>
BootWritesAlways(store) ==
  IF SchemaCheck(store.schema) = "CURRENT" THEN <<"retired">>
  ELSE <<"dhw_enable", "retired", "schema">>

\* A migration carries the hot water bit FIRST, erases the retired keys, and
\* writes its number LAST.  The erase is every boot's.  A newer store is not
\* written to at all.
BootWrites(store) ==
  CASE SchemaCheck(store.schema) = "MIGRATE" -> <<"dhw_enable", "retired", "schema">>
    [] SchemaCheck(store.schema) = "CURRENT" -> <<"retired">>
    [] OTHER -> <<>>

\* Mutant of SaveWrites: a setting nobody saves.
SaveWritesForgetful ==
  <<"wifi", "mqtt_host", "mqtt_password", "plain", "dhw_enable", "control_mode",
    "failsafe_setpoint", "flow_min", "flow_max", "retired", "schema", "ui_password">>

\* The keys of a save in the order of the code.  The plain settings are judged
\* alone, so they are one step here.
SaveWrites ==
  <<"wifi", "mqtt_host", "mqtt_password", "plain", "dhw_enable", "control_mode",
    "failsafe_setpoint", "flow_min", "flow_max", "local_ch_setpoint", "retired",
    "schema", "ui_password">>

\* What one write leaves in flash.
Written(store, key) ==
  CASE key = "schema"  -> [store EXCEPT !.schema = Current]
    [] key = "retired" -> [store EXCEPT !.retired = [k \in DOMAIN @ |-> None]]
    [] OTHER -> [store EXCEPT ![key] = ram[key]]

Idle == job = "none"

SInit ==
  /\ flash \in Stores
  /\ ram = Loaded(flash) /\ read_only = (SchemaCheck(flash.schema) = "FUTURE")
  /\ job = (IF BootWrites(flash) = <<>> THEN "none" ELSE "boot") /\ todo = BootWrites(flash)
  /\ asking = None /\ rolling = None /\ dirty = "clean" /\ torn = FALSE
  /\ left = [edits |-> Edits, fails |-> Fails, cuts |-> Cuts]

-----------------------------------------------------------------------------
\* The writes of a job.

\* Done with the first write of todo, `rest` still to do.
Onwards(rest) ==
  /\ todo' = rest
  /\ job' = IF rest = <<>> THEN "none" ELSE job

WriteOk ==
  /\ job \in {"boot", "save"}
  /\ flash' = Written(flash, Head(todo))
  /\ Onwards(Tail(todo))
  /\ dirty' = IF job = "save" /\ Len(todo) = 1 /\ dirty = "old" THEN "clean" ELSE dirty
  /\ UNCHANGED <<ram, read_only, asking, rolling, torn, left>>

\* A save attempts every field; a migration whose carry failed erases nothing;
\* a failed erase withholds the number.
AfterFailure(key) ==
  IF job = "boot" THEN <<>>
  ELSE IF key = "retired" THEN Tail(Tail(todo)) ELSE Tail(todo)

\* One retired key may go and another stay: `kept` are the ones that stay.
WriteFails ==
  /\ job \in {"boot", "save"} /\ left.fails > 0
  /\ \E kept \in SUBSET DOMAIN flash.retired :
       flash' = IF Head(todo) = "retired"
                THEN [flash EXCEPT !.retired = [k \in DOMAIN @ |-> IF k \in kept THEN @[k]
                                                                   ELSE None]]
                ELSE flash
  /\ Onwards(AfterFailure(Head(todo)))
  /\ dirty' = IF job = "save" THEN "now" ELSE dirty
  /\ left' = [left EXCEPT !.fails = @ - 1]
  /\ UNCHANGED <<ram, read_only, asking, rolling, torn>>

-----------------------------------------------------------------------------
\* The tasks.

\* ot_net_config_apply: decided and committed in RAM under the lock, then saved
\* under it; a save that fails is reported and RAM keeps the new document.
Submit(p) ==
  /\ Idle /\ left.edits > 0
  /\ \E hashes \in BOOLEAN :
       \E r \in {Apply(ram, p, read_only, hashes)} :
         /\ r.err = "ok"
         /\ ram' = r.doc
  /\ job' = "save" /\ todo' = SaveWrites
  /\ left' = [left EXCEPT !.edits = @ - 1]
  /\ dirty' = IF dirty = "now" THEN "old" ELSE dirty
  /\ UNCHANGED <<read_only, flash, asking, rolling, torn>>

\* The HTTP server's task does one request at a time.
PostConfig ==
  /\ asking = None
  /\ rolling = None \/ Overlaps
  /\ \E body \in Bodies(ram) :
       ParseConfig(body).status = "ok" /\ Submit(ParseConfig(body).patch)

\* A command's setting, from whichever task the command came.
PostCommand ==
  /\ (asking = None /\ rolling = None) \/ Overlaps
  /\ \E p \in Commands : Submit(p)

\* ot_net_provision: flash first, without the lock ...
ProvisionStore ==
  /\ job # "boot" /\ asking = None /\ left.edits > 0
  /\ (Idle /\ rolling = None) \/ Overlaps
  /\ \E ssid \in Ssids, psk \in Psks \cup {Empty, Sentinel, None} :
       \E r \in {ParseProvision(ssid, psk, ram.wifi)} :
         /\ r.status = "ok"
         /\ asking' = r.wifi /\ flash' = [flash EXCEPT !.wifi = r.wifi]
  /\ left' = [left EXCEPT !.edits = @ - 1]
  /\ UNCHANGED <<ram, read_only, job, todo, rolling, dirty, torn>>

\* ... then RAM, under it.
ProvisionTell ==
  /\ Idle /\ asking # None
  /\ ram' = [ram EXCEPT !.wifi = asking] /\ asking' = None
  /\ UNCHANGED <<read_only, flash, job, todo, rolling, dirty, torn, left>>

\* The provisioning task: the stored pair is remembered once the station has
\* an address, so the station has a pair; when that is, OtNet says ...
CommitKnownGood ==
  /\ job # "boot" /\ asking = None /\ rolling = None
  /\ ram.wifi # None /\ flash.wifi # None
  /\ flash' = [flash EXCEPT !.good = flash.wifi]
  /\ UNCHANGED <<ram, read_only, job, todo, asking, rolling, dirty, torn, left>>

\* ... and put back: flash, then RAM under the lock.
RestoreStore ==
  /\ job # "boot" /\ rolling = None /\ flash.good # None
  /\ (Idle /\ asking = None) \/ Overlaps
  /\ flash' = [flash EXCEPT !.wifi = flash.good] /\ rolling' = flash.good
  /\ UNCHANGED <<ram, read_only, job, todo, asking, dirty, torn, left>>

RestoreTell ==
  /\ Idle /\ rolling # None
  /\ ram' = [ram EXCEPT !.wifi = rolling] /\ rolling' = None
  /\ UNCHANGED <<read_only, flash, job, todo, asking, dirty, torn, left>>

-----------------------------------------------------------------------------
\* Restarts.

\* The document is read and repaired before anything else runs.
Boot ==
  /\ ram' = Loaded(flash)
  /\ read_only' = (SchemaCheck(flash.schema) = "FUTURE")
  /\ todo' = BootWrites(flash)
  /\ job' = IF BootWrites(flash) = <<>> THEN "none" ELSE "boot"
  /\ asking' = None /\ rolling' = None

PowerCut ==
  /\ left.cuts > 0 /\ left' = [left EXCEPT !.cuts = @ - 1]
  /\ Boot
  /\ torn' = (torn \/ job = "save" \/ dirty # "clean") /\ dirty' = "clean"
  /\ UNCHANGED flash

SNext ==
  \/ WriteOk \/ WriteFails
  \/ PostConfig \/ PostCommand
  \/ ProvisionStore \/ ProvisionTell \/ CommitKnownGood \/ RestoreStore \/ RestoreTell
  \/ PowerCut

SSpec == SInit /\ [][SNext]_svars

-----------------------------------------------------------------------------
\* Properties.

\* Whatever the store holds, torn between two writes or damaged, and whatever
\* is submitted, the executor runs on a document whose rules hold: a band with
\* something in it, the failsafe and the local setpoint inside, no Home
\* Assistant mode without a broker.
DocumentLegal == Legal(ram)

\* When no job runs and no pair is on its way, a restart would bring back the
\* document the owner is looking at: nothing a save must write is forgotten,
\* what was moved is saved moved, and a half-done migration reads the same as
\* a finished one.  A write that failed excuses it.
QuietMeansStored ==
  (Idle /\ asking = None /\ rolling = None /\ dirty = "clean") => Loaded(flash) = ram

\* No power cut and no failed write inside a migration changes the owner's
\* hot water: RAM's bit changes by a command, and by a restart only when the
\* save of a command was cut short or failed.
HotWaterKept ==
  [][ram'.dhw_enable # ram.dhw_enable => (job = "none" /\ job' = "save") \/ torn']_svars

\* A store written by a newer build is not written into, by a boot, by a
\* request or by a command; only the pair, the way back, may change.
NewerStoreUntouched ==
  [][flash.schema > Current => flash' = [flash EXCEPT !.wifi = flash'.wifi, !.good = flash'.good]]_svars

\* What is typed into the password field of a document is for the address
\* beside it, or for the stored one where none is given.
TypedForItsHost(doc) ==
  \A body \in Bodies(doc) :
    body.mqtt_password \in {None, Empty, Sentinel, Junk, Bad,
                           <<Merged(body.mqtt_host, doc.mqtt_host)>>}

\* The stored broker password is never sent to a broker it was not typed for,
\* unless a power cut tore the two keys apart.
PasswordForItsHost ==
  (~torn /\ ram.mqtt_password # None /\ ram.mqtt_host # NoHost)
    => ram.mqtt_password = <<ram.mqtt_host>>

==============================================================================
