-------------------------- MODULE OtSettings_proofs ---------------------------
(***************************************************************************)
(* Proofs about OtSettings, for every store flash may hold, every schema,  *)
(* every document submitted and every set of legal values:                 *)
(*                                                                         *)
(*   DocumentAlwaysLegal   the executor runs on a document whose rules     *)
(*                         hold, whatever was read, torn or submitted      *)
(*   NewerUntouched        a store of a newer build is not written into    *)
(*   StoredWhenQuiet       a restart at rest brings back RAM's document    *)
(*   HotWaterSurvives      no migration, cut anywhere, moves the hot water *)
(*   PasswordGoesHome      a password stays with the broker it is for      *)
(*                                                                         *)
(* The first rests on two facts about components/ot_config without flash:  *)
(* a repaired document is legal whatever was read (Repaired), and a legal  *)
(* document stays legal under a patch that is not refused (Patched).  The  *)
(* network needs more: a rollback brings the remembered pair into RAM past *)
(* every check, so that pair must have been usable when it was remembered. *)
(***************************************************************************)
EXTENDS OtSettings, TLAPS

Usable(wifi) == wifi \in Wifis \cup {None}

\* The strengthening: every pair on its way is usable, and one that is not is
\* one that no task in RAM knows of.
Pairs ==
  /\ Usable(flash.good) /\ Usable(asking) /\ Usable(rolling)
  /\ ~Usable(flash.wifi) => ram.wifi = None /\ asking = None /\ rolling = None

FlashKeys == DOMAIN Defaults \cup {"good", "schema", "retired"}

\* What a job still has to write, in places flash has; a save ends with the
\* web password, so what follows a failed erase is there to be left out.
Keys == {"wifi", "mqtt_host", "mqtt_password", "plain", "dhw_enable", "control_mode",
         "failsafe_setpoint", "flow_min", "flow_max", "local_ch_setpoint", "retired",
         "schema", "ui_password"}

Jobs ==
  /\ todo \in Seq(Keys) /\ job \in {"none", "boot", "save"}
  /\ job # "none" => todo # <<>>
  /\ job = "save" => todo[Len(todo)] = "ui_password"

IsStore(store) == store = [k \in FlashKeys |-> store[k]] /\ store.schema \in Nat

\* No job ever runs on a newer store.
Newer == flash.schema > Current => read_only /\ job = "none"

IsDocument(doc) == DOMAIN doc = DOMAIN Defaults /\ Legal(doc)

IInv == IsDocument(ram) /\ Pairs /\ Jobs /\ IsStore(flash) /\ Newer

-----------------------------------------------------------------------------
(* ot_config without flash.                                                 *)

\* A value in a band that is in the range is in the band and in the range.
LEMMA InBand ==
  ASSUME NEW v \in Int, NEW lo \in Flow, NEW hi \in Flow, lo <= hi
  PROVE  IntoBand(v, lo, hi) \in lo..hi /\ IntoBand(v, lo, hi) \in Flow
BY ConfigAssumption DEF IntoBand, Flow

\* The band of a repaired document.
LEMMA RepairedBand ==
  ASSUME NEW raw
  PROVE  LET flow == SaneFlow(raw)
         IN  /\ {flow.lo, flow.hi, flow.failsafe} \subseteq Flow
             /\ flow.lo < flow.hi /\ flow.failsafe \in flow.lo..flow.hi
<1> DEFINE lo == InFlow(raw.flow_min, DefaultMin)
           hi == InFlow(raw.flow_max, DefaultMax)
           fs == InFlow(raw.failsafe_setpoint, IntoBand(DefaultFailsafe, lo, hi))
<1>1. {DefaultMin, DefaultMax, DefaultFailsafe} \subseteq Flow /\ Flow \subseteq Int
  BY ConfigAssumption DEF Flow
<1>2. lo \in Flow /\ hi \in Flow
  BY <1>1 DEF InFlow
<1>3. IntoBand(DefaultFailsafe, lo, hi) \in Flow
  <2> HIDE DEF lo, hi
  <2> QED BY <1>1, <1>2 DEF IntoBand
<1>4. fs \in Flow
  <2> HIDE DEF lo, hi
  <2> QED BY <1>3 DEF InFlow
<1> HIDE DEF lo, hi, fs
<1>5. CASE CheckFlow(lo, hi, fs) = "ok"
  <2>1. SaneFlow(raw) = [lo |-> lo, hi |-> hi, failsafe |-> fs]
    BY <1>5 DEF SaneFlow, lo, hi, fs
  <2>2. lo < hi /\ fs \in lo..hi
    BY <1>1, <1>2, <1>5 DEF CheckFlow
  <2> QED BY <1>2, <1>4, <2>1, <2>2
<1>6. CASE CheckFlow(lo, hi, fs) # "ok"
  <2>1. SaneFlow(raw) = [lo |-> DefaultMin, hi |-> DefaultMax, failsafe |-> DefaultFailsafe]
    BY <1>6 DEF SaneFlow, lo, hi, fs
  <2> QED BY <1>1, <2>1, ConfigAssumption
<1> QED BY <1>5, <1>6

\* ot_config_sanitize: whatever was read.
LEMMA Repaired ==
  ASSUME NEW raw
  PROVE  IsDocument(Sanitize(raw))
<1> DEFINE flow == SaneFlow(raw)
           local == InFlow(raw.local_ch_setpoint, DefaultLocal)
           doc == Sanitize(raw)
<1>1. /\ {flow.lo, flow.hi, flow.failsafe} \subseteq Flow /\ Flow \subseteq Int
      /\ flow.lo < flow.hi /\ flow.failsafe \in flow.lo..flow.hi
  BY RepairedBand DEF Flow
<1>2. local \in Flow
  BY ConfigAssumption DEF InFlow, Flow
<1>3. IntoBand(local, flow.lo, flow.hi) \in flow.lo..flow.hi /\ IntoBand(local, flow.lo, flow.hi) \in Flow
  <2> HIDE DEF flow, local
  <2>1. flow.lo \in Flow /\ flow.hi \in Flow
    BY <1>1
  <2>2. flow.lo \in Int /\ flow.hi \in Int /\ local \in Int
    BY <1>1, <1>2, <2>1
  <2>3. flow.lo <= flow.hi
    BY <1>1, <2>2
  <2> QED BY <2>1, <2>2, <2>3, InBand
<1>4. /\ doc.flow_min = flow.lo /\ doc.flow_max = flow.hi /\ doc.failsafe_setpoint = flow.failsafe
      /\ doc.local_ch_setpoint = IntoBand(local, flow.lo, flow.hi)
  BY DEF Sanitize
<1>5. /\ doc.wifi \in Wifis \cup {None}
      /\ doc.mqtt_host \in Hosts \cup {NoHost}
      /\ doc.ui_password \in UiPasswords \cup {None}
  BY DEF Sanitize, WifiUsable, SaneHost
<1>6. \A f \in Plain : doc.plain[f] \in PlainLegal[f]
  BY ConfigAssumption DEF Sanitize
<1>7. doc.control_mode \in {"LOCAL", "HA"} /\ (doc.control_mode = "HA" => doc.mqtt_host # NoHost)
  BY DEF Sanitize, SaneMode, CheckMode
<1> HIDE DEF doc, flow, local
<1>8. Legal(doc)
  BY <1>1, <1>3, <1>4, <1>5, <1>6, <1>7 DEF Legal
<1>9. DOMAIN doc = DOMAIN Defaults
  BY DEF doc, Sanitize, Defaults
<1> QED BY <1>8, <1>9 DEF doc, IsDocument

\* ot_config_apply: a patch that names no network, past every check.
LEMMA Patched ==
  ASSUME NEW doc, Legal(doc), NEW p, NEW hashes \in BOOLEAN,
         p.wifi_ssid = None, p.wifi_psk = None, Refusal(doc, p, hashes) = "ok"
  PROVE  IsDocument(Committed(doc, p)) /\ Committed(doc, p).wifi = doc.wifi
<1> DEFINE lo == Merged(p.flow_min, doc.flow_min)
           hi == Merged(p.flow_max, doc.flow_max)
           fs == Merged(p.failsafe_setpoint, doc.failsafe_setpoint)
           local == Merged(p.local_ch_setpoint, doc.local_ch_setpoint)
           new == Committed(doc, p)
<1>1. /\ WifiChoice(doc, p).err = "ok" /\ BrokerRefusal(doc, p) = "ok"
      /\ NumberRefusal(doc, p) = "ok" /\ UiRefusal(doc, p, hashes) = "ok"
  BY DEF Refusal
<1>2. new.wifi = doc.wifi
  <2>1. WifiChoice(doc, p) = [err |-> "ok", wifi |-> doc.wifi]
    BY DEF WifiChoice
  <2> QED BY <2>1 DEF Committed
<1>3. p.mqtt_host \in Hosts \cup {NoHost, None}
  BY <1>1 DEF BrokerRefusal
<1>4. /\ \A f \in DOMAIN p.plain : p.plain[f] \in PlainLegal[f]
      /\ {p.flow_min, p.flow_max, p.failsafe_setpoint, p.local_ch_setpoint} \ {None} \subseteq Flow
      /\ p.control_mode \in {"LOCAL", "HA", None}
      /\ CheckFlow(lo, hi, fs) = "ok"
      /\ CheckMode(Merged(p.control_mode, doc.control_mode), Merged(p.mqtt_host, doc.mqtt_host)) = "ok"
  <2>1. ~ \E f \in DOMAIN p.plain : p.plain[f] \notin PlainLegal[f]
    BY <1>1 DEF NumberRefusal
  <2>2. /\ {p.flow_min, p.flow_max, p.failsafe_setpoint, p.local_ch_setpoint} \ {None} \subseteq Flow
        /\ p.control_mode \in {"LOCAL", "HA", None}
    BY <1>1, <2>1 DEF NumberRefusal
  <2>3. CheckFlow(lo, hi, fs) = "ok"
    BY <1>1, <2>1, <2>2 DEF NumberRefusal
  <2>4. CheckMode(Merged(p.control_mode, doc.control_mode), Merged(p.mqtt_host, doc.mqtt_host)) = "ok"
    BY <1>1, <2>1, <2>2, <2>3 DEF NumberRefusal
  <2> QED BY <2>1, <2>2, <2>3, <2>4
<1>5. {lo, hi, fs, local} \subseteq Flow /\ Flow \subseteq Int
  BY <1>4 DEF Merged, Legal, Flow
<1>6. lo < hi /\ fs \in lo..hi
  <2> HIDE DEF lo, hi, fs
  <2>1. lo \in Int /\ hi \in Int
    BY <1>5
  <2>2. ~(lo >= hi) /\ fs \in lo..hi
    BY <1>4 DEF CheckFlow
  <2> QED BY <2>1, <2>2
<1>7. IntoBand(local, lo, hi) \in lo..hi /\ IntoBand(local, lo, hi) \in Flow
  <2> HIDE DEF lo, hi, fs, local
  <2>1. local \in Int /\ lo \in Int /\ hi \in Int /\ lo \in Flow /\ hi \in Flow
    BY <1>5
  <2>2. lo < hi
    BY <1>6
  <2>3. lo <= hi
    BY <2>1, <2>2
  <2> QED BY <2>1, <2>3, InBand
<1>8. /\ new.flow_min = lo /\ new.flow_max = hi /\ new.failsafe_setpoint = fs
      /\ new.local_ch_setpoint = IntoBand(local, lo, hi)
  BY DEF Committed
<1>9. new.mqtt_host \in Hosts \cup {NoHost}
  BY <1>3 DEF Committed, Merged, Legal
<1>10. \A f \in Plain : new.plain[f] \in PlainLegal[f]
  BY <1>4 DEF Committed, Legal
<1>11. /\ new.control_mode \in {"LOCAL", "HA"}
       /\ new.control_mode = "HA" => new.mqtt_host # NoHost
  BY <1>4 DEF Committed, Merged, CheckMode, Legal
<1>12. new.ui_password \in UiPasswords \cup {None}
  BY <1>1 DEF Committed, Secret, UiRefusal, Legal
<1> HIDE DEF new, lo, hi, fs, local
<1>13. doc.wifi \in Wifis \cup {None}
  BY DEF Legal
<1>14. Legal(new)
  BY <1>2, <1>5, <1>6, <1>7, <1>8, <1>9, <1>10, <1>11, <1>12, <1>13 DEF Legal
<1>15. DOMAIN new = DOMAIN Defaults
  BY DEF new, Committed, Defaults
<1> QED BY <1>2, <1>14, <1>15 DEF new, IsDocument

\* ot_wire_parse_provision: a pair that is taken is one the station can use.
LEMMA Provisioned ==
  ASSUME NEW ssid, NEW psk, NEW stored, ParseProvision(ssid, psk, stored).status = "ok"
  PROVE  ParseProvision(ssid, psk, stored).wifi \in Wifis
<1> DEFINE has == stored # None /\ stored.psk # Open
           action == Decide(has, psk)
           key == CASE action = "STORE" -> psk
                    [] action = "KEEP" /\ has -> stored.psk
                    [] OTHER -> Open
<1>1. /\ ssid \in Ssids /\ key \in Psks \cup {Open}
      /\ ParseProvision(ssid, psk, stored) = [status |-> "ok", wifi |-> [ssid |-> ssid, psk |-> key]]
  BY DEF ParseProvision
<1> QED BY <1>1 DEF Wifis

-----------------------------------------------------------------------------
(* Loading.                                                                 *)

\* Whatever the store, a boot leaves a legal document and a job over its keys;
\* a newer store gets no job.
LEMMA Booted ==
  ASSUME NEW store, IsStore(store)
  PROVE  /\ IsDocument(Loaded(store))
         /\ ~Usable(store.wifi) => Loaded(store).wifi = None
         /\ BootWrites(store) \in Seq(Keys)
         /\ store.schema > Current => BootWrites(store) = <<>> /\ SchemaCheck(store.schema) = "FUTURE"
<1>1. IsDocument(Loaded(store))
  BY Repaired DEF Loaded
<1>2. ~Usable(store.wifi) => Loaded(store).wifi = None
  <2> SUFFICES ASSUME ~Usable(store.wifi)
               PROVE  Loaded(store).wifi = None
    OBVIOUS
  <2> DEFINE raw == [f \in DOMAIN Defaults |->
                       CASE f = "plain"      -> [g \in Plain |-> Read(store.plain[g], PlainDefault[g])]
                         [] f = "dhw_enable" -> HotWater(store)
                         [] OTHER            -> Read(store[f], Defaults[f])]
  <2>1. "wifi" \in DOMAIN Defaults
    BY DEF Defaults
  <2>2. raw.wifi = store.wifi
    BY <2>1 DEF Read, Usable
  <2>3. Loaded(store) = Sanitize(raw)
    BY DEF Loaded
  <2> HIDE DEF raw
  <2> QED BY <2>2, <2>3 DEF Sanitize, WifiUsable, Usable
<1>3. BootWrites(store) \in Seq(Keys)
  <2>1. <<"dhw_enable", "retired", "schema">> \in Seq(Keys)
    BY DEF Keys
  <2>2. <<"retired">> \in Seq(Keys) /\ <<>> \in Seq(Keys)
    BY DEF Keys
  <2> QED BY <2>1, <2>2 DEF BootWrites
<1>4. store.schema > Current => BootWrites(store) = <<>> /\ SchemaCheck(store.schema) = "FUTURE"
  BY SettingsAssumption DEF BootWrites, SchemaCheck, IsStore
<1> QED BY <1>1, <1>2, <1>3, <1>4

LEMMA Initially == SInit => IInv
<1> SUFFICES ASSUME SInit PROVE IInv
  OBVIOUS
<1>1. IsStore(flash)
  BY StoresAssumption DEF SInit, IsStore, FlashKeys
<1>2. IsDocument(ram) /\ (~Usable(flash.wifi) => ram.wifi = None)
  BY <1>1, Booted DEF SInit
<1>3. Usable(flash.good) /\ Usable(asking) /\ Usable(rolling)
  BY StoresAssumption DEF SInit, Usable
<1>4. BootWrites(flash) \in Seq(Keys) /\ Newer
  BY <1>1, Booted DEF SInit, Newer
<1>5. Jobs
  BY <1>4 DEF SInit, Jobs
<1> QED BY <1>1, <1>2, <1>3, <1>4, <1>5 DEF IInv, Pairs, SInit

-----------------------------------------------------------------------------
(* The writes of a job.                                                     *)

\* The rest of a job is a job, or nothing.
LEMMA Rest ==
  ASSUME Jobs, job # "none", NEW rest \in {Tail(todo), AfterFailure(Head(todo))}, Onwards(rest)
  PROVE  Jobs'
<1>1. todo \in Seq(Keys) /\ todo # <<>> /\ Len(todo) \in Nat
  BY DEF Jobs
<1>2. /\ Tail(todo) \in Seq(Keys) /\ Len(Tail(todo)) = Len(todo) - 1
      /\ Tail(todo) # <<>> => Tail(todo)[Len(Tail(todo))] = todo[Len(todo)]
  BY <1>1
<1>3. ASSUME job = "save", Head(todo) = "retired"
      PROVE  /\ Tail(Tail(todo)) \in Seq(Keys)
             /\ Tail(Tail(todo)) # <<>> => Tail(Tail(todo))[Len(Tail(Tail(todo)))] = todo[Len(todo)]
  <2>1. todo[1] = "retired" /\ todo[Len(todo)] = "ui_password"
    BY <1>1, <1>3 DEF Jobs
  <2>2. Len(todo) # 1
    BY <2>1
  <2>3. Len(Tail(todo)) # 0
    BY <1>1, <1>2, <2>2
  <2>4. Len(<<>>) = 0
    OBVIOUS
  <2>5. Tail(todo) # <<>>
    BY <2>3, <2>4, Zenon
  <2> QED BY <1>2, <2>5
<1>4. rest \in Seq(Keys)
  <2>1. <<>> \in Seq(Keys)
    OBVIOUS
  <2> QED BY <1>2, <1>3, <2>1 DEF AfterFailure, Jobs
<1>5. job = "save" /\ rest # <<>> => rest[Len(rest)] = todo[Len(todo)]
  BY <1>2, <1>3 DEF AfterFailure
<1> QED BY <1>4, <1>5 DEF Onwards, Jobs

LEMMA WriteOkStep ==
  ASSUME IInv, WriteOk
  PROVE  IInv'
<1> DEFINE key == Head(todo)
<1>1. key \in Keys /\ job # "none" /\ Jobs
  BY DEF IInv, Jobs, WriteOk
<1>2. flash.schema <= Current
  BY <1>1, SettingsAssumption DEF IInv, Newer, IsStore
<1>3. flash' = Written(flash, key) /\ ram' = ram /\ asking' = asking /\ rolling' = rolling
      /\ Onwards(Tail(todo))
  BY DEF WriteOk
<1> HIDE DEF key
<1>4. /\ IsStore(flash') /\ flash'.schema <= Current
      /\ flash'.good = flash.good
      /\ flash'.wifi = IF key = "wifi" THEN ram.wifi ELSE flash.wifi
  <2>1. /\ {"wifi", "good", "schema", "retired"} \subseteq FlashKeys /\ Keys \subseteq FlashKeys
        /\ DOMAIN flash = FlashKeys
    BY DEF IInv, IsStore, FlashKeys, Keys, Defaults
  <2>2. CASE key = "schema"
    BY <1>2, <1>3, <2>1, <2>2, SettingsAssumption DEF Written, IsStore
  <2>3. CASE key = "retired"
    BY <1>2, <1>3, <2>1, <2>3 DEF Written, IInv, IsStore
  <2>4. CASE key \notin {"schema", "retired"}
    <3>1. flash' = [flash EXCEPT ![key] = ram[key]] /\ key # "good"
      BY <1>1, <1>3, <2>4 DEF Written, Keys
    <3> QED BY <1>1, <1>2, <2>1, <2>4, <3>1 DEF IInv, IsStore
  <2> QED BY <2>2, <2>3, <2>4
<1>5. IsDocument(ram)' /\ Usable(ram.wifi)
  BY <1>3 DEF IInv, IsDocument, Legal, Usable
<1>6. Pairs'
  BY <1>3, <1>4, <1>5 DEF IInv, Pairs, Usable
<1>7. Jobs'
  BY <1>1, <1>3, Rest
<1>8. IsStore(flash)' /\ Newer'
  BY <1>4, SettingsAssumption DEF IsStore, Newer
<1> QED BY <1>5, <1>6, <1>7, <1>8 DEF IInv

LEMMA WriteFailsStep ==
  ASSUME IInv, WriteFails
  PROVE  IInv'
<1>1. /\ job # "none" /\ Onwards(AfterFailure(Head(todo)))
      /\ ram' = ram /\ asking' = asking /\ rolling' = rolling
  BY DEF WriteFails
<1>2. DOMAIN flash = FlashKeys /\ {"wifi", "good", "schema", "retired"} \subseteq FlashKeys
  BY DEF IInv, IsStore, FlashKeys, Defaults
<1>3. PICK r : flash' = flash \/ flash' = [flash EXCEPT !.retired = r]
  BY DEF WriteFails
<1>4. /\ IsStore(flash') /\ flash'.schema = flash.schema
      /\ flash'.good = flash.good /\ flash'.wifi = flash.wifi
  BY <1>2, <1>3 DEF IInv, IsStore
<1>5. IsDocument(ram)' /\ Pairs'
  BY <1>1, <1>4 DEF IInv, Pairs, IsDocument, Legal
<1>6. Jobs'
  BY <1>1, Rest DEF IInv
<1>7. IsStore(flash)' /\ Newer'
  BY <1>1, <1>4 DEF IInv, IsStore, Newer
<1> QED BY <1>5, <1>6, <1>7 DEF IInv

-----------------------------------------------------------------------------
(* The tasks and restarts.                                                  *)

\* ot_net_config_apply, of a patch that names no network.
LEMMA SubmitStep ==
  ASSUME IInv, NEW p, p.wifi_ssid = None, p.wifi_psk = None, Submit(p)
  PROVE  IInv'
<1>1. PICK hashes \in BOOLEAN :
        Apply(ram, p, read_only, hashes).err = "ok" /\ ram' = Apply(ram, p, read_only, hashes).doc
  BY DEF Submit
<1>2. ~read_only /\ Refusal(ram, p, hashes) = "ok" /\ ram' = Committed(ram, p)
  BY <1>1 DEF Apply
<1>3. IsDocument(Committed(ram, p)) /\ Committed(ram, p).wifi = ram.wifi
  BY <1>2, Patched DEF IInv, IsDocument
<1>4. /\ job' = "save" /\ todo' = SaveWrites
      /\ flash' = flash /\ asking' = asking /\ rolling' = rolling
  BY DEF Submit
<1>5. IsDocument(ram)'
  BY <1>2, <1>3 DEF IsDocument, Legal
<1>6. Pairs'
  BY <1>2, <1>3, <1>4 DEF IInv, Pairs
<1>7. Jobs'
  <2>1. SaveWrites \in Seq(Keys) /\ Len(SaveWrites) = 13 /\ SaveWrites[13] = "ui_password"
    BY DEF SaveWrites, Keys
  <2>2. SaveWrites # <<>>
    BY DEF SaveWrites
  <2> QED BY <1>4, <2>1, <2>2 DEF Jobs
<1>8. IsStore(flash)' /\ Newer'
  BY <1>2, <1>4 DEF IInv, IsStore, Newer
<1> QED BY <1>5, <1>6, <1>7, <1>8 DEF IInv

\* What the network's tasks leave alone.
LEMMA PairStep ==
  ASSUME IInv, UNCHANGED <<read_only, job, todo>>,
         NEW wifi, NEW good, Usable(good),
         flash' = [flash EXCEPT !.wifi = wifi, !.good = good]
  PROVE  /\ Jobs' /\ IsStore(flash)' /\ Newer'
         /\ flash'.wifi = wifi /\ flash'.good = good
BY DEF IInv, Jobs, IsStore, Newer, FlashKeys, Defaults

LEMMA TellStep ==
  ASSUME IInv, UNCHANGED <<flash, read_only, job, todo>>, Usable(flash.wifi),
         NEW wifi, Usable(wifi), ram' = [ram EXCEPT !.wifi = wifi],
         Usable(asking'), Usable(rolling')
  PROVE  IInv'
<1>1. IsDocument(ram)'
  BY DEF IInv, IsDocument, Legal, Defaults, Usable
<1>2. Pairs'
  BY DEF IInv, Pairs, Usable
<1>3. Jobs' /\ IsStore(flash)' /\ Newer'
  BY DEF IInv, Jobs, IsStore, Newer
<1> QED BY <1>1, <1>2, <1>3 DEF IInv

LEMMA NetworkStep ==
  ASSUME IInv, ProvisionStore \/ ProvisionTell \/ CommitKnownGood \/ RestoreStore \/ RestoreTell
  PROVE  IInv'
<1> USE DEF Usable
<1>0. /\ DOMAIN flash = FlashKeys /\ {"wifi", "good"} \subseteq FlashKeys
      /\ flash = [flash EXCEPT !.wifi = flash.wifi, !.good = flash.good]
  BY DEF IInv, IsStore, FlashKeys, Defaults
<1>1. CASE ProvisionStore
  <2>1. PICK wifi \in Wifis : asking' = wifi /\ flash' = [flash EXCEPT !.wifi = wifi]
    BY <1>1, Provisioned DEF ProvisionStore
  <2>2. flash' = [flash EXCEPT !.wifi = wifi, !.good = flash.good]
    BY <1>0, <2>1
  <2>3. UNCHANGED <<ram, read_only, job, todo, rolling>>
    BY <1>1 DEF ProvisionStore
  <2>4. /\ Jobs' /\ IsStore(flash)' /\ Newer' /\ flash'.wifi = wifi /\ flash'.good = flash.good
    BY <2>2, <2>3, PairStep DEF IInv, Pairs
  <2> QED BY <2>1, <2>3, <2>4 DEF IInv, Pairs, IsDocument, Legal
<1>2. CASE ProvisionTell
  <2>1. /\ UNCHANGED <<flash, read_only, job, todo, rolling>> /\ asking' = None
        /\ ram' = [ram EXCEPT !.wifi = asking] /\ asking # None
    BY <1>2 DEF ProvisionTell
  <2>2. Usable(asking) /\ Usable(rolling) /\ Usable(flash.wifi)
    BY <2>1 DEF IInv, Pairs
  <2> QED BY <2>1, <2>2, TellStep
<1>3. CASE CommitKnownGood
  <2>1. UNCHANGED <<ram, read_only, job, todo, asking, rolling>>
    BY <1>3 DEF CommitKnownGood
  <2>2. flash' = [flash EXCEPT !.good = flash.wifi] /\ Usable(flash.wifi)
    BY <1>3 DEF CommitKnownGood, IInv, Pairs
  <2>3. flash' = [flash EXCEPT !.wifi = flash.wifi, !.good = flash.wifi]
    BY <1>0, <2>2
  <2>4. /\ Jobs' /\ IsStore(flash)' /\ Newer' /\ flash'.wifi = flash.wifi /\ flash'.good = flash.wifi
    BY <2>1, <2>2, <2>3, PairStep
  <2> QED BY <2>1, <2>2, <2>4 DEF IInv, Pairs, IsDocument, Legal
<1>4. CASE RestoreStore
  <2>1. UNCHANGED <<ram, read_only, job, todo, asking>> /\ rolling' = flash.good
    BY <1>4 DEF RestoreStore
  <2>2. flash' = [flash EXCEPT !.wifi = flash.good, !.good = flash.good]
    BY <1>0, <1>4 DEF RestoreStore
  <2>3. /\ Jobs' /\ IsStore(flash)' /\ Newer' /\ flash'.wifi = flash.good /\ flash'.good = flash.good
    BY <2>1, <2>2, PairStep DEF IInv, Pairs
  <2> QED BY <2>1, <2>3 DEF IInv, Pairs, IsDocument, Legal
<1>5. CASE RestoreTell
  <2>1. /\ UNCHANGED <<flash, read_only, job, todo, asking>> /\ rolling' = None
        /\ ram' = [ram EXCEPT !.wifi = rolling] /\ rolling # None
    BY <1>5 DEF RestoreTell
  <2>2. Usable(asking) /\ Usable(rolling) /\ Usable(flash.wifi)
    BY <2>1 DEF IInv, Pairs
  <2> QED BY <2>1, <2>2, TellStep
<1> QED BY <1>1, <1>2, <1>3, <1>4, <1>5

LEMMA CutStep ==
  ASSUME IInv, PowerCut
  PROVE  IInv'
<1>1. /\ flash' = flash /\ ram' = Loaded(flash) /\ asking' = None /\ rolling' = None
      /\ read_only' = (SchemaCheck(flash.schema) = "FUTURE") /\ todo' = BootWrites(flash)
      /\ job' = IF BootWrites(flash) = <<>> THEN "none" ELSE "boot"
  BY DEF PowerCut, Boot
<1>2. IsStore(flash) /\ IsStore(flash)'
  BY <1>1 DEF IInv, IsStore
<1>3. IsDocument(ram)' /\ Pairs'
  <2>1. IsDocument(Loaded(flash)) /\ (~Usable(flash.wifi) => Loaded(flash).wifi = None)
    BY <1>2, Booted
  <2> QED BY <1>1, <2>1 DEF IInv, Pairs, IsDocument, Legal, Usable
<1>4. Jobs' /\ Newer'
  <2>1. /\ BootWrites(flash) \in Seq(Keys)
        /\ flash.schema > Current => BootWrites(flash) = <<>> /\ SchemaCheck(flash.schema) = "FUTURE"
    BY <1>2, Booted
  <2> QED BY <1>1, <2>1 DEF Jobs, Newer
<1> QED BY <1>2, <1>3, <1>4 DEF IInv

-----------------------------------------------------------------------------
(* The theorems.                                                            *)

LEMMA Inductive == IInv /\ [SNext]_svars => IInv'
<1> SUFFICES ASSUME IInv, [SNext]_svars PROVE IInv'
  OBVIOUS
<1>1. CASE WriteOk
  BY <1>1, WriteOkStep
<1>2. CASE WriteFails
  BY <1>2, WriteFailsStep
<1>3. CASE PostConfig
  <2>1. PICK body \in Bodies(ram) : ParseConfig(body).status = "ok" /\ Submit(ParseConfig(body).patch)
    BY <1>3 DEF PostConfig
  <2>2. ParseConfig(body).patch = body /\ body.wifi_ssid = None /\ body.wifi_psk = None
    BY <2>1 DEF ParseConfig, Mentions
  <2> QED BY <2>1, <2>2, SubmitStep
<1>4. CASE PostCommand
  <2>1. PICK p \in Commands : Submit(p)
    BY <1>4 DEF PostCommand
  <2> QED BY <2>1, StoresAssumption, SubmitStep
<1>5. CASE ProvisionStore \/ ProvisionTell \/ CommitKnownGood \/ RestoreStore \/ RestoreTell
  BY <1>5, NetworkStep
<1>6. CASE PowerCut
  BY <1>6, CutStep
<1>7. CASE UNCHANGED svars
  BY <1>7 DEF svars, IInv, IsDocument, Legal, Pairs, Usable, Jobs, IsStore, Newer
<1> QED BY <1>1, <1>2, <1>3, <1>4, <1>5, <1>6, <1>7 DEF SNext

\* The invariant DocumentAlwaysLegal and NewerUntouched rest on.
THEOREM Invariance == SSpec => []IInv
BY Initially, Inductive, PTL DEF SSpec

\* DocumentLegal: damaged, torn, migrated, edited or rolled back, the document
\* the tick reads through ot_net_config_snapshot satisfies its rules.
THEOREM DocumentAlwaysLegal == SSpec => []DocumentLegal
<1>1. IInv => DocumentLegal
  BY DEF IInv, IsDocument, DocumentLegal
<1> QED BY <1>1, Invariance, PTL

\* NewerStoreUntouched: after a downgrade nothing is written under the settings
\* of the build that will come back, but the pair and the way back to it.
THEOREM NewerUntouched == SSpec => NewerStoreUntouched
<1> DEFINE Kept == flash.schema > Current =>
                     flash' = [flash EXCEPT !.wifi = flash'.wifi, !.good = flash'.good]
<1>1. ASSUME IInv, [SNext]_svars PROVE [Kept]_svars
  <2> SUFFICES ASSUME flash.schema > Current, SNext
               PROVE  flash' = [flash EXCEPT !.wifi = flash'.wifi, !.good = flash'.good]
    BY <1>1
  <2>1. read_only /\ job = "none"
    BY <1>1 DEF IInv, Newer
  <2>2. flash = [k \in FlashKeys |-> flash[k]] /\ {"wifi", "good"} \subseteq FlashKeys
    BY <1>1 DEF IInv, IsStore, FlashKeys, Defaults
  <2>3. ~(WriteOk \/ WriteFails)
    BY <2>1 DEF WriteOk, WriteFails
  <2>4. ~(PostConfig \/ PostCommand)
    BY <2>1 DEF PostConfig, PostCommand, Submit, Apply
  <2>5. CASE ProvisionStore \/ CommitKnownGood \/ RestoreStore
    BY <2>2, <2>5 DEF ProvisionStore, CommitKnownGood, RestoreStore
  <2>6. CASE ProvisionTell \/ RestoreTell \/ PowerCut
    <3>1. flash' = flash
      BY <2>6 DEF ProvisionTell, RestoreTell, PowerCut
    <3> QED BY <2>2, <3>1
  <2> QED BY <2>3, <2>4, <2>5, <2>6 DEF SNext
<1> QED BY <1>1, Invariance, PTL DEF SSpec, NewerStoreUntouched

-----------------------------------------------------------------------------
(* What a restart brings back.                                              *)
(*                                                                          *)
(* QuietMeansStored is not inductive: a save and a migration pass through   *)
(* states in which flash and RAM differ, and what makes them agree at the   *)
(* end is which keys are still to be written.                               *)

\* A document with nothing missing and nothing damaged in it.
Whole(doc) ==
  /\ doc = [f \in DOMAIN Defaults |-> doc[f]] /\ doc.plain = [f \in Plain |-> doc.plain[f]]
  /\ doc.dhw_enable # None /\ doc.mqtt_password # Bad

Among(list) == {list[n] : n \in 1..Len(list)}

\* The keys a save leaves as they are in RAM.  The pair has writers besides.
Kept == (Keys \ {"retired", "schema"}) \ (IF Overlaps THEN {"wifi"} ELSE {})

\* A save none of whose writes has failed has written what is not left to do.
Saving ==
  job = "save" /\ dirty # "now" => \A key \in Kept : key \in Among(todo) \/ flash[key] = ram[key]

Failures == dirty \in {"clean", "now", "old"} /\ (dirty = "old" => job = "save")

\* A migration carries the hot water before it erases what that was read from.
Migrating ==
  job = "boot" =>
    \/ todo = <<"dhw_enable", "retired", "schema">>
    \/ /\ todo \in {<<"retired", "schema">>, <<"retired">>, <<"schema">>}
       /\ flash.dhw_enable # None \/ flash.schema >= 2

\* Outside a save a restart would bring back RAM's document, but for the pair.
Synced ==
  job # "save" /\ dirty = "clean" => Loaded(flash) = [ram EXCEPT !.wifi = Loaded(flash).wifi]

\* Where no pair is on its way while a save runs, one is at a time, it is the
\* one in flash, and RAM has it when it has arrived.
OnePair ==
  ~Overlaps =>
    /\ asking = None \/ rolling = None
    /\ asking # None \/ rolling # None => job = "none"
    /\ asking # None => flash.wifi = asking
    /\ rolling # None => flash.wifi = rolling
    /\ asking = None /\ rolling = None /\ dirty = "clean" /\ job # "save" =>
         Loaded(flash).wifi = ram.wifi

SyncInv == Whole(ram) /\ Saving /\ Failures /\ Migrating /\ Synced /\ OnePair

\* Loading depends on the keys one by one: the pair alone decides the pair.
LEMMA LoadedPair ==
  ASSUME NEW store
  PROVE  Loaded(store).wifi = IF store.wifi \in Wifis THEN store.wifi ELSE None
<1> DEFINE raw == [f \in DOMAIN Defaults |->
                     CASE f = "plain"      -> [g \in Plain |-> Read(store.plain[g], PlainDefault[g])]
                       [] f = "dhw_enable" -> HotWater(store)
                       [] OTHER            -> Read(store[f], Defaults[f])]
<1>1. Loaded(store) = Sanitize(raw)
  BY DEF Loaded
<1>2. "wifi" \in DOMAIN Defaults /\ Defaults.wifi = None
  BY DEF Defaults
<1>3. raw.wifi = store.wifi
  BY <1>2 DEF Read
<1> HIDE DEF raw
<1> QED BY <1>1, <1>3 DEF Sanitize, WifiUsable

\* Repair looks at the network apart from everything else.
LEMMA RepairedApart ==
  ASSUME NEW a, NEW b, \A f \in DOMAIN Defaults \ {"wifi"} : a[f] = b[f]
  PROVE  Sanitize(a) = [Sanitize(b) EXCEPT !.wifi = Sanitize(a).wifi]
<1>1. /\ a.mqtt_host = b.mqtt_host /\ a.mqtt_password = b.mqtt_password /\ a.plain = b.plain
      /\ a.dhw_enable = b.dhw_enable /\ a.control_mode = b.control_mode
      /\ a.flow_min = b.flow_min /\ a.flow_max = b.flow_max
      /\ a.failsafe_setpoint = b.failsafe_setpoint
      /\ a.local_ch_setpoint = b.local_ch_setpoint /\ a.ui_password = b.ui_password
  BY DEF Defaults
<1>2. SaneFlow(a) = SaneFlow(b) /\ SaneHost(a) = SaneHost(b)
  BY <1>1 DEF SaneFlow, SaneHost
<1>3. SaneMode(a) = SaneMode(b)
  BY <1>1, <1>2 DEF SaneMode
<1> DEFINE plain(raw) == [f \in Plain |-> IF raw.plain[f] \in PlainLegal[f] THEN raw.plain[f]
                                         ELSE PlainDefault[f]]
           local(raw) == IntoBand(InFlow(raw.local_ch_setpoint, DefaultLocal),
                                  SaneFlow(raw).lo, SaneFlow(raw).hi)
<1>4. plain(a) = plain(b)
  BY <1>1
<1>5. local(a) = local(b)
  BY <1>1, <1>2
<1>6. \A raw \in {a, b} :
        Sanitize(raw) =
          [wifi |-> IF WifiUsable(raw.wifi) THEN raw.wifi ELSE None,
           mqtt_host |-> SaneHost(raw),
           mqtt_password |-> IF raw.mqtt_password = Bad THEN None ELSE raw.mqtt_password,
           plain |-> plain(raw), dhw_enable |-> raw.dhw_enable, control_mode |-> SaneMode(raw),
           flow_min |-> SaneFlow(raw).lo, flow_max |-> SaneFlow(raw).hi,
           failsafe_setpoint |-> SaneFlow(raw).failsafe, local_ch_setpoint |-> local(raw),
           ui_password |-> IF raw.ui_password \in UiPasswords THEN raw.ui_password ELSE None]
  BY DEF Sanitize
<1> HIDE DEF plain, local
<1> QED BY <1>1, <1>2, <1>3, <1>4, <1>5, <1>6

\* Two stores that read alike load alike, but for the pair.
LEMMA LoadedAlike ==
  ASSUME NEW a, NEW b, HotWater(a) = HotWater(b),
         \A f \in DOMAIN Defaults \ {"wifi", "dhw_enable"} : a[f] = b[f]
  PROVE  Loaded(a) = [Loaded(b) EXCEPT !.wifi = Loaded(a).wifi]
<1> DEFINE raw(store) ==
             [f \in DOMAIN Defaults |->
                CASE f = "plain"      -> [g \in Plain |-> Read(store.plain[g], PlainDefault[g])]
                  [] f = "dhw_enable" -> HotWater(store)
                  [] OTHER            -> Read(store[f], Defaults[f])]
<1>1. Loaded(a) = Sanitize(raw(a)) /\ Loaded(b) = Sanitize(raw(b))
  BY DEF Loaded
<1>2. "plain" \in DOMAIN Defaults
  BY DEF Defaults
<1>3. \A f \in DOMAIN Defaults \ {"wifi"} : raw(a)[f] = raw(b)[f]
  BY <1>2
<1> HIDE DEF raw
<1> QED BY <1>1, <1>3, RepairedApart

\* A legal document is its own repair.
LEMMA LegalUnrepaired ==
  ASSUME NEW doc, IsDocument(doc), Whole(doc)
  PROVE  Sanitize(doc) = doc
<1> DEFINE lo == doc.flow_min
           hi == doc.flow_max
           fs == doc.failsafe_setpoint
           at == doc.local_ch_setpoint
<1>1. /\ {lo, hi, fs, at} \subseteq Flow /\ Flow \subseteq Int
      /\ lo < hi /\ fs \in lo..hi /\ at \in lo..hi
  BY ConfigAssumption DEF Flow, IsDocument, Legal
<1>2. SaneFlow(doc) = [lo |-> lo, hi |-> hi, failsafe |-> fs]
  <2>1. /\ InFlow(doc.flow_min, DefaultMin) = lo /\ InFlow(doc.flow_max, DefaultMax) = hi
        /\ InFlow(doc.failsafe_setpoint, IntoBand(DefaultFailsafe, lo, hi)) = fs
    BY <1>1 DEF InFlow
  <2>2. CheckFlow(lo, hi, fs) = "ok"
    <3> HIDE DEF lo, hi, fs, at
    <3>1. lo \in Int /\ hi \in Int
      BY <1>1
    <3> QED BY <1>1, <3>1 DEF CheckFlow
  <2> QED BY <2>1, <2>2 DEF SaneFlow
<1>3. IntoBand(InFlow(at, DefaultLocal), lo, hi) = at
  <2>1. InFlow(at, DefaultLocal) = at
    BY <1>1 DEF InFlow
  <2>2. IntoBand(at, lo, hi) = at
    <3> HIDE DEF lo, hi, fs, at
    <3>1. lo \in Int /\ hi \in Int /\ at \in Int
      BY <1>1
    <3> QED BY <1>1, <3>1 DEF IntoBand
  <2> QED BY <2>1, <2>2
<1> USE DEF IsDocument, Legal
<1>4. SaneHost(doc) = doc.mqtt_host /\ SaneMode(doc) = doc.control_mode
  BY DEF SaneHost, SaneMode, CheckMode
<1>5. [f \in Plain |-> IF doc.plain[f] \in PlainLegal[f] THEN doc.plain[f] ELSE PlainDefault[f]]
        = doc.plain
  BY DEF Whole
<1>6. /\ (IF WifiUsable(doc.wifi) THEN doc.wifi ELSE None) = doc.wifi
      /\ (IF doc.ui_password \in UiPasswords THEN doc.ui_password ELSE None) = doc.ui_password
      /\ (IF doc.mqtt_password = Bad THEN None ELSE doc.mqtt_password) = doc.mqtt_password
  BY DEF WifiUsable, Whole
<1> DEFINE plain == [f \in Plain |-> IF doc.plain[f] \in PlainLegal[f] THEN doc.plain[f]
                                    ELSE PlainDefault[f]]
           local == IntoBand(InFlow(doc.local_ch_setpoint, DefaultLocal), doc.flow_min, doc.flow_max)
<1>7. Sanitize(doc) =
        [wifi |-> IF WifiUsable(doc.wifi) THEN doc.wifi ELSE None, mqtt_host |-> SaneHost(doc),
         mqtt_password |-> IF doc.mqtt_password = Bad THEN None ELSE doc.mqtt_password,
         plain |-> plain, dhw_enable |-> doc.dhw_enable, control_mode |-> SaneMode(doc),
         flow_min |-> doc.flow_min, flow_max |-> doc.flow_max,
         failsafe_setpoint |-> doc.failsafe_setpoint, local_ch_setpoint |-> local,
         ui_password |-> IF doc.ui_password \in UiPasswords THEN doc.ui_password ELSE None]
  BY <1>2 DEF Sanitize
<1>8. plain = doc.plain /\ local = doc.local_ch_setpoint
  BY <1>3, <1>5
<1> HIDE DEF plain, local
<1>9. Sanitize(doc) =
        [wifi |-> doc.wifi, mqtt_host |-> doc.mqtt_host, mqtt_password |-> doc.mqtt_password,
         plain |-> doc.plain, dhw_enable |-> doc.dhw_enable, control_mode |-> doc.control_mode,
         flow_min |-> doc.flow_min, flow_max |-> doc.flow_max,
         failsafe_setpoint |-> doc.failsafe_setpoint,
         local_ch_setpoint |-> doc.local_ch_setpoint, ui_password |-> doc.ui_password]
  BY <1>4, <1>6, <1>7, <1>8
<1>10. doc = [f \in DOMAIN Defaults |-> doc[f]]
  BY DEF Whole
<1> HIDE DEF IsDocument, Legal
<1> QED BY <1>9, <1>10 DEF Defaults


\* What has been saved whole loads as it was.
LEMMA LoadedAsSaved ==
  ASSUME NEW store, NEW doc, IsDocument(doc), Whole(doc),
         \A f \in DOMAIN Defaults \ {"wifi"} : store[f] = doc[f]
  PROVE  Loaded(store) = [doc EXCEPT !.wifi = Loaded(store).wifi]
<1> DEFINE raw == [f \in DOMAIN Defaults |->
                     CASE f = "plain"      -> [g \in Plain |-> Read(store.plain[g], PlainDefault[g])]
                       [] f = "dhw_enable" -> HotWater(store)
                       [] OTHER            -> Read(store[f], Defaults[f])]
<1>1. Loaded(store) = Sanitize(raw)
  BY DEF Loaded
<1>2. raw.plain = doc.plain
  <2>1. raw.plain = [g \in Plain |-> Read(doc.plain[g], PlainDefault[g])]
    BY DEF Defaults
  <2>2. \A g \in Plain : Read(doc.plain[g], PlainDefault[g]) = doc.plain[g]
    BY ValuesAssumption DEF Read, IsDocument, Legal
  <2> HIDE DEF raw
  <2> QED BY <2>1, <2>2 DEF Whole
<1>3. raw.dhw_enable = doc.dhw_enable
  BY DEF Defaults, HotWater, Read, Whole
<1>4. \A f \in {"mqtt_host", "mqtt_password", "control_mode", "flow_min", "flow_max",
                "failsafe_setpoint", "local_ch_setpoint", "ui_password"} :
        raw[f] = Read(doc[f], Defaults[f])
  BY DEF Defaults
<1>5. \A f \in {"mqtt_host", "control_mode", "flow_min", "flow_max",
                "failsafe_setpoint", "local_ch_setpoint"} : doc[f] # None
  BY ValuesAssumption, ConfigAssumption DEF IsDocument, Legal, Flow
<1>6. Defaults.mqtt_password = None /\ Defaults.ui_password = None
  BY DEF Defaults
<1> HIDE DEF raw
<1>7. \A f \in DOMAIN Defaults \ {"wifi"} : raw[f] = doc[f]
  BY <1>2, <1>3, <1>4, <1>5, <1>6 DEF Defaults, Read
<1> QED BY <1>1, <1>7, RepairedApart, LegalUnrepaired

\* What is loaded has nothing missing in it, and the hot water bit it read.
LEMMA LoadedWhole ==
  ASSUME NEW store
  PROVE  Whole(Loaded(store)) /\ Loaded(store).dhw_enable = HotWater(store)
<1> DEFINE raw == [f \in DOMAIN Defaults |->
                     CASE f = "plain"      -> [g \in Plain |-> Read(store.plain[g], PlainDefault[g])]
                       [] f = "dhw_enable" -> HotWater(store)
                       [] OTHER            -> Read(store[f], Defaults[f])]
<1>1. Loaded(store) = Sanitize(raw)
  BY DEF Loaded
<1>2. raw.dhw_enable = HotWater(store) /\ HotWater(store) # None
  BY ValuesAssumption DEF Defaults, HotWater, Read
<1> HIDE DEF raw
<1>3. Sanitize(raw) = [f \in DOMAIN Defaults |-> Sanitize(raw)[f]]
  BY DEF Sanitize, Defaults
<1>4. Sanitize(raw).plain = [f \in Plain |-> Sanitize(raw).plain[f]]
  BY DEF Sanitize
<1>5. Sanitize(raw).dhw_enable = raw.dhw_enable /\ Sanitize(raw).mqtt_password # Bad
  BY ValuesAssumption DEF Sanitize
<1> QED BY <1>1, <1>2, <1>3, <1>4, <1>5 DEF Whole

\* A step that leaves every key reading alike, and changes nothing in RAM but
\* the pair, leaves the two in step.
LEMMA StillSynced ==
  ASSUME Loaded(flash) = [ram EXCEPT !.wifi = Loaded(flash).wifi], Whole(ram),
         NEW wifi, ram' = [ram EXCEPT !.wifi = wifi],
         HotWater(flash') = HotWater(flash),
         \A f \in DOMAIN Defaults \ {"wifi", "dhw_enable"} : flash'[f] = flash[f]
  PROVE  Loaded(flash') = [ram' EXCEPT !.wifi = Loaded(flash').wifi]
<1>1. Loaded(flash') = [Loaded(flash) EXCEPT !.wifi = Loaded(flash').wifi]
  BY LoadedAlike
<1> QED BY <1>1

\* ram' = ram is such a step.
LEMMA SamePair ==
  ASSUME Whole(ram), ram' = ram
  PROVE  ram' = [ram EXCEPT !.wifi = ram.wifi] /\ Whole(ram)'
BY DEF Whole, Defaults

LEMMA SyncInitially == SInit => SyncInv
<1> SUFFICES ASSUME SInit PROVE SyncInv
  OBVIOUS
<1>1. ram = Loaded(flash) /\ asking = None /\ rolling = None /\ dirty = "clean"
      /\ todo = BootWrites(flash) /\ job = IF BootWrites(flash) = <<>> THEN "none" ELSE "boot"
  BY DEF SInit
<1>2. Whole(ram)
  BY <1>1, LoadedWhole
<1>3. Migrating
  BY <1>1, StoresAssumption, SettingsAssumption
  DEF Migrating, BootWrites, SchemaCheck, SInit
<1>4. Loaded(flash) = [ram EXCEPT !.wifi = Loaded(flash).wifi]
  BY <1>1, <1>2 DEF Whole, Defaults
<1> QED BY <1>1, <1>2, <1>3, <1>4 DEF SyncInv, Saving, Failures, Synced, OnePair

LEMMA SyncCut ==
  ASSUME IInv, SyncInv, PowerCut
  PROVE  SyncInv'
<1>1. /\ flash' = flash /\ ram' = Loaded(flash) /\ asking' = None /\ rolling' = None
      /\ dirty' = "clean" /\ todo' = BootWrites(flash)
      /\ job' = IF BootWrites(flash) = <<>> THEN "none" ELSE "boot"
  BY DEF PowerCut, Boot
<1>2. Whole(ram')
  BY <1>1, LoadedWhole
<1>3. Migrating'
  BY <1>1, SettingsAssumption DEF Migrating, BootWrites, SchemaCheck, IInv, IsStore
<1>4. Loaded(flash') = [ram' EXCEPT !.wifi = Loaded(flash').wifi]
  BY <1>1, <1>2 DEF Whole, Defaults
<1>5. Whole(ram)'
  BY <1>2 DEF Whole
<1> QED BY <1>1, <1>3, <1>4, <1>5 DEF SyncInv, Saving, Failures, Synced, OnePair


\* One write of a job done: what is left is the tail.
LEMMA TailLeft ==
  ASSUME Jobs, job # "none"
  PROVE  /\ Head(todo) \in Keys
         /\ \A key \in Among(todo) : key = Head(todo) \/ key \in Among(Tail(todo))
         /\ Len(todo) = 1 <=> Tail(todo) = <<>>
<1>1. todo \in Seq(Keys) /\ todo # <<>> /\ Len(todo) \in Nat /\ Len(todo) > 0
  BY DEF Jobs
<1>2. ASSUME NEW n \in 1..Len(todo), n # 1
      PROVE  todo[n] \in Among(Tail(todo))
  <2>1. n - 1 \in 1..Len(Tail(todo)) /\ Tail(todo)[n - 1] = todo[n]
    BY <1>1, <1>2
  <2> QED BY <2>1 DEF Among
<1>3. Head(todo) = todo[1] /\ todo[1] \in Keys
  BY <1>1
<1>4. Len(todo) = 1 <=> Tail(todo) = <<>>
  <2>1. Len(Tail(todo)) = Len(todo) - 1 /\ Tail(todo) \in Seq(Keys)
    BY <1>1
  <2>2. \A rest \in Seq(Keys) : Len(rest) = 0 <=> rest = <<>>
    OBVIOUS
  <2>3. Len(todo) = 1 <=> Len(Tail(todo)) = 0
    BY <1>1, <2>1
  <2> QED BY <2>1, <2>2, <2>3
<1> QED BY <1>2, <1>3, <1>4 DEF Among

\* The writes of a boot change no key in how it reads.
LEMMA SyncBootWrite ==
  ASSUME IInv, SyncInv, job = "boot", WriteOk
  PROVE  SyncInv'
<1>1. /\ ram' = ram /\ asking' = asking /\ rolling' = rolling /\ dirty' = dirty
      /\ flash' = Written(flash, Head(todo))
      /\ todo' = Tail(todo) /\ job' = IF Tail(todo) = <<>> THEN "none" ELSE "boot"
  BY DEF WriteOk, Onwards
<1>2. /\ DOMAIN flash = FlashKeys /\ flash.schema \in Nat
      /\ {"dhw_enable", "retired", "schema", "wifi"} \subseteq FlashKeys
      /\ DOMAIN Defaults \subseteq FlashKeys \ {"retired", "schema"}
  BY DEF IInv, IsStore, FlashKeys, Defaults
<1>3. Whole(ram) /\ ram.dhw_enable # None
  BY DEF SyncInv, Whole
<1>4. /\ \A f \in DOMAIN Defaults \ {"dhw_enable"} : flash'[f] = flash[f]
      /\ Head(todo) = "dhw_enable" => flash'.dhw_enable = ram.dhw_enable
      /\ Head(todo) # "dhw_enable" => flash'.dhw_enable = flash.dhw_enable
      /\ Head(todo) = "schema" => flash'.schema = Current
      /\ Head(todo) # "schema" => flash'.schema = flash.schema
      /\ Head(todo) # "retired" => flash'.retired = flash.retired
  <2>1. Head(todo) \in {"dhw_enable", "retired", "schema"}
    BY DEF SyncInv, Migrating
  <2>2. CASE Head(todo) = "dhw_enable"
    BY <1>1, <1>2, <2>2 DEF Written
  <2>3. CASE Head(todo) = "retired"
    BY <1>1, <1>2, <2>3 DEF Written
  <2>4. CASE Head(todo) = "schema"
    BY <1>1, <1>2, <2>4 DEF Written
  <2> QED BY <2>1, <2>2, <2>3, <2>4
<1>5. Migrating'
  <2>1. CASE todo = <<"dhw_enable", "retired", "schema">>
    <3>1. Head(todo) = "dhw_enable" /\ Tail(todo) = <<"retired", "schema">>
      BY <2>1
    <3> QED BY <1>1, <1>3, <1>4, <3>1 DEF Migrating
  <2>2. CASE todo = <<"retired", "schema">>
    <3>1. Head(todo) = "retired" /\ Tail(todo) = <<"schema">>
      BY <2>2
    <3>2. flash.dhw_enable # None \/ flash.schema >= 2
      BY <2>2 DEF SyncInv, Migrating
    <3> QED BY <1>1, <1>4, <3>1, <3>2 DEF Migrating
  <2>3. CASE todo \in {<<"retired">>, <<"schema">>}
    <3>1. Tail(<<"retired">>) = <<>> /\ Tail(<<"schema">>) = <<>>
      OBVIOUS
    <3> QED BY <1>1, <2>3, <3>1 DEF Migrating
  <2> QED BY <2>1, <2>2, <2>3 DEF SyncInv, Migrating
<1>6. ASSUME dirty = "clean"
      PROVE  Loaded(flash') = [ram' EXCEPT !.wifi = Loaded(flash').wifi]
  <2>1. Loaded(flash) = [ram EXCEPT !.wifi = Loaded(flash).wifi]
    BY <1>6 DEF SyncInv, Synced
  <2>2. HotWater(flash) = ram.dhw_enable
    <3>1. Loaded(flash).dhw_enable = ram.dhw_enable
      BY <2>1, <1>3 DEF Whole, Defaults
    <3> QED BY <3>1, LoadedWhole
  <2>3. HotWater(flash') = HotWater(flash)
    <3>1. CASE Head(todo) = "dhw_enable"
      BY <1>3, <1>4, <2>2, <3>1 DEF HotWater, Read
    <3>2. CASE Head(todo) # "dhw_enable"
      <4>1. flash.dhw_enable # None \/ flash.schema >= 2
        BY <3>2 DEF SyncInv, Migrating
      <4> QED BY <1>2, <1>4, <3>2, <4>1, SettingsAssumption DEF HotWater, Read
    <3> QED BY <3>1, <3>2
  <2>4. ram' = [ram EXCEPT !.wifi = ram.wifi]
    BY <1>1, <1>3, SamePair
  <2> QED BY <1>3, <1>4, <2>1, <2>3, <2>4, StillSynced
<1>7. Synced' /\ Saving' /\ Failures'
  BY <1>1, <1>6 DEF Synced, Saving, SyncInv, Failures
<1>8. OnePair'
  <2>1. Loaded(flash').wifi = Loaded(flash).wifi
    BY <1>4, LoadedPair DEF Defaults
  <2> QED BY <1>1, <2>1 DEF SyncInv, OnePair
<1>9. Whole(ram)'
  BY <1>1, <1>3, SamePair
<1> QED BY <1>5, <1>7, <1>8, <1>9 DEF SyncInv

\* A save that reaches its end without a failure has written all of the document.
LEMMA SyncSaveWrite ==
  ASSUME IInv, SyncInv, job = "save", WriteOk
  PROVE  SyncInv'
<1>1. /\ ram' = ram /\ asking' = asking /\ rolling' = rolling
      /\ dirty' = IF Len(todo) = 1 /\ dirty = "old" THEN "clean" ELSE dirty
      /\ flash' = Written(flash, Head(todo))
      /\ todo' = Tail(todo) /\ job' = IF Tail(todo) = <<>> THEN "none" ELSE "save"
  BY DEF WriteOk, Onwards
<1>2. /\ Head(todo) \in Keys
      /\ \A key \in Among(todo) : key = Head(todo) \/ key \in Among(Tail(todo))
      /\ Len(todo) = 1 <=> Tail(todo) = <<>>
  BY TailLeft DEF IInv
<1>3. DOMAIN flash = FlashKeys /\ Keys \subseteq FlashKeys
  BY DEF IInv, IsStore, FlashKeys, Keys, Defaults
<1>4. Whole(ram) /\ IsDocument(ram)
  BY DEF SyncInv, IInv
<1>5. \A key \in Keys \ {"retired", "schema"} :
        flash'[key] = IF key = Head(todo) THEN ram[key] ELSE flash[key]
  <2>1. CASE Head(todo) = "schema"
    BY <1>1, <1>3, <2>1 DEF Written
  <2>2. CASE Head(todo) = "retired"
    BY <1>1, <1>3, <2>2 DEF Written
  <2>3. CASE Head(todo) \notin {"schema", "retired"}
    <3>1. flash' = [flash EXCEPT ![Head(todo)] = ram[Head(todo)]]
      BY <1>1, <2>3 DEF Written
    <3> QED BY <1>2, <1>3, <3>1
  <2> QED BY <2>1, <2>2, <2>3
<1>6. ASSUME dirty # "now", NEW key \in Kept, key \notin Among(Tail(todo))
      PROVE  flash'[key] = ram[key]
  BY <1>2, <1>5, <1>6 DEF SyncInv, Saving, Kept
<1>7. Saving'
  BY <1>1, <1>6 DEF Saving
<1>8. ASSUME Tail(todo) = <<>>, dirty # "now"
      PROVE  /\ Loaded(flash') = [ram' EXCEPT !.wifi = Loaded(flash').wifi]
             /\ ~Overlaps => Loaded(flash').wifi = ram'.wifi
  <2>1. \A key \in Kept : flash'[key] = ram[key]
    <3>1. 1..Len(<<>>) = {}
      OBVIOUS
    <3>2. \A key : key \notin Among(Tail(todo))
      BY <1>8, <3>1 DEF Among
    <3> QED BY <1>6, <1>8, <3>2
  <2>2. \A f \in DOMAIN Defaults \ {"wifi"} : flash'[f] = ram[f]
    BY <2>1 DEF Kept, Keys, Defaults
  <2>3. ~Overlaps => flash'.wifi = ram.wifi
    BY <2>1 DEF Kept, Keys
  <2>4. ram.wifi \in Wifis \cup {None}
    BY <1>4 DEF IsDocument, Legal
  <2> QED BY <1>1, <1>4, <2>2, <2>3, <2>4, LoadedAsSaved, LoadedPair
<1>9. Synced' /\ Failures' /\ Migrating'
  BY <1>1, <1>2, <1>8 DEF SyncInv, Synced, Failures, Migrating
<1>10. OnePair'
  BY <1>1, <1>2, <1>8 DEF SyncInv, OnePair, Failures
<1>11. Whole(ram)'
  BY <1>1, <1>4, SamePair
<1> QED BY <1>7, <1>9, <1>10, <1>11 DEF SyncInv

LEMMA SyncWriteFails ==
  ASSUME IInv, SyncInv, WriteFails
  PROVE  SyncInv'
<1>1. /\ ram' = ram /\ asking' = asking /\ rolling' = rolling
      /\ dirty' = IF job = "save" THEN "now" ELSE dirty
      /\ todo' = AfterFailure(Head(todo))
      /\ job' = IF todo' = <<>> THEN "none" ELSE job
      /\ job \in {"boot", "save"}
  BY DEF WriteFails, Onwards
<1>2. PICK r : flash' = IF Head(todo) = "retired" THEN [flash EXCEPT !.retired = r] ELSE flash
  BY DEF WriteFails
<1>3. DOMAIN flash = FlashKeys /\ DOMAIN Defaults \subseteq FlashKeys \ {"retired", "schema"}
      /\ {"retired", "schema"} \subseteq FlashKeys
  BY DEF IInv, IsStore, FlashKeys, Defaults
<1>4. /\ \A f \in DOMAIN Defaults : flash'[f] = flash[f]
      /\ flash'.schema = flash.schema
  BY <1>2, <1>3
<1>5. Whole(ram)
  BY DEF SyncInv
<1>6. CASE job = "save"
  <2>1. OnePair'
    BY <1>1, <1>6 DEF SyncInv, OnePair
  <2> QED BY <1>1, <1>5, <1>6, <2>1, SamePair DEF SyncInv, Saving, Failures, Migrating, Synced
<1>7. CASE job = "boot"
  <2>1. todo' = <<>> /\ job' = "none" /\ dirty' = dirty
    BY <1>1, <1>7 DEF AfterFailure
  <2>2. HotWater(flash') = HotWater(flash)
    <3>1. CASE Head(todo) # "retired"
      BY <1>2, <3>1
    <3>2. CASE Head(todo) = "retired"
      <4>1. flash.dhw_enable # None \/ flash.schema >= 2
        <5>1. Head(<<"dhw_enable", "retired", "schema">>) = "dhw_enable"
          OBVIOUS
        <5> QED BY <1>7, <3>2, <5>1 DEF SyncInv, Migrating
      <4>2. flash'.dhw_enable = flash.dhw_enable /\ flash'.schema = flash.schema /\ flash.schema \in Nat
        BY <1>4 DEF Defaults, IInv, IsStore
      <4> QED BY <4>1, <4>2 DEF HotWater, Read
    <3> QED BY <3>1, <3>2
  <2>3. Synced'
    <3>1. ram' = [ram EXCEPT !.wifi = ram.wifi]
      BY <1>1, <1>5, SamePair
    <3> QED BY <1>4, <1>5, <1>7, <2>1, <2>2, <3>1, StillSynced DEF SyncInv, Synced
  <2>4. OnePair'
    <3>1. Loaded(flash').wifi = Loaded(flash).wifi
      BY <1>4, LoadedPair DEF Defaults
    <3> QED BY <1>1, <1>7, <2>1, <3>1 DEF SyncInv, OnePair
  <2> QED BY <1>1, <1>5, <1>7, <2>1, <2>3, <2>4, SamePair DEF SyncInv, Saving, Failures, Migrating
<1> QED BY <1>1, <1>6, <1>7

\* A document committed from a whole one is whole.
LEMMA CommittedWhole ==
  ASSUME Whole(ram), NEW p, NEW hashes, Apply(ram, p, read_only, hashes).err = "ok"
  PROVE  /\ Whole(Committed(ram, p))
         /\ Apply(ram, p, read_only, hashes).doc = Committed(ram, p)
         /\ BrokerRefusal(ram, p) = "ok"
<1>1. /\ Refusal(ram, p, hashes) = "ok"
      /\ Apply(ram, p, read_only, hashes).doc = Committed(ram, p)
  BY DEF Apply
<1>2. BrokerRefusal(ram, p) = "ok"
  BY <1>1 DEF Refusal
<1>3. p.mqtt_password # Bad
  BY <1>2 DEF BrokerRefusal
<1> DEFINE plain == [f \in Plain |-> IF f \in DOMAIN p.plain THEN p.plain[f] ELSE ram.plain[f]]
           local == IntoBand(Merged(p.local_ch_setpoint, ram.local_ch_setpoint),
                             Merged(p.flow_min, ram.flow_min), Merged(p.flow_max, ram.flow_max))
<1>4. Committed(ram, p) =
        [wifi |-> WifiChoice(ram, p).wifi, mqtt_host |-> Merged(p.mqtt_host, ram.mqtt_host),
         mqtt_password |-> Secret(ram.mqtt_password, p.mqtt_password), plain |-> plain,
         dhw_enable |-> Merged(p.dhw_enable, ram.dhw_enable),
         control_mode |-> Merged(p.control_mode, ram.control_mode),
         flow_min |-> Merged(p.flow_min, ram.flow_min),
         flow_max |-> Merged(p.flow_max, ram.flow_max),
         failsafe_setpoint |-> Merged(p.failsafe_setpoint, ram.failsafe_setpoint),
         local_ch_setpoint |-> local, ui_password |-> Secret(ram.ui_password, p.ui_password)]
  BY DEF Committed
<1>5. plain = [f \in Plain |-> plain[f]]
  OBVIOUS
<1>6. Merged(p.dhw_enable, ram.dhw_enable) # None
  BY DEF Merged, Whole
<1>7. Secret(ram.mqtt_password, p.mqtt_password) # Bad
  BY <1>3, ValuesAssumption DEF Secret, Whole
<1> HIDE DEF plain, local
<1>8. Whole(Committed(ram, p))
  BY <1>4, <1>5, <1>6, <1>7 DEF Whole, Defaults
<1> QED BY <1>1, <1>2, <1>8

\* A save begins with every key still to write.
LEMMA SyncSubmit ==
  ASSUME IInv, SyncInv, NEW p, Submit(p),
         ~Overlaps => asking = None /\ rolling = None
  PROVE  SyncInv'
<1>1. /\ job' = "save" /\ todo' = SaveWrites /\ UNCHANGED <<flash, asking, rolling>>
      /\ dirty' = IF dirty = "now" THEN "old" ELSE dirty
  BY DEF Submit
<1>2. Whole(ram)'
  <2>1. PICK hashes \in BOOLEAN : /\ Apply(ram, p, read_only, hashes).err = "ok"
                                  /\ ram' = Apply(ram, p, read_only, hashes).doc
    BY DEF Submit
  <2>2. Whole(ram)
    BY DEF SyncInv
  <2>3. ram' = Committed(ram, p) /\ Whole(Committed(ram, p))
    BY <2>1, <2>2, CommittedWhole
  <2> QED BY <2>3 DEF Whole
<1>3. Saving'
  <2>1. Kept \subseteq Among(SaveWrites)
    <3>1. Kept \subseteq {"wifi", "mqtt_host", "mqtt_password", "plain", "dhw_enable",
                          "control_mode", "failsafe_setpoint", "flow_min", "flow_max",
                          "local_ch_setpoint", "ui_password"}
      BY DEF Kept, Keys, Defaults
    <3>2. /\ Len(SaveWrites) = 13
          /\ SaveWrites[1] = "wifi" /\ SaveWrites[2] = "mqtt_host"
          /\ SaveWrites[3] = "mqtt_password" /\ SaveWrites[4] = "plain"
          /\ SaveWrites[5] = "dhw_enable" /\ SaveWrites[6] = "control_mode"
          /\ SaveWrites[7] = "failsafe_setpoint" /\ SaveWrites[8] = "flow_min"
          /\ SaveWrites[9] = "flow_max" /\ SaveWrites[10] = "local_ch_setpoint"
          /\ SaveWrites[13] = "ui_password"
      BY DEF SaveWrites
    <3>3. {1, 2, 3, 4, 5, 6, 7, 8, 9, 10, 13} \subseteq 1..13
      OBVIOUS
    <3>4. \A n \in {1, 2, 3, 4, 5, 6, 7, 8, 9, 10, 13} : SaveWrites[n] \in Among(SaveWrites)
      BY <3>2, <3>3 DEF Among
    <3> QED BY <3>1, <3>2, <3>4
  <2> QED BY <1>1, <2>1 DEF Saving
<1>4. Failures' /\ Migrating' /\ Synced' /\ OnePair'
  BY <1>1 DEF SyncInv, Failures, Migrating, Synced, OnePair
<1> QED BY <1>2, <1>3, <1>4 DEF SyncInv

\* A step of the network's tasks: the pair, here or there, and nothing else.
LEMMA SyncPairStep ==
  ASSUME IInv, SyncInv, UNCHANGED <<job, todo, dirty>>, job # "boot",
         NEW wifi, ram' = [ram EXCEPT !.wifi = wifi],
         DOMAIN flash' = FlashKeys, \A key \in FlashKeys \ {"wifi", "good"} : flash'[key] = flash[key],
         ~Overlaps => job = "none" \/ (flash'.wifi = flash.wifi /\ wifi = ram.wifi), OnePair'
  PROVE  SyncInv'
<1>1. {"mqtt_host", "dhw_enable", "retired", "schema"} \subseteq FlashKeys
      /\ DOMAIN Defaults \subseteq FlashKeys \ {"good"}
  BY DEF FlashKeys, Defaults
<1>2. Whole(ram)'
  BY DEF SyncInv, Whole, Defaults
<1>3. \A f \in DOMAIN Defaults \ {"wifi"} : flash'[f] = flash[f] /\ ram'[f] = ram[f]
  BY <1>1 DEF SyncInv, Whole, Defaults
<1>4. Saving'
  <2>1. Kept \subseteq DOMAIN Defaults /\ (Overlaps => "wifi" \notin Kept)
    BY DEF Kept, Keys, Defaults
  <2>2. ASSUME job = "save", NEW key \in Kept
        PROVE  flash'[key] = flash[key] /\ ram'[key] = ram[key]
    BY <1>2, <1>3, <2>1, <2>2 DEF SyncInv, Whole
  <2> QED BY <2>2 DEF SyncInv, Saving
<1>5. Failures' /\ Migrating'
  BY DEF SyncInv, Failures, Migrating
<1>6. Synced'
  <2> SUFFICES ASSUME job # "save", dirty = "clean"
               PROVE  Loaded(flash') = [ram' EXCEPT !.wifi = Loaded(flash').wifi]
    BY DEF Synced
  <2>1. HotWater(flash') = HotWater(flash)
    BY <1>1 DEF HotWater
  <2>2. Loaded(flash) = [ram EXCEPT !.wifi = Loaded(flash).wifi] /\ Whole(ram)
    BY DEF SyncInv, Synced
  <2> QED BY <1>3, <2>1, <2>2, StillSynced
<1> QED BY <1>2, <1>4, <1>5, <1>6 DEF SyncInv

LEMMA SyncNetwork ==
  ASSUME IInv, SyncInv,
         ProvisionStore \/ ProvisionTell \/ CommitKnownGood \/ RestoreStore \/ RestoreTell
  PROVE  SyncInv'
<1>1. /\ DOMAIN flash = FlashKeys /\ ram = [ram EXCEPT !.wifi = ram.wifi]
      /\ "wifi" \in DOMAIN ram /\ "wifi" \in FlashKeys /\ "good" \in FlashKeys
  BY DEF IInv, IsStore, SyncInv, Whole, FlashKeys, Defaults
<1>2. CASE ProvisionStore
  <2>1. PICK wifi \in Wifis : asking' = wifi /\ flash' = [flash EXCEPT !.wifi = wifi]
    BY <1>2, Provisioned DEF ProvisionStore
  <2>2. /\ UNCHANGED <<ram, job, todo, rolling, dirty>> /\ job # "boot"
        /\ ~Overlaps => job = "none" /\ rolling = None
    BY <1>2 DEF ProvisionStore, Idle
  <2>3. OnePair'
    BY <1>1, <2>1, <2>2, ValuesAssumption DEF OnePair
  <2> QED BY <1>1, <2>1, <2>2, <2>3, SyncPairStep
<1>3. CASE ProvisionTell
  <2>1. /\ UNCHANGED <<flash, job, todo, rolling, dirty>> /\ asking' = None /\ job = "none"
        /\ ram' = [ram EXCEPT !.wifi = asking] /\ asking # None
    BY <1>3 DEF ProvisionTell, Idle
  <2>2. ~Overlaps => Loaded(flash).wifi = asking
    BY <2>1, LoadedPair DEF IInv, Pairs, Usable, SyncInv, OnePair
  <2>3. OnePair'
    BY <1>1, <2>1, <2>2 DEF SyncInv, OnePair
  <2> QED BY <1>1, <2>1, <2>3, SyncPairStep
<1>4. CASE CommitKnownGood
  <2>1. /\ UNCHANGED <<ram, job, todo, asking, rolling, dirty>> /\ job # "boot"
        /\ flash' = [flash EXCEPT !.good = flash.wifi] /\ flash'.wifi = flash.wifi
    BY <1>1, <1>4 DEF CommitKnownGood
  <2>2. Loaded(flash').wifi = Loaded(flash).wifi
    BY <2>1, LoadedPair
  <2>3. OnePair'
    BY <2>1, <2>2 DEF SyncInv, OnePair
  <2> QED BY <1>1, <2>1, <2>3, SyncPairStep
<1>5. CASE RestoreStore
  <2>1. /\ UNCHANGED <<ram, job, todo, asking, dirty>> /\ job # "boot" /\ rolling' = flash.good
        /\ flash' = [flash EXCEPT !.wifi = flash.good] /\ flash.good # None
        /\ ~Overlaps => job = "none" /\ asking = None
    BY <1>5 DEF RestoreStore, Idle
  <2>2. OnePair'
    BY <1>1, <2>1 DEF OnePair
  <2> QED BY <1>1, <2>1, <2>2, SyncPairStep
<1>6. CASE RestoreTell
  <2>1. /\ UNCHANGED <<flash, job, todo, asking, dirty>> /\ rolling' = None /\ job = "none"
        /\ ram' = [ram EXCEPT !.wifi = rolling] /\ rolling # None
    BY <1>6 DEF RestoreTell, Idle
  <2>2. ~Overlaps => Loaded(flash).wifi = rolling
    BY <2>1, LoadedPair DEF IInv, Pairs, Usable, SyncInv, OnePair
  <2>3. OnePair'
    BY <1>1, <2>1, <2>2 DEF SyncInv, OnePair
  <2> QED BY <1>1, <2>1, <2>3, SyncPairStep
<1> QED BY <1>2, <1>3, <1>4, <1>5, <1>6

LEMMA SyncInductive == IInv /\ SyncInv /\ [SNext]_svars => SyncInv'
<1> SUFFICES ASSUME IInv, SyncInv, [SNext]_svars PROVE SyncInv'
  OBVIOUS
<1>1. CASE WriteOk
  <2>1. job \in {"boot", "save"}
    BY <1>1 DEF WriteOk
  <2> QED BY <1>1, <2>1, SyncBootWrite, SyncSaveWrite
<1>2. CASE WriteFails
  BY <1>2, SyncWriteFails
<1>3. CASE PostConfig
  BY <1>3, SyncSubmit DEF PostConfig
<1>4. CASE PostCommand
  BY <1>4, SyncSubmit DEF PostCommand
<1>5. CASE ProvisionStore \/ ProvisionTell \/ CommitKnownGood \/ RestoreStore \/ RestoreTell
  BY <1>5, SyncNetwork
<1>6. CASE PowerCut
  BY <1>6, SyncCut
<1>7. CASE UNCHANGED svars
  BY <1>7 DEF svars, SyncInv, Whole, Saving, Failures, Migrating, Synced, OnePair
<1> QED BY <1>1, <1>2, <1>3, <1>4, <1>5, <1>6, <1>7 DEF SNext

\* RAM and flash differ only by what a job on its way or a failure explains.
THEOREM Synchrony == SSpec => [](IInv /\ SyncInv)
BY Initially, Inductive, SyncInitially, SyncInductive, PTL DEF SSpec

\* QuietMeansStored: what ot_config_save_nvs wrote, key by key, through any
\* migration, failed write and restart before it, loads as the document the
\* owner is looking at.  Where a pair may be on its way while a save runs the
\* save can write the older pair over it, and the property is false.
THEOREM StoredWhenQuiet ==
  ASSUME ~Overlaps
  PROVE  SSpec => []QuietMeansStored
<1>1. IInv /\ SyncInv => QuietMeansStored
  <2> SUFFICES ASSUME IInv, SyncInv, job = "none", asking = None, rolling = None, dirty = "clean"
               PROVE  Loaded(flash) = ram
    BY DEF QuietMeansStored, Idle
  <2>1. /\ Loaded(flash) = [ram EXCEPT !.wifi = Loaded(flash).wifi]
        /\ Loaded(flash).wifi = ram.wifi
    BY DEF SyncInv, Synced, OnePair
  <2>2. ram = [ram EXCEPT !.wifi = ram.wifi]
    BY DEF SyncInv, Whole, Defaults
  <2> QED BY <2>1, <2>2
<1> QED BY <1>1, Synchrony, PTL

\* HotWaterKept: a migration carries the bit before it erases its old place
\* (migrate, ot_config_nvs_migrate.c), so a cut or a failed write between the
\* two restarts into the same hot water.
THEOREM HotWaterSurvives == SSpec => HotWaterKept
<1> DEFINE Kept1 == ram'.dhw_enable # ram.dhw_enable => (job = "none" /\ job' = "save") \/ torn'
<1>1. ASSUME IInv, SyncInv, [SNext]_svars PROVE [Kept1]_svars
  <2> SUFFICES ASSUME SNext, ~torn', ~(job = "none" /\ job' = "save")
               PROVE  ram'.dhw_enable = ram.dhw_enable
    BY <1>1
  <2>0. "dhw_enable" \in DOMAIN ram
    BY <1>1 DEF SyncInv, Whole, Defaults
  <2>1. CASE WriteOk \/ WriteFails \/ ProvisionStore \/ CommitKnownGood \/ RestoreStore
    BY <2>1 DEF WriteOk, WriteFails, ProvisionStore, CommitKnownGood, RestoreStore
  <2>2. CASE PostConfig \/ PostCommand
    BY <2>2 DEF PostConfig, PostCommand, Submit, Idle
  <2>3. CASE ProvisionTell \/ RestoreTell
    BY <2>0, <2>3 DEF ProvisionTell, RestoreTell
  <2>4. CASE PowerCut
    <3>1. ram' = Loaded(flash) /\ job # "save" /\ dirty = "clean"
      BY <2>4 DEF PowerCut, Boot
    <3>2. Loaded(flash) = [ram EXCEPT !.wifi = Loaded(flash).wifi]
      BY <1>1, <3>1 DEF SyncInv, Synced
    <3> QED BY <2>0, <3>1, <3>2
  <2> QED BY <2>1, <2>2, <2>3, <2>4 DEF SNext
<1> QED BY <1>1, Synchrony, PTL DEF SSpec, HotWaterKept

-----------------------------------------------------------------------------
(* The broker's password.                                                   *)

\* A store loads with the password it has beside its address, or none.
LEMMA PasswordInitially == SInit => PasswordForItsHost
<1> SUFFICES ASSUME SInit, ram.mqtt_password # None, ram.mqtt_host # NoHost
             PROVE  ram.mqtt_password = <<ram.mqtt_host>>
  BY DEF PasswordForItsHost
<1> DEFINE raw == [f \in DOMAIN Defaults |->
                     CASE f = "plain"      -> [g \in Plain |-> Read(flash.plain[g], PlainDefault[g])]
                       [] f = "dhw_enable" -> HotWater(flash)
                       [] OTHER            -> Read(flash[f], Defaults[f])]
<1>1. ram = Sanitize(raw) /\ flash \in Stores
  BY DEF SInit, Loaded
<1>2. raw.mqtt_host = Read(flash.mqtt_host, NoHost) /\ raw.mqtt_password = Read(flash.mqtt_password, None)
  BY DEF Defaults
<1> HIDE DEF raw
<1>3. ram.mqtt_host = SaneHost(raw)
      /\ ram.mqtt_password = IF raw.mqtt_password = Bad THEN None ELSE raw.mqtt_password
  BY <1>1 DEF Sanitize
<1>4. flash.mqtt_host \in Hosts /\ ram.mqtt_host = flash.mqtt_host
  BY <1>2, <1>3 DEF SaneHost, Read
<1>5. ram.mqtt_password = flash.mqtt_password /\ flash.mqtt_password # Bad
  BY <1>2, <1>3 DEF Read
<1> QED BY <1>1, <1>4, <1>5, PasswordsAssumption

\* A document that is not refused keeps a password for no address but its own.
LEMMA PasswordSubmit ==
  ASSUME IInv, SyncInv, PasswordForItsHost, NEW p, Submit(p),
         p.mqtt_password \in {None, Empty, Sentinel, Bad, <<Merged(p.mqtt_host, ram.mqtt_host)>>}
  PROVE  PasswordForItsHost'
<1> SUFFICES ASSUME ~torn', ram'.mqtt_password # None, ram'.mqtt_host # NoHost
             PROVE  ram'.mqtt_password = <<ram'.mqtt_host>>
  BY DEF PasswordForItsHost
<1>1. ~torn
  BY DEF Submit
<1>2. ram' = Committed(ram, p) /\ BrokerRefusal(ram, p) = "ok"
  BY CommittedWhole DEF Submit, SyncInv
<1>3. /\ ram'.mqtt_host = Merged(p.mqtt_host, ram.mqtt_host)
      /\ ram'.mqtt_password = Secret(ram.mqtt_password, p.mqtt_password)
  BY <1>2 DEF Committed
<1>4. CASE Decide(ram.mqtt_password # None, p.mqtt_password) = "STORE"
  <2>1. p.mqtt_password \notin {None, Empty, Sentinel, Bad}
    BY <1>2, <1>4 DEF Decide, BrokerRefusal
  <2> QED BY <1>3, <1>4, <2>1 DEF Secret
<1>5. CASE Decide(ram.mqtt_password # None, p.mqtt_password) = "KEEP"
  <2>1. ram'.mqtt_password = ram.mqtt_password
    BY <1>3, <1>5 DEF Secret
  <2>2. ram'.mqtt_host = ram.mqtt_host
    <3>1. p.mqtt_host \in Hosts \cup {NoHost, None}
      BY <1>2 DEF BrokerRefusal
    <3>2. ~(p.mqtt_host \in Hosts /\ p.mqtt_host # ram.mqtt_host)
      BY <1>2, <1>5, <2>1 DEF BrokerRefusal
    <3> QED BY <1>3, <3>1, <3>2 DEF Merged
  <2> QED BY <1>1, <2>1, <2>2 DEF PasswordForItsHost
<1>6. Decide(ram.mqtt_password # None, p.mqtt_password) \in {"STORE", "KEEP"}
  <2>1. Decide(ram.mqtt_password # None, p.mqtt_password) # "REJECT"
    BY <1>2 DEF BrokerRefusal
  <2>2. Decide(ram.mqtt_password # None, p.mqtt_password) # "CLEAR"
    BY <1>3 DEF Secret
  <2> QED BY <2>1, <2>2 DEF Decide
<1> QED BY <1>4, <1>5, <1>6

LEMMA PasswordStep ==
  ASSUME \A doc : IsDocument(doc) => TypedForItsHost(doc), IInv, SyncInv, PasswordForItsHost, [SNext]_svars
  PROVE  PasswordForItsHost'
<1>0. {"mqtt_host", "mqtt_password"} \subseteq DOMAIN ram
  BY DEF SyncInv, Whole, Defaults
<1>1. CASE WriteOk \/ WriteFails \/ ProvisionStore \/ CommitKnownGood \/ RestoreStore \/ UNCHANGED svars
  BY <1>1 DEF WriteOk, WriteFails, ProvisionStore, CommitKnownGood, RestoreStore, svars,
              PasswordForItsHost
<1>2. CASE PostConfig
  <2>1. PICK body \in Bodies(ram) : ParseConfig(body).status = "ok" /\ Submit(ParseConfig(body).patch)
    BY <1>2 DEF PostConfig
  <2>2. ParseConfig(body).patch = body /\ body.mqtt_password # Junk
    BY <2>1 DEF ParseConfig, Judged
  <2>3. body.mqtt_password \in {None, Empty, Sentinel, Bad, <<Merged(body.mqtt_host, ram.mqtt_host)>>}
    BY <2>2 DEF TypedForItsHost, IInv
  <2> QED BY <2>1, <2>2, <2>3, PasswordSubmit
<1>3. CASE PostCommand
  <2>1. PICK p \in Commands : Submit(p)
    BY <1>3 DEF PostCommand
  <2> QED BY <2>1, PasswordsAssumption, PasswordSubmit
<1>4. CASE ProvisionTell \/ RestoreTell
  <2>1. ram'.mqtt_host = ram.mqtt_host /\ ram'.mqtt_password = ram.mqtt_password /\ torn' = torn
    BY <1>0, <1>4 DEF ProvisionTell, RestoreTell
  <2> QED BY <2>1 DEF PasswordForItsHost
<1>5. CASE PowerCut
  <2> SUFFICES ASSUME ~torn' PROVE PasswordForItsHost'
    BY DEF PasswordForItsHost
  <2>1. ram' = Loaded(flash) /\ job # "save" /\ dirty = "clean" /\ ~torn
    BY <1>5 DEF PowerCut, Boot
  <2>2. Loaded(flash) = [ram EXCEPT !.wifi = Loaded(flash).wifi]
    BY <2>1 DEF SyncInv, Synced
  <2>3. ram'.mqtt_host = ram.mqtt_host /\ ram'.mqtt_password = ram.mqtt_password
    BY <1>0, <2>1, <2>2
  <2> QED BY <2>1, <2>3 DEF PasswordForItsHost
<1> QED BY <1>1, <1>2, <1>3, <1>4, <1>5 DEF SNext

\* PasswordForItsHost: over every order of edits, restarts and migrations the
\* stored password goes to the broker it was typed for (the broker pair of
\* ot_config_apply_ex, ot_config_apply.c), so long as what is typed is for the address beside it
\* and no save was torn between the two keys.
THEOREM PasswordGoesHome ==
  ASSUME \A doc : IsDocument(doc) => TypedForItsHost(doc)
  PROVE  SSpec => []PasswordForItsHost
<1>1. IInv /\ SyncInv /\ PasswordForItsHost /\ [SNext]_svars => PasswordForItsHost'
  BY PasswordStep
<1> QED BY <1>1, PasswordInitially, Synchrony, PTL DEF SSpec

=============================================================================
