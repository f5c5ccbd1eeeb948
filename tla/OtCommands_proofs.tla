-------------------------- MODULE OtCommands_proofs --------------------------
(***************************************************************************)
(* Commands on their way, for every set of requests, orders, passwords and *)
(* temperatures.  Three arguments:                                         *)
(*                                                                         *)
(*   Pending      ot_thermostat_control_apply holds s_apply over its answer *)
(*                and its save, so at most one command has had its effect  *)
(*                and not yet its save; what the store lacks is exactly    *)
(*                that command's field, and the page that saves the mode   *)
(*                without the mutex writes another field.                  *)
(*   Doorkeeper   httpd carries out one request at a time, so the password *)
(*                a request was let in under is still the one set when its *)
(*                operation is found: a request that is let in while one   *)
(*                is set has proven it.                                    *)
(*   the executor's own answer, given under the lock, is the last word on  *)
(*                who owns a command, whatever was answered before.        *)
(***************************************************************************)
EXTENDS OtCommands, TLAPS

Fields == {"mode", "season", "setpoint", "dhw"}

\* A job under way names its command.
JobType ==
  /\ DOMAIN job = Writers
  /\ \A w \in Writers : job[w].at # "idle" => {"at", "cmd", "value"} \subseteq DOMAIN job[w]

SettingsType == DOMAIN stored = Fields /\ DOMAIN latest = Fields

\* At most one command is between its effect and its save.
OneApplied ==
  \A v, w \in Writers : job[v].at = "applied" /\ job[w].at = "applied" => v = w

\* The store lacks that command's field and nothing else.
Pending ==
  /\ (\A w \in Writers : job[w].at # "applied") => latest = stored
  /\ \A w \in Writers : job[w].at = "applied"
       => latest = Patch(stored, OriginOf(w), job[w].cmd, job[w].value)

\* Who was let in while a password was set has proven the one set now.
Doorkeeper ==
  job["httpd"].at = "admitted" =>
    /\ job["httpd"].claimed <=> password # NoPassword
    /\ job["httpd"].claimed => job["httpd"].proven

IInv == JobType /\ SettingsType /\ OneApplied /\ Pending /\ Doorkeeper /\ SilencedByOwner

-----------------------------------------------------------------------------
(* The operators.                                                           *)

\* Of a device with a password nothing but the password opens the gate.
LEMMA GateAsksForIt ==
  ASSUME NEW r, NEW air, NEW granted \in BOOLEAN, Allowed(r, air, TRUE, granted)
  PROVE  granted
<1>1. GateAnswer(r, air, TRUE, granted) = 0
  BY DEF Allowed
<1>2. Policy(r.method, r.path, Provisioned(air), TRUE, granted) = "ALLOW"
  <2>1. HostHeaderOk(r, air)
    <3>1. ~HostHeaderOk(r, air) => GateAnswer(r, air, TRUE, granted) = 403
      BY Zenon DEF GateAnswer
    <3>2. 403 # 0
      OBVIOUS
    <3>3. QED
      BY <1>1, <3>1, <3>2, Zenon
  <2>2. TypeOk(r)
    <3>1. ~TypeOk(r) => GateAnswer(r, air, TRUE, granted) = 415
      BY <2>1, Zenon DEF GateAnswer
    <3>2. 415 # 0
      OBVIOUS
    <3>3. QED
      BY <1>1, <3>1, <3>2, Zenon
  <2> DEFINE verdict == Policy(r.method, r.path, Provisioned(air), TRUE, granted)
  <2>3. (IF verdict = "ALLOW" THEN 0 ELSE IF verdict = "UNAUTHORIZED" THEN 401 ELSE 403) = 0
    BY <1>1, <2>1, <2>2, Zenon DEF GateAnswer
  <2> HIDE DEF verdict
  <2>4. verdict = "ALLOW"
    BY <2>3
  <2>5. QED
    BY <2>4 DEF verdict
<1>3. Provisioned(air) \in BOOLEAN
  BY DEF Provisioned
<1>4. QED
  BY <1>2, <1>3 DEF Policy, WithPassword

\* A patch leaves the settings their fields,
LEMMA PatchType ==
  ASSUME NEW s, DOMAIN s = Fields, NEW origin, NEW cmd, NEW value
  PROVE  DOMAIN Patch(s, origin, cmd, value) = Fields
BY DEF Patch, Fields

WithMode(s, mode) == [s EXCEPT !.mode = mode]

\* and none of them is the mode, so that it and the page's save commute.
LEMMA PatchCommutes ==
  ASSUME NEW s, DOMAIN s = Fields, NEW origin, NEW cmd, NEW value, NEW mode
  PROVE  WithMode(Patch(s, origin, cmd, value), mode) = Patch(WithMode(s, mode), origin, cmd, value)
BY DEF Patch, Fields, WithMode

-----------------------------------------------------------------------------
\* At rest, on a device with or without a password.
LEMMA InitInv == CInit => IInv
<1> SUFFICES ASSUME CInit PROVE IInv
  OBVIOUS
<1>1. job = [w \in Writers |-> Idle] /\ latest = stored /\ test = "off"
  BY DEF CInit
<1>2. DOMAIN stored = Fields
  BY DEF CInit, Fields
<1>3. \A w \in Writers : job[w].at = "idle"
  BY <1>1 DEF Idle
<1>4. QED
  BY <1>1, <1>2, <1>3
  DEF IInv, JobType, SettingsType, OneApplied, Pending, Doorkeeper, SilencedByOwner, Writers

\* A writer that is done, or refused, leaves the others' jobs as they are.
LEMMA DoneKeeps ==
  ASSUME JobType, NEW w \in Writers, Done(w)
  PROVE  /\ JobType' /\ job'[w] = Idle
         /\ \A v \in Writers : v # w => job'[v] = job[v]
BY DEF JobType, Done, Idle

\* A writer that takes up a new place keeps its command.
LEMMA MovesOn ==
  ASSUME JobType, NEW w \in Writers, job[w].at # "idle", NEW at,
         job' = [job EXCEPT ![w].at = at]
  PROVE  /\ JobType' /\ job'[w].at = at
         /\ job'[w].cmd = job[w].cmd /\ job'[w].value = job[w].value
         /\ \A v \in Writers : v # w => job'[v] = job[v]
<1>1. {"at", "cmd", "value"} \subseteq DOMAIN job[w] /\ DOMAIN job = Writers
  BY DEF JobType
<1>2. job'[w] = [job[w] EXCEPT !.at = at] /\ DOMAIN job' = Writers
  BY <1>1
<1>3. \A v \in Writers : v # w => job'[v] = job[v]
  BY <1>1
<1>4. job'[w].at = at /\ job'[w].cmd = job[w].cmd /\ job'[w].value = job[w].value
  BY <1>1, <1>2
<1>5. DOMAIN job'[w] = DOMAIN job[w]
  BY <1>2
<1>6. JobType'
  BY <1>1, <1>2, <1>3, <1>5 DEF JobType
<1>7. QED
  BY <1>3, <1>4, <1>6

\* A request is let in.
LEMMA RequestKeeps ==
  ASSUME IInv, NEW r \in Requests, Request(r)
  PROVE  IInv'
<1> USE DEF IInv
<1>1. /\ job["httpd"].at = "idle"
      /\ Allowed(r, radio, password # NoPassword, <<r, password>> \in Proven)
      /\ job' = [job EXCEPT !["httpd"] =
               [at |-> "admitted", cmd |-> r.cmd, value |-> r.value,
                claimed |-> password # NoPassword,
                proven |-> <<r, password>> \in Proven]]
      /\ UNCHANGED <<password, stored, latest, test>>
  BY DEF Request, netVars, Idle
<1>2. /\ DOMAIN job' = Writers
      /\ job'["httpd"].at = "admitted" /\ {"at", "cmd", "value"} \subseteq DOMAIN job'["httpd"]
      /\ job'["httpd"].claimed = (password # NoPassword)
      /\ job'["httpd"].proven = (<<r, password>> \in Proven)
      /\ \A w \in Writers : w # "httpd" => job'[w] = job[w]
  BY <1>1 DEF JobType, Writers
<1>3. JobType' /\ OneApplied' /\ Pending'
  BY <1>1, <1>2 DEF JobType, OneApplied, Pending
<1>4. password # NoPassword => <<r, password>> \in Proven
  <2>1. SUFFICES ASSUME password # NoPassword PROVE <<r, password>> \in Proven
    OBVIOUS
  <2> DEFINE granted == <<r, password>> \in Proven
  <2>2. granted \in BOOLEAN
    OBVIOUS
  <2>3. (password # NoPassword) = TRUE
    BY <2>1
  <2>4. Allowed(r, radio, TRUE, granted)
    BY <1>1, <2>3, Zenon
  <2> HIDE DEF granted
  <2>5. granted
    BY <2>2, <2>4, GateAsksForIt
  <2>6. QED
    BY <2>5 DEF granted
<1>5. Doorkeeper'
  BY <1>1, <1>2, <1>4 DEF Doorkeeper
<1>6. SettingsType' /\ SilencedByOwner'
  BY <1>1 DEF SettingsType, SilencedByOwner
<1>7. QED
  BY <1>3, <1>5, <1>6

\* A writer that is done without an effect leaves all as it was.
LEMMA DoneKeepsAll ==
  ASSUME IInv, NEW w \in Writers, job[w].at # "applied", Done(w),
         UNCHANGED <<password, stored, latest>>, test' \in {"off", "owner"}
  PROVE  IInv'
<1> USE DEF IInv
<1>1. JobType' /\ job'[w].at = "idle" /\ (\A v \in Writers : v # w => job'[v] = job[v])
  BY DoneKeeps DEF Idle
<1>2. OneApplied' /\ Pending'
  BY <1>1 DEF OneApplied, Pending
<1>3. Doorkeeper'
  BY <1>1 DEF Doorkeeper, Writers
<1>4. QED
  BY <1>1, <1>2, <1>3 DEF SettingsType, SilencedByOwner

\* So does one whose command has passed its early check.
LEMMA CheckedKeeps ==
  ASSUME IInv, NEW w \in Writers, JobType', job[w].at # "applied", job'[w].at = "checked",
         \A v \in Writers : v # w => job'[v] = job[v],
         UNCHANGED <<password, stored, latest, test>>
  PROVE  IInv'
BY DEF IInv, OneApplied, Pending, Doorkeeper, SettingsType, SilencedByOwner, Writers

\* The test starts on the word of whoever is let in, if a password is set.
LEMMA StartTestKeeps == IInv /\ StartTest => IInv'
<1> SUFFICES ASSUME IInv, StartTest PROVE IInv'
  OBVIOUS
<1>1. /\ job["httpd"].at = "admitted" /\ Done("httpd")
      /\ UNCHANGED <<password, stored, latest>>
      /\ test' = IF MayHalt /\ test = "off"
                 THEN (IF job["httpd"].proven THEN "owner" ELSE "stranger") ELSE test
  BY DEF StartTest, netVars
<1>2. MayHalt => job["httpd"].proven
  BY <1>1 DEF MayHalt, CheckOp, IInv, Doorkeeper
<1>3. test' \in {"off", "owner"}
  BY <1>1, <1>2 DEF IInv, SilencedByOwner
<1>4. QED
  BY <1>1, <1>3, DoneKeepsAll DEF Writers

\* The web's early answer, and a frame's write.
LEMMA CheckWebKeeps == IInv /\ CheckWeb => IInv'
<1> SUFFICES ASSUME IInv, CheckWeb PROVE IInv'
  OBVIOUS
<1>1. /\ job["httpd"].at = "admitted" /\ UNCHANGED <<password, stored, latest, test>>
      /\ Done("httpd") \/ job' = [job EXCEPT !["httpd"].at = "checked"]
  BY DEF CheckWeb, netVars
<1>2. test' \in {"off", "owner"}
  BY <1>1 DEF IInv, SilencedByOwner
<1>3. CASE Done("httpd")
  BY <1>1, <1>2, <1>3, DoneKeepsAll DEF Writers
<1>4. CASE job' = [job EXCEPT !["httpd"].at = "checked"]
  <2>1. "httpd" \in Writers /\ job["httpd"].at # "idle" /\ JobType
    BY <1>1 DEF Writers, IInv
  <2>2. /\ JobType' /\ job'["httpd"].at = "checked"
        /\ \A v \in Writers : v # "httpd" => job'[v] = job[v]
    BY <1>4, <2>1, MovesOn
  <2>3. QED
    BY <1>1, <2>1, <2>2, CheckedKeeps
<1>5. QED
  BY <1>1, <1>3, <1>4

\* The page saves the mode beside a command that may be half done.
LEMMA PageSaveKeeps == IInv /\ PageSave => IInv'
<1> SUFFICES ASSUME IInv, PageSave PROVE IInv'
  OBVIOUS
<1> USE DEF IInv
<1>1. /\ job["httpd"].at = "admitted" /\ Done("httpd") /\ test' = test
      /\ \/ stored' = stored /\ latest' = latest
         \/ /\ stored' = [stored EXCEPT !.mode = job["httpd"].value]
            /\ latest' = [latest EXCEPT !.mode = job["httpd"].value]
  BY DEF PageSave
<1>2. /\ JobType' /\ job'["httpd"].at = "idle"
      /\ \A v \in Writers : v # "httpd" => job'[v] = job[v]
  BY <1>1, DoneKeeps DEF Idle, Writers
<1>3. OneApplied' /\ Doorkeeper' /\ SilencedByOwner'
  BY <1>1, <1>2 DEF OneApplied, Doorkeeper, SilencedByOwner
<1>4. SettingsType'
  BY <1>1 DEF SettingsType
<1>5. Pending'
  <2>1. CASE stored' = stored /\ latest' = latest
    BY <1>1, <1>2, <2>1 DEF Pending
  <2>2. CASE /\ stored' = [stored EXCEPT !.mode = job["httpd"].value]
             /\ latest' = [latest EXCEPT !.mode = job["httpd"].value]
    <3>1. ASSUME \A w \in Writers : job'[w].at # "applied" PROVE latest' = stored'
      BY <1>1, <1>2, <2>2, <3>1 DEF Pending
    <3>2. ASSUME NEW w \in Writers, job'[w].at = "applied"
          PROVE  latest' = Patch(stored', OriginOf(w), job'[w].cmd, job'[w].value)
      <4>1. job'[w] = job[w]
        BY <1>2, <3>2
      <4>2. latest = Patch(stored, OriginOf(w), job[w].cmd, job[w].value)
        BY <3>2, <4>1 DEF Pending
      <4>3. /\ stored' = WithMode(stored, job["httpd"].value)
            /\ latest' = WithMode(latest, job["httpd"].value)
        BY <2>2 DEF WithMode
      <4>4. DOMAIN stored = Fields
        BY DEF SettingsType
      <4>5. QED
        BY <4>1, <4>2, <4>3, <4>4, PatchCommutes
    <3>3. QED
      BY <3>1, <3>2 DEF Pending
  <2>3. QED
    BY <1>1, <2>1, <2>2
<1>6. QED
  BY <1>2, <1>3, <1>4, <1>5

\* Home Assistant's early answer.
LEMMA CheckHaKeeps ==
  ASSUME IInv, NEW o \in HaOrders, CheckHa(o)
  PROVE  IInv'
<1>1. /\ job["link"].at = "idle" /\ UNCHANGED <<password, stored, latest, test>>
      /\ job' = [job EXCEPT !["link"] = [at |-> "checked", cmd |-> o.cmd, value |-> o.value]]
  BY DEF CheckHa, netVars, Idle
<1>2. /\ JobType' /\ job'["link"].at = "checked"
      /\ \A v \in Writers : v # "link" => job'[v] = job[v]
  BY <1>1 DEF IInv, JobType, Writers
<1>3. QED
  BY <1>1, <1>2, CheckedKeeps DEF Writers

\* The final answer, under the mutex.
LEMMA ApplyKeeps ==
  ASSUME IInv, NEW w \in Writers, Apply(w)
  PROVE  IInv'
<1>1. /\ job[w].at = "checked" /\ \A v \in Writers : job[v].at # "applied"
      /\ UNCHANGED <<password, stored, test>>
      /\ \/ Done(w) /\ latest' = latest
         \/ /\ job' = [job EXCEPT ![w].at = "applied"]
            /\ latest' = Patch(latest, OriginOf(w), job[w].cmd, job[w].value)
  BY DEF Apply, MayApply, netVars
<1>2. CASE Done(w) /\ latest' = latest
  <2>1. test' \in {"off", "owner"} /\ job[w].at # "applied"
    BY <1>1 DEF IInv, SilencedByOwner
  <2>2. QED
    BY <1>1, <1>2, <2>1, DoneKeepsAll
<1>3. CASE /\ job' = [job EXCEPT ![w].at = "applied"]
           /\ latest' = Patch(latest, OriginOf(w), job[w].cmd, job[w].value)
  <2>1. /\ JobType' /\ job'[w].at = "applied"
        /\ job'[w].cmd = job[w].cmd /\ job'[w].value = job[w].value
        /\ \A v \in Writers : v # w => job'[v] = job[v]
    BY <1>1, <1>3, MovesOn DEF IInv
  <2>2. latest = stored
    BY <1>1 DEF IInv, Pending
  <2>3. OneApplied' /\ Pending'
    BY <1>1, <1>3, <2>1, <2>2 DEF OneApplied, Pending
  <2>4. SettingsType'
    BY <1>1, <1>3, PatchType DEF IInv, SettingsType
  <2>5. Doorkeeper' /\ SilencedByOwner'
    BY <1>1, <2>1 DEF IInv, Doorkeeper, SilencedByOwner, Writers
  <2>6. QED
    BY <2>1, <2>3, <2>4, <2>5 DEF IInv
<1>4. QED
  BY <1>1, <1>2, <1>3

\* The save that completes it.
LEMMA PersistKeeps ==
  ASSUME IInv, NEW w \in Writers, Persist(w)
  PROVE  IInv'
<1> USE DEF IInv
<1>1. /\ job[w].at = "applied" /\ Done(w) /\ UNCHANGED <<password, latest, test>>
      /\ stored' = Patch(stored, OriginOf(w), job[w].cmd, job[w].value)
  BY DEF Persist, netVars
<1>2. JobType' /\ job'[w].at = "idle" /\ (\A v \in Writers : v # w => job'[v] = job[v])
  BY <1>1, DoneKeeps DEF Idle
<1>3. latest' = stored' /\ SettingsType'
  BY <1>1 DEF Pending, SettingsType
<1>4. \A v \in Writers : job'[v].at # "applied"
  BY <1>1, <1>2 DEF OneApplied
<1>5. OneApplied' /\ Pending'
  BY <1>3, <1>4 DEF OneApplied, Pending
<1>6. Doorkeeper' /\ SilencedByOwner'
  BY <1>1, <1>2 DEF Doorkeeper, SilencedByOwner, Writers
<1>7. QED
  BY <1>2, <1>3, <1>5, <1>6

\* What neither writes a setting nor judges a request: the tick, the bus, the
\* boiler and the radio.
Elsewhere ==
  \/ TickRead
  \/ \E flow \in Flows, ask \in BOOLEAN : TickStep(flow, ask)
  \/ TickSend
  \/ BusSends
  \/ \E answered \in BOOLEAN : BusOver(answered)
  \/ TestEnds
  \/ \E bound \in DhwBounds, gone \in Gone : BoilerSays(bound, gone)
  \/ \E to \in Radios : RadioMoves(to)

LEMMA ElsewhereKeeps == IInv /\ Elsewhere => IInv'
<1> SUFFICES ASSUME IInv, Elsewhere PROVE IInv'
  OBVIOUS
<1>1. UNCHANGED <<password, stored, job, latest>> /\ (test' = test \/ test' = "off")
  BY DEF Elsewhere, TickRead, TickStep, TickSend, BusSends, BusOver, TestEnds, BoilerSays,
     RadioMoves, netVars
<1>2. QED
  BY <1>1 DEF IInv, JobType, SettingsType, OneApplied, Pending, Doorkeeper, SilencedByOwner

\* The inductive step.
LEMMA NextInv == IInv /\ [CNext]_cVars => IInv'
<1> SUFFICES ASSUME IInv, [CNext]_cVars PROVE IInv'
  OBVIOUS
<1>1. CASE \E r \in Requests : Request(r)
  BY <1>1, RequestKeeps
<1>2. CASE \E o \in HaOrders : CheckHa(o)
  BY <1>2, CheckHaKeeps
<1>3. CASE \E w \in Writers : Apply(w) \/ Persist(w)
  BY <1>3, ApplyKeeps, PersistKeeps
<1>4. CASE Elsewhere
  BY <1>4, ElsewhereKeeps
<1>5. CASE UNCHANGED cVars
  BY <1>5 DEF cVars, netVars, IInv, JobType, SettingsType, OneApplied, Pending, Doorkeeper,
     SilencedByOwner
<1>6. QED
  BY <1>1, <1>2, <1>3, <1>4, <1>5, StartTestKeeps, CheckWebKeeps, PageSaveKeeps
  DEF CNext, Elsewhere

\* IInv holds throughout.
THEOREM Invariance == CSpec => []IInv
<1>1. QED
  BY InitInv, NextInv, PTL DEF CSpec

\* When no command is between its effect and its save, the store holds each
\* setting as its last writer left it.
THEOREM StoreKeepsTheLast == CSpec => []StoreKeepsLast
<1>1. IInv => StoreKeepsLast
  BY DEF IInv, Pending, StoreKeepsLast
<1>2. QED
  BY <1>1, Invariance, PTL

\* Only the owner's word halts the bus for a line test, though the password may
\* be set and cleared by the page while requests are on their way.
THEOREM OwnerSilences == CSpec => []SilencedByOwner
<1>1. IInv => SilencedByOwner
  BY DEF IInv
<1>2. QED
  BY <1>1, Invariance, PTL

-----------------------------------------------------------------------------
\* What the executor carries out is its owner's.
OwnersOnly ==
  /\ \A w \in Writers :
       job[w].at = "checked" /\ job'[w].at = "applied" =>
         IF w = "link" THEN seen.mode = "HA"
         ELSE seen.mode = "LOCAL" \/ job[w].cmd = "SEASON"
  /\ ha' # ha /\ tick' = tick => seen.mode = "HA"

\* Only the final answer moves a command to its effect.
LEMMA ApplyIsOwners ==
  ASSUME IInv, NEW w \in Writers, Apply(w)
  PROVE  OwnersOnly
<1>1. /\ \A v \in Writers : v # w => job'[v] = job[v]
      /\ job'[w].at = "applied" \/ ha' # ha
           => ControlCheck(seen, OriginOf(w), job[w].cmd, job[w].value)
      /\ ha' # ha => OriginOf(w) = "HA"
  <2>1. JobType /\ job[w].at = "checked"
    BY DEF IInv, Apply
  <2>2. CASE Done(w)
    BY <2>1, <2>2, DoneKeeps DEF Apply, Idle
  <2>3. CASE job' = [job EXCEPT ![w].at = "applied"]
    BY <2>1, <2>3, MovesOn DEF Apply, Done, Idle
  <2>4. QED
    BY <2>2, <2>3 DEF Apply
<1>2. QED
  BY <1>1 DEF OwnersOnly, ControlCheck, OriginOf, Writers

\* A late command of a former owner leaves no mark.
THEOREM NoLateOwners == CSpec => NoLateOwner
<1>1. IInv /\ [CNext]_cVars => [OwnersOnly]_cVars
  <2> SUFFICES ASSUME IInv, CNext PROVE OwnersOnly
    OBVIOUS
  <2>1. CASE \E w \in Writers : Apply(w)
    BY <2>1, ApplyIsOwners
  <2>2. CASE Elsewhere
    <3>1. job' = job /\ (ha' = ha \/ tick' # tick)
      BY <2>2 DEF Elsewhere, TickRead, TickStep, TickSend, BusSends, BusOver, TestEnds,
         BoilerSays, RadioMoves, execVars
    <3>2. QED
      BY <3>1 DEF OwnersOnly
  <2>3. CASE \/ \E r \in Requests : Request(r)
             \/ \E o \in HaOrders : CheckHa(o)
             \/ \E w \in Writers : Persist(w)
             \/ StartTest \/ CheckWeb \/ PageSave
    <3>1. ha' = ha
      BY <2>3 DEF Request, CheckHa, Persist, StartTest, CheckWeb, PageSave, execVars
    <3>2. \A w \in Writers : job'[w] = job[w] \/ job'[w].at # "applied"
      <4>1. DOMAIN job = Writers
        BY DEF IInv, JobType
      <4>2. CASE CheckWeb
        <5>1. Done("httpd") \/ job' = [job EXCEPT !["httpd"].at = "checked"]
          BY <4>2 DEF CheckWeb
        <5>2. job["httpd"].at = "admitted" /\ "httpd" \in Writers
          BY <4>2 DEF CheckWeb, Writers
        <5>3. QED
          BY <5>1, <5>2, DoneKeeps, MovesOn DEF IInv, Idle
      <4>3. ASSUME NEW w \in Writers, Done(w)
            PROVE  \A v \in Writers : job'[v] = job[v] \/ job'[v].at # "applied"
        BY <4>3, DoneKeeps DEF IInv, Idle
      <4>4. CASE StartTest \/ PageSave \/ \E w \in Writers : Persist(w)
        BY <4>3, <4>4 DEF StartTest, PageSave, Persist, Writers
      <4>5. ASSUME NEW r \in Requests, Request(r)
            PROVE  \A v \in Writers : job'[v] = job[v] \/ job'[v].at # "applied"
        <5>1. job'["httpd"].at = "admitted" /\ job'["link"] = job["link"]
          BY <4>1, <4>5 DEF Request, Writers
        <5>2. QED
          BY <5>1 DEF Writers
      <4>6. ASSUME NEW o \in HaOrders, CheckHa(o)
            PROVE  \A v \in Writers : job'[v] = job[v] \/ job'[v].at # "applied"
        <5>1. job'["link"].at = "checked" /\ job'["httpd"] = job["httpd"]
          BY <4>1, <4>6 DEF CheckHa, Writers
        <5>2. QED
          BY <5>1 DEF Writers
      <4>7. QED
        BY <2>3, <4>2, <4>4, <4>5, <4>6
    <3>3. QED
      BY <3>1, <3>2 DEF OwnersOnly
  <2>4. QED
    BY <2>1, <2>2, <2>3 DEF CNext, Elsewhere
<1>2. QED
  BY <1>1, Invariance, PTL DEF CSpec, NoLateOwner, OwnersOnly
==============================================================================
