----------------------------- MODULE OtCommands ------------------------------
(***************************************************************************)
(* A command on its way: from a web page (httpd, one task for all of its   *)
(* requests) or from the broker (the link's task), through the gate and    *)
(* ot_command_check, to the bus or to ot_thermostat_control_apply and the  *)
(* store, while the thermostat's task ticks, the boiler says what it       *)
(* takes and the radio moves.                                              *)
(*                                                                         *)
(* The bus is what OtWriteSlot promises.  The executor (OtControl) is cut  *)
(* down to what these paths see of it: the mode and the season it last     *)
(* stepped with, HA's setpoint in RAM, and the value of ID 1 it holds,     *)
(* which the ladder may set to any of Flows; when it asks for ID 56 is     *)
(* left open.  Temperatures are in tenths of a degree.                     *)
(***************************************************************************)
EXTENDS OtAccess

CONSTANTS
  Requests,      \* what web clients send
  HaOrders,      \* what Home Assistant sends
  Flows,         \* values of ID 1 the ladder may choose
  FlowMin, FlowMax,
  Fallback,      \* failsafe_setpoint: HA's until it says one
  DhwBounds,     \* upper bounds of ID 56 the boiler may report
  TableBound,    \* the table's own, until it has
  Passwords,     \* what an owner may have set
  Salt,          \* of the records written
  FrameMax,      \* upper bound of the entity that is written as a frame
  ResendTicks,   \* OT_CONTROL_RESEND_MS in ticks
  BusTicks,      \* ticks that may begin while one write waits or is on the wire
  SeqMod,        \* where the bus's counter of answered ID 1 wraps (2^32)
  Radios,        \* states of the radio
  Gone,          \* sets of identifiers the boiler may say it does not know
  Orders, Turns, Asks, Moves,  \* bounds: commands, turns of the ladder, asks, moves of the world
  Events                       \* and a bound on all of them together

\* The record of a password, or none.
RecordOf(p) == IF p = NoPassword THEN NoPassword ELSE HashPassword(p, Salt, 10000)

\* The requests that carry the password set.
Proven ==
  UNION {{<<r, p>> : p \in {q \in Passwords : Authenticated(r, RecordOf(q))}} : r \in Requests}

FrameId == 16
FrameWrite(v) == [id |-> FrameId, value |-> v, none |-> FALSE]
TSet(v)    == [id |-> 1, value |-> v, none |-> FALSE]
TdhwSet(v) == [id |-> 56, value |-> v, none |-> FALSE]

ASSUME CommandsAssumption ==
  /\ Flows \subseteq FlowMin..FlowMax /\ FlowMin \in Nat /\ FlowMax \in Nat /\ Fallback \in Nat
  /\ DhwBounds \subseteq Nat /\ TableBound \in Nat /\ FrameMax \in Nat
  /\ ResendTicks \in Nat \ {0} /\ BusTicks \in Nat /\ SeqMod \in Nat \ {0}

\* ot_control_io_dc_f88 and ot_control_io_f88_dc on values that are not negative.
DcF88(dc)  == (dc * 256 + 5) \div 10
F88Dc(raw) == (raw * 10 + 128) \div 256

VARIABLES
  password, radio,     \* ot_net: what the record was made of, and what the gate asks
  stored,              \* the settings: mode, season, local setpoint, DHW setpoint
  seen,                \* s_cfg: what the executor stepped with
  ha,                  \* HA's flow setpoint in RAM
  job,                 \* the command each writer is carrying out
  boiler,              \* ot_state: upper bound of ID 56, identifiers not supported
  test,                \* the line test: "off", or who started it
  tick, pub, out,      \* the tick under way: its stage, its snapshot, its outputs
  held, confirmed, okAge, seenSeq,   \* the held ID 1
  owed,                \* s_owed.dhw
  slot, wire, puts, id1,             \* the bus
  late,                \* ticks begun since its place was last empty
  latest,              \* history: each setting as its last writer left it
  asked,               \* history: an ID 56 asked for and not yet in the slot
  left                 \* bounds: what the environment may still do

netVars  == <<password, radio>>
execVars == <<seen, ha>>
tickVars == <<tick, pub, out, held, confirmed, okAge, seenSeq, owed, asked>>
busVars  == <<slot, wire, puts, id1, late>>
cVars == <<netVars, stored, execVars, job, boiler, test, tickVars, busVars, latest, left>>

Bus == INSTANCE OtWriteSlot
         WITH HandWrites <- {FrameWrite(v) : v \in 0..FrameMax},
              PoliteWrites <- {TSet(DcF88(v)) : v \in Flows} \cup
                              {TdhwSet(DcF88(v)) : v \in {o.value : o \in HaOrders}},
              GenMod <- 1

Idle == [at |-> "idle"]
Writers == {"httpd", "link"}
OriginOf(w) == IF w = "httpd" THEN "WEB" ELSE "HA"

CInit ==
  /\ password \in Passwords \cup {NoPassword}
  /\ radio = [ap |-> FALSE, address |-> TRUE]
  /\ stored \in [mode : {"LOCAL", "HA"}, season : {TRUE}, setpoint : {FlowMin}, dhw : {0}]
  /\ seen = stored /\ ha = Fallback /\ job = [w \in Writers |-> Idle]
  /\ boiler = [bound |-> TableBound, unsupported |-> {}]
  /\ test = "off"
  /\ tick = "rest" /\ pub = stored /\ out = FALSE
  /\ held = FlowMin /\ confirmed = FALSE /\ okAge = 0 /\ seenSeq = 0
  /\ owed = FALSE /\ asked = FALSE
  /\ Bus!Init /\ late = 0
  /\ latest = stored
  /\ left = [all |-> Events, orders |-> Orders, turns |-> Turns, asks |-> Asks, moves |-> Moves]

Spend(what) ==
  /\ left[what] > 0 /\ left.all > 0
  /\ left' = [left EXCEPT ![what] = @ - 1, !.all = @ - 1]

-----------------------------------------------------------------------------
(* What may be written, and by whom.                                        *)

\* Mutant of ControlCheck: the early answer is taken for the final one.
ControlCheckNothing(cfg, origin, cmd, value) == TRUE

\* ot_control_check: ownership, then the executor's own bounds.
ControlCheck(cfg, origin, cmd, value) ==
  /\ IF origin = "HA" THEN cfg.mode = "HA" ELSE cfg.mode = "LOCAL" \/ cmd = "SEASON"
  /\ CASE cmd = "SEASON"       -> value = 0 \/ (value = 1 /\ origin # "HA")
       [] cmd = "CH_SETPOINT"  -> value \in FlowMin..FlowMax
       [] cmd = "DHW_SETPOINT" -> value > 0

\* ot_command_encode of the entity written as a frame, and of DHW's for its checks.
FrameOk(value) == FrameId \notin boiler.unsupported /\ value \in 0..FrameMax
DhwOk(value)   == 56 \notin boiler.unsupported /\ value \in 0..boiler.bound

\* ot_command_check: what is wrong with the request whoever sends it, then who
\* sends it.  A flow setpoint is not a frame: ID 1's support is not asked.
CommandCheck(origin, cmd, value) ==
  CASE cmd = "FRAME"        -> FrameOk(value) /\ origin = "WEB"
    [] cmd = "DHW_SETPOINT" -> DhwOk(value) /\ ControlCheck(seen, origin, cmd, value)
    [] OTHER                -> ControlCheck(seen, origin, cmd, value)

\* otc_bound.
OnGrid(value) ==
  LET q == ((value + 2) \div 5) * 5
  IN  IF q > FlowMax THEN FlowMax ELSE IF q < FlowMin THEN FlowMin ELSE q

\* ot_control_apply's persist, and ot_control_io_patch: one field, or none.
Patch(settings, origin, cmd, value) ==
  CASE cmd = "SEASON"       -> [settings EXCEPT !.season = (value = 1)]
    [] cmd = "DHW_SETPOINT" -> [settings EXCEPT !.dhw = value]
    [] cmd = "CH_SETPOINT" /\ origin = "WEB" -> [settings EXCEPT !.setpoint = OnGrid(value)]
    [] OTHER -> settings

-----------------------------------------------------------------------------
(* The web: one request at a time.                                          *)

\* The gate lets a request in; its body is read, which may take a while.  A
\* request it turns away changes nothing.
Request(r) ==
  /\ Spend("orders") /\ job["httpd"] = Idle
  /\ Allowed(r, radio, password # NoPassword, <<r, password>> \in Proven)
  /\ job' = [job EXCEPT !["httpd"] =
               [at |-> "admitted", cmd |-> r.cmd, value |-> r.value,
                claimed |-> password # NoPassword,
                proven |-> <<r, password>> \in Proven]]
  /\ UNCHANGED <<netVars, stored, execVars, boiler, test, tickVars, busVars, latest>>

\* Refused, or carried out on the spot.
Done(w) == job' = [job EXCEPT ![w] = Idle]

\* Mutant of MayHalt: the route's rule is enough.
MayHaltAlways == TRUE

\* Asked again after the operation is found.
MayHalt == CheckOp(TRUE, password # NoPassword)

\* ot_http_op_post: the operation that halts the conversation.
StartTest ==
  LET j == job["httpd"]
  IN  /\ j.at = "admitted" /\ j.cmd = "LINETEST"
      /\ test' = IF MayHalt /\ test = "off"
                 THEN (IF j.proven THEN "owner" ELSE "stranger") ELSE test
      /\ Done("httpd")
      /\ UNCHANGED <<netVars, stored, execVars, boiler, tickVars, busVars, latest, left>>

\* ot_http_entity_post, the early answer; a frame goes to the bus at once and
\* evicts whatever waits there.
CheckWeb ==
  LET j == job["httpd"]
  IN  /\ j.at = "admitted" /\ j.cmd \notin {"LINETEST", "MODE", "PASSWORD"}
      /\ IF ~CommandCheck("WEB", j.cmd, j.value)
         THEN Done("httpd") /\ UNCHANGED busVars
         ELSE IF j.cmd = "FRAME"
         THEN Done("httpd") /\ Bus!Put(FrameWrite(j.value)) /\ UNCHANGED late
         ELSE /\ job' = [job EXCEPT !["httpd"].at = "checked"]
              /\ UNCHANGED busVars
      /\ UNCHANGED <<netVars, stored, execVars, boiler, test, tickVars, latest, left>>

\* POST /api/config: straight to the store, ordered by its lock alone.  The
\* owner may set a password and may clear it.
PageSave ==
  LET j == job["httpd"]
  IN  /\ j.at = "admitted" /\ j.cmd \in {"MODE", "PASSWORD"} /\ Done("httpd")
      /\ stored' = IF j.cmd = "MODE" THEN [stored EXCEPT !.mode = j.value] ELSE stored
      /\ latest' = IF j.cmd = "MODE" THEN [latest EXCEPT !.mode = j.value] ELSE latest
      /\ password' = IF j.cmd = "PASSWORD" THEN j.value ELSE password
      /\ UNCHANGED <<radio, execVars, boiler, test, tickVars, busVars, left>>

\* ot_mqtt_handle, the early answer; a frame is not Home Assistant's to write.
CheckHa(o) ==
  /\ Spend("orders") /\ job["link"] = Idle
  /\ CommandCheck("HA", o.cmd, o.value)
  /\ job' = [job EXCEPT !["link"] = [at |-> "checked", cmd |-> o.cmd, value |-> o.value]]
  /\ UNCHANGED <<netVars, stored, execVars, boiler, test, tickVars, busVars, latest>>

-----------------------------------------------------------------------------
(* ot_thermostat_control_apply: the final answer and the save, under s_apply. *)

\* Mutant of MayApply: no mutex.
MayApplyAlways == TRUE

MayApply == \A w \in Writers : job[w].at # "applied"

Apply(w) ==
  LET j == job[w]
      origin == OriginOf(w)
  IN  /\ j.at = "checked" /\ MayApply
      /\ IF ~ControlCheck(seen, origin, j.cmd, j.value)
         THEN Done(w) /\ UNCHANGED <<ha, latest>>
         ELSE IF origin = "HA" /\ j.cmd = "CH_SETPOINT"
         THEN Done(w) /\ ha' = OnGrid(j.value) /\ UNCHANGED latest
         ELSE /\ job' = [job EXCEPT ![w].at = "applied"]
              /\ latest' = Patch(latest, origin, j.cmd, j.value)
              /\ UNCHANGED ha
      /\ UNCHANGED <<netVars, stored, seen, boiler, test, tickVars, busVars, left>>

Persist(w) ==
  /\ job[w].at = "applied" /\ Done(w)
  /\ stored' = Patch(stored, OriginOf(w), job[w].cmd, job[w].value)
  /\ UNCHANGED <<netVars, execVars, boiler, test, tickVars, busVars, latest, left>>

-----------------------------------------------------------------------------
(* The thermostat's tick.                                                   *)

Empty == slot = Bus!NoWrite /\ wire = Bus!NoWrite

\* ot_net_config_snapshot.  The bus is quicker than the resend of ID 1: unless
\* a test halts it, a write is over before BusTicks more ticks begin.
TickRead ==
  /\ tick = "rest" /\ tick' = "read" /\ pub' = stored
  /\ Empty \/ test # "off" \/ late < BusTicks
  /\ late' = IF Empty \/ test # "off" THEN 0 ELSE late + 1
  /\ UNCHANGED <<netVars, stored, execVars, job, boiler, test, out, held, confirmed,
                 okAge, seenSeq, owed, asked, slot, wire, puts, id1, latest, left>>

\* ot_control_io_confirm, then ot_control_step under the spinlock.
TickStep(flow, ask) ==
  LET report == id1.seq # seenSeq
      right  == report /\ F88Dc(id1.raw) = flow
  IN  /\ tick = "read" /\ tick' = "stepped"
      /\ seen' = pub
      /\ ha' = IF pub.mode = "HA" /\ (seen.mode = "LOCAL" \/ (pub.season /\ ~seen.season))
               THEN Fallback ELSE ha
      /\ held' = flow
      /\ confirmed' = IF report THEN right ELSE confirmed /\ flow = held
      /\ okAge' = IF right THEN 0 ELSE IF okAge < ResendTicks THEN okAge + 1 ELSE okAge
      /\ seenSeq' = id1.seq
      /\ ask => pub.dhw # 0
      /\ out' = ask
      /\ asked' = ((asked \/ ask) /\ pub.dhw # 0)
      /\ LET turn == IF flow # held THEN 1 ELSE 0
             once == IF ask THEN 1 ELSE 0
         IN  /\ left' = [left EXCEPT !.turns = @ - turn, !.asks = @ - once,
                                     !.all = @ - turn - once]
             /\ left'.turns >= 0 /\ left'.asks >= 0 /\ left'.all >= 0
      /\ UNCHANGED <<netVars, stored, job, boiler, test, pub, owed, busVars, latest>>

\* Mutant of OwedNow: each tick starts a new record.
OwedThisTick == out /\ seen.dhw # 0

\* The ask is recorded before anything is offered; an unset value is never owed.
OwedNow == (owed \/ out) /\ seen.dhw # 0

\* Both offers are made politely.
Offered == Empty

\* ot_control_io_send: ID 1 first; ID 56 carries the present target and is
\* discharged only when the bus takes it.
TickSend ==
  LET first  == Offered /\ (~confirmed \/ okAge >= ResendTicks)
      second == Offered /\ ~(~confirmed \/ okAge >= ResendTicks) /\ OwedNow
  IN  /\ tick = "stepped" /\ tick' = "rest" /\ out' = FALSE
      /\ CASE first  -> Bus!Put(TSet(DcF88(held)))
           [] second -> Bus!Put(TdhwSet(DcF88(seen.dhw)))
           [] OTHER  -> UNCHANGED <<slot, wire, puts, id1>>
      /\ owed' = (OwedNow /\ ~second)
      /\ asked' = (asked /\ ~second)
      /\ UNCHANGED <<late, netVars, stored, execVars, job, boiler, test, pub, held, confirmed,
                     okAge, seenSeq, latest, left>>

-----------------------------------------------------------------------------
(* The bus, which a line test halts, and the world.                         *)

BusSends ==
  /\ test = "off" /\ Bus!Send
  /\ UNCHANGED <<late, netVars, stored, execVars, job, boiler, test, tickVars, latest, left>>

BusOver(answered) ==
  /\ Bus!Over(answered)
  /\ late' = 0
  /\ UNCHANGED <<netVars, stored, execVars, job, boiler, test, tickVars, latest, left>>

TestEnds ==
  /\ test # "off" /\ test' = "off"
  /\ UNCHANGED <<netVars, stored, execVars, job, boiler, tickVars, busVars, latest, left>>

\* ID 48 is read, or a second UNKNOWN-DATAID is heard.
BoilerSays(bound, gone) ==
  /\ Spend("moves") /\ boiler' = [bound |-> bound, unsupported |-> boiler.unsupported \cup gone]
  /\ UNCHANGED <<netVars, stored, execVars, job, test, tickVars, busVars, latest>>

\* The network task.
RadioMoves(to) ==
  /\ Spend("moves") /\ radio' = to
  /\ UNCHANGED <<password, stored, execVars, job, boiler, test, tickVars, busVars, latest>>

CNext ==
  \/ \E r \in Requests : Request(r)
  \/ StartTest
  \/ CheckWeb
  \/ PageSave
  \/ \E o \in HaOrders : CheckHa(o)
  \/ \E w \in Writers : Apply(w)
  \/ \E w \in Writers : Persist(w)
  \/ TickRead
  \/ \E flow \in Flows, ask \in BOOLEAN : TickStep(flow, ask)
  \/ TickSend
  \/ BusSends
  \/ \E answered \in BOOLEAN : BusOver(answered)
  \/ TestEnds
  \/ \E bound \in DhwBounds, gone \in Gone : BoilerSays(bound, gone)
  \/ \E to \in Radios : RadioMoves(to)

\* The tasks run, a line test ends, a conversation is over in the end, and a
\* boiler that is asked for ever answers again and again.
CFairness ==
  /\ WF_cVars(TickRead) /\ WF_cVars(\E flow \in Flows, ask \in BOOLEAN : TickStep(flow, ask))
  /\ WF_cVars(TickSend)
  /\ WF_cVars(BusSends) /\ WF_cVars(TestEnds)
  /\ WF_cVars(\E answered \in BOOLEAN : BusOver(answered)) /\ SF_cVars(BusOver(TRUE))

CSpec == CInit /\ [][CNext]_cVars /\ CFairness

-----------------------------------------------------------------------------
\* Whatever the interleaving of two writers of one setting, of the page that
\* saves the mode and of the ticks: when no command is between its effect and
\* its save, the store holds each setting as its last writer left it.
StoreKeepsLast == (\A w \in Writers : job[w].at # "applied") => stored = latest

\* A command judged early is carried out only if the executor's mode still
\* makes its sender the owner: across a flip that the executor has seen, a
\* late command of the former owner leaves no mark in RAM or in the store.
NoLateOwner ==
  [][/\ \A w \in Writers :
          job[w].at = "checked" /\ job'[w].at = "applied" =>
            IF w = "link" THEN seen.mode = "HA"
            ELSE seen.mode = "LOCAL" \/ job[w].cmd = "SEASON"
     /\ ha' # ha /\ tick' = tick => seen.mode = "HA"]_cVars

\* The bus falls silent for a line test only on the word of the owner.
SilencedByOwner == test \in {"off", "owner"}

\* The executor asks for ID 56 once; the bus may refuse it for as long as ID 1
\* or hand writes hold the only place, and takes it in the end.
AskedIsWritten == asked ~> ~asked
==============================================================================
