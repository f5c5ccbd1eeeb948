-------------------------------- MODULE OtOps ---------------------------------
(***************************************************************************)
(* From a request body to a call: POST /api/ops/<name> and the body of     *)
(* POST /api/entities/<key> (ot_http_ops.c, ot_http_body.c,                *)
(* ot_wire_command.c), and the answer the client gets.  Numbers are in     *)
(* hundredths, cents; one beyond every limit here is Huge.                 *)
(*                                                                         *)
(* A request has the fields of OtAccess and                                *)
(*   op      the name behind /api/ops/                                     *)
(*   length  its Content-Length;  chunks  what the socket gives, in turn   *)
(*   doc     the tokens of its body                                        *)
(* The device is [radio, record, on], `on` while a line test runs.         *)
(***************************************************************************)
EXTENDS OtJson, OtAccess

Huge      == 2000000000
BodyMax   == 2048        \* OT_HTTP_BODY_MAX
ParamsMax == 4           \* OT_WIRE_PARAMS_MAX
NameRoom  == 24

TestMax == 30000         \* OT_BUS_TEST_MAX_MS
HalfMin == 100           \* OT_BUS_TEST_HALF_MIN_MS
HalfMax == 5000          \* OT_BUS_TEST_HALF_MAX_MS

\* Each operation, and whether it halts the conversation with the boiler.
Halts == [scan |-> FALSE, linetest |-> TRUE, boost |-> FALSE, boost_off |-> FALSE]

Answer(status) == [status |-> status, call |-> "none"]

-----------------------------------------------------------------------------
(* The body.                                                                *)

\* ot_http_read_body: 0 when all of it came, or the answer.
ReadBody(length, chunks) ==
  LET got[i \in 0..Len(chunks)] == IF i = 0 THEN 0 ELSE got[i - 1] + chunks[i]
      whole == \E i \in DOMAIN got : got[i] = length /\ \A j \in 1..i : chunks[j] > 0
  IN  IF length <= 0 \/ length >= BodyMax THEN 413 ELSE IF whole THEN 0 ELSE 400

Number(doc, key) == Value(doc, Seek(doc, key).at).cents

\* ot_wire_parse_entity_write: a flag or a number, never a guess at either.
ParseEntityWrite(doc) ==
  CASE Check(doc) # "OK" -> [status |-> "BAD_BODY"]
    [] Check(doc) = "OK" /\ GetBool(doc, "value") = "FOUND" ->
         [status |-> "OK", is_bool |-> TRUE,
          number |-> IF Value(doc, Seek(doc, "value").at).flag THEN 100 ELSE 0]
    [] Check(doc) = "OK" /\ GetF32(doc, "value") = "FOUND" ->
         [status |-> "OK", is_bool |-> FALSE, number |-> Number(doc, "value")]
    [] OTHER -> [status |-> "BAD_FIELD"]

\* ot_wire_parse_operation: up to ParamsMax numbers under names that fit, and
\* one look past them for a number too many.
ParseOperation(doc) ==
  LET how(i) == KeyAt(doc, i, NameRoom)
      ends[i \in 0..ParamsMax] ==
        CASE how(i) = "MISSING" -> [status |-> "OK", count |-> i]
          [] how(i) = "FOUND" /\ i < ParamsMax /\ GetF32(doc, Key(doc, i).text) = "FOUND" -> ends[i + 1]
          [] OTHER -> [status |-> "BAD_FIELD", count |-> i]
      names == {Key(doc, i).text : i \in 0..ends[0].count - 1}
  IN  IF Check(doc) # "OK" THEN [status |-> "BAD_BODY"]
      ELSE IF ends[0].status # "OK" THEN [status |-> ends[0].status]
      ELSE [status |-> "OK", params |-> [n \in names |-> Number(doc, n)]]

\* ot_wire_param, over the default.
Param(params, name, default) == IF name \in DOMAIN params THEN params[name] ELSE default

-----------------------------------------------------------------------------
(* Numbers.                                                                 *)

\* The cast of a float that is not negative.
Trunc(cents) == cents \div 100

IsWhole(cents) == cents % 100 = 0

\* Tenths of a degree, the half away from zero, if 16 bits hold them: {} if not.
Tenths(cents) ==
  IF cents <= -327685 \/ cents >= 327675 THEN {}
  ELSE {IF cents < 0 THEN -((5 - cents) \div 10) ELSE (cents + 5) \div 10}

\* to_control_value: tenths for a temperature, a whole number for a switch.
ToControlValue(temperature, cents) ==
  CASE temperature -> Tenths(cents)
    [] ~temperature /\ ~IsWhole(cents) -> {}
    [] OTHER -> IF cents <= -3276850 \/ cents >= 3276750 THEN {} ELSE {cents \div 100}

\* ot_control_io_minutes.
Minutes(cents) == IF cents < 0 \/ ~IsWhole(cents) \/ cents = Huge THEN {} ELSE {cents \div 100}

-----------------------------------------------------------------------------
(* The operations.                                                          *)

OpScan(params) ==
  LET from == Param(params, "from", 0)
      to   == Param(params, "to", 12700)
  IN  IF from < 0 \/ to > 12700 \/ from > to THEN Answer(422)
      ELSE [status |-> 202, call |-> "ot_bus_scan", from |-> Trunc(from) % 256, to |-> Trunc(to) % 256]

\* ot_bus_line_test.
BusLineTest(on, duration, half) ==
  ~on /\ duration # 0 /\ duration <= TestMax /\ half >= HalfMin /\ half <= HalfMax

\* op_linetest's own limits, on what the client wrote.
InBounds(duration, half) ==
  /\ duration >= 100 /\ duration <= TestMax * 100
  /\ half >= HalfMin * 100 /\ half <= HalfMax * 100

OpLinetest(params, on) ==
  LET duration == Param(params, "duration_ms", 2000000)
      half     == Param(params, "half_period_ms", 200000)
  IN  IF ~InBounds(duration, half) THEN Answer(422)
      ELSE IF ~BusLineTest(on, Trunc(duration), Trunc(half)) THEN Answer(409)
      ELSE [status |-> 202, call |-> "ot_bus_line_test", duration |-> Trunc(duration), half |-> Trunc(half)]

\* ot_http_control_refusal: what a client is told of the thermostat's verdict,
\* `newer` when the store is of a newer firmware.
ControlRefusal(verdict, newer) ==
  CASE verdict = "OK" -> 202
    [] verdict \in {"OWNED_BY_HA", "OWNED_BY_LOCAL", "SEASON_ON_IS_LOCAL", "SEASON_IS_OFF"} -> 409
    [] verdict \in {"OUT_OF_RANGE", "BAD_MINUTES"} -> 422
    [] verdict = "NO_TASK" -> 503
    [] verdict = "NOT_SAVED" -> IF newer THEN 409 ELSE 500
    [] OTHER -> 500

\* ot_http_entity_post: the same for ot_command_check.
CommandRefusal(err) ==
  CASE err = "OK" -> 202
    [] err = "UNKNOWN_KEY" -> 404
    [] err \in {"NOT_WRITABLE", "HALF_WORD_CODEC"} -> 405
    [] err \in {"UNSUPPORTED_BY_BOILER", "OWNED_BY_HA", "OWNED_BY_LOCAL", "SEASON_ON_IS_LOCAL"} -> 409
    [] err = "OUT_OF_RANGE" -> 422
    [] OTHER -> 500

\* from_control: the executor's verdict as one of ot_command_check.
FromControl(verdict) ==
  IF verdict \in {"SEASON_IS_OFF", "BAD_MINUTES"} THEN "OUT_OF_RANGE" ELSE verdict

\* The executor's own verdict on a boost is OtControl's.
OpBoost(params) ==
  IF ~({"setpoint", "minutes"} \subseteq DOMAIN params) THEN Answer(422)
  ELSE IF Minutes(params["minutes"]) = {} THEN Answer(ControlRefusal("BAD_MINUTES", FALSE))
  ELSE IF Tenths(params["setpoint"]) = {} THEN Answer(422)
  ELSE [status |-> 202, call |-> "ot_thermostat_boost_start",
        dc |-> CHOOSE dc \in Tenths(params["setpoint"]) : TRUE,
        minutes |-> CHOOSE m \in Minutes(params["minutes"]) : TRUE]

Run(op, params, on) ==
  CASE op = "scan"      -> OpScan(params)
    [] op = "linetest"  -> OpLinetest(params, on)
    [] op = "boost"     -> OpBoost(params)
    [] op = "boost_off" -> [status |-> 202, call |-> "ot_thermostat_boost_cancel"]

\* ot_http_op_post.
OpPost(r, device) ==
  LET password_set == device.record # NoPassword
      parsed == IF r.length > 0 THEN ParseOperation(r.doc) ELSE [status |-> "OK", params |-> <<>>]
      read   == IF r.length > 0 THEN ReadBody(r.length, r.chunks) ELSE 0
      gate   == GateAnswer(r, device.radio, password_set, Authenticated(r, device.record))
  IN  IF gate # 0 THEN Answer(gate)
      ELSE IF r.op \notin DOMAIN Halts THEN Answer(404)
      ELSE IF ~CheckOp(Halts[r.op], password_set) THEN Answer(403)
      ELSE IF read # 0 THEN Answer(read)
      ELSE IF parsed.status # "OK" THEN Answer(400)
      ELSE Run(r.op, parsed.params, device.on)

-----------------------------------------------------------------------------
(* Claims.                                                                  *)

Parsed(docs) == {ParseOperation(d).params : d \in {d \in docs : ParseOperation(d).status = "OK"}}

\* "A 409 now means EXACTLY one thing: a test is already running"
\* (ot_http_ops.c:133): whatever the client wrote, and what is accepted is
\* within the limits of the bus.
ConflictMeansRunning(docs) ==
  \A params \in Parsed(docs) :
    LET idle == OpLinetest(params, FALSE)
    IN  /\ idle.status # 409
        /\ idle.status = 202 => /\ idle.duration \in 1..TestMax /\ idle.half \in HalfMin..HalfMax
                               /\ OpLinetest(params, TRUE).status = 409
        /\ idle.status = 422 => OpLinetest(params, TRUE).status = 422

\* The sweep the bus is given is the one the client named, in order and
\* within the protocol's identifiers.
SweepIsTheOneNamed(docs) ==
  \A params \in Parsed(docs) :
    LET a == OpScan(params)
    IN  a.status = 202 => /\ 0 <= a.from /\ a.from <= a.to /\ a.to <= 127
                          /\ a.from = Trunc(Param(params, "from", 0))
                          /\ a.to = Trunc(Param(params, "to", 12700))

\* Of an accepted document nothing is lost: it has as many members as the
\* operation has parameters.
NoneLost(docs) ==
  \A d \in docs :
    LET p == ParseOperation(d)
    IN  p.status = "OK" /\ Len(d) > 2 => Cardinality(DOMAIN p.params) = Cardinality(Members(d))
==============================================================================
