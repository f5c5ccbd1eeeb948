------------------------------ MODULE OtAccess -------------------------------
(***************************************************************************)
(* The door every HTTP request passes (ot_http_gate.c), with the rules of  *)
(* components/ot_policy.  What a request can say is reduced to what the    *)
(* rules tell apart:                                                       *)
(*   host   "own" the station address, "ap" the address of the access      *)
(*          point, "none" no header, "foreign" anything else or too long   *)
(*   cred   the Authorization header: OtAuth                               *)
(*   json   the media type is application/json; body: there is a body      *)
(*   path   the route, as the rules name it                                *)
(* The radio is [ap: an open access point is on the air, address: the      *)
(* station has one].                                                       *)
(***************************************************************************)
EXTENDS OtAuth

Provisioned(radio) == ~radio.ap

\* ot_http_host_ok, after the port is cut off.
HostOk(host, radio) ==
  CASE host = "none"    -> TRUE
    [] host = "own"     -> TRUE
    [] host = "ap"      -> radio.ap \/ ~radio.address
    [] host = "foreign" -> ~radio.address

\* A header too long for the buffer is foreign whatever the address.
HostHeaderOk(r, radio) == ~r.truncated /\ HostOk(r.host, radio)

\* A request that is not a read and has a body says that it is JSON.
TypeOk(r) == r.method \in {"GET", "HEAD"} \/ ~r.body \/ r.json

\* The gate's buffer: of a longer header nothing is handed on.
HeaderMax == 511

InBuffer(header) ==
  IF header # Absent /\ header.scheme = "Basic" /\ Len(header.tokens) = 1
     /\ Len(header.tokens[1]) > HeaderMax - 6
  THEN Absent ELSE header

\* Commands for the heating, by entity or by operation; nothing is said of an
\* operation that halts the bus: CheckOp.
IsCommand(path) == path \in {"entity", "op"}

WithPassword(granted) == IF granted THEN "ALLOW" ELSE "UNAUTHORIZED"

\* ot_http_check.  On its access point the device takes a network and nothing
\* else; with no password it takes the settings, commands and a ticket.
Policy(method, path, provisioned, password_set, granted) ==
  CASE method = "GET" -> IF password_set THEN WithPassword(granted) ELSE "ALLOW"
    [] method = "POST" /\ ~provisioned ->
         IF path # "provision" THEN "FORBIDDEN"
         ELSE IF password_set THEN WithPassword(granted) ELSE "ALLOW"
    [] method = "POST" /\ provisioned /\ password_set -> WithPassword(granted)
    [] method = "POST" /\ provisioned /\ ~password_set ->
         IF path \in {"config", "ticket"} \/ IsCommand(path) THEN "ALLOW" ELSE "FORBIDDEN"
    [] OTHER -> "FORBIDDEN"

\* What the gate makes of a header.
Authenticated(r, record) == AuthCheck(InBuffer(r.cred), record).result = "GRANTED"

\* ot_http_allowed: the refusal sent, or 0.
GateAnswer(r, radio, password_set, authenticated) ==
  LET verdict == Policy(r.method, r.path, Provisioned(radio), password_set, authenticated)
  IN  CASE ~HostHeaderOk(r, radio) -> 403
        [] HostHeaderOk(r, radio) /\ ~TypeOk(r) -> 415
        [] OTHER -> IF verdict = "ALLOW" THEN 0 ELSE IF verdict = "UNAUTHORIZED" THEN 401 ELSE 403

Allowed(r, radio, password_set, authenticated) ==
  GateAnswer(r, radio, password_set, authenticated) = 0

\* ot_http_check_op.
CheckOp(halts, password_set) == halts => password_set
==============================================================================
