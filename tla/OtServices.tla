------------------------------ MODULE OtServices ------------------------------
(***************************************************************************)
(* Three small parts at the edge of the device, each a calculation over    *)
(* what it is given: the log ring (ot_log.c), the answer to a name asked   *)
(* for on the access point (ot_captive_dns.c), and what the light shows    *)
(* (ot_led.c with the sampling of ot_led_task.c).                          *)
(***************************************************************************)
EXTENDS Integers, Sequences, FiniteSets, SequencesExt

-----------------------------------------------------------------------------
(* The log.  A line is the sequence of its bytes; a ring has a fixed number *)
(* of slots of `room` bytes, the last of them for the NUL.                  *)

LogLines   == 80     \* OT_LOG_LINES
LogLineLen == 160    \* OT_LOG_LINE_LEN

EmptyLog(slots) == [lines |-> [i \in 0..slots - 1 |-> <<>>], next |-> 0, count |-> 0]

Framing == {10, 13}

\* What is kept of a line: what fits, less the logger's framing.
Kept(line, room) ==
  LET fits == SubSeq(line, 1, IF Len(line) < room THEN Len(line) ELSE room - 1)
      ends == {n \in 0..Len(fits) : \A i \in n + 1..Len(fits) : fits[i] \in Framing}
  IN  SubSeq(fits, 1, CHOOSE n \in ends : \A m \in ends : n <= m)

LogWrite(log, line, room) ==
  LET slots == Cardinality(DOMAIN log.lines)
  IN  IF line = <<>> THEN log
      ELSE [lines |-> [log.lines EXCEPT ![log.next] = Kept(line, room)],
            next  |-> (log.next + 1) % slots,
            count |-> IF log.count < slots THEN log.count + 1 ELSE log.count]

\* Oldest first.
LogShown(log) ==
  LET slots == Cardinality(DOMAIN log.lines)
      first == IF log.count = slots THEN log.next ELSE 0
  IN  [i \in 1..log.count |-> log.lines[(first + i - 1) % slots]]

\* append_escaped: two bytes for an escape, six for what is not plain ASCII.
Paired  == {9, 10, 13, 34, 92}
Escaped == (0..31) \cup (127..255)

LineSize(line) ==
  Len(line) + Cardinality({i \in DOMAIN line : line[i] \in Paired})
            + 5 * Cardinality({i \in DOMAIN line : line[i] \in Escaped \ Paired})

\* ot_log_render: the bytes of the whole array, or 0 when they and a NUL do
\* not fit in cap.
LogRender(log, cap) ==
  LET text == FoldLeft(LAMBDA sum, line : sum + 2 + LineSize(line), 0, LogShown(log))
      size == 2 + text + (IF log.count > 0 THEN log.count - 1 ELSE 0)
  IN  IF cap < 3 \/ size + 1 > cap THEN 0 ELSE size

-----------------------------------------------------------------------------
(* The name server.  A datagram is the sequence of its bytes.               *)

HeaderLen == 12
MaxName   == 255
TypeA     == 1
ClassIn   == 1

Be16(bytes, i) == bytes[i] * 256 + bytes[i + 1]

\* question_len: what the question at the front of bytes occupies, 0 for what
\* is no question.  The name is as long as the way to its end.
QuestionLen(bytes) ==
  LET len == Len(bytes)
      name[at \in 0..MaxName] ==
        IF at >= len THEN 0
        ELSE LET label == bytes[at + 1]
             IN  CASE label >= 64 -> 0
                   [] label < 64 /\ at + 1 + label > MaxName -> 0
                   [] label = 0 /\ at + 1 <= MaxName -> at + 1
                   [] OTHER -> IF at + 1 + label > len THEN 0 ELSE name[at + 1 + label]
  IN  IF name[0] = 0 \/ name[0] + 4 > len THEN 0 ELSE name[0] + 4

\* ot_captive_dns_reply: <<>> is silence.
DnsReply(query, address, cap) ==
  LET asked  == SubSeq(query, HeaderLen + 1, Len(query))
      n      == QuestionLen(asked)
      a      == n > 0 /\ Be16(asked, n - 3) = TypeA /\ Be16(asked, n - 1) = ClassIn
      header == <<query[1], query[2], 132 + (query[3] % 2), 128, 0, 1, 0, IF a THEN 1 ELSE 0, 0, 0, 0, 0>>
      record == IF a THEN <<192, HeaderLen, 0, TypeA, 0, ClassIn, 0, 0, 0, 0, 0, 4>> \o address ELSE <<>>
      reply  == header \o SubSeq(asked, 1, n) \o record
  IN  CASE Len(query) < HeaderLen -> <<>>
        [] Len(query) >= HeaderLen /\ (query[3] >= 128 \/ (query[3] \div 8) % 16 # 0) -> <<>>
        [] OTHER -> IF Be16(query, 5) # 1 \/ n = 0 THEN <<>>
                    ELSE IF Len(reply) > cap THEN <<>> ELSE reply

-----------------------------------------------------------------------------
(* The light.                                                               *)

WifiGrace == 10000    \* OT_LED_WIFI_GRACE_MS

\* led_sample: since when the network is down; stamped once, 0 while it is up.
DownSince(since, net, t) ==
  IF net = "CONNECTED" THEN 0 ELSE IF since = 0 THEN t ELSE since

\* ot_led_health: the first that matches.
Health(w) ==
  CASE w.ota_active -> "ota"
    [] ~w.ota_active /\ w.net = "ACCESS_POINT" -> "setup"
    [] ~w.ota_active /\ w.net = "DOWN" ->
         IF w.has_credentials /\ w.now - w.since >= WifiGrace THEN "wifi_down" ELSE "connecting"
    [] OTHER -> IF w.mqtt_configured /\ ~w.mqtt_connected THEN "mqtt_down"
                ELSE IF w.control = "FAILSAFE" THEN "failsafe" ELSE "normal"

\* ot_led_render without its curves: colour and movement.
Light(w) ==
  LET activity == IF w.flame THEN "breathe" ELSE "heartbeat"
  IN  CASE Health(w) = "ota"        -> <<"blue", "blink fast">>
        [] Health(w) = "setup"      -> <<"blue", "blink">>
        [] Health(w) = "connecting" -> <<"blue", "breathe">>
        [] Health(w) = "wifi_down"  -> <<"red", "blink">>
        [] Health(w) = "mqtt_down"  -> <<"amber", activity>>
        [] Health(w) = "failsafe"   -> <<"orange", "blink">>
        [] Health(w) = "normal"     -> <<"green", activity>>

-----------------------------------------------------------------------------
(* Claims.                                                                  *)

\* After any lines the log shows the last ones that were not empty, oldest
\* first, as many as it has slots.
LastAreKept(histories, slots, room) ==
  \A h \in histories :
    LET log == FoldLeft(LAMBDA l, line : LogWrite(l, line, room), EmptyLog(slots), h)
        all == SelectSeq(h, LAMBDA line : line # <<>>)
        n   == IF Len(all) < slots THEN Len(all) ELSE slots
    IN  LogShown(log) = [i \in 1..n |-> Kept(all[Len(all) - n + i], room)]

\* "with it, the largest reply this file can produce is 12 + 259 + 16 = 287
\* bytes" (ot_captive_dns.c:17), within the buffer or not at all; a reply
\* repeats the question and is itself answered by nobody.
RepliesAreBounded(queries, address, caps) ==
  \A q \in queries, cap \in caps :
    LET r == DnsReply(q, address, cap)
    IN  r # <<>> =>
          /\ Len(r) <= 287 /\ Len(r) <= cap
          /\ SubSeq(r, 1, 2) = SubSeq(q, 1, 2)
          /\ LET n == QuestionLen(SubSeq(q, HeaderLen + 1, Len(q)))
             IN  SubSeq(r, HeaderLen + 1, HeaderLen + n) = SubSeq(q, HeaderLen + 1, HeaderLen + n)
          /\ DnsReply(r, address, cap) = <<>>

\* Sampled every second, the light is red when and only when a network is
\* stored and the station has been without it, access point or not, for the
\* whole of the grace.
RedAfterGrace(histories) ==
  \A h \in histories :
    LET at(i)    == 1000 * i
        since[i \in 0..Len(h)] == IF i = 0 THEN 0 ELSE DownSince(since[i - 1], h[i], at(i))
        up       == {i \in 1..Len(h) : h[i] = "CONNECTED"}
        w(i)     == [ota_active |-> FALSE, net |-> h[i], has_credentials |-> TRUE, now |-> at(i), since |-> since[i]]
        lost(i)  == CHOOSE j \in 1..i : (\A k \in j..i : k \notin up) /\ (j = 1 \/ j - 1 \in up)
    IN  \A i \in 1..Len(h) : h[i] = "DOWN" =>
          (Health(w(i)) = "wifi_down" <=> at(i) - at(lost(i)) >= WifiGrace)
==============================================================================
