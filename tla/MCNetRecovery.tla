--------------------------- MODULE MCNetRecovery ----------------------------
(***************************************************************************)
(* A small instance of OtNetRecovery: two pairs of credentials, and limits *)
(* in the order of the code's: an address is due before the trial ends,    *)
(* the short window is shorter than the first one, and the fallback takes  *)
(* longer than any of them.                                                *)
(***************************************************************************)
EXTENDS OtNetRecovery, OtServices

CONSTANTS p1, p2

TwoPairs   == {p1, p2}
OneHome    == {p1, None}
PureFates  == {"turned_away", "starved"}
TurnedAwayOnly == {"turned_away"}
MixedFate  == {"mixed"}

-----------------------------------------------------------------------------
(* Claims over OtProvision.                                                 *)

\* Every reason a router can give counts towards the way back, one that nobody
\* listed as well; the machine's own disconnection does not.
ASSUME \A reason \in 0..255 :
         OnWifiEvent("STA_DISCONNECTED", reason) = IF reason = 8 THEN "OURS" ELSE "REFUSED"

\* The wait never shrinks, whatever the width of the word, never is nothing, and
\* on the device is 1, 2, 4, 8, 16 and then 30 seconds.
ASSUME /\ \A least \in 1..63, most \in 0..63, n \in 0..7 :
            LET wait == Backoff(least, most, n, 63)
            IN  /\ wait <= Backoff(least, most, n + 1, 63) /\ wait <= most
                /\ most > 0 => wait > 0
                /\ wait = most \/ n = 0 \/ 2 * wait > 63 \/ wait = 2 * Backoff(least, most, n - 1, 63)
       /\ \A n \in 0..32 :
            Backoff(1000, 30000, n, 2147483647) = IF n < 5 THEN 1000 * 2^n ELSE 30000

-----------------------------------------------------------------------------
(* Claims over OtServices.                                                  *)

Lines == {<<>>, <<65>>, <<66, 10>>, <<67, 13, 10>>, <<10>>, <<68, 69, 70, 71>>, <<68, 69, 70, 10>>}

ASSUME LastAreKept(UNION {[1..n -> Lines] : n \in 0..4}, 2, 4)

\* The device's log of plain lines is served whole; full of long lines that
\* are not ASCII, or of quotation marks that are, it is not served at all
\* until they have been pushed out: 32768 is the buffer of the handlers.
ASSUME LET full(byte) == [lines |-> [i \in 0..LogLines - 1 |-> [j \in 1..LogLineLen - 1 |-> byte]],
                          next |-> 0, count |-> LogLines]
       IN  /\ LogRender(full(65), 32768) > 0 /\ LogRender(full(34), 32768) > 0
           /\ LogRender(full(208), 32768) = 0
           /\ \A cap \in 0..4 : LogRender(EmptyLog(2), cap) = IF cap < 3 THEN 0 ELSE 2

Ask(flags, count, rest) == <<7, 9, flags, 0, 0, count, 0, 0, 0, 0, 0, 0>> \o rest
Label(n) == <<n>> \o [i \in 1..n |-> 97]
Tail4(type) == <<0, type, 0, 1>>

\* Names of 255 and 256 bytes on the wire, a pointer, a label that runs off
\* the end, a question cut short.
LongestName == Label(63) \o Label(63) \o Label(63) \o Label(61) \o <<0>>
Questions ==
  {<<>>, <<0>> \o Tail4(1), Label(3) \o <<0>> \o Tail4(1), Label(3) \o <<0>> \o Tail4(28),
   LongestName \o Tail4(1), Label(62) \o LongestName \o Tail4(1), Label(1) \o LongestName \o Tail4(1),
   <<192, 12>> \o Tail4(1), <<63, 97, 0>> \o Tail4(1), Label(3) \o <<0, 0, 1, 0>>, Label(3)}

ASSUME LET queries == {Ask(f, c, q) : f \in {0, 1, 8, 40, 128, 133}, c \in 0..2, q \in Questions}
       IN  /\ RepliesAreBounded(queries, <<192, 168, 4, 1>>, {0, 28, 286, 287, 512})
           /\ Len(DnsReply(Ask(1, 1, LongestName \o Tail4(1)), <<192, 168, 4, 1>>, 512)) = 287
           /\ DnsReply(Ask(1, 1, Label(1) \o LongestName \o Tail4(1)), <<192, 168, 4, 1>>, 512) = <<>>

\* Ten to twelve seconds of what the station and the access point do.
ASSUME LET long(n, before, after) == before \o [i \in 1..n |-> "DOWN"] \o after
           ends == {<<>>, <<"CONNECTED">>, <<"ACCESS_POINT", "DOWN">>, <<"CONNECTED", "DOWN">>}
       IN  RedAfterGrace({long(n, before, after) : n \in {0, 1, 9, 10, 11, 12}, before \in ends, after \in ends})

\* The light of a device that works says nothing else, and its order is the
\* order of what there is to do.
ASSUME \A w \in [ota_active : {FALSE}, net : {"DOWN", "ACCESS_POINT", "CONNECTED"}, has_credentials : BOOLEAN,
                 now : {WifiGrace}, since : {0, 1}, mqtt_configured : BOOLEAN, mqtt_connected : BOOLEAN,
                 control : {"FAILSAFE", "LOCAL"}, flame : BOOLEAN] :
         /\ Light(w)[1] = "green" <=>
              w.net = "CONNECTED" /\ (w.mqtt_configured => w.mqtt_connected) /\ w.control # "FAILSAFE"
         /\ Light(w)[1] = "orange" => w.net = "CONNECTED" /\ w.control = "FAILSAFE"
==============================================================================
