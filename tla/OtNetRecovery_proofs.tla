------------------------ MODULE OtNetRecovery_proofs ------------------------
(***************************************************************************)
(* What is proved of the way back: an access point goes down by its        *)
(* ceiling, whoever knocks, and where no request overlaps with a promotion *)
(* on its way what is known good has worked.  Of the machine's operators:  *)
(* the wait between attempts never collapses, and the countdowns of the    *)
(* status page are true.                                                   *)
(***************************************************************************)
EXTENDS OtNetRecovery, FiniteSets, SequenceTheorems, WellFoundedInduction, TLAPS

ApFacts == {"AP_STARTED", "AP_STOPPED"}
Facts   == ApFacts \cup {"STA_READY", "STA_STOPPED", "ASSOCIATED", "GOT_IP", "REFUSED",
                         "OURS", "CREDENTIALS_SAVED", "CLIENT_SEEN"}

AtMostOne(q) == \A i, j \in DOMAIN q : q[i] \in ApFacts /\ q[j] \in ApFacts => i = j
NoneOf(q)    == ToSet(q) \cap ApFacts = {}

-----------------------------------------------------------------------------
(* Queues of facts.                                                        *)

LEMMA IsIn ==
  ASSUME NEW q, NEW v
  PROVE  v \in ToSet(q) <=> \E i \in DOMAIN q : q[i] = v
BY DEF ToSet

LEMMA Nothing == <<>> \in Seq(Facts) /\ ToSet(<<>>) = {} /\ AtMostOne(<<>>)
BY EmptySeq DEF ToSet, AtMostOne

LEMMA Single ==
  ASSUME NEW e \in Facts
  PROVE  <<e>> \in Seq(Facts) /\ ToSet(<<e>>) = {e} /\ AtMostOne(<<e>>)
<1>1. <<e>> \in Seq(Facts) /\ DOMAIN <<e>> = {1} /\ <<e>>[1] = e
  OBVIOUS
<1>2. QED  BY <1>1 DEF ToSet, AtMostOne

LEMMA FirstOf ==
  ASSUME NEW q \in Seq(Facts), q # <<>>, AtMostOne(q)
  PROVE  /\ Head(q) \in ToSet(q) /\ Tail(q) \in Seq(Facts) /\ ToSet(Tail(q)) \subseteq ToSet(q)
         /\ ToSet(q) = {Head(q)} \cup ToSet(Tail(q))
         /\ AtMostOne(Tail(q)) /\ (Head(q) \in ApFacts => NoneOf(Tail(q)))
<1> DEFINE t == Tail(q)
<1>1. /\ Len(q) \in Nat /\ Len(q) > 0 /\ DOMAIN q = 1..Len(q) /\ Head(q) = q[1]
      /\ t \in Seq(Facts) /\ DOMAIN t = 1..Len(q) - 1
      /\ \A i \in 1..Len(q) - 1 : t[i] = q[i + 1]
  BY HeadTailProperties, EmptySeq, LenProperties
<1> HIDE DEF t
<1>2. \A i \in DOMAIN q : i = 1 \/ (i - 1 \in DOMAIN t /\ t[i - 1] = q[i])
  BY <1>1
<1>3. \A i \in DOMAIN t : i + 1 \in DOMAIN q /\ i + 1 # 1 /\ t[i] = q[i + 1]
  BY <1>1
<1>4. 1 \in DOMAIN q
  BY <1>1
<1>5. Head(q) \in ToSet(q) /\ ToSet(t) \subseteq ToSet(q)
      /\ ToSet(q) = {Head(q)} \cup ToSet(t)
  <2>1. \A i \in DOMAIN q : q[i] = q[1] \/ \E j \in DOMAIN t : t[j] = q[i]
    BY <1>2
  <2>2. ASSUME NEW v PROVE v \in ToSet(q) <=> v = q[1] \/ v \in ToSet(t)
    <3>1. v \in ToSet(q) => v = q[1] \/ v \in ToSet(t)
      BY <2>1, IsIn
    <3>2. v \in ToSet(t) => v \in ToSet(q)
      BY <1>3, IsIn
    <3>3. v = q[1] => v \in ToSet(q)
      BY <1>4, IsIn
    <3>4. QED  BY <3>1, <3>2, <3>3
  <2>3. QED  BY <1>1, <2>2
<1>6. AtMostOne(t)
  <2>1. SUFFICES ASSUME NEW i \in DOMAIN t, NEW j \in DOMAIN t,
                        t[i] \in ApFacts, t[j] \in ApFacts
                 PROVE  i = j
    BY DEF AtMostOne
  <2>2. i + 1 = j + 1
    BY <1>3, <2>1 DEF AtMostOne
  <2>3. QED  BY <1>1, <2>1, <2>2
<1>7. Head(q) \in ApFacts => NoneOf(t)
  <2>1. SUFFICES ASSUME q[1] \in ApFacts, NEW i \in DOMAIN t, t[i] \in ApFacts PROVE FALSE
    BY <1>1 DEF NoneOf, ToSet
  <2>2. QED  BY <1>3, <1>4, <2>1 DEF AtMostOne
<1>8. QED  BY <1>1, <1>5, <1>6, <1>7 DEF t

LEMMA Joined ==
  ASSUME NEW a \in Seq(Facts), NEW b \in Seq(Facts)
  PROVE  /\ a \o b \in Seq(Facts) /\ ToSet(a \o b) = ToSet(a) \cup ToSet(b)
         /\ (AtMostOne(a) /\ AtMostOne(b) /\ (NoneOf(a) \/ NoneOf(b))) => AtMostOne(a \o b)
<1> DEFINE c == a \o b
<1>1. /\ c \in Seq(Facts) /\ Len(a) \in Nat /\ Len(b) \in Nat /\ Len(c) = Len(a) + Len(b)
      /\ DOMAIN a = 1..Len(a) /\ DOMAIN b = 1..Len(b) /\ DOMAIN c = 1..Len(c)
      /\ \A i \in 1..Len(c) : c[i] = IF i <= Len(a) THEN a[i] ELSE b[i - Len(a)]
  BY ConcatProperties, LenProperties
<1> HIDE DEF c
<1>2. \A i \in DOMAIN c : \/ i \in DOMAIN a /\ c[i] = a[i]
                          \/ i - Len(a) \in DOMAIN b /\ i > Len(a) /\ c[i] = b[i - Len(a)]
  BY <1>1
<1>3. \A i \in DOMAIN a : i \in DOMAIN c /\ c[i] = a[i]
  BY <1>1
<1>4. \A i \in DOMAIN b : i + Len(a) \in DOMAIN c /\ c[i + Len(a)] = b[i]
  BY <1>1
<1>5. ToSet(c) = ToSet(a) \cup ToSet(b)
  <2>1. \A i \in DOMAIN c : \/ \E j \in DOMAIN a : a[j] = c[i]
                            \/ \E j \in DOMAIN b : b[j] = c[i]
    BY <1>2
  <2>2. /\ \A j \in DOMAIN a : \E i \in DOMAIN c : c[i] = a[j]
        /\ \A j \in DOMAIN b : \E i \in DOMAIN c : c[i] = b[j]
    BY <1>3, <1>4
  <2>3. \A v : v \in ToSet(c) <=> v \in ToSet(a) \/ v \in ToSet(b)
    BY <2>1, <2>2, IsIn
  <2>4. QED  BY <2>3
<1>6. ASSUME AtMostOne(a), AtMostOne(b), NoneOf(a) \/ NoneOf(b)
      PROVE  AtMostOne(c)
  <2>1. SUFFICES ASSUME NEW i \in DOMAIN c, NEW j \in DOMAIN c, c[i] \in ApFacts, c[j] \in ApFacts
                 PROVE  i = j
    BY DEF AtMostOne
  <2>2. CASE i \in DOMAIN a /\ j \in DOMAIN a /\ c[i] = a[i] /\ c[j] = a[j]
    BY <1>6, <2>1, <2>2 DEF AtMostOne
  <2>3. CASE i - Len(a) \in DOMAIN b /\ j - Len(a) \in DOMAIN b
             /\ c[i] = b[i - Len(a)] /\ c[j] = b[j - Len(a)]
    <3>1. i - Len(a) = j - Len(a)
      BY <1>6, <2>1, <2>3 DEF AtMostOne
    <3>2. QED  BY <1>1, <2>1, <3>1
  <2>4. \A m \in DOMAIN a, n \in DOMAIN b : ~(a[m] \in ApFacts /\ b[n] \in ApFacts)
    BY <1>6, Zenon DEF NoneOf, ToSet
  <2>5. QED  BY <1>2, <2>1, <2>2, <2>3, <2>4
<1>7. QED  BY <1>1, <1>5, <1>6 DEF c

LEMMA Grown ==
  ASSUME NEW q \in Seq(Facts), NEW e \in Facts
  PROVE  ToSet(Append(q, e)) = ToSet(q) \cup {e}
<1>1. Append(q, e) = q \o <<e>>
  BY AppendIsConcat
<1>2. QED  BY <1>1, Single, Joined

LEMMA Posted ==
  ASSUME NEW q \in Seq(Facts), AtMostOne(q), NEW e \in Facts \ ApFacts
  PROVE  /\ Append(q, e) \in Seq(Facts) /\ AtMostOne(Append(q, e))
         /\ ToSet(Append(q, e)) = ToSet(q) \cup {e}
<1>1. Append(q, e) = q \o <<e>>
  BY AppendIsConcat
<1>2. NoneOf(<<e>>)
  BY Single DEF NoneOf
<1>3. QED  BY <1>1, <1>2, Single, Joined
\* What a change of the radio's mode reports: the access point's change, once.
Modes == {"OFF", "ACCESS_POINT", "STATION", "AP_STA"}

LEMMA Perhaps ==
  ASSUME NEW c \in BOOLEAN, NEW e \in Facts
  PROVE  LET q == IF c THEN <<e>> ELSE <<>>
         IN  q \in Seq(Facts) /\ AtMostOne(q) /\ ToSet(q) = IF c THEN {e} ELSE {}
<1>1. CASE c  BY <1>1, Single
<1>2. CASE ~c  BY <1>2, Nothing
<1>3. QED  BY <1>1, <1>2

LEMMA Reported ==
  ASSUME NEW old \in Modes, NEW new \in Modes
  PROVE  /\ Reports(old, new) \in Seq(Facts) /\ AtMostOne(Reports(old, new))
         /\ ToSet(Reports(old, new)) \subseteq ApFacts \cup {"STA_READY", "STA_STOPPED"}
         /\ "AP_STARTED" \in ToSet(Reports(old, new)) <=> new \in ApModes /\ old \notin ApModes
         /\ "AP_STOPPED" \in ToSet(Reports(old, new)) <=> new \notin ApModes /\ old \in ApModes
<1> DEFINE c1 == new \in StaModes /\ old \notin StaModes
           c2 == new \notin StaModes /\ old \in StaModes
           c3 == new \in ApModes /\ old \notin ApModes
           c4 == new \notin ApModes /\ old \in ApModes
           q1 == IF c1 THEN <<"STA_READY">> ELSE <<>>
           q2 == IF c2 THEN <<"STA_STOPPED">> ELSE <<>>
           q3 == IF c3 THEN <<"AP_STARTED">> ELSE <<>>
           q4 == IF c4 THEN <<"AP_STOPPED">> ELSE <<>>
<1>1. Reports(old, new) = ((q1 \o q2) \o q3) \o q4
  BY DEF Reports, OnWifiEvent
<1>2. /\ q1 \in Seq(Facts) /\ AtMostOne(q1) /\ ToSet(q1) = IF c1 THEN {"STA_READY"} ELSE {}
      /\ q2 \in Seq(Facts) /\ AtMostOne(q2) /\ ToSet(q2) = IF c2 THEN {"STA_STOPPED"} ELSE {}
      /\ q3 \in Seq(Facts) /\ AtMostOne(q3) /\ ToSet(q3) = IF c3 THEN {"AP_STARTED"} ELSE {}
      /\ q4 \in Seq(Facts) /\ AtMostOne(q4) /\ ToSet(q4) = IF c4 THEN {"AP_STOPPED"} ELSE {}
  <2>1. c1 \in BOOLEAN /\ c2 \in BOOLEAN /\ c3 \in BOOLEAN /\ c4 \in BOOLEAN
    OBVIOUS
  <2>2. {"STA_READY", "STA_STOPPED", "AP_STARTED", "AP_STOPPED"} \subseteq Facts
    BY DEF Facts, ApFacts
  <2> HIDE DEF c1, c2, c3, c4
  <2>3. QED  BY <2>1, <2>2, Perhaps
<1>3. ~(c3 /\ c4)
  OBVIOUS
<1> HIDE DEF c1, c2, c3, c4, q1, q2, q3, q4
<1>4. NoneOf(q1) /\ NoneOf(q2) /\ (NoneOf(q3) \/ NoneOf(q4))
  BY <1>2, <1>3 DEF NoneOf, ApFacts
<1> DEFINE r1 == q1 \o q2
           r2 == r1 \o q3
           r3 == r2 \o q4
<1>5. r1 \in Seq(Facts) /\ AtMostOne(r1) /\ NoneOf(r1) /\ ToSet(r1) = ToSet(q1) \cup ToSet(q2)
  BY <1>2, <1>4, Joined DEF NoneOf
<1> HIDE DEF r1
<1>6. r2 \in Seq(Facts) /\ AtMostOne(r2) /\ ToSet(r2) = ToSet(r1) \cup ToSet(q3)
  BY <1>2, <1>5, Joined
<1> HIDE DEF r2
<1>7. NoneOf(r2) \/ NoneOf(q4)
  BY <1>4, <1>5, <1>6 DEF NoneOf
<1>8. r3 \in Seq(Facts) /\ AtMostOne(r3) /\ ToSet(r3) = ToSet(r2) \cup ToSet(q4)
  BY <1>2, <1>6, <1>7, Joined
<1>9. /\ Reports(old, new) \in Seq(Facts) /\ AtMostOne(Reports(old, new))
      /\ ToSet(Reports(old, new)) = ToSet(q1) \cup ToSet(q2) \cup ToSet(q3) \cup ToSet(q4)
  <2>1. Reports(old, new) = r3
    BY <1>1 DEF r1, r2
  <2> HIDE DEF r3
  <2>2. QED  BY <1>5, <1>6, <1>8, <2>1
<1>10. QED  BY <1>2, <1>9 DEF c3, c4, ApFacts

-----------------------------------------------------------------------------
(* The machine.                                                            *)

\* The fields of ot_prov_t.
Machine ==
  {"state", "action", "failure", "has_credentials", "has_known_good", "credentials_committed",
   "ap_on_air", "window_running", "window_ever_closed", "window_is_the_short_one", "trialling",
   "associated", "address_never_arrived", "failing", "retry_armed",
   "opened", "extended", "trial", "waiting", "failed", "retry"}

\* An access point on the air that the machine's state asks for has a window.
Backed(m) == m.ap_on_air /\ m.state \in {"UNCONFIGURED", "FALLBACK_AP"} => m.window_running

\* What no step of the clock does: start a window, move one, make an access
\* point of nothing, or owe a promotion.
Follows(m, n) ==
  /\ DOMAIN n = Machine /\ n.ap_on_air = m.ap_on_air
  /\ n.window_running => m.window_running /\ n.opened = m.opened
  /\ Backed(m) => Backed(n)
  /\ n.action = "COMMIT" => m.action = "COMMIT"

LEMMA FollowsOn ==
  ASSUME NEW a, NEW b, NEW c, Follows(a, b), Follows(b, c)
  PROVE  Follows(a, c)
BY DEF Follows

LEMMA ClosesWindow ==
  ASSUME NEW m, DOMAIN m = Machine
  PROVE  /\ Follows(m, CloseWindow(m))
         /\ CloseWindow(m).window_running /\ m.ap_on_air => WindowOpen(m)
BY DEF Follows, Backed, Machine, CloseWindow, WindowGone, Earns

LEMMA EndsTrial ==
  ASSUME NEW m, DOMAIN m = Machine
  PROVE  Follows(m, EndTrial(m))
BY DEF Follows, Backed, Machine, EndTrial, SetAction, Accepts

LEMMA AwaitsAddress ==
  ASSUME NEW m, DOMAIN m = Machine
  PROVE  Follows(m, AwaitAddress(m))
BY DEF Follows, Backed, Machine, AwaitAddress, NoteFailure, SetAction, Accepts, Earns

LEMMA Retries ==
  ASSUME NEW m, DOMAIN m = Machine
  PROVE  Follows(m, Retry(m))
BY DEF Follows, Backed, Machine, Retry, SetAction, Accepts

LEMMA Raises ==
  ASSUME NEW m, DOMAIN m = Machine
  PROVE  Follows(m, RaiseFallback(m)) /\ Follows(m, NoteNoAddress(m))
BY DEF Follows, Backed, Machine, RaiseFallback, NoteNoAddress

LEMMA Ticks ==
  ASSUME NEW m, DOMAIN m = Machine
  PROVE  Follows(m, Tick(m)) /\ (Tick(m).window_running /\ m.ap_on_air => WindowOpen(m))
<1> DEFINE m1 == CloseWindow(m)
           m2 == EndTrial(m1)
           m3 == AwaitAddress(m2)
           m4 == Retry(m3)
           m5 == RaiseFallback(m4)
           m6 == NoteNoAddress(m5)
<1>1. Follows(m, m1) /\ (m1.window_running /\ m.ap_on_air => WindowOpen(m))
  BY ClosesWindow
<1>2. Follows(m1, m2)
  BY <1>1, EndsTrial DEF Follows
<1>3. Follows(m2, m3)
  BY <1>2, AwaitsAddress DEF Follows
<1>4. Follows(m3, m4)
  BY <1>3, Retries DEF Follows
<1>5. Follows(m4, m5)
  BY <1>4, Raises DEF Follows
<1>6. Follows(m5, m6)
  BY <1>5, Raises DEF Follows
<1>7. Tick(m) = m6
  BY DEF Tick
<1> HIDE DEF m1, m2, m3, m4, m5, m6
<1>8. Follows(m1, m6)
  BY <1>2, <1>3, <1>4, <1>5, <1>6, FollowsOn
<1>9. Follows(m, m6)
  BY <1>1, <1>8, FollowsOn
<1>10. m6.window_running => m1.window_running
  BY <1>8 DEF Follows
<1>11. QED  BY <1>1, <1>7, <1>9, <1>10

\* What a fact makes of the machine: only the access point's own facts move the
\* flag that says it is on the air, and only its start opens a window.
Answered(m, n, fact) ==
  /\ DOMAIN n = Machine
  /\ n.ap_on_air = CASE fact = "AP_STARTED" -> TRUE
                     [] fact = "AP_STOPPED" -> FALSE
                     [] OTHER -> m.ap_on_air
  /\ (m.window_running => m.ap_on_air) => (n.window_running => n.ap_on_air)
  /\ n.window_running => \/ m.window_running /\ n.opened = m.opened
                         \/ fact = "AP_STARTED" /\ ~m.ap_on_air /\ n.opened = 0
  /\ Backed(m) => Backed(n)
  /\ n.action = "COMMIT" => m.action = "COMMIT" \/ fact = "GOT_IP"

LEMMA Hears ==
  ASSUME DOMAIN s = Machine, s.ap_on_air \in BOOLEAN, NEW fact \in Facts
  PROVE  Answered(s, Heard(fact), fact)
<1>1. CASE fact = "AP_STARTED"
  BY <1>1 DEF Answered, Heard, OnApStarted, Backed, Machine
<1>2. CASE fact = "AP_STOPPED"
  BY <1>2 DEF Answered, Heard, OnApStopped, WindowGone, Backed, Machine
<1>3. CASE fact = "ASSOCIATED"
  BY <1>3 DEF Answered, Heard, OnAssociated, Backed, Machine
<1>4. CASE fact = "GOT_IP"
  BY <1>4 DEF Answered, Heard, OnConnected, WindowGone, SetAction, Accepts, Backed, Machine
<1>5. CASE fact = "REFUSED"
  BY <1>5 DEF Answered, Heard, OnDisconnected, NoteFailure, Backed, Machine
<1>6. CASE fact = "OURS"
  BY <1>6 DEF Answered, Heard, OnDisconnected, NoteFailure, Backed, Machine
<1>7. CASE fact = "CREDENTIALS_SAVED"
  BY <1>7 DEF Answered, Heard, OnCredentialsSaved, Backed, Machine
<1>8. CASE fact = "CLIENT_SEEN"
  BY <1>8 DEF Answered, Heard, OnClientSeen, Backed, Machine
<1>9. CASE fact \in {"STA_READY", "STA_STOPPED"}
  BY <1>9 DEF Answered, Heard
<1>10. QED  BY <1>1, <1>2, <1>3, <1>4, <1>5, <1>6, <1>7, <1>8, <1>9 DEF Facts, ApFacts

-----------------------------------------------------------------------------
(* The access point.  The radio's mode and the machine's flag differ only  *)
(* while the one fact that says so is in the queue, and the task does not  *)
(* leave the queue before that; so a window that runs is as old as the     *)
(* access point, and a turn that would keep it up past the ceiling closes  *)
(* it instead.                                                             *)

Typed ==
  /\ DOMAIN s = Machine /\ s.ap_on_air \in BOOLEAN
  /\ DOMAIN nvs = {"sta", "good", "closed", "no_address"}
  /\ s_events \in Seq(Facts) /\ s_radio_mode \in Modes

Queue ==
  /\ AtMostOne(s_events)
  /\ pc # "drain" => NoneOf(s_events)
  /\ "AP_STARTED" \in ToSet(s_events) => ApUp /\ ~s.ap_on_air /\ since = 0
  /\ "AP_STOPPED" \in ToSet(s_events) => ~ApUp
  /\ NoneOf(s_events) => s.ap_on_air = ApUp

Clock ==
  /\ s.window_running => s.ap_on_air
  /\ Backed(s)
  /\ ApUp /\ s.window_running => s.opened = since

IInv == Typed /\ Queue /\ Clock

LEMMA Finished ==
  ASSUME Typed, NEW m, NEW wanted, NEW pair, FinishTurn(m, wanted, pair)
  PROVE  /\ s_radio_mode' = Mode(m) /\ Mode(m) \in Modes /\ pc' = "drain" /\ stepped' = TRUE
         /\ s_events' \in Seq(Facts)
         /\ AtMostOne(s_events) /\ NoneOf(s_events) => AtMostOne(s_events')
         /\ "AP_STARTED" \in ToSet(s_events') <=>
              "AP_STARTED" \in ToSet(s_events) \/ (Mode(m) \in ApModes /\ ~ApUp)
         /\ "AP_STOPPED" \in ToSet(s_events') <=>
              "AP_STOPPED" \in ToSet(s_events) \/ (Mode(m) \notin ApModes /\ ApUp)
         /\ "GOT_IP" \in ToSet(s_events') => "GOT_IP" \in ToSet(s_events)
<1> DEFINE r == Reports(s_radio_mode, Mode(m))
<1>1. /\ s_radio_mode' = Mode(m) /\ pc' = "drain" /\ stepped' = TRUE
      /\ \/ s_events' = (s_events \o r) \o <<>>
         \/ s_events' = (s_events \o r) \o <<"OURS">>
  <2>1. OnWifiEvent("STA_DISCONNECTED", Leave) = "OURS"
    <3>1. Classify(8) = "NONE"
      BY DEF Classify
    <3>2. QED  BY <3>1 DEF OnWifiEvent, Leave
  <2>2. QED  BY <2>1, Zenon DEF FinishTurn
<1>2. Mode(m) \in Modes
  BY DEF Mode, Modes
<1>3. /\ r \in Seq(Facts) /\ AtMostOne(r)
      /\ ToSet(r) \subseteq ApFacts \cup {"STA_READY", "STA_STOPPED"}
      /\ "AP_STARTED" \in ToSet(r) <=> Mode(m) \in ApModes /\ ~ApUp
      /\ "AP_STOPPED" \in ToSet(r) <=> Mode(m) \notin ApModes /\ ApUp
  BY <1>2, Reported DEF ApUp, Typed
<1> HIDE DEF r
<1> DEFINE q == s_events \o r
<1>4. /\ q \in Seq(Facts) /\ ToSet(q) = ToSet(s_events) \cup ToSet(r)
      /\ AtMostOne(s_events) /\ NoneOf(s_events) => AtMostOne(q)
  BY <1>3, Joined DEF Typed
<1> HIDE DEF q
<1>5. "OURS" \in Facts
  BY DEF Facts
<1>6. /\ s_events' \in Seq(Facts) /\ (AtMostOne(q) => AtMostOne(s_events'))
      /\ ToSet(s_events') \in {ToSet(q), ToSet(q) \cup {"OURS"}}
  <2>1. CASE s_events' = q \o <<>>
    BY <1>4, <2>1, Nothing, Joined DEF NoneOf
  <2>2. CASE s_events' = q \o <<"OURS">>
    <3>1. NoneOf(<<"OURS">>)
      BY <1>5, Single DEF NoneOf, ApFacts
    <3>2. QED  BY <1>4, <1>5, <2>2, <3>1, Single, Joined
  <2>3. QED  BY <1>1, <2>1, <2>2 DEF q
<1>7. QED  BY <1>1, <1>2, <1>3, <1>4, <1>6 DEF ApFacts

\* A step of the task that changes neither the radio's mode nor the time.
LEMMA FeedKeeps ==
  ASSUME IInv, Feed, since' = since
  PROVE  IInv'
<1> DEFINE fact == Head(s_events)
           rest == Tail(s_events)
<1>1. /\ s_events # <<>> /\ s' = Heard(fact) /\ s_events' = rest /\ pc = "drain" /\ pc' = pc
      /\ s_radio_mode' = s_radio_mode /\ nvs' = nvs
  BY DEF Feed
<1>2. /\ fact \in ToSet(s_events) /\ rest \in Seq(Facts) /\ ToSet(rest) \subseteq ToSet(s_events)
      /\ ToSet(s_events) = {fact} \cup ToSet(rest)
      /\ AtMostOne(rest) /\ (fact \in ApFacts => NoneOf(rest)) /\ fact \in Facts
  BY <1>1, FirstOf, HeadTailProperties DEF IInv, Typed, Queue
<1> HIDE DEF fact, rest
<1>3. Answered(s, s', fact)
  BY <1>1, <1>2, Hears DEF IInv, Typed
<1>4. Typed'
  BY <1>1, <1>2, <1>3 DEF IInv, Typed, Answered
<1>5. ApUp' = ApUp
  BY <1>1 DEF ApUp
<1>6. Queue'
  <2>1. AtMostOne(s_events') /\ (pc # "drain" => NoneOf(s_events))'
    BY <1>1, <1>2
  <2>2. CASE fact \in ApFacts
    <3>1. NoneOf(s_events')
      BY <1>1, <1>2, <2>2
    <3>2. s'.ap_on_air = ApUp
      <4>1. CASE fact = "AP_STARTED"
        BY <1>2, <1>3, <4>1 DEF IInv, Queue, Answered, ApUp
      <4>2. CASE fact = "AP_STOPPED"
        <5>1. s'.ap_on_air = FALSE
          BY <1>3, <4>2 DEF Answered
        <5>2. ~ApUp /\ ApUp \in BOOLEAN
          BY <1>2, <4>2 DEF IInv, Queue, ApUp
        <5>3. QED  BY <5>1, <5>2
      <4>3. QED  BY <2>2, <4>1, <4>2 DEF ApFacts
    <3>3. QED  BY <1>5, <2>1, <3>1, <3>2 DEF Queue, NoneOf, ApFacts
  <2>3. CASE fact \notin ApFacts
    <3>1. s'.ap_on_air = s.ap_on_air
      BY <1>3, <2>3 DEF Answered, ApFacts
    <3>2. NoneOf(s_events') => NoneOf(s_events)
      BY <1>1, <1>2, <2>3 DEF NoneOf
    <3>3. QED  BY <1>1, <1>2, <1>5, <2>1, <3>1, <3>2 DEF IInv, Queue
  <2>4. QED  BY <2>2, <2>3
<1>7. Clock'
  <2>1. (s.window_running => s.ap_on_air)' /\ Backed(s)'
    BY <1>3 DEF IInv, Clock, Answered
  <2>2. ASSUME ApUp, s'.window_running PROVE s'.opened = since
    <3>1. CASE s.window_running /\ s'.opened = s.opened
      BY <2>2, <3>1 DEF IInv, Clock
    <3>2. CASE fact = "AP_STARTED" /\ s'.opened = 0
      BY <1>2, <3>2 DEF IInv, Queue
    <3>3. QED  BY <1>3, <2>2, <3>1, <3>2 DEF Answered
  <2>3. QED  BY <1>5, <2>1, <2>2 DEF Clock
<1>8. QED  BY <1>4, <1>6, <1>7 DEF IInv

\* The end of a turn, with the machine as a tick left it.
LEMMA FinishKeeps ==
  ASSUME IInv, pc # "drain", NEW m, NEW wanted, NEW pair, FinishTurn(m, wanted, pair),
         DOMAIN s' = Machine, s'.ap_on_air = s.ap_on_air, Backed(s'),
         s'.window_running => s.window_running /\ s'.opened = s.opened,
         DOMAIN nvs' = DOMAIN nvs,
         since' = IF ApUp' # ApUp THEN 0 ELSE since
  PROVE  IInv'
<1>1. /\ s_radio_mode' = Mode(m) /\ Mode(m) \in Modes /\ pc' = "drain" /\ s_events' \in Seq(Facts)
      /\ AtMostOne(s_events) /\ NoneOf(s_events) => AtMostOne(s_events')
      /\ "AP_STARTED" \in ToSet(s_events') <=>
           "AP_STARTED" \in ToSet(s_events) \/ (Mode(m) \in ApModes /\ ~ApUp)
      /\ "AP_STOPPED" \in ToSet(s_events') <=>
           "AP_STOPPED" \in ToSet(s_events) \/ (Mode(m) \notin ApModes /\ ApUp)
  BY Finished DEF IInv
<1>2. AtMostOne(s_events) /\ NoneOf(s_events) /\ s.ap_on_air = ApUp
  BY DEF IInv, Queue
<1>3. ApUp' = (Mode(m) \in ApModes)
  BY <1>1 DEF ApUp
<1>4. /\ "AP_STARTED" \in ToSet(s_events') <=> ApUp' /\ ~ApUp
      /\ "AP_STOPPED" \in ToSet(s_events') <=> ~ApUp' /\ ApUp
  BY <1>1, <1>2, <1>3 DEF NoneOf, ApFacts
<1>5. NoneOf(s_events') => ApUp' = ApUp
  BY <1>4 DEF NoneOf, ApFacts, ApUp
<1>6. Typed'
  BY <1>1 DEF IInv, Typed
<1>7. Queue'
  BY <1>1, <1>2, <1>4, <1>5 DEF Queue
<1>8. Clock'
  <2>1. (s.window_running => s.ap_on_air)' /\ Backed(s)'
    BY DEF IInv, Clock
  <2>2. ASSUME ApUp', s'.window_running PROVE s'.opened = since'
    <3>1. ApUp
      BY <1>2, <2>2 DEF IInv, Clock
    <3>2. QED  BY <2>2, <3>1 DEF IInv, Clock, ApUp
  <2>3. QED  BY <2>1, <2>2 DEF Clock
<1>9. QED  BY <1>6, <1>7, <1>8 DEF IInv

\* A step that leaves the machine, the radio and the queue alone.
LEMMA RestKeeps ==
  ASSUME IInv, UNCHANGED <<s, s_events, s_radio_mode, since>>, DOMAIN nvs' = DOMAIN nvs,
         pc' # "drain" => NoneOf(s_events)
  PROVE  IInv'
<1>1. ApUp' = ApUp
  BY DEF ApUp
<1>2. QED  BY <1>1 DEF IInv, Typed, Queue, Clock

\* A fact that is not the access point's joins the queue.
LEMMA PostKeeps ==
  ASSUME IInv, NEW e \in Facts \ ApFacts, s_events' = Append(s_events, e),
         UNCHANGED <<s, pc, s_radio_mode, since>>, DOMAIN nvs' = DOMAIN nvs
  PROVE  IInv'
<1>1. /\ s_events' \in Seq(Facts) /\ AtMostOne(s_events') /\ ToSet(s_events') = ToSet(s_events) \cup {e}
  BY Posted DEF IInv, Typed, Queue
<1>2. /\ NoneOf(s_events') <=> NoneOf(s_events)
      /\ "AP_STARTED" \in ToSet(s_events') <=> "AP_STARTED" \in ToSet(s_events)
      /\ "AP_STOPPED" \in ToSet(s_events') <=> "AP_STOPPED" \in ToSet(s_events)
  BY <1>1 DEF NoneOf, ApFacts
<1>3. ApUp' = ApUp
  BY DEF ApUp
<1>4. QED  BY <1>1, <1>2, <1>3 DEF IInv, Typed, Queue, Clock

LEMMA TurnKeeps ==
  ASSUME IInv, Turn, since' = IF ApUp' # ApUp THEN 0 ELSE since
  PROVE  IInv'
<1> DEFINE t == Tick(s)
<1>1. /\ pc = "step" /\ s' = [t EXCEPT !.action = "NONE"]
      /\ \/ /\ pc' \in {"commit", "restore"}
            /\ UNCHANGED <<s_events, s_radio_mode, nvs>>
         \/ /\ FinishTurn(t, s_connect_wanted \/ t.action = "CONNECT", ram)
            /\ nvs' = Flags(nvs, t)
  BY DEF Turn
<1>2. Follows(s, t)
  BY Ticks DEF IInv, Typed
<1> HIDE DEF t
<1>3. /\ DOMAIN s' = Machine /\ s'.ap_on_air = s.ap_on_air
      /\ s'.window_running => s.window_running /\ s'.opened = s.opened
  BY <1>1, <1>2 DEF Follows, Machine
<1>4. s'.window_running = t.window_running /\ s'.state = t.state /\ s'.ap_on_air = t.ap_on_air
  BY <1>1, <1>2 DEF Follows, Machine
<1>5. Backed(s')
  BY <1>2, <1>4 DEF Follows, Backed, IInv, Clock
<1>6. CASE UNCHANGED <<s_events, s_radio_mode, nvs>> /\ pc' \in {"commit", "restore"}
  <2>1. ApUp' = ApUp
    BY <1>6 DEF ApUp
  <2>2. NoneOf(s_events)
    BY <1>1 DEF IInv, Queue
  <2>3. Typed'
    BY <1>3, <1>6 DEF IInv, Typed
  <2>4. Queue'
    BY <1>3, <1>6, <2>1, <2>2 DEF IInv, Queue
  <2>5. Clock'
    BY <1>3, <1>5, <2>1 DEF IInv, Clock
  <2>6. QED  BY <2>3, <2>4, <2>5 DEF IInv
<1>7. CASE FinishTurn(t, s_connect_wanted \/ t.action = "CONNECT", ram) /\ nvs' = Flags(nvs, t)
  <2>1. DOMAIN nvs' = DOMAIN nvs
    BY <1>7 DEF Flags, SaveFlags
  <2>2. QED  BY <1>1, <1>3, <1>5, <1>7, <2>1, FinishKeeps
<1>8. QED  BY <1>1, <1>6, <1>7

LEMMA PassKeeps ==
  ASSUME IInv, RPass
  PROVE  IInv'
<1>1. /\ s_events = <<>> /\ s' = Aged(s) /\ UNCHANGED <<pc, s_events, s_radio_mode, nvs>>
      /\ since' = IF since < AgeMax THEN since + 1 ELSE since
  BY DEF RPass, Pass
<1>2. /\ DOMAIN s' = Machine /\ s'.ap_on_air = s.ap_on_air /\ s'.window_running = s.window_running
      /\ s'.state = s.state /\ s'.opened = Older(s.window_running, s.opened)
  BY <1>1 DEF Aged, Machine, IInv, Typed
<1>3. ApUp' = ApUp
  BY <1>1 DEF ApUp
<1>4. "AP_STARTED" \notin ToSet(s_events)
  BY <1>1, Nothing
<1>5. Typed'
  BY <1>1, <1>2 DEF IInv, Typed
<1>6. Queue'
  BY <1>1, <1>2, <1>3, <1>4 DEF IInv, Queue
<1>7. (ApUp /\ s.window_running => s.opened = since)'
  BY <1>1, <1>2, <1>3 DEF IInv, Clock, Older
<1>8. Clock'
  BY <1>2, <1>7 DEF IInv, Clock, Backed
<1>9. QED  BY <1>5, <1>6, <1>8 DEF IInv

LEMMA Boots ==
  ASSUME NEW flash
  PROVE  LET m == FromFlash(flash)
         IN  /\ DOMAIN m = Machine /\ m.ap_on_air = FALSE /\ m.window_running = FALSE
             /\ m.action # "COMMIT"
BY DEF FromFlash, Booted, Machine

LEMMA InitHolds == RInit => IInv
<1>1. SUFFICES ASSUME RInit PROVE IInv
  OBVIOUS
<1>2. /\ s = FromFlash(nvs) /\ s_events = <<>> /\ pc = "drain" /\ s_radio_mode = "OFF"
      /\ DOMAIN nvs = {"sta", "good", "closed", "no_address"}
  <2>1. PICK p \in Homes : nvs = [sta |-> p, good |-> p, closed |-> FALSE, no_address |-> FALSE]
    BY <1>1 DEF RInit, NInit
  <2>2. DOMAIN nvs = {"sta", "good", "closed", "no_address"}
    BY <2>1
  <2>3. QED  BY <1>1, <2>2 DEF RInit, NInit, Off
<1>3. DOMAIN s = Machine /\ s.ap_on_air = FALSE /\ s.window_running = FALSE
  BY <1>2, Boots
<1>4. ApUp = FALSE
  BY <1>2 DEF ApUp, ApModes
<1>5. Typed
  BY <1>2, <1>3, Nothing DEF Typed, Modes
<1>6. Queue /\ Clock
  BY <1>2, <1>3, <1>4, Nothing DEF Queue, Clock, Backed
<1>7. QED  BY <1>5, <1>6 DEF IInv

LEMMA RestartKeeps ==
  ASSUME IInv, Restart
  PROVE  IInv'
<1>1. /\ s' = FromFlash(nvs) /\ s_events' = <<>> /\ pc' = "drain" /\ s_radio_mode' = "OFF"
      /\ nvs' = nvs
  BY DEF Restart
<1>2. DOMAIN s' = Machine /\ s'.ap_on_air = FALSE /\ s'.window_running = FALSE
  BY <1>1, Boots
<1>3. ApUp' = FALSE
  BY <1>1 DEF ApUp, ApModes
<1>4. Typed'
  BY <1>1, <1>2, Nothing DEF IInv, Typed, Modes
<1>5. Queue' /\ Clock'
  BY <1>1, <1>2, <1>3, Nothing DEF Queue, Clock, Backed
<1>6. QED  BY <1>4, <1>5 DEF IInv

LEMMA NextKeeps == IInv /\ [RNext]_rvars => IInv'
<1> SUFFICES ASSUME IInv, [RNext]_rvars PROVE IInv'
  OBVIOUS
<1> USE DEF Post
<1>1. CASE RTask
  <2>1. since' = IF ApUp' # ApUp THEN 0 ELSE since
    BY <1>1 DEF RTask
  <2>2. CASE Feed
    <3>1. ApUp' = ApUp
      BY <2>2 DEF Feed, ApUp
    <3>2. QED  BY <2>1, <2>2, <3>1, FeedKeeps
  <2>3. CASE Drained
    <3>1. ApUp' = ApUp /\ NoneOf(s_events)
      BY <2>3, Nothing DEF Drained, ApUp, NoneOf
    <3>2. QED  BY <2>1, <2>3, <3>1, RestKeeps DEF Drained
  <2>4. CASE Turn
    BY <2>1, <2>4, TurnKeeps
  <2>5. CASE Commit
    <3>1. /\ s' = s /\ pc # "drain" /\ FinishTurn(s, s_connect_wanted, ram)
          /\ DOMAIN nvs' = DOMAIN nvs
      BY <2>5 DEF Commit, Flags, SaveFlags
    <3>2. QED  BY <2>1, <3>1, FinishKeeps DEF IInv, Typed, Clock
  <2>6. CASE Restore
    <3>1. ApUp' = ApUp /\ NoneOf(s_events) /\ DOMAIN nvs' = DOMAIN nvs
      BY <2>6 DEF Restore, ApUp, IInv, Queue
    <3>2. QED  BY <2>1, <2>6, <3>1, RestKeeps DEF Restore
  <2>7. CASE Restored
    <3>1. /\ s' = s /\ pc # "drain" /\ FinishTurn(s, TRUE, nvs.good)
          /\ DOMAIN nvs' = DOMAIN nvs
      BY <2>7 DEF Restored, Flags, SaveFlags
    <3>2. QED  BY <2>1, <3>1, FinishKeeps DEF IInv, Typed, Clock
  <2>8. QED  BY <1>1, <2>2, <2>3, <2>4, <2>5, <2>6, <2>7 DEF RTask, Task
<1>2. CASE RPass
  BY <1>2, PassKeeps
<1>3. CASE ROwner
  <2>1. CASE SaveWifi
    <3>1. DOMAIN nvs' = DOMAIN nvs
      BY <2>1 DEF SaveWifi
    <3>2. QED  BY <1>3, <2>1, <3>1, RestKeeps DEF ROwner, SaveWifi, taskVars, IInv, Queue
  <2>2. CASE Announce
    BY <1>3, <2>2, PostKeeps DEF ROwner, Announce, Facts, ApFacts
  <2>3. CASE ClientSeen
    BY <1>3, <2>3, PostKeeps DEF ROwner, ClientSeen, Facts, ApFacts
  <2>4. QED  BY <1>3, <2>1, <2>2, <2>3 DEF ROwner, Owner
<1>4. CASE RAnswers
  <2>1. CASE Associates
    <3>1. OnWifiEvent("STA_CONNECTED", 0) \in Facts \ ApFacts
      BY DEF OnWifiEvent, Facts, ApFacts
    <3>2. QED  BY <1>4, <2>1, <3>1, PostKeeps DEF RAnswers, Associates
  <2>2. CASE TurnedAway
    <3>1. OnWifiEvent("STA_DISCONNECTED", Absent) \in Facts \ ApFacts
      BY DEF OnWifiEvent, Facts, ApFacts
    <3>2. QED  BY <1>4, <2>2, <3>1, PostKeeps DEF RAnswers, TurnedAway
  <2>3. QED  BY <1>4, <2>1, <2>2 DEF RAnswers, Answers
<1>5. CASE RAddress
  <2>1. OnWifiEvent("STA_GOT_IP", 0) \in Facts \ ApFacts
    BY DEF OnWifiEvent, Facts, ApFacts
  <2>2. QED  BY <1>5, <2>1, PostKeeps DEF RAddress, GetsAddress
<1>6. CASE RDrops
  <2>1. OnWifiEvent("STA_DISCONNECTED", Absent) \in Facts \ ApFacts
    BY DEF OnWifiEvent, Facts, ApFacts
  <2>2. QED  BY <1>6, <2>1, PostKeeps DEF RDrops, Drops
<1>7. CASE RRestart
  BY <1>7, RestartKeeps DEF RRestart
<1>8. CASE UNCHANGED rvars
  BY <1>8, RestKeeps DEF rvars, nvars, taskVars, IInv, Queue
<1>9. QED  BY <1>1, <1>2, <1>3, <1>4, <1>5, <1>6, <1>7, <1>8 DEF RNext

\* The invariant the theorems below rest on.
THEOREM Invariance == RSpec => []IInv
BY InitHolds, NextKeeps, PTL DEF RSpec
-----------------------------------------------------------------------------
(* The ceiling, of a device that has one.                                  *)

\* What a tick leaves running is younger than the ceiling, and stays so until
\* the turn it belongs to has ended.
Judged == pc \in {"commit", "restore", "restored"} /\ s.window_running => since < SetupCeiling

HasLimits == SetupCeiling # 0 /\ SetupWindow # 0 /\ ReopenWindow # 0

\* The mode of a machine keeps an access point only for a window that runs.
LEMMA ModeNeedsWindow ==
  ASSUME NEW m, m.ap_on_air, Backed(m), Mode(m) \in ApModes
  PROVE  m.window_running
BY DEF Mode, ApModes, Backed

\* The end of a turn whose window, if it has one, is young enough.
LEMMA FinishBounded ==
  ASSUME HasLimits, IInv, pc # "drain", NEW m, NEW wanted, NEW pair, FinishTurn(m, wanted, pair),
         m.ap_on_air = s.ap_on_air, Backed(m),
         m.window_running /\ ApUp => since < SetupCeiling,
         since' = IF ApUp' # ApUp THEN 0 ELSE since
  PROVE  Judged' /\ AccessPointBounded'
<1>1. pc' = "drain" /\ s_radio_mode' = Mode(m)
  BY Finished DEF IInv
<1>2. ASSUME ApUp' PROVE since' < SetupCeiling
  <2>1. CASE ApUp
    <3>1. m.ap_on_air
      BY <2>1 DEF IInv, Queue
    <3>2. m.window_running
      BY <1>1, <1>2, <3>1, ModeNeedsWindow DEF ApUp
    <3>3. QED  BY <1>2, <2>1, <3>2
  <2>2. CASE ~ApUp
    <3>1. since' = 0
      BY <1>2, <2>2
    <3>2. QED  BY <3>1, ProvisionAssumption DEF HasLimits
  <2>3. QED  BY <2>1, <2>2
<1>3. QED  BY <1>1, <1>2 DEF Judged, AccessPointBounded

LEMMA NextBounded ==
  ASSUME HasLimits
  PROVE  IInv /\ Judged /\ AccessPointBounded /\ [RNext]_rvars => Judged' /\ AccessPointBounded'
<1> SUFFICES ASSUME IInv, Judged, AccessPointBounded, [RNext]_rvars
             PROVE  Judged' /\ AccessPointBounded'
  OBVIOUS
<1>1. CASE RTask
  <2>1. since' = IF ApUp' # ApUp THEN 0 ELSE since
    BY <1>1 DEF RTask
  <2>2. CASE Feed
    BY <2>2 DEF Feed, Judged, AccessPointBounded
  <2>3. CASE Drained
    BY <2>3 DEF Drained, Judged, AccessPointBounded
  <2>4. CASE Turn
    <3> DEFINE t == Tick(s)
    <3>1. /\ pc = "step" /\ s' = [t EXCEPT !.action = "NONE"]
          /\ \/ UNCHANGED <<stepped, s_radio_mode>>
             \/ FinishTurn(t, s_connect_wanted \/ t.action = "CONNECT", ram)
      BY <2>4 DEF Turn
    <3>2. Follows(s, t) /\ (t.window_running /\ s.ap_on_air => WindowOpen(s))
      BY Ticks DEF IInv, Typed
    <3> HIDE DEF t
    <3>3. s'.window_running = t.window_running
      BY <3>1, <3>2 DEF Follows, Machine
    <3>4. t.window_running /\ ApUp => since < SetupCeiling
      <4>1. SUFFICES ASSUME t.window_running, ApUp PROVE since < SetupCeiling
        OBVIOUS
      <4>2. s.ap_on_air /\ s.window_running /\ s.opened = since
        BY <3>1, <3>2, <4>1 DEF IInv, Queue, Clock, Follows
      <4>3. WindowLength(s) # 0
        BY DEF WindowLength, HasLimits
      <4>4. QED  BY <3>2, <4>1, <4>2, <4>3 DEF WindowOpen, HasLimits
    <3>5. CASE UNCHANGED <<stepped, s_radio_mode>>
      <4>1. ApUp' = ApUp /\ since' = since
        BY <2>1, <3>5 DEF ApUp
      <4>2. Judged'
        <5>1. SUFFICES ASSUME t.window_running PROVE since < SetupCeiling
          BY <3>3, <4>1 DEF Judged
        <5>2. ApUp
          BY <3>1, <3>2, <5>1 DEF IInv, Queue, Clock, Follows
        <5>3. QED  BY <3>4, <5>1, <5>2
      <4>3. AccessPointBounded'
        BY <3>5, <4>1 DEF AccessPointBounded
      <4>4. QED  BY <4>2, <4>3
    <3>6. CASE FinishTurn(t, s_connect_wanted \/ t.action = "CONNECT", ram)
      <4>1. t.ap_on_air = s.ap_on_air /\ Backed(t)
        BY <3>2 DEF Follows, IInv, Clock
      <4>2. QED  BY <2>1, <3>1, <3>4, <3>6, <4>1, FinishBounded
    <3>7. QED  BY <3>1, <3>5, <3>6
  <2>5. CASE Commit
    <3>1. pc = "commit" /\ FinishTurn(s, s_connect_wanted, ram)
      BY <2>5 DEF Commit
    <3>2. QED  BY <2>1, <3>1, FinishBounded DEF Judged, IInv, Clock
  <2>6. CASE Restore
    <3>1. ApUp' = ApUp
      BY <2>6 DEF Restore, ApUp
    <3>2. QED  BY <2>1, <2>6, <3>1 DEF Restore, Judged, AccessPointBounded
  <2>7. CASE Restored
    <3>1. pc = "restored" /\ FinishTurn(s, TRUE, nvs.good)
      BY <2>7 DEF Restored
    <3>2. QED  BY <2>1, <3>1, FinishBounded DEF Judged, IInv, Clock
  <2>8. QED  BY <1>1, <2>2, <2>3, <2>4, <2>5, <2>6, <2>7 DEF RTask, Task
<1>2. CASE RPass
  BY <1>2 DEF RPass, Pass, Judged, AccessPointBounded
<1>3. CASE RRestart
  BY <1>3 DEF RRestart, Restart, Judged, AccessPointBounded
<1>4. CASE UNCHANGED <<s, pc, stepped, s_radio_mode, since>>
  BY <1>4 DEF Judged, AccessPointBounded, ApUp
<1>5. ASSUME ROwner \/ RAnswers \/ RAddress \/ RDrops \/ UNCHANGED rvars
      PROVE  UNCHANGED <<s, pc, stepped, s_radio_mode, since>>
  BY <1>5 DEF ROwner, Owner, SaveWifi, Announce, ClientSeen, Post, RAnswers, Answers, Associates,
              TurnedAway, RAddress, GetsAddress, RDrops, Drops, rvars, nvars, taskVars
<1>6. QED  BY <1>1, <1>2, <1>3, <1>4, <1>5 DEF RNext

\* However often clients knock, whatever the station does meanwhile and whenever
\* the power fails, an access point that came up is off the air by the ceiling.
THEOREM AccessPointGoesDown ==
  ASSUME SetupCeiling # 0, SetupWindow # 0, ReopenWindow # 0
  PROVE  RSpec => []AccessPointBounded
<1>1. HasLimits
  BY DEF HasLimits
<1>2. RInit => Judged /\ AccessPointBounded
  BY DEF RInit, NInit, Off, Judged, AccessPointBounded
<1>3. QED  BY <1>1, <1>2, Invariance, NextBounded, PTL DEF RSpec

-----------------------------------------------------------------------------
(* What is known good, where no request overlaps with a promotion.         *)

\* A promotion is on its way from the address that earns it to the write that
\* carries it out; all along, the stored pair is one that had an address.
Promoting == pc = "commit" \/ s.action = "COMMIT" \/ "GOT_IP" \in ToSet(s_events)

Earned == Promoting => nvs.sta \in worked \cup {None}

\* A turn that ends promotes nothing new.
LEMMA FinishEarns ==
  ASSUME IInv, NEW m, NEW wanted, NEW pair, FinishTurn(m, wanted, pair),
         s'.action = "COMMIT" => s.action = "COMMIT"
  PROVE  Promoting' => Promoting
<1>1. pc' = "drain" /\ ("GOT_IP" \in ToSet(s_events') => "GOT_IP" \in ToSet(s_events))
  BY Finished DEF IInv
<1>2. QED  BY <1>1 DEF Promoting

\* The flags beside the pairs.
LEMMA FlagsAlone ==
  ASSUME Typed, NEW flash, DOMAIN flash = DOMAIN nvs, NEW m
  PROVE  Flags(flash, m).sta = flash.sta /\ Flags(flash, m).good = flash.good
BY DEF Flags, SaveFlags, Typed

LEMMA NextEarns ==
  ASSUME ~Overlaps
  PROVE  IInv /\ KnownGoodWorked /\ Earned /\ [RNext]_rvars => KnownGoodWorked' /\ Earned'
<1> SUFFICES ASSUME IInv, KnownGoodWorked, Earned, [RNext]_rvars
             PROVE  KnownGoodWorked' /\ Earned'
  OBVIOUS
<1>1. CASE RTask
  <2>1. worked' = worked
    BY <1>1 DEF RTask
  <2>2. CASE Feed
    <3> DEFINE fact == Head(s_events)
    <3>1. /\ s' = Heard(fact) /\ s_events' = Tail(s_events) /\ pc' = pc /\ nvs' = nvs
          /\ s_events # <<>>
      BY <2>2 DEF Feed
    <3>2. fact \in ToSet(s_events) /\ ToSet(s_events') \subseteq ToSet(s_events) /\ fact \in Facts
      BY <3>1, FirstOf, HeadTailProperties DEF IInv, Typed, Queue
    <3>3. s'.action = "COMMIT" => s.action = "COMMIT" \/ fact = "GOT_IP"
      BY <3>1, <3>2, Hears DEF IInv, Typed, Answered
    <3>4. Promoting' => Promoting
      BY <3>1, <3>2, <3>3 DEF Promoting
    <3>5. QED  BY <2>1, <3>1, <3>4 DEF KnownGoodWorked, Earned
  <2>3. CASE Drained
    BY <2>1, <2>3 DEF Drained, KnownGoodWorked, Earned, Promoting
  <2>4. CASE Turn
    <3> DEFINE t == Tick(s)
    <3>1. /\ s' = [t EXCEPT !.action = "NONE"]
          /\ \/ /\ t.action = "COMMIT" /\ pc' = "commit" /\ UNCHANGED <<s_events, nvs>>
             \/ /\ pc' = "restore" /\ UNCHANGED <<s_events, nvs>>
             \/ /\ FinishTurn(t, s_connect_wanted \/ t.action = "CONNECT", ram)
                /\ nvs' = Flags(nvs, t)
      BY <2>4 DEF Turn
    <3>2. DOMAIN t = Machine /\ (t.action = "COMMIT" => s.action = "COMMIT")
      BY Ticks DEF IInv, Typed, Follows
    <3> HIDE DEF t
    <3>3. s'.action # "COMMIT"
      BY <3>1, <3>2 DEF Machine
    <3>4. Promoting' => Promoting
      <4>1. CASE FinishTurn(t, s_connect_wanted \/ t.action = "CONNECT", ram)
        BY <3>3, <4>1, FinishEarns
      <4>2. CASE UNCHANGED s_events /\ pc' # "commit"
        BY <3>3, <4>2 DEF Promoting
      <4>3. CASE t.action = "COMMIT" /\ UNCHANGED s_events
        BY <3>2, <4>3 DEF Promoting
      <4>4. QED  BY <3>1, <4>1, <4>2, <4>3
    <3>5. nvs'.sta = nvs.sta /\ nvs'.good = nvs.good
      BY <3>1, FlagsAlone DEF IInv
    <3>6. QED  BY <2>1, <3>4, <3>5 DEF KnownGoodWorked, Earned
  <2>5. CASE Commit
    <3> DEFINE flash == [nvs EXCEPT !.good = nvs.sta]
    <3>1. /\ pc = "commit" /\ s' = s /\ FinishTurn(s, s_connect_wanted, ram)
          /\ nvs' = Flags(flash, s)
      BY <2>5 DEF Commit
    <3>2. DOMAIN flash = DOMAIN nvs /\ flash.sta = nvs.sta /\ flash.good = nvs.sta
      BY DEF IInv, Typed
    <3> HIDE DEF flash
    <3>3. nvs'.sta = nvs.sta /\ nvs'.good = nvs.sta
      BY <3>1, <3>2, FlagsAlone DEF IInv
    <3>4. QED  BY <2>1, <3>1, <3>3 DEF KnownGoodWorked, Earned, Promoting
  <2>6. CASE Restore
    <3>1. nvs'.sta = nvs.good /\ nvs'.good = nvs.good
      BY <2>6 DEF Restore, IInv, Typed
    <3>2. QED  BY <2>1, <3>1 DEF KnownGoodWorked, Earned
  <2>7. CASE Restored
    <3>1. /\ s' = s /\ FinishTurn(s, TRUE, nvs.good) /\ nvs' = Flags(nvs, s)
      BY <2>7 DEF Restored
    <3>2. nvs'.sta = nvs.sta /\ nvs'.good = nvs.good
      BY <3>1, FlagsAlone DEF IInv
    <3>3. Promoting' => Promoting
      BY <3>1, FinishEarns
    <3>4. QED  BY <2>1, <3>2, <3>3 DEF KnownGoodWorked, Earned
  <2>8. QED  BY <1>1, <2>2, <2>3, <2>4, <2>5, <2>6, <2>7 DEF RTask, Task
<1>2. CASE RPass
  <2>1. s'.action = s.action
    BY <1>2 DEF RPass, Pass, Aged, IInv, Typed, Machine
  <2>2. QED  BY <1>2, <2>1 DEF RPass, Pass, KnownGoodWorked, Earned, Promoting
<1>3. CASE ROwner /\ SaveWifi
  <2>1. /\ pc = "drain" /\ s.action = "NONE" /\ ~Contains(s_events, "GOT_IP")
        /\ nvs'.good = nvs.good /\ UNCHANGED <<pc, s, s_events, worked>>
    BY <1>3 DEF ROwner, SaveWifi, taskVars, IInv, Typed
  <2>2. DOMAIN s_events = 1..Len(s_events)
    BY LenProperties DEF IInv, Typed
  <2>3. "GOT_IP" \notin ToSet(s_events)
    BY <2>1, <2>2, IsIn DEF Contains
  <2>4. QED  BY <2>1, <2>3 DEF KnownGoodWorked, Earned, Promoting
<1>4. ASSUME UNCHANGED <<pc, s, nvs, worked>>, NEW e \in Facts, e # "GOT_IP",
             s_events' \in {s_events, Append(s_events, e)}
      PROVE  KnownGoodWorked' /\ Earned'
  <2>1. "GOT_IP" \in ToSet(s_events') => "GOT_IP" \in ToSet(s_events)
    <3>1. ToSet(Append(s_events, e)) = ToSet(s_events) \cup {e}
      BY Grown DEF IInv, Typed
    <3>2. QED  BY <1>4, <3>1
  <2>2. QED  BY <1>4, <2>1 DEF KnownGoodWorked, Earned, Promoting
<1>5. CASE ROwner /\ (Announce \/ ClientSeen)
  BY <1>4, <1>5 DEF ROwner, Announce, ClientSeen, Post, Facts
<1>6. CASE RAnswers \/ RDrops
  <2>1. /\ OnWifiEvent("STA_CONNECTED", 0) = "ASSOCIATED"
        /\ OnWifiEvent("STA_DISCONNECTED", Absent) \in {"OURS", "REFUSED"}
    BY DEF OnWifiEvent
  <2>2. QED  BY <1>4, <1>6, <2>1
             DEF RAnswers, Answers, Associates, TurnedAway, RDrops, Drops, Post, Facts
<1>7. CASE RAddress
  <2>1. /\ link.on = nvs.sta /\ nvs' = nvs /\ worked' = worked \cup {link.on}
    BY <1>7 DEF RAddress, GetsAddress, Post
  <2>2. QED  BY <2>1 DEF KnownGoodWorked, Earned
<1>8. CASE RRestart
  <2>1. /\ s'.action # "COMMIT" /\ s_events' = <<>> /\ pc' = "drain" /\ nvs' = nvs
        /\ worked' = worked
    BY <1>8, Boots DEF RRestart, Restart
  <2>2. QED  BY <2>1, Nothing DEF KnownGoodWorked, Earned, Promoting
<1>9. CASE UNCHANGED rvars
  BY <1>4, <1>9 DEF rvars, nvars, taskVars, Facts
<1>10. QED  BY <1>1, <1>2, <1>3, <1>5, <1>6, <1>7, <1>8, <1>9 DEF RNext, ROwner, Owner

\* What a rollback would put back, through any number of pairs, trials, rollbacks
\* and power cuts, has had an address, as long as no request is served between
\* an address and the promotion it earns.
THEOREM KnownGoodHasWorked ==
  ASSUME ~Overlaps
  PROVE  RSpec => []KnownGoodWorked
<1>1. RInit => KnownGoodWorked /\ Earned
  <2>1. SUFFICES ASSUME RInit PROVE KnownGoodWorked /\ Earned
    OBVIOUS
  <2>2. PICK p \in Homes : nvs = [sta |-> p, good |-> p, closed |-> FALSE, no_address |-> FALSE]
    BY <2>1 DEF RInit, NInit
  <2>3. worked = {p} \ {None} /\ nvs.sta = p /\ nvs.good = p
    BY <2>1, <2>2 DEF RInit
  <2>4. QED  BY <2>3 DEF KnownGoodWorked, Earned
<1>2. QED  BY <1>1, Invariance, NextEarns, PTL DEF RSpec

-----------------------------------------------------------------------------
(* The wait between attempts, at any width of the word.                     *)

\* Induction over the natural numbers, for a set: a least number outside it has
\* a predecessor inside.
LEMMA SetInduction ==
  ASSUME NEW S, 0 \in S, \A n \in Nat : n \in S => n + 1 \in S
  PROVE  Nat \subseteq S
<1> DEFINE outside == Nat \ S
<1> DEFINE less == {ss \in Nat \X Nat : ss[1] < ss[2]}
<1> SUFFICES ASSUME outside # {} PROVE FALSE
  OBVIOUS
<1>1. IsWellFoundedOn(less, Nat)
  BY NatLessThanWellFounded DEF OpToRel
<1>2. outside \subseteq Nat
  OBVIOUS
<1>3. \E m \in outside : \A k \in outside : ~(<<k, m>> \in less)
  <2> HIDE DEF less, outside
  <2> QED BY <1>1, <1>2, WFMin
<1>4. PICK m \in outside : \A k \in outside : ~(<<k, m>> \in less)
  BY <1>3
<1>5. m \in Nat /\ m # 0 /\ m - 1 \in Nat /\ m - 1 < m /\ m = (m - 1) + 1
  OBVIOUS
<1>6. <<m - 1, m>> \in less
  BY <1>5
<1>7. m - 1 \in S
  BY <1>4, <1>5, <1>6
<1>8. m \in S
  <2>1. (m - 1) + 1 \in S
    BY <1>5, <1>7
  <2> QED BY <1>5, <2>1, Zenon
<1> QED BY <1>8

\* One round of the loop in backoff_ms, and what it returns.
Doubled(before, most, top) ==
  IF before >= most \/ before > top \div 2 THEN before ELSE 2 * before

Capped(delay, most) == IF delay > most THEN most ELSE delay

\* f is the loop's variable after each of n rounds.
Rounds(f, least, most, n, top) ==
  f = [i \in 0..n |-> IF i = 0 THEN least ELSE Doubled(f[i - 1], most, top)]

\* The word the delay is in always holds it.
LEMMA NeverWraps ==
  ASSUME NEW most \in Nat, NEW top \in Nat, NEW before \in 0..top
  PROVE  Doubled(before, most, top) \in 0..top
BY DEF Doubled

LEMMA RoundsExist ==
  ASSUME NEW least \in Nat, NEW most \in Nat, NEW top \in Nat, NEW n \in Nat
  PROVE  \E f : Rounds(f, least, most, n, top)
<1> DEFINE S == {k \in Nat : \E f : Rounds(f, least, most, k, top)}
<1>1. 0 \in S
  <2> DEFINE f == [i \in 0..0 |-> least]
  <2>1. f = [i \in 0..0 |-> IF i = 0 THEN least ELSE Doubled(f[i - 1], most, top)]
    OBVIOUS
  <2>2. Rounds(f, least, most, 0, top)
    BY <2>1, Zenon DEF Rounds
  <2> QED BY <2>2
<1>2. ASSUME NEW k \in Nat, k \in S PROVE k + 1 \in S
  <2>1. PICK f : Rounds(f, least, most, k, top)
    BY <1>2
  <2> DEFINE g == [i \in 0..(k + 1) |-> IF i = k + 1 THEN Doubled(f[k], most, top) ELSE f[i]]
  <2>2. f = [i \in 0..k |-> IF i = 0 THEN least ELSE Doubled(f[i - 1], most, top)]
    BY <2>1, Zenon DEF Rounds
  <2>3. ASSUME NEW i \in 0..(k + 1)
        PROVE  g[i] = IF i = 0 THEN least ELSE Doubled(g[i - 1], most, top)
    <3>1. CASE i = k + 1
      BY <3>1
    <3>2. CASE i # k + 1 /\ i = 0
      BY <2>2, <3>2
    <3>3. CASE i # k + 1 /\ i # 0
      <4>1. i \in 0..k /\ i - 1 \in 0..k /\ i - 1 \in 0..(k + 1) /\ i - 1 # k + 1
        BY <3>3
      <4>2. g[i] = f[i] /\ g[i - 1] = f[i - 1]
        BY <3>3, <4>1
      <4>3. f[i] = Doubled(f[i - 1], most, top)
        BY <2>2, <3>3, <4>1
      <4> QED BY <3>3, <4>2, <4>3, Zenon
    <3> QED BY <3>1, <3>2, <3>3
  <2>4. g = [i \in 0..(k + 1) |-> IF i = 0 THEN least ELSE Doubled(g[i - 1], most, top)]
    BY <2>3
  <2>5. Rounds(g, least, most, k + 1, top)
    BY <2>4, Zenon DEF Rounds
  <2> QED BY <2>5
<1> HIDE DEF S
<1>3. Nat \subseteq S
  BY <1>1, <1>2, SetInduction
<1> QED BY <1>3 DEF S

\* What a loop of n rounds and one of n + 1 have to do with each other.
OneMore(f, g, least, most, n, top) ==
  f[n] \in Nat /\ f[n] >= least /\ g[n] = f[n] /\ g[n + 1] = Doubled(f[n], most, top)

\* Longer loops go through the same values.
LEMMA RoundsAgree ==
  ASSUME NEW least \in Nat, NEW most \in Nat, NEW top \in Nat, NEW n \in Nat,
         NEW f, Rounds(f, least, most, n, top), NEW g, Rounds(g, least, most, n + 1, top)
  PROVE  OneMore(f, g, least, most, n, top)
<1> DEFINE S == {i \in Nat : i <= n => f[i] \in Nat /\ f[i] >= least /\ g[i] = f[i]}
<1>1. /\ f = [i \in 0..n |-> IF i = 0 THEN least ELSE Doubled(f[i - 1], most, top)]
      /\ g = [i \in 0..(n + 1) |-> IF i = 0 THEN least ELSE Doubled(g[i - 1], most, top)]
  BY Zenon DEF Rounds
<1>2. 0 \in S
  <2>1. 0 \in 0..n /\ 0 \in 0..(n + 1)
    OBVIOUS
  <2>2. f[0] = least /\ g[0] = least
    BY <1>1, <2>1, Zenon
  <2> QED BY <2>2
<1>3. ASSUME NEW i \in Nat, i \in S PROVE i + 1 \in S
  <2> SUFFICES ASSUME i + 1 <= n
               PROVE  f[i + 1] \in Nat /\ f[i + 1] >= least /\ g[i + 1] = f[i + 1]
    OBVIOUS
  <2>1. /\ i + 1 \in 0..n /\ i + 1 \in 0..(n + 1) /\ i + 1 # 0 /\ (i + 1) - 1 = i /\ i <= n
    OBVIOUS
  <2>2. f[i + 1] = Doubled(f[i], most, top) /\ g[i + 1] = Doubled(g[i], most, top)
    <3>1. f[i + 1] = Doubled(f[(i + 1) - 1], most, top) /\ g[i + 1] = Doubled(g[(i + 1) - 1], most, top)
      BY <1>1, <2>1, Zenon
    <3> QED BY <2>1, <3>1, Zenon
  <2>3. f[i] \in Nat /\ f[i] >= least /\ g[i] = f[i]
    BY <1>3, <2>1
  <2>4. Doubled(f[i], most, top) \in Nat /\ Doubled(f[i], most, top) >= f[i]
    BY <2>3 DEF Doubled
  <2> QED BY <2>2, <2>3, <2>4
<1> HIDE DEF S
<1>4. n \in S
  BY <1>2, <1>3, SetInduction
<1>5. f[n] \in Nat /\ f[n] >= least /\ g[n] = f[n]
  BY <1>4 DEF S
<1>6. g[n + 1] = Doubled(g[n], most, top)
  <2>1. n + 1 \in 0..(n + 1) /\ n + 1 # 0 /\ (n + 1) - 1 = n
    OBVIOUS
  <2>2. g[n + 1] = Doubled(g[(n + 1) - 1], most, top)
    BY <1>1, <2>1, Zenon
  <2> QED BY <2>1, <2>2, Zenon
<1> QED BY <1>5, <1>6, Zenon DEF OneMore

\* The function is what the loop leaves.
LoopLeaves(least, most, n, top) ==
  \E f : Rounds(f, least, most, n, top) /\ Backoff(least, most, n, top) = Capped(f[n], most)

LEMMA BackoffIsLoop ==
  ASSUME NEW least \in Nat, NEW most \in Nat, NEW top \in Nat, NEW n \in Nat
  PROVE  LoopLeaves(least, most, n, top)
<1> DEFINE d == CHOOSE f : f = [i \in 0..n |->
                  IF i = 0 THEN least
                  ELSE IF f[i - 1] >= most \/ f[i - 1] > top \div 2 THEN f[i - 1] ELSE 2 * f[i - 1]]
<1>1. Backoff(least, most, n, top) = IF d[n] > most THEN most ELSE d[n]
  BY Zenon DEF Backoff
<1>2. Rounds(d, least, most, n, top)
  <2>1. PICK f : Rounds(f, least, most, n, top)
    BY RoundsExist, Zenon
  <2> QED BY <2>1, Zenon DEF Rounds, Doubled
<1> QED BY <1>1, <1>2, Zenon DEF Capped, LoopLeaves

\* However long a network refuses and however wide the word is, the wait never
\* collapses: it is never nothing, never shrinks, and doubles up to its limit as
\* long as the word holds the double (backoff_ms, ot_provision.c).
THEOREM WaitNeverCollapses ==
  ASSUME NEW least \in Nat, NEW most \in Nat, NEW top \in Nat, NEW n \in Nat, least # 0, most # 0
  PROVE  LET wait(k) == Backoff(least, most, k, top)
         IN  /\ wait(n) \in 1..most /\ wait(n) <= wait(n + 1)
             /\ 2 * wait(n) <= top => wait(n + 1) = Capped(2 * wait(n), most)
<1> DEFINE wait(k) == Backoff(least, most, k, top)
<1>1. n + 1 \in Nat
  OBVIOUS
<1>2. LoopLeaves(least, most, n, top) /\ LoopLeaves(least, most, n + 1, top)
  BY <1>1, BackoffIsLoop
<1>3. PICK f, g : /\ Rounds(f, least, most, n, top) /\ wait(n) = Capped(f[n], most)
                  /\ Rounds(g, least, most, n + 1, top) /\ wait(n + 1) = Capped(g[n + 1], most)
  BY <1>2, Zenon DEF LoopLeaves
<1>4. PICK x, y : x \in Nat /\ x = f[n] /\ y = g[n + 1] /\ x >= least /\ y = Doubled(x, most, top)
  <2>1. OneMore(f, g, least, most, n, top)
    BY <1>3, RoundsAgree
  <2> QED BY <2>1, Zenon DEF OneMore
<1>5. wait(n) = Capped(x, most) /\ wait(n + 1) = Capped(y, most)
  BY <1>3, <1>4, Zenon
<1> HIDE DEF wait
<1>6. /\ wait(n) \in 1..most /\ wait(n) <= wait(n + 1)
      /\ 2 * wait(n) <= top => wait(n + 1) = Capped(2 * wait(n), most)
  BY <1>4, <1>5 DEF Capped, Doubled
<1> QED BY <1>6 DEF wait

-----------------------------------------------------------------------------
(* The countdowns of the status page.                                       *)

\* An age after n units in which its clock did or did not run.
AgedBy(age, runs, n) ==
  IF ~runs THEN age ELSE IF age + n > AgeMax THEN AgeMax ELSE age + n

\* m is w after n units in which nothing else happened.
LaterBy(m, w, n) ==
  /\ DOMAIN m = Machine
  /\ m.window_running = w.window_running /\ m.ap_on_air = w.ap_on_air
  /\ m.window_is_the_short_one = w.window_is_the_short_one
  /\ m.has_credentials = w.has_credentials /\ m.failing = w.failing /\ m.failure = w.failure
  /\ m.state = w.state
  /\ m.opened = AgedBy(w.opened, w.window_running, n)
  /\ m.extended = AgedBy(w.extended, w.window_running, n)
  /\ m.failed = AgedBy(w.failed, w.failing, n)

\* Its ages are ages, and only a machine that has a network fails to join it.
Counting(w) ==
  /\ DOMAIN w = Machine /\ {w.opened, w.extended, w.failed} \subseteq 0..AgeMax
  /\ {w.window_running, w.failing} \subseteq BOOLEAN /\ (w.failing => w.has_credentials)

LEMMA OneOlder ==
  ASSUME NEW age \in 0..AgeMax, NEW runs \in BOOLEAN, NEW n \in Nat
  PROVE  Older(runs, AgedBy(age, runs, n)) = AgedBy(age, runs, n + 1)
BY ProvisionAssumption DEF Older, AgedBy

LEMMA OneLater ==
  ASSUME NEW w, Counting(w), NEW n \in Nat, NEW m, LaterBy(m, w, n)
  PROVE  LaterBy(Aged(m), w, n + 1)
<1>1. /\ Aged(m).window_running = m.window_running /\ Aged(m).ap_on_air = m.ap_on_air
      /\ Aged(m).window_is_the_short_one = m.window_is_the_short_one
      /\ Aged(m).has_credentials = m.has_credentials /\ Aged(m).failing = m.failing
      /\ Aged(m).failure = m.failure /\ Aged(m).state = m.state /\ DOMAIN Aged(m) = Machine
      /\ Aged(m).opened = Older(m.window_running, m.opened)
      /\ Aged(m).extended = Older(m.window_running, m.extended)
      /\ Aged(m).failed = Older(m.failing, m.failed)
  BY DEF LaterBy, Machine, Aged
<1>2. /\ Older(w.window_running, AgedBy(w.opened, w.window_running, n))
           = AgedBy(w.opened, w.window_running, n + 1)
      /\ Older(w.window_running, AgedBy(w.extended, w.window_running, n))
           = AgedBy(w.extended, w.window_running, n + 1)
      /\ Older(w.failing, AgedBy(w.failed, w.failing, n)) = AgedBy(w.failed, w.failing, n + 1)
  BY OneOlder DEF Counting
<1> QED BY <1>1, <1>2, Zenon DEF LaterBy

LEMMA Later ==
  ASSUME NEW w, Counting(w), NEW f, f[0] = w, \A n \in Nat : f[n + 1] = Aged(f[n])
  PROVE  \A n \in Nat : LaterBy(f[n], w, n)
<1> DEFINE S == {n \in Nat : LaterBy(f[n], w, n)}
<1>1. 0 \in S
  BY ProvisionAssumption DEF LaterBy, AgedBy, Counting
<1>2. ASSUME NEW n \in Nat, n \in S PROVE n + 1 \in S
  <2>1. f[n + 1] = Aged(f[n]) /\ n + 1 \in Nat
    OBVIOUS
  <2>2. LaterBy(Aged(f[n]), w, n + 1)
    BY <1>2, OneLater
  <2> QED BY <2>1, <2>2, Zenon
<1> HIDE DEF S
<1>3. Nat \subseteq S
  BY <1>1, <1>2, SetInduction
<1> QED BY <1>3 DEF S

\* An age reaches a limit when what remained of it has gone by.
LEMMA RemainingIsTime ==
  ASSUME NEW age \in 0..AgeMax, NEW limit \in 0..AgeMax, NEW n \in Nat
  PROVE  /\ AgedBy(age, TRUE, n) \in Nat /\ Remaining(age, limit) \in Nat
         /\ AgedBy(age, TRUE, n) < limit <=> n < Remaining(age, limit)
BY ProvisionAssumption DEF AgedBy, Remaining

\* What the page counts down to is what the machine does then: the setup window
\* is open for as long as ot_prov_window_remaining_ms says, and the access point
\* comes back when ot_prov_fallback_in_ms says, if nothing happens before.
THEOREM CountdownsAreTrue ==
  ASSUME NEW w, Counting(w), NEW f, f[0] = w, \A k \in Nat : f[k + 1] = Aged(f[k]), NEW n \in Nat
  PROVE  /\ WindowOpen(f[n]) <=> n < WindowRemaining(w) \/ WindowRemaining(w) = Never
         /\ FallbackIn(w) # Never =>
              (RaiseFallback(f[n]).state = "FALLBACK_AP" <=> n >= FallbackIn(w))
<1>1. LaterBy(f[n], w, n)
  BY Later
<1>2. /\ SetupWindow \in 0..AgeMax /\ SetupCeiling \in 0..AgeMax /\ ReopenWindow \in 0..AgeMax
      /\ FallbackAfter \in 0..AgeMax /\ AgeMax \in Nat
  BY ProvisionAssumption
<1>3. PICK length \in 0..AgeMax : length = WindowLength(w)
  BY <1>2 DEF WindowLength
<1>4. WindowLength(f[n]) = length
  BY <1>1, <1>3, Zenon DEF WindowLength, LaterBy
<1>5. w.opened \in 0..AgeMax /\ w.extended \in 0..AgeMax /\ w.failed \in 0..AgeMax
  BY DEF Counting
<1>6. WindowOpen(f[n]) <=> n < WindowRemaining(w) \/ WindowRemaining(w) = Never
  <2>1. CASE ~(w.ap_on_air /\ w.window_running)
    <3>1. ~WindowOpen(f[n]) /\ ~WindowOpen(w)
      BY <1>1, <2>1, Zenon DEF WindowOpen, LaterBy
    <3>2. WindowRemaining(w) = 0
      BY <3>1, Zenon DEF WindowRemaining
    <3> QED BY <1>2, <3>1, <3>2 DEF Never
  <2>2. CASE w.ap_on_air /\ w.window_running /\ length = 0
    <3>1. WindowOpen(f[n]) /\ WindowOpen(w)
      BY <1>1, <1>3, <1>4, <2>2, Zenon DEF WindowOpen, LaterBy
    <3>2. WindowRemaining(w) = Never
      BY <1>3, <2>2, <3>1, Zenon DEF WindowRemaining
    <3> QED BY <3>1, <3>2, Zenon
  <2>3. CASE w.ap_on_air /\ w.window_running /\ length # 0
    <3>1. PICK o \in Nat, x \in Nat, c \in Nat, l \in Nat :
             /\ o = AgedBy(w.opened, TRUE, n) /\ x = AgedBy(w.extended, TRUE, n)
             /\ c = Remaining(w.opened, SetupCeiling) /\ l = Remaining(w.extended, length)
      <4>1. /\ AgedBy(w.opened, TRUE, n) \in Nat /\ AgedBy(w.extended, TRUE, n) \in Nat
            /\ Remaining(w.opened, SetupCeiling) \in Nat /\ Remaining(w.extended, length) \in Nat
        BY <1>2, <1>3, <1>5, RemainingIsTime
      <4> QED BY <4>1, Zenon
    <3>2. (o < SetupCeiling <=> n < c) /\ (x < length <=> n < l)
      BY <1>2, <1>3, <1>5, <3>1, RemainingIsTime
    <3>3. f[n].opened = o /\ f[n].extended = x
      BY <1>1, <2>3, <3>1, Zenon DEF LaterBy, AgedBy
    <3>4. WindowOpen(f[n]) <=> (SetupCeiling # 0 => o < SetupCeiling) /\ x < length
      BY <1>1, <1>4, <2>3, <3>3, Zenon DEF WindowOpen, LaterBy
    <3>5. WindowOpen(w) <=> (SetupCeiling # 0 => w.opened < SetupCeiling) /\ w.extended < length
      BY <1>3, <2>3, Zenon DEF WindowOpen
    <3>6. WindowRemaining(w) =
            LET ceiling == IF SetupCeiling = 0 THEN Never ELSE c
            IN  IF ~WindowOpen(w) THEN 0 ELSE IF l < ceiling THEN l ELSE ceiling
      BY <1>3, <2>3, <3>1, Zenon DEF WindowRemaining
    <3>7. (w.opened < SetupCeiling <=> c > 0) /\ (w.extended < length <=> l > 0)
          /\ c <= AgeMax /\ l <= AgeMax
      BY <1>2, <1>3, <1>5, <3>1 DEF Remaining
    <3>8. Never = AgeMax + 1
      BY DEF Never
    <3>9. PICK open \in BOOLEAN : open <=> WindowOpen(w)
      OBVIOUS
    <3>10. PICK m \in Nat : m = WindowRemaining(w) /\
             m = IF ~open THEN 0 ELSE IF SetupCeiling = 0 THEN l ELSE IF l < c THEN l ELSE c
      <4>1. CASE SetupCeiling = 0
        BY <1>2, <3>6, <3>7, <3>8, <3>9, <4>1
      <4>2. CASE SetupCeiling # 0
        BY <3>6, <3>9, <4>2
      <4> QED BY <4>1, <4>2
    <3>11. (n < m \/ m = Never) <=> (SetupCeiling # 0 => o < SetupCeiling) /\ x < length
      BY <1>2, <3>2, <3>5, <3>7, <3>8, <3>9, <3>10
    <3> QED BY <3>4, <3>10, <3>11, Zenon
  <2> QED BY <2>1, <2>2, <2>3, Zenon
<1>7. ASSUME FallbackIn(w) # Never
      PROVE  RaiseFallback(f[n]).state = "FALLBACK_AP" <=> n >= FallbackIn(w)
  <2>1. /\ w.state # "FALLBACK_AP" /\ ~w.ap_on_air /\ w.failing /\ Earns(w.failure) /\ FallbackAfter # 0
        /\ FallbackIn(w) = Remaining(w.failed, FallbackAfter)
    BY <1>7, Zenon DEF FallbackIn
  <2>2. f[n].failed = AgedBy(w.failed, TRUE, n)
    BY <1>1, <2>1, Zenon DEF LaterBy, AgedBy
  <2>3. PICK a \in Nat, r \in Nat : a = AgedBy(w.failed, TRUE, n) /\ r = Remaining(w.failed, FallbackAfter)
    <3>1. AgedBy(w.failed, TRUE, n) \in Nat /\ Remaining(w.failed, FallbackAfter) \in Nat
      BY <1>2, <1>5, RemainingIsTime
    <3> QED BY <3>1, Zenon
  <2>4. a >= FallbackAfter <=> n >= r
    <3>1. a < FallbackAfter <=> n < r
      BY <1>2, <1>5, <2>3, RemainingIsTime
    <3>2. FallbackAfter \in Nat
      BY <1>2
    <3> QED BY <3>1, <3>2
  <2>5. RaiseFallback(f[n]) = IF a >= FallbackAfter THEN [f[n] EXCEPT !.state = "FALLBACK_AP"] ELSE f[n]
    BY <1>1, <2>1, <2>2, <2>3, Zenon DEF RaiseFallback, LaterBy, Counting
  <2>6. f[n].state # "FALLBACK_AP" /\ "state" \in DOMAIN f[n]
    BY <1>1, <2>1 DEF LaterBy, Machine
  <2>7. RaiseFallback(f[n]).state = "FALLBACK_AP" <=> a >= FallbackAfter
    BY <2>5, <2>6
  <2> QED BY <2>1, <2>3, <2>4, <2>7, Zenon
<1> QED BY <1>6, <1>7, Zenon

=============================================================================
