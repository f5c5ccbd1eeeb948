---------------------------- MODULE OtProvision -----------------------------
(***************************************************************************)
(* What the Wi-Fi of an unattended device should be doing: the machine of  *)
(* components/ot_provision.  It is pure: facts go in, a state and at most  *)
(* one owed action come out, and the caller drives flash and radio.  Its   *)
(* struct is the record s; every event is an operator from s to the next   *)
(* record.                                                                 *)
(*                                                                         *)
(* A clock of the struct (a timestamp and a flag) is here the time since,  *)
(* 0 while the flag is down and not told apart beyond AgeMax.  The backoff *)
(* of a retry is constant in the machine: its doubling between two limits  *)
(* is the operator Backoff.  Three of the four answers that Classify gives *)
(* earn the access point and the machine treats them alike: "UNREACHED"    *)
(* is any of them.                                                         *)
(*                                                                         *)
(*   state    UNCONFIGURED, CONNECTING, CONNECTED, TRIAL, RETRYING,        *)
(*            FALLBACK_AP or WINDOW_CLOSED                                 *)
(*   action   NONE, CONNECT, COMMIT or RESTORE: what the caller owes       *)
(*   failure  NONE, UNREACHED or NO_ADDRESS                                *)
(* and the six clocks opened, extended, trial, waiting, failed and retry,  *)
(* each running while a flag of the machine is up.                         *)
(***************************************************************************)
EXTENDS Naturals

CONSTANTS
  SetupWindow, SetupCeiling, ReopenWindow,      \* ot_prov_config_t, in units
  FallbackAfter, TrialTimeout, AddressTimeout, RetryBackoff,
  AgeMax                                        \* a bound of the model

ASSUME ProvisionAssumption ==
  /\ AgeMax \in Nat
  /\ \A limit \in {SetupWindow, SetupCeiling, ReopenWindow, FallbackAfter,
                   TrialTimeout, AddressTimeout, RetryBackoff} : limit \in 0..AgeMax

\* ot_prov_init, from the four facts the flash keeps.
Booted(boot) ==
  [state |-> IF ~boot.has_credentials THEN "UNCONFIGURED"
             ELSE IF boot.address_never_arrived THEN "FALLBACK_AP" ELSE "CONNECTING",
   action |-> IF boot.has_credentials THEN "CONNECT" ELSE "NONE",
   failure |-> "NONE",
   has_credentials |-> boot.has_credentials, has_known_good |-> boot.has_known_good,
   credentials_committed |-> FALSE, ap_on_air |-> FALSE,
   window_running |-> FALSE, window_ever_closed |-> boot.window_closed_before,
   window_is_the_short_one |-> FALSE, trialling |-> FALSE, associated |-> FALSE,
   address_never_arrived |-> boot.address_never_arrived,
   failing |-> FALSE, retry_armed |-> FALSE,
   opened |-> 0, extended |-> 0, trial |-> 0, waiting |-> 0, failed |-> 0, retry |-> 0]

\* One unit of time goes by: every clock that runs moves on.
Older(runs, age) == IF runs /\ age < AgeMax THEN age + 1 ELSE age

Aged(s) ==
  [s EXCEPT !.opened   = Older(s.window_running, @),
            !.extended = Older(s.window_running, @),
            !.trial    = Older(s.trialling, @),
            !.waiting  = Older(s.associated, @),
            !.failed   = Older(s.failing, @),
            !.retry    = Older(s.retry_armed, @)]

-----------------------------------------------------------------------------
\* A pending write to the flash is never displaced by a nudge.
Accepts(s, action) == action # "CONNECT" \/ s.action = "NONE"

SetAction(s, action) == IF Accepts(s, action) THEN [s EXCEPT !.action = action] ELSE s

WindowLength(s) ==
  IF SetupWindow = 0 THEN 0
  ELSE IF s.window_is_the_short_one THEN ReopenWindow ELSE SetupWindow

\* Mutant of WindowOpen: activity may extend a window for ever.
WindowOpenUnbounded(s) ==
  /\ s.ap_on_air /\ s.window_running
  /\ WindowLength(s) = 0 \/ s.extended < WindowLength(s)

\* The never-closing window comes before the ceiling.
WindowOpen(s) ==
  /\ s.ap_on_air /\ s.window_running
  /\ \/ WindowLength(s) = 0
     \/ /\ SetupCeiling # 0 => s.opened < SetupCeiling
        /\ s.extended < WindowLength(s)

WindowGone(s) == [s EXCEPT !.window_running = FALSE, !.opened = 0, !.extended = 0]

Earns(failure) == failure = "UNREACHED"

\* A run of failures is measured on one side of the line that Earns draws.
NoteFailure(s, failure) ==
  [s EXCEPT !.failure = failure, !.failing = TRUE,
            !.failed  = IF ~s.failing \/ Earns(s.failure) # Earns(failure) THEN 0 ELSE @]

-----------------------------------------------------------------------------
\* The events.

OnApStarted(s) ==
  IF s.ap_on_air THEN s
  ELSE [s EXCEPT !.ap_on_air = TRUE, !.window_running = TRUE, !.opened = 0, !.extended = 0,
                 !.window_is_the_short_one = s.window_ever_closed \/ s.has_credentials]

OnApStopped(s) == [WindowGone(s) EXCEPT !.ap_on_air = FALSE]

\* An address proves the stored pair, once.
OnConnected(s) ==
  LET c == [WindowGone(s) EXCEPT
              !.state = "CONNECTED", !.associated = FALSE, !.waiting = 0,
              !.trialling = FALSE, !.trial = 0, !.retry_armed = FALSE, !.retry = 0,
              !.failing = FALSE, !.failed = 0, !.failure = "NONE",
              !.has_credentials = TRUE, !.address_never_arrived = FALSE]
  IN  IF s.credentials_committed THEN c
      ELSE SetAction([c EXCEPT !.credentials_committed = TRUE, !.has_known_good = TRUE],
                     "COMMIT")

\* Mutant of OnAssociated: joined is taken for connected.
OnAssociatedProven(s) == OnConnected(s)

OnAssociated(s) == [s EXCEPT !.associated = TRUE, !.waiting = 0]

\* Mutant of OnDisconnected: a trial waits out its clock without trying again.
OnDisconnectedIdle(s, verdict) ==
  IF ~s.has_credentials THEN s
  ELSE LET d == IF verdict = "NONE" THEN s ELSE NoteFailure(s, verdict)
       IN  [d EXCEPT !.associated = FALSE, !.waiting = 0,
                     !.state = IF s.trialling THEN @ ELSE "RETRYING",
                     !.retry_armed = ~s.trialling, !.retry = 0]

\* ot_prov_classify: the answer to the owner that a reason code of the radio
\* stands for.  Code 8 is the machine's own doing; one that nobody listed counts.
Classify(reason) ==
  CASE reason \in {200, 201, 210, 211, 212} -> "NETWORK_ABSENT"
    [] reason \in {14, 15, 202, 204}        -> "WRONG_PASSWORD"
    [] reason = 8                           -> "NONE"
    [] OTHER                                -> "REFUSED"

\* The wait before attempt number n, doubling in a word that holds up to top.
Backoff(least, most, n, top) ==
  LET delay[i \in 0..n] ==
        IF i = 0 THEN least
        ELSE LET before == delay[i - 1]
             IN  IF before >= most \/ before > top \div 2 THEN before ELSE 2 * before
  IN  IF delay[n] > most THEN most ELSE delay[n]

\* verdict is what Classify makes of the reason: "NONE", or an answer that counts.
OnDisconnected(s, verdict) ==
  IF ~s.has_credentials THEN s
  ELSE LET d == IF verdict = "NONE" THEN s ELSE NoteFailure(s, verdict)
       IN  [d EXCEPT !.associated = FALSE, !.waiting = 0,
                     !.state = IF s.trialling THEN @ ELSE "RETRYING",
                     !.retry_armed = TRUE, !.retry = 0]

\* A new pair cancels whatever was owed to the one it replaces.
OnCredentialsSaved(s) ==
  [s EXCEPT !.has_credentials = TRUE, !.credentials_committed = FALSE,
            !.trialling = TRUE, !.trial = 0, !.state = "TRIAL",
            !.retry_armed = FALSE, !.retry = 0,
            !.failing = FALSE, !.failed = 0, !.failure = "NONE",
            !.address_never_arrived = FALSE, !.action = "CONNECT", !.extended = 0]

OnClientSeen(s) == IF WindowOpen(s) THEN [s EXCEPT !.extended = 0] ELSE s

-----------------------------------------------------------------------------
\* The clock: ot_prov_tick, in its six steps.

CloseWindow(s) ==
  IF ~(s.window_running /\ s.ap_on_air) \/ WindowOpen(s) THEN s
  ELSE LET c == [WindowGone(s) EXCEPT !.window_ever_closed = TRUE]
       IN  CASE s.state = "UNCONFIGURED" -> [c EXCEPT !.state = "WINDOW_CLOSED"]
             [] s.state = "FALLBACK_AP"  ->
                  [c EXCEPT !.state   = "RETRYING",
                            !.failing = @ \/ Earns(s.failure),
                            !.failed  = IF Earns(s.failure) THEN 0 ELSE @]
             [] OTHER -> c

\* A first provisioning has nothing to go back to.
EndTrial(s) ==
  IF ~s.trialling \/ s.trial < TrialTimeout THEN s
  ELSE LET e == [s EXCEPT !.trialling = FALSE, !.trial = 0]
       IN  IF s.has_known_good
           THEN SetAction([e EXCEPT !.state = "CONNECTING", !.retry_armed = FALSE,
                                    !.retry = 0, !.credentials_committed = TRUE],
                          "RESTORE")
           ELSE [e EXCEPT !.state = "RETRYING"]

\* No event says that an address did not come.
AwaitAddress(s) ==
  IF ~s.associated \/ s.waiting < AddressTimeout THEN s
  ELSE LET n == NoteFailure(s, "NO_ADDRESS")
           a == [n EXCEPT !.state = IF @ = "FALLBACK_AP" THEN @
                                    ELSE IF s.trialling THEN "TRIAL" ELSE "CONNECTING"]
       IN  IF Accepts(a, "CONNECT")
           THEN [SetAction(a, "CONNECT") EXCEPT !.associated = FALSE, !.waiting = 0]
           ELSE a

\* A refused nudge leaves the retry armed.
Retry(s) ==
  IF ~s.retry_armed \/ s.retry < RetryBackoff \/ ~Accepts(s, "CONNECT") THEN s
  ELSE [SetAction(s, "CONNECT") EXCEPT
          !.retry_armed = FALSE, !.retry = 0,
          !.state = IF @ = "RETRYING" THEN "CONNECTING" ELSE @]

\* Mutant of RaiseFallback: the access point never comes back by itself.
NeverRaised(s) == s

\* Sustained failure of the right kind brings the access point back.
RaiseFallback(s) ==
  IF /\ s.has_credentials /\ s.failing /\ Earns(s.failure) /\ ~s.ap_on_air
     /\ FallbackAfter # 0 /\ s.failed >= FallbackAfter
  THEN [s EXCEPT !.state = "FALLBACK_AP"]
  ELSE s

\* The other kind earns a window at the next boot.
NoteNoAddress(s) ==
  IF /\ s.failing /\ s.failure = "NO_ADDRESS"
     /\ FallbackAfter # 0 /\ s.failed >= FallbackAfter
  THEN [s EXCEPT !.address_never_arrived = TRUE]
  ELSE s

Tick(s) == NoteNoAddress(RaiseFallback(Retry(AwaitAddress(EndTrial(CloseWindow(s))))))

-----------------------------------------------------------------------------
\* The questions.

ApModes  == {"ACCESS_POINT", "AP_STA"}
StaModes == {"STATION", "AP_STA"}

Mode(s) ==
  CASE s.state = "UNCONFIGURED"  -> "ACCESS_POINT"
    [] s.state = "WINDOW_CLOSED" -> "OFF"
    [] s.state = "CONNECTED"     -> "STATION"
    [] s.state = "FALLBACK_AP"   -> "AP_STA"
    [] OTHER -> IF s.window_running THEN "AP_STA" ELSE "STATION"

Remaining(age, limit) == IF age >= limit THEN 0 ELSE limit - age

\* OT_PROV_NEVER: beyond every limit.
Never == AgeMax + 1

\* The countdowns of the status page.
WindowRemaining(s) ==
  LET ceiling == IF SetupCeiling = 0 THEN Never ELSE Remaining(s.opened, SetupCeiling)
      window  == Remaining(s.extended, WindowLength(s))
  IN  IF ~WindowOpen(s) THEN 0
      ELSE IF WindowLength(s) = 0 THEN Never
      ELSE IF window < ceiling THEN window ELSE ceiling

FallbackIn(s) ==
  IF \/ s.state = "FALLBACK_AP" \/ s.ap_on_air \/ ~s.failing \/ ~Earns(s.failure)
     \/ FallbackAfter = 0
  THEN Never ELSE Remaining(s.failed, FallbackAfter)
==============================================================================
