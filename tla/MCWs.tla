-------------------------------- MODULE MCWs ---------------------------------
(***************************************************************************)
(* Small instances of OtWs: one boiler identifier with one entity, one     *)
(* value of the executor's own, two places for sockets, three descriptors. *)
(***************************************************************************)
EXTENDS OtWs

SmallRegistry == <<"flow", "own">>

SmallSource == [flow |-> "id25", own |-> Synthetic]

\* The entity's number is the raw one.
SmallDecode(e, raw) == raw

SmallAnswers ==
  {[id |-> "id25", type |-> "READ_ACK", raw |-> 1],
   [id |-> "id25", type |-> "UNKNOWN_DATAID", raw |-> 0],
   [id |-> "id25", type |-> "RESERVED", raw |-> 0]}

SmallVirtuals == {[entity |-> "own", val |-> 1], [entity |-> "own", val |-> 2]}

-----------------------------------------------------------------------------
(* The Wi-Fi countdowns that the page shows.                                *)

Wifi == INSTANCE OtProvision WITH
  SetupWindow <- 2, SetupCeiling <- 3, ReopenWindow <- 1, FallbackAfter <- 4,
  TrialTimeout <- 3, AddressTimeout <- 2, RetryBackoff <- 1, AgeMax <- 4

Waiting ==
  {[Wifi!Booted([has_credentials |-> TRUE, has_known_good |-> TRUE,
                 window_closed_before |-> short, address_never_arrived |-> FALSE])
      EXCEPT !.ap_on_air = air, !.window_running = runs, !.window_is_the_short_one = short,
             !.opened = o, !.extended = x, !.failing = fails, !.failure = why, !.failed = f] :
     air \in BOOLEAN, runs \in BOOLEAN, short \in BOOLEAN, o \in 0..4, x \in 0..4,
     fails \in BOOLEAN, why \in {"UNREACHED", "NO_ADDRESS"}, f \in 0..4}

\* What the page counts down to is what the machine does then: the setup window
\* is open for as long as it says, and the access point comes when it says.
ASSUME \A w \in Waiting :
         LET after[n \in 0..4] == IF n = 0 THEN w ELSE Wifi!Aged(after[n - 1])
         IN  /\ \A n \in 0..4 :
                  Wifi!WindowOpen(after[n]) <=> n < Wifi!WindowRemaining(w)
             /\ Wifi!FallbackIn(w) # Wifi!Never =>
                  \A n \in 0..4 :
                    Wifi!RaiseFallback(after[n]).state = "FALLBACK_AP" <=> n >= Wifi!FallbackIn(w)
==============================================================================
