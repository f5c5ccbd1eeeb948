----------------------------- MODULE OtBusRounds -----------------------------
(***************************************************************************)
(* Who gets a turn on the bus.  OtBus with history variables:              *)
(*                                                                         *)
(*   kind     what the last conversation was: "status", "write", "scan" or *)
(*            "poll"                                                       *)
(*   polled   the place in Ring of the last identifier that had its turn, 0 *)
(*            before the first; a poll that a sweep overtook while it was  *)
(*            on the wire does not count, its turn comes again             *)
(*   swept    identifiers the present sweep has asked, {} without a sweep  *)
(*   waited   conversations begun since the queue was last empty, at most   *)
(*            WaitMax                                                      *)
(***************************************************************************)
EXTENDS OtBus

ASSUME RingAssumption == \A i, j \in 1..Len(Ring) : Ring[i] = Ring[j] => i = j

WaitMax == 2   \* a bound of the model: longer waits are not told apart

VARIABLES kind, polled, swept, waited

history == <<kind, polled, swept, waited>>
hvars   == <<vars, history>>

Place(id) == CHOOSE i \in 1..Len(Ring) : Ring[i] = id

HInit == Init /\ kind = "status" /\ polled = 0 /\ swept = {} /\ waited = 0

HBuild ==
  /\ Build
  /\ kind' = Slot
  /\ swept' = IF kind' = "scan" THEN swept \cup {step'.data_id} ELSE swept
  /\ waited' = IF kind' = "write" \/ ~write_pending THEN 0
               ELSE IF waited = WaitMax THEN WaitMax ELSE waited + 1
  /\ UNCHANGED polled

HDone ==
  /\ \E answered \in BOOLEAN : Done(answered)
  /\ polled' = IF kind = "poll" /\ ~scan_active THEN Place(step.data_id) ELSE polled
  /\ swept' = IF scan_active' THEN swept ELSE {}
  /\ UNCHANGED <<kind, waited>>

HJudge ==
  /\ \E id \in Replies, unsupported \in BOOLEAN : Judge(id, unsupported)
  /\ UNCHANGED history

HWrite ==
  /\ \/ \E w \in HandWrites : Write(w)
     \/ \E w \in ExecWrites : WriteIfIdle(w)
  /\ UNCHANGED history

HSetStatus == (\E high \in StatusBytes : SetStatus(high)) /\ UNCHANGED history

HScan ==
  /\ \E s \in Sweeps : Scan(s[1], s[2])
  /\ swept' = {}
  /\ UNCHANGED <<kind, polled, waited>>

HBus  == HBuild \/ HDone \/ HJudge
HNext == HBus \/ HWrite \/ HSetStatus \/ HScan

HSpec == HInit /\ [][HNext]_hvars

\* bus_task never leaves its loop, and an exchange ends by its timeout.
HFairSpec == HSpec /\ WF_hvars(HBus)

-----------------------------------------------------------------------------
Begins == pc = "loop" /\ pc' = "talk"
SweepEnds == pc = "talk" /\ scan_active /\ ~scan_active'

\* A waiting write goes out in the next meaningful slot, in front of the sweep
\* and of the ring: at most one conversation, the status, comes before it.
WritePrompt == waited <= 1

\* The ring is gone round in order and nobody loses a turn to an identifier
\* that drops out: what is polled next is the first survivor after the last.
Gap(id) == IF Place(id) > polled THEN Place(id) - polled
                                 ELSE Place(id) + Len(Ring) - polled
RingInOrder ==
  [][Begins /\ kind' = "poll" =>
       \A i \in 1..Len(poll) : Gap(step'.data_id) <= Gap(poll[i])]_hvars

\* "Sweeps [from..to], asking each ID once" (ot_bus/README.md): a sweep that
\* ends has asked every identifier of [from..to].  No run checks it: TLC finds
\* it violated (README, Divergences).
SweepWhole == [][SweepEnds => scan_from..scan_to \subseteq swept]_hvars
==============================================================================
