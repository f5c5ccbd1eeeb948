-------------------------------- MODULE OtBus --------------------------------
(***************************************************************************)
(* The OpenTherm bus: bus_task (components/ot_bus), the schedule of slots  *)
(* it asks (ot_bus_sched) and the bookkeeping of writes (ot_bus_track).    *)
(*                                                                         *)
(* The task loops: under the spinlock it queues the next introduction if   *)
(* nothing is pending and builds a step; WITHOUT the lock it exchanges the *)
(* frame with the boiler; under the lock it records the outcome; without   *)
(* it the state component judges the reply; under the lock again an        *)
(* unsupported identifier leaves the ring.  Writers, the status byte and   *)
(* the sweep come from other tasks between any two of these.               *)
(*                                                                         *)
(* When a step is due is abstracted in the actions: a conversation may     *)
(* begin at any moment the task loops.  Pace is the arithmetic the task    *)
(* waits by, and the line test is in OtOps and OtCommands.                 *)
(***************************************************************************)
EXTENDS Naturals, Sequences

CONSTANTS
  Ring,          \* the poll ring given to ot_bus_start
  Identity,      \* IDENTITY: the introduction, one write after another
  HandWrites,    \* <<id, value>> pairs of ot_bus_write
  ExecWrites,    \* <<id, value>> pairs of ot_bus_write_if_idle
  StatusBytes,   \* what ot_bus_set_status may be given
  Sweeps,        \* <<from, to>> pairs of ot_bus_scan, either way round
  GenMod,        \* where gen wraps (2^32)
  SeqMod         \* where id1_seq wraps (2^32)

Pairs == Nat \X Nat

ASSUME WritesAssumption ==
  /\ HandWrites \subseteq Pairs /\ ExecWrites \subseteq Pairs /\ Sweeps \subseteq Pairs
  /\ Identity \in Seq(Pairs) /\ Ring \in Seq(Nat) /\ StatusBytes \subseteq Nat
ASSUME CountAssumption == GenMod \in Nat /\ GenMod > 1 /\ SeqMod \in Nat \ {0}

VARIABLES
  pc,                                     \* "loop", "talk" (the exchange) or "answered"
  step, gen_at_step,                      \* bus_task's step and gen
  burst,                                  \* writes queued during this exchange
  identity_step,
  status_turn_done, status_high,
  write_pending, write_id, write_value,
  scan_active, scan_from, scan_to, scan_next,
  poll, next,
  gen, id1_seq, id1_raw

taskVars  == <<pc, step, gen_at_step, identity_step>>
writeVars == <<write_pending, write_id, write_value>>
scanVars  == <<scan_active, scan_from, scan_to, scan_next>>
ringVars  == <<poll, next>>
id1Vars   == <<id1_seq, id1_raw>>
vars == <<taskVars, burst, status_turn_done, status_high, writeVars, scanVars,
          ringVars, gen, id1Vars>>

After(n, modulus) == IF n + 1 = modulus THEN 0 ELSE n + 1

-----------------------------------------------------------------------------
(* ot_bus_sched: when.                                                      *)

\* The time since a moment, on a clock that wraps.
Since(now, then, clock) == (now + (clock - then)) % clock

\* Wait, or talk and whether that is overdue.  p says when the last conversation
\* began and ended; limits are the pace, the gap between two of them, the
\* deadline, and where the clock wraps.
Pace(p, now, limits) ==
  LET rest(limit, age) == IF age < limit THEN limit - age ELSE 0
      by_period == Since(now, p.last_start, limits.clock)
      period    == rest(limits.period, by_period)
      gap       == rest(limits.gap, Since(now, p.last_end, limits.clock))
  IN  IF ~p.started THEN [verb |-> "TALK", delay |-> 0, overdue |-> FALSE]
      ELSE IF period = 0 /\ gap = 0
      THEN [verb |-> "TALK", delay |-> 0, overdue |-> by_period > limits.deadline]
      ELSE [verb |-> "WAIT", delay |-> IF gap > period THEN gap ELSE period, overdue |-> FALSE]

-----------------------------------------------------------------------------
(* ot_bus_sched: which slot comes next.                                     *)

Ask(id, value)  == [is_write |-> FALSE, data_id |-> id, value |-> value]
Tell(id, value) == [is_write |-> TRUE, data_id |-> id, value |-> value]

Init ==
  /\ pc = "loop" /\ step = Ask(0, 0) /\ gen_at_step = 0 /\ burst = 0 /\ identity_step = 0
  /\ status_turn_done = FALSE /\ status_high = 0
  /\ write_pending = FALSE /\ write_id = 0 /\ write_value = 0
  /\ scan_active = FALSE /\ scan_from = 0 /\ scan_to = 0 /\ scan_next = 0
  /\ poll = Ring /\ next = 0
  /\ gen = 0 /\ id1_seq = 0 /\ id1_raw = 0

\* Mutant of Slot: the sweep before the write.
SlotSweepFirst ==
  CASE ~status_turn_done -> "status"
    [] status_turn_done /\ scan_active -> "scan"
    [] status_turn_done /\ ~scan_active /\ write_pending' -> "write"
    [] status_turn_done /\ ~scan_active /\ ~write_pending' /\ poll # <<>> -> "poll"
    [] OTHER -> "status"

\* The mandatory status on every other turn; then a write before the sweep
\* before the ring, and the status again when there is nothing to ask.
Slot ==
  CASE ~status_turn_done -> "status"
    [] status_turn_done /\ write_pending' -> "write"
    [] status_turn_done /\ ~write_pending' /\ scan_active -> "scan"
    [] status_turn_done /\ ~write_pending' /\ ~scan_active /\ poll # <<>> -> "poll"
    [] OTHER -> "status"

Asked ==
  CASE Slot = "write" -> Tell(write_id', write_value')
    [] Slot = "scan"  -> Ask(scan_next, 0)
    [] Slot = "poll"  -> Ask(poll[(next % Len(poll)) + 1], 0)
    [] OTHER          -> Ask(0, status_high)

\* A conversation is over, answered or not: the turn flips; on a meaningful
\* slot the sweep, the queue or the ring moves on.
SweepMoves == status_turn_done /\ scan_active /\ ~step.is_write
WriteMoves == status_turn_done /\ step.is_write
RingMoves  == status_turn_done /\ ~scan_active /\ ~step.is_write /\ poll # <<>>

AdvanceSweep ==
  IF SweepMoves
    THEN /\ scan_active' = (scan_next < scan_to)
         /\ scan_next' = IF scan_next < scan_to THEN scan_next + 1 ELSE scan_next
         /\ UNCHANGED <<scan_from, scan_to>>
    ELSE UNCHANGED scanVars

AdvanceRing ==
  /\ next' = IF RingMoves THEN (next + 1) % Len(poll) ELSE next
  /\ UNCHANGED poll

\* ot_bus_sched_disable: what an identifier leaves of the first n places.
Kept(ring, id) ==
  LET kept[n \in 0..Len(ring)] ==
        IF n = 0 THEN <<>>
        ELSE IF ring[n] = id THEN kept[n - 1] ELSE Append(kept[n - 1], ring[n])
  IN  kept

\* Mutant of Disable: the position is only kept inside the ring.
DisableUncorrected(id) ==
  /\ poll' = Kept(poll, id)[Len(poll)]
  /\ next' = IF next >= Len(poll') THEN 0 ELSE next

\* The position moves back by what left before it.
Disable(id) ==
  LET kept    == Kept(poll, id)
      earlier == Len(kept[next])
  IN  /\ poll' = kept[Len(poll)]
      /\ next' = IF earlier >= Len(poll') THEN 0 ELSE earlier

-----------------------------------------------------------------------------
(* ot_bus_track: every queued write moves the generation.                   *)

QueueWrite(id, value) ==
  /\ write_pending' = TRUE /\ write_id' = id /\ write_value' = value
  /\ gen' = After(gen, GenMod)

\* Mutant of FinishWrite: what is queued is dropped with what was sent.
FinishDropping ==
  /\ write_pending' = (write_pending /\ ~WriteMoves)
  /\ UNCHANGED <<write_id, write_value>>

\* The queue is cleared for the write just sent, and re-armed if another one
\* was queued while it was on the wire.
FinishWrite ==
  /\ write_pending' = ((write_pending /\ ~WriteMoves) \/ gen # gen_at_step)
  /\ UNCHANGED <<write_id, write_value>>

\* Only an answered write of ID 1 counts, with the value that went out.
ReportId1(answered) ==
  IF step.is_write /\ answered /\ step.data_id = 1
    THEN id1_seq' = After(id1_seq, SeqMod) /\ id1_raw' = step.value
    ELSE UNCHANGED id1Vars

-----------------------------------------------------------------------------
(* bus_task. *)

\* The introduction waits for an empty queue and counts as it is queued.
Introduces == identity_step < Len(Identity) /\ ~write_pending

Build ==
  /\ pc = "loop" /\ pc' = "talk"
  /\ IF Introduces
       THEN /\ identity_step' = identity_step + 1
            /\ QueueWrite(Identity[identity_step + 1][1], Identity[identity_step + 1][2])
       ELSE UNCHANGED <<identity_step, writeVars, gen>>
  /\ step' = Asked /\ gen_at_step' = gen' /\ burst' = 0
  /\ UNCHANGED <<status_turn_done, status_high, scanVars, ringVars, id1Vars>>

FlipTurn(answered) == status_turn_done' = ~status_turn_done

Done(answered) ==
  /\ pc = "talk" /\ pc' = IF answered THEN "answered" ELSE "loop"
  /\ FlipTurn(answered)
  /\ AdvanceSweep /\ AdvanceRing
  /\ FinishWrite /\ ReportId1(answered)
  /\ UNCHANGED <<step, gen_at_step, burst, identity_step, status_high, gen>>

\* ot_state judges the reply; nothing compares its identifier with the one
\* asked, so it may be any.
Judge(id, unsupported) ==
  /\ pc = "answered" /\ pc' = "loop"
  /\ IF unsupported THEN Disable(id) ELSE UNCHANGED ringVars
  /\ UNCHANGED <<step, gen_at_step, identity_step, burst, status_turn_done, status_high,
                 writeVars, scanVars, gen, id1Vars>>

Replies == {Ring[i] : i \in 1..Len(Ring)} \cup {0}

BusTask ==
  \/ Build
  \/ \E answered \in BOOLEAN : Done(answered)
  \/ \E id \in Replies, unsupported \in BOOLEAN : Judge(id, unsupported)

-----------------------------------------------------------------------------
(* The other tasks. *)

\* A bound of the model: fewer than GenMod writes are queued during one
\* conversation (2^32 in under a second), so gen cannot come round unnoticed.
CountBurst ==
  /\ pc = "talk" => burst + 1 < GenMod
  /\ burst' = IF pc = "talk" THEN burst + 1 ELSE burst

Write(w) ==
  /\ QueueWrite(w[1], w[2]) /\ CountBurst
  /\ UNCHANGED <<taskVars, status_turn_done, status_high, scanVars, ringVars, id1Vars>>

WriteIfIdle(w) == ~write_pending /\ Write(w)

SetStatus(high) ==
  /\ status_high' = high
  /\ UNCHANGED <<taskVars, burst, status_turn_done, writeVars, scanVars, ringVars, gen, id1Vars>>

Scan(a, b) ==
  /\ scan_from' = (IF b < a THEN b ELSE a) /\ scan_to' = (IF b < a THEN a ELSE b)
  /\ scan_next' = scan_from' /\ scan_active' = TRUE
  /\ UNCHANGED <<taskVars, burst, status_turn_done, status_high, writeVars, ringVars, gen,
                 id1Vars>>

Next ==
  \/ BusTask
  \/ \E w \in HandWrites : Write(w)
  \/ \E w \in ExecWrites : WriteIfIdle(w)
  \/ \E high \in StatusBytes : SetStatus(high)
  \/ \E s \in Sweeps : Scan(s[1], s[2])

Spec == Init /\ [][Next]_vars

-----------------------------------------------------------------------------
WriteType ==
  /\ pc \in {"loop", "talk", "answered"} /\ step.is_write \in BOOLEAN
  /\ status_turn_done \in BOOLEAN /\ write_pending \in BOOLEAN
  /\ identity_step \in 0..Len(Identity)
  /\ gen \in 0..(GenMod - 1) /\ gen_at_step \in 0..(GenMod - 1) /\ burst \in 0..(GenMod - 1)
  /\ id1_seq \in 0..(SeqMod - 1)

ValueType ==
  /\ step \in [is_write : BOOLEAN, data_id : Nat, value : Nat] /\ status_high \in Nat
  /\ write_id \in Nat /\ write_value \in Nat /\ id1_raw \in Nat
  /\ scan_active \in BOOLEAN /\ scan_from \in Nat /\ scan_to \in Nat /\ scan_next \in Nat

RingType ==
  /\ poll \in Seq(Nat) /\ next \in Nat
  /\ next < Len(poll) \/ next = 0

\* Every field keeps its type, and the ring's position stays inside the ring.
TypeOK == WriteType /\ ValueType /\ RingType

\* What stands between a queued write and the wire.  While a write is in its
\* conversation the queue still holds it, or a newer one that moved the
\* generation; a moved generation always means a queued write.
Moved == gen # gen_at_step

WriteHeld ==
  pc = "talk" =>
    /\ step.is_write => status_turn_done /\ write_pending
    /\ step.is_write /\ ~Moved => write_id = step.data_id /\ write_value = step.value
    /\ Moved => write_pending
    /\ ~Moved <=> burst = 0
    /\ gen = gen_at_step + burst \/ gen = gen_at_step + burst - GenMod

\* The bus as the abstract slot.  A frame under way is the slot's no more,
\* unless a newer write has taken its place.
InFlight == pc = "talk" /\ step.is_write

NoWrite == [id |-> 0, value |-> 0, none |-> TRUE]
Frame(id, value) == [id |-> id, value |-> value, none |-> FALSE]
FramesOf(S) == {Frame(w[1], w[2]) : w \in S}

WriteSlot == INSTANCE OtWriteSlot WITH
  HandWrites   <- FramesOf(HandWrites),
  PoliteWrites <- FramesOf(ExecWrites \cup {Identity[i] : i \in 1..Len(Identity)}),
  slot <- IF write_pending /\ ~(InFlight /\ ~Moved) THEN Frame(write_id, write_value) ELSE NoWrite,
  wire <- IF InFlight THEN Frame(step.data_id, step.value) ELSE NoWrite,
  puts <- gen,
  id1  <- [seq |-> id1_seq, raw |-> id1_raw]

\* No accepted write is lost or sent twice, whatever is queued while a frame
\* is on the wire; the executor's and the introduction's writes evict nobody;
\* and what is reported of ID 1 is what the wire carried and the boiler
\* answered (ot_bus_track.h, "the race this closes").
WritesReachWire == WriteSlot!Spec
==============================================================================
