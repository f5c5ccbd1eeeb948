----------------------------- MODULE OtWriteSlot -----------------------------
(***************************************************************************)
(* What the bus promises to those who write through it (the contracts of   *)
(* ot_bus.h, ot_bus_sched.h and ot_bus_track.h), without the schedule:     *)
(*                                                                         *)
(*   - there is room for one waiting write, and a newer one evicts it;     *)
(*   - a polite write evicts nothing, and does not overtake the write on   *)
(*     the wire;                                                           *)
(*   - apart from eviction a write goes on the wire exactly once;          *)
(*   - what is reported of ID 1 is what was on the wire and was answered.  *)
(***************************************************************************)
EXTENDS Naturals

CONSTANTS HandWrites,    \* writes made unconditionally
          PoliteWrites,  \* writes made only into an empty slot
          GenMod, SeqMod \* where the two counters wrap (2^32)

VARIABLES slot,   \* the waiting write, or NoWrite
          wire,   \* the write in the present conversation, or NoWrite
          puts,   \* writes accepted so far
          id1     \* [seq, raw]: answered writes of ID 1, the value of the last

vars == <<slot, wire, puts, id1>>

NoWrite == [id |-> 0, value |-> 0, none |-> TRUE]
Frame(id, value) == [id |-> id, value |-> value, none |-> FALSE]

After(n, modulus) == IF n + 1 = modulus THEN 0 ELSE n + 1

Init ==
  slot = NoWrite /\ wire = NoWrite /\ puts = 0 /\ id1 = [seq |-> 0, raw |-> 0]

Put(w) == slot' = w /\ puts' = After(puts, GenMod) /\ UNCHANGED <<wire, id1>>

PutPolitely(w) == slot = NoWrite /\ wire = NoWrite /\ Put(w)

Send ==
  /\ slot # NoWrite /\ wire = NoWrite
  /\ wire' = slot /\ slot' = NoWrite
  /\ UNCHANGED <<puts, id1>>

\* The bus's own introduction may go straight out.
PutThrough(w) ==
  /\ slot = NoWrite /\ wire = NoWrite
  /\ wire' = w /\ puts' = After(puts, GenMod)
  /\ UNCHANGED <<slot, id1>>

Over(answered) ==
  /\ wire # NoWrite /\ wire' = NoWrite
  /\ id1' = IF answered /\ wire.id = 1 THEN [seq |-> After(id1.seq, SeqMod), raw |-> wire.value]
                                       ELSE id1
  /\ UNCHANGED <<slot, puts>>

Next ==
  \/ \E w \in HandWrites : Put(w)
  \/ \E w \in PoliteWrites : PutPolitely(w) \/ PutThrough(w)
  \/ Send
  \/ \E answered \in BOOLEAN : Over(answered)

Spec == Init /\ [][Next]_vars
==============================================================================
