---------------------------- MODULE OtBus_proofs -----------------------------
(***************************************************************************)
(* Proofs about OtBus and OtBusRounds: for every ring, introduction and    *)
(* set of writes, the queue of one and its generation implement the        *)
(* abstract slot of OtWriteSlot, a waiting write lets at most one          *)
(* conversation go before it, and the ring is gone round in order although *)
(* identifiers drop out of it.  Of Pace: no conversation begins before its *)
(* time, wherever the clock wraps.                                         *)
(***************************************************************************)
EXTENDS OtBusRounds, WellFoundedInduction, TLAPS

Inv == WriteType /\ WriteHeld

\* The two counters stay counters.
LEMMA AfterType ==
  ASSUME NEW m \in Nat \ {0}, NEW n \in 0..(m - 1)
  PROVE  After(n, m) \in 0..(m - 1)
  BY DEF After

\* A step that writes is built on a meaningful turn, from what is queued.
LEMMA BuiltStep ==
  ASSUME Build
  PROVE  /\ step'.is_write \in BOOLEAN
         /\ step'.is_write => status_turn_done /\ write_pending'
         /\ step'.is_write => step'.data_id = write_id' /\ step'.value = write_value'
         /\ status_turn_done /\ write_pending' => step'.is_write
  <1>1. CASE Slot = "write"
    <2>1. status_turn_done /\ write_pending'
      BY <1>1 DEF Slot
    <2>2. step' = Tell(write_id', write_value')
      BY <1>1 DEF Build, Asked
    <2> QED BY <2>1, <2>2 DEF Tell
  <1>2. CASE Slot # "write"
    <2>1. ~(status_turn_done /\ write_pending')
      BY <1>2 DEF Slot
    <2>2. \E id, value : step' = Ask(id, value)
      BY <1>2 DEF Build, Asked
    <2>3. step'.is_write = FALSE
      BY <2>2 DEF Ask
    <2> QED BY <2>1, <2>3
  <1> QED BY <1>1, <1>2

\* Whatever is queued moves the generation by one.
LEMMA Queued ==
  ASSUME NEW id, NEW value, QueueWrite(id, value), Inv
  PROVE  /\ write_pending' /\ write_id' = id /\ write_value' = value
         /\ gen' = After(gen, GenMod) /\ gen' \in 0..(GenMod - 1)
  BY AfterType, CountAssumption DEF QueueWrite, Inv, WriteType

\* At the start of the task nothing is queued and nothing is under way.
LEMMA InitInv == Init => Inv
  <1> SUFFICES ASSUME Init PROVE Inv
    OBVIOUS
  <1>1. Len(Identity) \in Nat
    BY WritesAssumption
  <1>2. /\ identity_step \in 0..Len(Identity) /\ id1_seq \in 0..(SeqMod - 1)
        /\ gen \in 0..(GenMod - 1) /\ gen_at_step \in 0..(GenMod - 1)
        /\ burst \in 0..(GenMod - 1)
    BY <1>1, CountAssumption DEF Init
  <1>3. step.is_write = FALSE
    BY DEF Init, Ask
  <1>4. status_turn_done = FALSE /\ write_pending = FALSE /\ pc = "loop"
    BY DEF Init
  <1>5. WriteType
    BY <1>2, <1>3, <1>4 DEF WriteType
  <1> QED BY <1>4, <1>5 DEF Inv, WriteHeld

\* Building a step takes the queue as it is and remembers its generation.
LEMMA BuildInv == ASSUME Inv, Build PROVE Inv'
  <1>1. gen' \in 0..(GenMod - 1) /\ gen_at_step' = gen' /\ burst' = 0 /\ pc' = "talk"
    BY Queued DEF Build, Inv, WriteType
  <1>2. identity_step' \in 0..Len(Identity)
    BY WritesAssumption DEF Build, Introduces, Inv, WriteType
  <1>3. write_pending' \in BOOLEAN
    BY DEF Build, QueueWrite, writeVars, Inv, WriteType
  <1>4. UNCHANGED <<status_turn_done, id1_seq>>
    BY DEF Build, id1Vars
  <1>5. WriteType'
    BY <1>1, <1>2, <1>3, <1>4, BuiltStep, CountAssumption DEF Inv, WriteType
  <1>6. ~Moved' /\ gen' = gen_at_step' + burst' /\ burst' = 0
    <2>1. \A n \in 0..(GenMod - 1) : n = n + 0
      BY CountAssumption
    <2>2. gen' = gen' + 0
      BY <1>1, <2>1, Zenon
    <2> QED BY <1>1, <2>2, Zenon DEF Moved
  <1>7. /\ step'.is_write => status_turn_done' /\ write_pending'
        /\ step'.is_write => write_id' = step'.data_id /\ write_value' = step'.value
    BY <1>4, BuiltStep
  <1>8. WriteHeld'
    BY <1>6, <1>7 DEF WriteHeld
  <1> QED BY <1>5, <1>8 DEF Inv

\* The end of a conversation leaves nothing under way.
LEMMA DoneInv == ASSUME Inv, NEW answered \in BOOLEAN, Done(answered) PROVE Inv'
  <1>1. pc' \in {"loop", "answered"}
    BY DEF Done
  <1>2. UNCHANGED <<step, gen_at_step, burst, identity_step, gen>>
    BY DEF Done
  <1>3. status_turn_done' \in BOOLEAN /\ write_pending' \in BOOLEAN
    BY DEF Done, FlipTurn, FinishWrite, WriteMoves, Inv, WriteType
  <1>4. id1_seq' \in 0..(SeqMod - 1)
    BY AfterType, CountAssumption DEF Done, ReportId1, id1Vars, Inv, WriteType
  <1>5. WriteType'
    BY <1>1, <1>2, <1>3, <1>4 DEF Inv, WriteType
  <1> QED BY <1>1, <1>5 DEF Inv, WriteHeld

\* The judgement of a reply touches the ring only.
LEMMA JudgeInv ==
  ASSUME Inv, NEW id, NEW unsupported, Judge(id, unsupported) PROVE Inv'
  BY DEF Judge, Inv, WriteType, WriteHeld, writeVars, id1Vars

\* A write queued during a conversation moves the generation away from it, and
\* fewer than GenMod of them cannot bring it back.
LEMMA WriteInv == ASSUME Inv, NEW w, Write(w) PROVE Inv'
  <1>1. write_pending' = TRUE
    BY DEF Write, QueueWrite
  <1>2. gen' = After(gen, GenMod) /\ gen' \in 0..(GenMod - 1)
    BY Queued DEF Write
  <1>3. UNCHANGED <<pc, step, gen_at_step, identity_step, status_turn_done, id1_seq>>
    BY DEF Write, taskVars, id1Vars
  <1>4. burst' \in 0..(GenMod - 1) /\ (pc = "talk" => burst' = burst + 1 /\ burst' < GenMod)
    BY CountAssumption DEF Write, CountBurst, Inv, WriteType
  <1>5. WriteType'
    BY <1>1, <1>2, <1>3, <1>4 DEF Inv, WriteType
  <1>6. ASSUME pc = "talk"
        PROVE  /\ Moved'
               /\ gen' = gen_at_step + burst' \/ gen' = gen_at_step + burst' - GenMod
               /\ burst' # 0
    <2> USE CountAssumption DEF Inv, WriteType, WriteHeld, Moved, After
    <2>1. gen' = gen_at_step + burst' \/ gen' = gen_at_step + burst' - GenMod
      BY <1>2, <1>4, <1>6
    <2>2. burst' # 0 /\ burst' < GenMod
      BY <1>4, <1>6
    <2>3. gen' # gen_at_step
      BY <2>1, <2>2, <1>4
    <2> QED BY <2>1, <2>2, <2>3, <1>3
  <1>7. WriteHeld'
    BY <1>1, <1>3, <1>6 DEF Inv, WriteHeld
  <1> QED BY <1>5, <1>7 DEF Inv

\* The status byte and the sweep do not reach the queue.
LEMMA OthersInv ==
  ASSUME Inv, (\E high \in StatusBytes : SetStatus(high)) \/ (\E s \in Sweeps : Scan(s[1], s[2]))
  PROVE  Inv'
  BY DEF SetStatus, Scan, taskVars, writeVars, id1Vars, Inv, WriteType, WriteHeld, Moved

\* A stuttering step changes nothing.
LEMMA StutterInv == ASSUME Inv, UNCHANGED vars PROVE Inv'
  BY DEF vars, taskVars, writeVars, id1Vars, Inv, WriteType, WriteHeld, Moved

\* Inv is inductive: no step of the task or of a writer breaks it.
LEMMA NextInv == Inv /\ [Next]_vars => Inv'
  <1> SUFFICES ASSUME Inv, [Next]_vars PROVE Inv'
    OBVIOUS
  <1>1. CASE Build
    BY <1>1, BuildInv
  <1>2. CASE \E answered \in BOOLEAN : Done(answered)
    BY <1>2, DoneInv
  <1>3. CASE \E id \in Replies, unsupported \in BOOLEAN : Judge(id, unsupported)
    BY <1>3, JudgeInv
  <1>4. CASE \E w \in HandWrites : Write(w)
    BY <1>4, WriteInv
  <1>5. CASE \E w \in ExecWrites : WriteIfIdle(w)
    BY <1>5, WriteInv DEF WriteIfIdle
  <1>6. CASE (\E high \in StatusBytes : SetStatus(high)) \/ (\E s \in Sweeps : Scan(s[1], s[2]))
    BY <1>6, OthersInv
  <1>7. CASE UNCHANGED vars
    BY <1>7, StutterInv
  <1> QED BY <1>1, <1>2, <1>3, <1>4, <1>5, <1>6, <1>7 DEF Next, BusTask

\* While a write is on the wire the queue still holds it, or a newer one that
\* moved the generation (ot_bus_track_done relies on both).
THEOREM WritesHeld == Spec => []WriteHeld
  <1>1. Spec => []Inv
    BY InitInv, NextInv, PTL DEF Spec
  <1>2. Inv => WriteHeld
    BY DEF Inv
  <1> QED BY <1>1, <1>2, PTL

-----------------------------------------------------------------------------
(* The refinement. *)

TheSlot == IF write_pending /\ ~(InFlight /\ ~Moved) THEN Frame(write_id, write_value) ELSE NoWrite
TheWire == IF InFlight THEN Frame(step.data_id, step.value) ELSE NoWrite
TheId1  == [seq |-> id1_seq, raw |-> id1_raw]

\* What the abstract slot sees of a step of the bus.
Seen == <<TheSlot, TheWire, gen, TheId1>>

\* A frame is never mistaken for an empty slot.
LEMMA FrameIsWrite == ASSUME NEW id, NEW value PROVE Frame(id, value) # NoWrite
  BY DEF Frame, NoWrite

\* The abstract actions, in the terms of the bus.
LEMMA Put ==
  ASSUME NEW id, NEW value, TheSlot' = Frame(id, value), gen' = After(gen, GenMod),
         TheWire' = TheWire, TheId1' = TheId1
  PROVE  WriteSlot!Put(Frame(id, value))
  BY DEF WriteSlot!Put, WriteSlot!After, After, TheSlot, TheWire, TheId1

\* A write is queued, by hand or into an empty queue.
LEMMA WriteStep ==
  ASSUME Inv, NEW w, Write(w)
  PROVE  WriteSlot!Put(Frame(w[1], w[2]))
  <1>1. gen' = After(gen, GenMod) /\ write_pending' = TRUE
    BY DEF Write, QueueWrite
  <1>2. write_id' = w[1] /\ write_value' = w[2]
    BY DEF Write, QueueWrite
  <1>3. UNCHANGED <<pc, step, id1_seq, id1_raw>>
    BY DEF Write, taskVars, id1Vars
  <1>4. InFlight' => Moved'
    <2>1. Inv'
      BY WriteInv
    <2>2. ASSUME pc = "talk" PROVE burst' # 0
      BY <2>2, CountAssumption DEF Write, CountBurst, Inv, WriteType
    <2> QED BY <2>1, <2>2, <1>3 DEF Inv, WriteHeld, InFlight
  <1>5. TheSlot' = Frame(w[1], w[2])
    BY <1>1, <1>2, <1>4 DEF TheSlot, Frame
  <1>6. TheWire' = TheWire /\ TheId1' = TheId1
    BY <1>3 DEF TheWire, TheId1, InFlight, Frame, NoWrite
  <1> QED BY <1>1, <1>5, <1>6, Put

\* A polite write finds both the slot and the wire empty.
LEMMA IdleIsEmpty ==
  ASSUME Inv, ~write_pending PROVE TheSlot = NoWrite /\ TheWire = NoWrite
  BY DEF Inv, WriteHeld, InFlight, TheSlot, TheWire

\* A conversation begins: the waiting write goes on the wire if it is its
\* turn, the introduction is queued first or goes straight through.
LEMMA BuildStep ==
  ASSUME Inv, Build
  PROVE  [WriteSlot!Next]_Seen
  <1>1. pc = "loop" /\ pc' = "talk" /\ gen_at_step' = gen'
    BY DEF Build
  <1>2. ~InFlight /\ ~Moved' /\ (InFlight' <=> step'.is_write)
    BY <1>1 DEF InFlight, Moved
  <1>3. TheWire = NoWrite /\ TheId1' = TheId1
    BY <1>2 DEF TheWire, TheId1, Build, id1Vars
  <1>4. CASE ~Introduces
    <2>1. UNCHANGED <<write_pending, write_id, write_value, gen>>
      BY <1>4 DEF Build, writeVars
    <2>2. TheSlot = IF write_pending THEN Frame(write_id, write_value) ELSE NoWrite
      BY <1>2 DEF TheSlot
    <2>3. CASE step'.is_write
      <3>1. write_pending
        BY <2>1, <2>3, BuiltStep
      <3>2. TheWire' = Frame(write_id, write_value)
        BY <1>2, <2>1, <2>3, BuiltStep DEF TheWire, Frame
      <3>3. TheSlot' = NoWrite
        BY <1>2, <2>3 DEF TheSlot
      <3>4. TheSlot # NoWrite /\ TheWire' = TheSlot
        BY <2>2, <3>1, <3>2, FrameIsWrite
      <3>5. WriteSlot!Send
        BY <1>3, <2>1, <3>3, <3>4 DEF WriteSlot!Send, WriteSlot!NoWrite, NoWrite,
           TheSlot, TheWire, TheId1
      <3> QED BY <3>5 DEF WriteSlot!Next
    <2>4. CASE ~step'.is_write
      <3>1. TheWire' = NoWrite
        BY <1>2, <2>4 DEF TheWire
      <3>2. TheSlot' = TheSlot
        BY <1>2, <2>1, <2>2, <2>4 DEF TheSlot, Frame
      <3> QED BY <1>3, <2>1, <3>1, <3>2 DEF Seen
    <2> QED BY <2>3, <2>4
  <1>5. CASE Introduces
    <2> DEFINE w == Identity[identity_step + 1]
               W == ExecWrites \cup {Identity[i] : i \in 1..Len(Identity)}
    <2>1. QueueWrite(w[1], w[2]) /\ ~write_pending
      BY <1>5 DEF Build, Introduces
    <2>2. write_pending' /\ write_id' = w[1] /\ write_value' = w[2] /\ gen' = After(gen, GenMod)
      BY <2>1 DEF QueueWrite
    <2>3. TheSlot = NoWrite
      BY <2>1, IdleIsEmpty
    <2>4. Frame(w[1], w[2]) \in FramesOf(W)
      <3>1. identity_step + 1 \in 1..Len(Identity)
        BY <1>5, WritesAssumption DEF Introduces, Inv, WriteType
      <3>2. w \in W
        BY <3>1
      <3> QED BY <3>2 DEF FramesOf
    <2>5. CASE step'.is_write
      <3>1. TheWire' = Frame(w[1], w[2])
        BY <1>2, <2>2, <2>5, BuiltStep DEF TheWire, Frame
      <3>2. TheSlot' = NoWrite
        BY <1>2, <2>5 DEF TheSlot
      <3>3. WriteSlot!PutThrough(Frame(w[1], w[2]))
        BY <1>3, <2>2, <2>3, <3>1, <3>2 DEF WriteSlot!PutThrough, WriteSlot!NoWrite, NoWrite,
           WriteSlot!After, After, TheSlot, TheWire, TheId1
      <3> QED BY <2>4, <3>3 DEF WriteSlot!Next
    <2>6. CASE ~step'.is_write
      <3>1. TheWire' = TheWire
        BY <1>2, <1>3, <2>6 DEF TheWire
      <3>2. TheSlot' = Frame(w[1], w[2])
        BY <1>2, <2>2, <2>6 DEF TheSlot, Frame
      <3>3. WriteSlot!Put(Frame(w[1], w[2]))
        BY <1>3, <2>2, <3>1, <3>2, Put
      <3>4. WriteSlot!PutPolitely(Frame(w[1], w[2]))
        BY <1>3, <2>3, <3>3 DEF WriteSlot!PutPolitely, WriteSlot!NoWrite, NoWrite,
           TheSlot, TheWire
      <3> QED BY <2>4, <3>4 DEF WriteSlot!Next
    <2> QED BY <2>5, <2>6
  <1> QED BY <1>4, <1>5

\* A conversation ends: the wire is free, what was queued during it waits, and
\* an answered ID 1 is reported with the value that was on the wire.
LEMMA DoneStep ==
  ASSUME Inv, NEW answered \in BOOLEAN, Done(answered)
  PROVE  [WriteSlot!Next]_Seen
  <1>1. pc = "talk" /\ ~InFlight' /\ UNCHANGED <<step, gen, gen_at_step, write_id, write_value>>
    BY DEF Done, FinishWrite, InFlight
  <1>2. TheWire' = NoWrite
    BY <1>1 DEF TheWire
  <1>3. (write_pending' <=> ((write_pending /\ ~WriteMoves) \/ Moved))
    BY DEF Done, FinishWrite, Moved
  <1>4. TheSlot' = TheSlot
    <2>1. CASE step.is_write
      <3>1. write_pending' <=> Moved
        BY <1>1, <1>3, <2>1 DEF WriteMoves, Inv, WriteHeld
      <3>2. write_pending /\ InFlight
        BY <1>1, <2>1 DEF Inv, WriteHeld, InFlight
      <3> QED BY <1>1, <3>1, <3>2 DEF TheSlot, Frame
    <2>2. CASE ~step.is_write
      <3>1. write_pending' <=> write_pending
        BY <1>1, <1>3, <2>2 DEF WriteMoves, Inv, WriteHeld
      <3> QED BY <1>1, <2>2, <3>1 DEF TheSlot, Frame, InFlight
    <2> QED BY <2>1, <2>2
  <1>5. CASE step.is_write
    <2>1. TheWire = Frame(step.data_id, step.value)
      BY <1>1, <1>5 DEF TheWire, InFlight
    <2>2. TheId1' = IF answered /\ TheWire.id = 1
                      THEN [seq |-> After(TheId1.seq, SeqMod), raw |-> TheWire.value] ELSE TheId1
      BY <1>5, <2>1 DEF Done, ReportId1, id1Vars, TheId1, Frame
    <2>3. TheWire # NoWrite
      BY <2>1, FrameIsWrite
    <2>4. WriteSlot!Over(answered)
      BY <1>1, <1>2, <1>4, <2>2, <2>3 DEF WriteSlot!Over, WriteSlot!NoWrite, NoWrite,
         WriteSlot!After, After, TheSlot, TheWire, TheId1
    <2> QED BY <2>4 DEF WriteSlot!Next
  <1>6. CASE ~step.is_write
    <2>1. TheWire' = TheWire
      BY <1>2, <1>6 DEF TheWire, InFlight
    <2>2. TheId1' = TheId1
      BY <1>6 DEF Done, ReportId1, id1Vars, TheId1
    <2> QED BY <1>1, <1>4, <2>1, <2>2 DEF Seen
  <1> QED BY <1>5, <1>6

\* Steps that reach neither the queue nor the conversation.
LEMMA UnseenStep ==
  ASSUME \/ \E id \in Replies, unsupported \in BOOLEAN : Judge(id, unsupported)
         \/ \E high \in StatusBytes : SetStatus(high)
         \/ \E s \in Sweeps : Scan(s[1], s[2])
         \/ UNCHANGED vars
  PROVE  UNCHANGED Seen
  <1>1. /\ UNCHANGED <<step, gen, gen_at_step, write_pending, write_id, write_value>>
        /\ UNCHANGED <<id1_seq, id1_raw>>
    BY DEF Judge, SetStatus, Scan, vars, taskVars, writeVars, id1Vars
  <1>2. pc' = pc \/ (pc = "answered" /\ pc' = "loop")
    BY DEF Judge, SetStatus, Scan, vars, taskVars
  <1>3. (InFlight' <=> InFlight) /\ (Moved' <=> Moved)
    BY <1>1, <1>2 DEF InFlight, Moved
  <1> QED BY <1>1, <1>3 DEF Seen, TheSlot, TheWire, TheId1, Frame

\* Every step of the bus is a step of the abstract slot, or invisible to it.
LEMMA NextStep == Inv /\ [Next]_vars => [WriteSlot!Next]_Seen
  <1> SUFFICES ASSUME Inv, [Next]_vars PROVE [WriteSlot!Next]_Seen
    OBVIOUS
  <1>1. CASE Build
    BY <1>1, BuildStep
  <1>2. CASE \E answered \in BOOLEAN : Done(answered)
    BY <1>2, DoneStep
  <1>3. CASE \E w \in HandWrites : Write(w)
    <2>1. PICK w \in HandWrites : Write(w)
      BY <1>3
    <2>2. WriteSlot!Put(Frame(w[1], w[2])) /\ Frame(w[1], w[2]) \in FramesOf(HandWrites)
      BY <2>1, WriteStep DEF FramesOf
    <2> QED BY <2>2 DEF WriteSlot!Next
  <1>4. CASE \E w \in ExecWrites : WriteIfIdle(w)
    <2>1. PICK w \in ExecWrites : ~write_pending /\ Write(w)
      BY <1>4 DEF WriteIfIdle
    <2>2. WriteSlot!PutPolitely(Frame(w[1], w[2]))
      BY <2>1, WriteStep, IdleIsEmpty DEF WriteSlot!PutPolitely, WriteSlot!NoWrite, NoWrite,
         TheSlot, TheWire
    <2>3. Frame(w[1], w[2]) \in FramesOf(ExecWrites \cup {Identity[i] : i \in 1..Len(Identity)})
      BY DEF FramesOf
    <2> QED BY <2>2, <2>3 DEF WriteSlot!Next
  <1>5. CASE \/ \E id \in Replies, unsupported \in BOOLEAN : Judge(id, unsupported)
             \/ \E high \in StatusBytes : SetStatus(high)
             \/ \E s \in Sweeps : Scan(s[1], s[2])
             \/ UNCHANGED vars
    BY <1>5, UnseenStep
  <1> QED BY <1>1, <1>2, <1>3, <1>4, <1>5 DEF Next, BusTask

\* No accepted write is lost or sent twice, polite writes evict nobody, and
\* what is reported of ID 1 was on the wire and answered: the bus implements
\* the abstract slot.
THEOREM WritesOnce == Spec => WritesReachWire
  <1>1. Spec => []Inv
    BY InitInv, NextInv, PTL DEF Spec
  <1>2. Init => WriteSlot!Init
    BY DEF Init, WriteSlot!Init, WriteSlot!NoWrite, NoWrite, InFlight
  <1>3. Inv /\ [Next]_vars => [WriteSlot!Next]_(WriteSlot!vars)
    BY NextStep DEF Seen, WriteSlot!vars, TheSlot, TheWire, TheId1
  <1> QED BY <1>1, <1>2, <1>3, PTL DEF Spec, WritesReachWire, WriteSlot!Spec

-----------------------------------------------------------------------------
(* The turns. *)

\* Turns alternate, and a meaningful one serves the queue or finds it empty:
\* only the status between two of them can be waited for.
Prompt ==
  /\ waited \in {0, 1}
  /\ pc = "talk" /\ status_turn_done => waited = 0
  /\ pc # "talk" /\ ~status_turn_done => waited = 0

\* What begins on a meaningful turn leaves nothing behind that waited.
LEMMA BuildPrompt == ASSUME Prompt, HBuild PROVE Prompt'
  <1>1. /\ pc = "loop" /\ pc' = "talk" /\ status_turn_done' = status_turn_done
        /\ waited' = IF Slot = "write" \/ ~write_pending THEN 0
                     ELSE IF waited = WaitMax THEN WaitMax ELSE waited + 1
    BY DEF HBuild, Build
  <1>2. CASE status_turn_done
    <2>1. write_pending => write_pending'
      BY DEF HBuild, Build, Introduces, writeVars
    <2>2. write_pending => Slot = "write"
      BY <1>2, <2>1 DEF Slot
    <2> QED BY <1>1, <1>2, <2>2 DEF Prompt
  <1>3. CASE ~status_turn_done
    <2>1. waited = 0 /\ waited' \in {0, 1}
      BY <1>1, <1>3 DEF Prompt, WaitMax
    <2> QED BY <1>1, <1>3, <2>1 DEF Prompt
  <1> QED BY <1>2, <1>3

\* The turn flips as a conversation ends, and at no other moment.
LEMMA NextPrompt == Inv /\ Prompt /\ [HNext]_hvars => Prompt'
  <1> SUFFICES ASSUME Inv, Prompt, [HNext]_hvars PROVE Prompt'
    OBVIOUS
  <1>1. CASE HBuild
    BY <1>1, BuildPrompt
  <1>2. CASE HDone
    <2>1. /\ pc = "talk" /\ pc' # "talk" /\ status_turn_done' = ~status_turn_done
          /\ waited' = waited
      BY <1>2 DEF HDone, Done, FlipTurn
    <2> QED BY <2>1 DEF Prompt, Inv, WriteType
  <1>3. CASE HJudge
    BY <1>3 DEF HJudge, Judge, history, Prompt
  <1>4. CASE HWrite
    BY <1>4 DEF HWrite, Write, WriteIfIdle, taskVars, history, Prompt
  <1>5. CASE HSetStatus
    BY <1>5 DEF HSetStatus, SetStatus, taskVars, history, Prompt
  <1>6. CASE HScan
    BY <1>6 DEF HScan, Scan, taskVars, Prompt
  <1>7. CASE UNCHANGED hvars
    BY <1>7 DEF hvars, vars, taskVars, history, Prompt
  <1> QED BY <1>1, <1>2, <1>3, <1>4, <1>5, <1>6, <1>7 DEF HNext, HBus

\* A step with its history is a step of the bus.
LEMMA StepOfBus == [HNext]_hvars => [Next]_vars
  BY DEF HNext, HBus, HBuild, HDone, HJudge, HWrite, HSetStatus, HScan, Next, BusTask, hvars

\* Whatever the sweep, the ring and the other writers do, a write that waits
\* goes out after at most one conversation, the status.
THEOREM WritesArePrompt == HSpec => []WritePrompt
  <1>1. HInit => Inv /\ Prompt
    BY InitInv DEF HInit, Init, Prompt
  <1>2. Inv /\ [HNext]_hvars => Inv'
    BY StepOfBus, NextInv
  <1>3. Prompt => WritePrompt
    BY DEF Prompt, WritePrompt
  <1> QED BY <1>1, <1>2, <1>3, NextPrompt, PTL DEF HSpec
-----------------------------------------------------------------------------
(* The ring: what Kept computes, by induction on how many places it has seen. *)

\* Induction over the natural numbers, for a set: a least number outside it has
\* a predecessor inside.
LEMMA SetInduction ==
  ASSUME NEW S, 0 \in S, \A n \in Nat : n \in S => n + 1 \in S
  PROVE  Nat \subseteq S
  <1> DEFINE outside == Nat \ S
  <1> DEFINE less == {ss \in Nat \X Nat : ss[1] < ss[2]}
  <1> SUFFICES ASSUME outside # {} PROVE FALSE
    OBVIOUS
  <1>1. IsWellFoundedOn(less, Nat)
    BY NatLessThanWellFounded DEF OpToRel
  <1>2. outside \subseteq Nat
    OBVIOUS
  <1>3. \E m \in outside : \A k \in outside : ~(<<k, m>> \in less)
    <2> HIDE DEF less, outside
    <2> QED BY <1>1, <1>2, WFMin
  <1>4. PICK m \in outside : \A k \in outside : ~(<<k, m>> \in less)
    BY <1>3
  <1>5. m \in Nat /\ m # 0 /\ m - 1 \in Nat /\ m - 1 < m /\ m = (m - 1) + 1
    OBVIOUS
  <1>6. <<m - 1, m>> \in less
    BY <1>5
  <1>7. m - 1 \in S
    BY <1>4, <1>5, <1>6
  <1>8. m \in S
    <2>1. (m - 1) + 1 \in S
      BY <1>5, <1>7
    <2> QED BY <1>5, <2>1, Zenon
  <1> QED BY <1>8

\* What the step from n - 1 places to n does.
Keeping(ring, id, n, before) == IF ring[n] = id THEN before ELSE Append(before, ring[n])

\* g is Kept as far as m.
KeptTo(ring, id, m, g) ==
  g = [n \in 0..m |-> IF n = 0 THEN <<>> ELSE Keeping(ring, id, n, g[n - 1])]

\* There is such a function for every m.
LEMMA KeptToExists ==
  ASSUME NEW ring, NEW id, NEW m \in Nat
  PROVE  \E g : KeptTo(ring, id, m, g)
  <1> DEFINE S == {k \in Nat : \E g : KeptTo(ring, id, k, g)}
  <1>1. 0 \in S
    <2> DEFINE g == [n \in 0..0 |-> <<>>]
    <2>1. g = [n \in 0..0 |-> IF n = 0 THEN <<>> ELSE Keeping(ring, id, n, g[n - 1])]
      OBVIOUS
    <2>2. KeptTo(ring, id, 0, g)
      BY <2>1, Zenon DEF KeptTo
    <2> QED BY <2>2
  <1>2. ASSUME NEW k \in Nat, k \in S PROVE k + 1 \in S
    <2>1. PICK g : KeptTo(ring, id, k, g)
      BY <1>2
    <2> DEFINE h == [n \in 0..(k + 1) |-> IF n = k + 1 THEN Keeping(ring, id, k + 1, g[k]) ELSE g[n]]
    <2>2. g = [n \in 0..k |-> IF n = 0 THEN <<>> ELSE Keeping(ring, id, n, g[n - 1])]
      BY <2>1, Zenon DEF KeptTo
    <2>3. ASSUME NEW n \in 0..(k + 1)
          PROVE  h[n] = IF n = 0 THEN <<>> ELSE Keeping(ring, id, n, h[n - 1])
      <3>1. CASE n = k + 1
        BY <3>1
      <3>2. CASE n # k + 1 /\ n = 0
        BY <2>2, <3>2
      <3>3. CASE n # k + 1 /\ n # 0
        <4>1. n \in 0..k /\ n - 1 \in 0..k /\ n - 1 \in 0..(k + 1) /\ n - 1 # k + 1
          BY <3>3
        <4>2. h[n] = g[n] /\ h[n - 1] = g[n - 1]
          BY <3>3, <4>1
        <4>3. g[n] = Keeping(ring, id, n, g[n - 1])
          BY <2>2, <3>3, <4>1
        <4> QED BY <3>3, <4>2, <4>3, Zenon
      <3> QED BY <3>1, <3>2, <3>3
    <2>4. h = [n \in 0..(k + 1) |-> IF n = 0 THEN <<>> ELSE Keeping(ring, id, n, h[n - 1])]
      BY <2>3
    <2>5. KeptTo(ring, id, k + 1, h)
      BY <2>4, Zenon DEF KeptTo
    <2> QED BY <2>5
  <1> HIDE DEF S
  <1>3. Nat \subseteq S
    BY <1>1, <1>2, SetInduction
  <1> QED BY <1>3 DEF S

\* The equation the definition of Kept states.
LEMMA KeptStep ==
  ASSUME NEW ring \in Seq(Nat), NEW id
  PROVE  /\ Kept(ring, id)[0] = <<>>
         /\ \A n \in 1..Len(ring) :
              Kept(ring, id)[n] = Keeping(ring, id, n, Kept(ring, id)[n - 1])
  <1> DEFINE K == Kept(ring, id)
  <1>1. Len(ring) \in Nat
    OBVIOUS
  <1>2. K = CHOOSE g : g = [n \in 0..Len(ring) |->
                              IF n = 0 THEN <<>>
                              ELSE IF ring[n] = id THEN g[n - 1] ELSE Append(g[n - 1], ring[n])]
    BY Zenon DEF Kept
  <1>3. \E g : g = [n \in 0..Len(ring) |->
                              IF n = 0 THEN <<>>
                              ELSE IF ring[n] = id THEN g[n - 1] ELSE Append(g[n - 1], ring[n])]
    <2>1. PICK g : KeptTo(ring, id, Len(ring), g)
      BY <1>1, KeptToExists, Zenon
    <2> QED BY <2>1, Zenon DEF KeptTo, Keeping
  <1>4. K = [n \in 0..Len(ring) |->
                              IF n = 0 THEN <<>>
                              ELSE IF ring[n] = id THEN K[n - 1] ELSE Append(K[n - 1], ring[n])]
    BY <1>2, <1>3, Zenon
  <1> HIDE DEF K
  <1>5. K[0] = <<>>
    BY <1>1, <1>4
  <1>6. \A n \in 1..Len(ring) :
          K[n] = IF ring[n] = id THEN K[n - 1] ELSE Append(K[n - 1], ring[n])
    <2> SUFFICES ASSUME NEW n \in 1..Len(ring)
                 PROVE  K[n] = IF ring[n] = id THEN K[n - 1] ELSE Append(K[n - 1], ring[n])
      OBVIOUS
    <2>1. n \in 0..Len(ring) /\ n # 0
      BY <1>1
    <2> QED BY <1>4, <2>1, Zenon
  <1> QED BY <1>5, <1>6, Zenon DEF Keeping, K

\* b is a with some of what the places n + 1 to m hold behind it.
Adds(ring, a, b, n, m) ==
  /\ a \in Seq(Nat) /\ b \in Seq(Nat) /\ Len(a) <= Len(b)
  /\ \A j \in 1..Len(a) : b[j] = a[j]
  /\ \A j \in 1..Len(b) : j > Len(a) => \E i \in (n + 1)..m : b[j] = ring[i]

\* Places go up along the sequence, and all of them are in Ring.
Rises(s)  == \A i, j \in 1..Len(s) : i < j => Place(s[i]) < Place(s[j])
InRing(s) == \A i \in 1..Len(s) : Place(s[i]) \in 1..Len(Ring)

LEMMA KeepingAdds ==
  ASSUME NEW ring \in Seq(Nat), NEW id, NEW a, NEW b, NEW n \in Nat, NEW m \in Nat, n <= m,
         m + 1 <= Len(ring), Adds(ring, a, b, n, m)
  PROVE  Adds(ring, a, Keeping(ring, id, m + 1, b), n, m + 1)
  <1>1. a \in Seq(Nat) /\ b \in Seq(Nat) /\ Len(a) \in Nat /\ Len(b) \in Nat /\ Len(a) <= Len(b)
    BY DEF Adds
  <1>2. m + 1 \in 1..Len(ring) /\ ring[m + 1] \in Nat /\ m + 1 \in (n + 1)..(m + 1)
    OBVIOUS
  <1>3. \A j \in 1..Len(b) : j > Len(a) => \E i \in (n + 1)..(m + 1) : b[j] = ring[i]
    <2> SUFFICES ASSUME NEW j \in 1..Len(b), j > Len(a)
                 PROVE  \E i \in (n + 1)..(m + 1) : b[j] = ring[i]
      OBVIOUS
    <2>1. PICK i \in (n + 1)..m : b[j] = ring[i]
      BY DEF Adds
    <2>2. i \in (n + 1)..(m + 1)
      BY <2>1
    <2> QED BY <2>1, <2>2
  <1>4. CASE ring[m + 1] = id
    <2>1. Keeping(ring, id, m + 1, b) = b
      BY <1>4 DEF Keeping
    <2> QED BY <1>3, <2>1 DEF Adds
  <1>5. CASE ring[m + 1] # id
    <2> DEFINE c == Append(b, ring[m + 1])
    <2>1. Keeping(ring, id, m + 1, b) = c
      BY <1>5 DEF Keeping
    <2>2. c \in Seq(Nat) /\ Len(c) = Len(b) + 1 /\ c[Len(b) + 1] = ring[m + 1]
      BY <1>1, <1>2
    <2>3. \A j \in 1..Len(b) : c[j] = b[j]
      BY <1>1, <1>2
    <2> HIDE DEF c
    <2>4. \A j \in 1..Len(a) : c[j] = a[j]
      BY <1>1, <2>3 DEF Adds
    <2>5. \A j \in 1..Len(c) : j > Len(a) => \E i \in (n + 1)..(m + 1) : c[j] = ring[i]
      <3> SUFFICES ASSUME NEW j \in 1..Len(c), j > Len(a)
                   PROVE  \E i \in (n + 1)..(m + 1) : c[j] = ring[i]
        OBVIOUS
      <3>1. CASE j = Len(b) + 1
        BY <1>2, <2>2, <3>1
      <3>2. CASE j # Len(b) + 1
        <4>1. j \in 1..Len(b)
          BY <1>1, <2>2, <3>2
        <4> QED BY <1>3, <2>3, <4>1
      <3> QED BY <3>1, <3>2
    <2>6. Adds(ring, a, c, n, m + 1)
      BY <1>1, <2>2, <2>4, <2>5 DEF Adds
    <2> QED BY <2>1, <2>6
  <1> QED BY <1>4, <1>5

\* What is left of the first n places is where what is left of more begins.
LEMMA KeptAdds ==
  ASSUME NEW ring \in Seq(Nat), NEW id, NEW n \in 0..Len(ring), Kept(ring, id)[n] \in Seq(Nat),
         NEW m \in n..Len(ring)
  PROVE  Adds(ring, Kept(ring, id)[n], Kept(ring, id)[m], n, m)
  <1> DEFINE K == Kept(ring, id)
  <1> DEFINE S == {d \in Nat : n + d <= Len(ring) => Adds(ring, K[n], K[n + d], n, n + d)}
  <1>1. Len(ring) \in Nat /\ n \in Nat /\ K[n] \in Seq(Nat)
    OBVIOUS
  <1> HIDE DEF K
  <1>2. 0 \in S
    <2>1. n + 0 = n
      BY <1>1
    <2>2. Adds(ring, K[n], K[n], n, n)
      BY <1>1 DEF Adds
    <2> QED BY <2>1, <2>2
  <1>3. ASSUME NEW d \in Nat, d \in S PROVE d + 1 \in S
    <2> SUFFICES ASSUME n + (d + 1) <= Len(ring)
                 PROVE  Adds(ring, K[n], K[n + (d + 1)], n, n + (d + 1))
      OBVIOUS
    <2>1. PICK k \in Nat : k = n + d /\ n <= k /\ k + 1 <= Len(ring) /\ n + (d + 1) = k + 1
      BY <1>1
    <2>2. Adds(ring, K[n], K[k], n, k)
      BY <1>1, <1>3, <2>1
    <2>3. k + 1 \in 1..Len(ring) /\ (k + 1) - 1 = k
      BY <1>1, <2>1
    <2>4. K[k + 1] = Keeping(ring, id, k + 1, K[k])
      BY <2>3, KeptStep DEF K
    <2>5. Adds(ring, K[n], K[k + 1], n, k + 1)
      BY <1>1, <2>1, <2>2, <2>4, KeepingAdds
    <2> QED BY <2>1, <2>5
  <1> HIDE DEF S
  <1>4. m - n \in Nat /\ n + (m - n) = m /\ m <= Len(ring)
    BY <1>1
  <1>5. m - n \in S
    BY <1>2, <1>3, <1>4, SetInduction
  <1>6. Adds(ring, K[n], K[m], n, m)
    BY <1>4, <1>5 DEF S
  <1> QED BY <1>6 DEF K

\* s has nothing that the first m places do not hold.
Among(ring, m, s) == s \in Seq(Nat) /\ \A j \in 1..Len(s) : \E i \in 1..m : s[j] = ring[i]

LEMMA KeptFrom ==
  ASSUME NEW ring \in Seq(Nat), NEW id, NEW m \in 0..Len(ring)
  PROVE  Among(ring, m, Kept(ring, id)[m])
  <1>1. Kept(ring, id)[0] = <<>> /\ <<>> \in Seq(Nat) /\ Len(<<>>) = 0
    BY KeptStep
  <1>2. 0 \in 0..Len(ring) /\ m \in 0..Len(ring) /\ Len(ring) \in Nat
    OBVIOUS
  <1>3. Adds(ring, <<>>, Kept(ring, id)[m], 0, m)
    BY <1>1, <1>2, KeptAdds
  <1>4. PICK s : s = Kept(ring, id)[m]
    OBVIOUS
  <1>5. Among(ring, m, s)
    BY <1>1, <1>2, <1>3, <1>4 DEF Adds, Among
  <1> QED BY <1>4, <1>5

\* Leaving somebody out keeps the order.
LEMMA KeptRises ==
  ASSUME NEW ring \in Seq(Nat), NEW id, Rises(ring), NEW m \in 0..Len(ring)
  PROVE  Rises(Kept(ring, id)[m])
  <1> DEFINE K == Kept(ring, id)
  <1> DEFINE S == {d \in Nat : d <= Len(ring) => Rises(K[d])}
  <1>1. Len(ring) \in Nat
    OBVIOUS
  <1>2. 0 \in S
    BY KeptStep DEF Rises
  <1>3. ASSUME NEW d \in Nat, d \in S PROVE d + 1 \in S
    <2> SUFFICES ASSUME d + 1 <= Len(ring) PROVE Rises(K[d + 1])
      OBVIOUS
    <2>1. d \in 0..Len(ring) /\ d + 1 \in 1..Len(ring) /\ (d + 1) - 1 = d /\ d <= Len(ring)
      BY <1>1
    <2>2. Rises(K[d])
      BY <1>3, <2>1
    <2>3. PICK b \in Seq(Nat) : b = K[d] /\ \A j \in 1..Len(b) : \E i \in 1..d : b[j] = ring[i]
      <3>1. PICK b : b = K[d]
        OBVIOUS
      <3>2. Among(ring, d, b)
        BY <2>1, <3>1, KeptFrom, Zenon
      <3> QED BY <3>1, <3>2, Zenon DEF Among
    <2>4. K[d + 1] = Keeping(ring, id, d + 1, b)
      BY <2>1, <2>3, KeptStep
    <2>5. CASE ring[d + 1] = id
      BY <2>2, <2>3, <2>4, <2>5 DEF Keeping
    <2>6. CASE ring[d + 1] # id
      <3>1. K[d + 1] = Append(b, ring[d + 1])
        BY <2>4, <2>6 DEF Keeping
      <3>2. ring[d + 1] \in Nat
        BY <2>1
      <3> DEFINE c == Append(b, ring[d + 1])
      <3>4. /\ Len(b) \in Nat /\ Len(c) = Len(b) + 1 /\ c[Len(b) + 1] = ring[d + 1]
            /\ \A j \in 1..Len(b) : c[j] = b[j]
        BY <3>2
      <3>3. K[d + 1] = c
        BY <3>1
      <3> HIDE DEF c
      <3>5. ASSUME NEW i \in 1..Len(c), NEW j \in 1..Len(c), i < j
            PROVE  Place(c[i]) < Place(c[j])
        <4>1. i \in 1..Len(b)
          BY <3>4, <3>5
        <4>2. CASE j \in 1..Len(b)
          BY <2>2, <2>3, <3>4, <3>5, <4>1, <4>2 DEF Rises
        <4>3. CASE j = Len(b) + 1
          <5>1. PICK k \in 1..d : b[i] = ring[k]
            BY <2>3, <4>1
          <5>2. k \in 1..Len(ring) /\ k < d + 1
            BY <1>1, <2>1
          <5>3. Place(ring[k]) < Place(ring[d + 1])
            BY <2>1, <5>2 DEF Rises
          <5> QED BY <3>4, <4>1, <4>3, <5>1, <5>3
        <4>4. j \in 1..Len(b) \/ j = Len(b) + 1
          <5>1. PICK k \in Nat : k = Len(b)
            BY <3>4
          <5>2. j \in 1..(k + 1)
            BY <3>4, <5>1, Zenon
          <5>3. j \in 1..k \/ j = k + 1
            BY <5>2
          <5> QED BY <5>1, <5>3, Zenon
        <4> QED BY <4>2, <4>3, <4>4, Zenon
      <3> QED BY <3>3, <3>5, Zenon DEF Rises
    <2> QED BY <2>5, <2>6
  <1> HIDE DEF S, K
  <1>4. m \in S
    <2>1. m \in Nat
      BY <1>1
    <2> QED BY <1>2, <1>3, <2>1, SetInduction
  <1>5. m <= Len(ring)
    BY <1>1
  <1> QED BY <1>4, <1>5 DEF S, K

-----------------------------------------------------------------------------
(* The turns of the ring. *)

LEMMA PlaceIs == \A i \in 1..Len(Ring) : Place(Ring[i]) = i
  <1> SUFFICES ASSUME NEW i \in 1..Len(Ring) PROVE Place(Ring[i]) = i
    OBVIOUS
  <1>1. \E j \in 1..Len(Ring) : Ring[j] = Ring[i]
    OBVIOUS
  <1>2. Place(Ring[i]) \in 1..Len(Ring) /\ Ring[Place(Ring[i])] = Ring[i]
    BY <1>1, Zenon DEF Place
  <1> QED BY <1>2, RingAssumption, Zenon

\* The position n in the ring s stands behind everybody up to place p, and in
\* front of the others; or everybody left has had a turn and it is back at the start.
OnTurn(s, n, p) ==
  \/ \A i \in 1..Len(s) : IF i <= n THEN Place(s[i]) <= p ELSE p < Place(s[i])
  \/ n = 0 /\ \A i \in 1..Len(s) : Place(s[i]) <= p

RingKept(s, n, p) ==
  /\ s \in Seq(Nat) /\ InRing(s) /\ Rises(s)
  /\ n \in Nat /\ (n < Len(s) \/ n = 0) /\ p \in 0..Len(Ring)
  /\ OnTurn(s, n, p)

\* What is on the wire is whose turn it is, unless the sweep took it over; and
\* the ring stands still for anything else.
PollOnWire ==
  pc = "talk" =>
    /\ kind = "poll" =>
         status_turn_done /\ ~step.is_write /\ poll # <<>> /\ step.data_id = poll[next + 1]
    /\ kind # "poll" => ~RingMoves

TurnInv == RingKept(poll, next, polled) /\ PollOnWire

LEMMA InitTurn == HInit => TurnInv
  <1> SUFFICES ASSUME HInit PROVE TurnInv
    OBVIOUS
  <1>1. poll = Ring /\ next = 0 /\ polled = 0 /\ pc = "loop"
    BY DEF HInit, Init
  <1>2. Ring \in Seq(Nat) /\ Len(Ring) \in Nat
    BY WritesAssumption
  <1>3. InRing(Ring) /\ Rises(Ring)
    BY PlaceIs DEF InRing, Rises
  <1>4. OnTurn(Ring, 0, 0)
    BY PlaceIs DEF OnTurn
  <1>5. RingKept(Ring, 0, 0)
    BY <1>2, <1>3, <1>4 DEF RingKept
  <1> QED BY <1>1, <1>5 DEF TurnInv, PollOnWire

\* An identifier leaves: the position stays in front of whose turn it is.
LEMMA DisableKeeps ==
  ASSUME NEW ring, NEW n, NEW p, RingKept(ring, n, p), NEW id, NEW s, NEW k,
         s = Kept(ring, id)[Len(ring)], k = Kept(ring, id)[n]
  PROVE  RingKept(s, IF Len(k) >= Len(s) THEN 0 ELSE Len(k), p)
  <1>1. /\ ring \in Seq(Nat) /\ Len(ring) \in Nat /\ n \in 0..Len(ring) /\ n \in Nat
        /\ Len(ring) \in 0..Len(ring) /\ Len(ring) \in n..Len(ring)
    BY DEF RingKept
  <1>2. Rises(s)
    BY <1>1, KeptRises, Zenon DEF RingKept
  <1>3. Among(ring, Len(ring), s) /\ Among(ring, n, k)
    BY <1>1, KeptFrom, Zenon
  <1>4. Adds(ring, k, s, n, Len(ring))
    BY <1>1, <1>3, KeptAdds, Zenon DEF Among
  <1>5. s \in Seq(Nat) /\ k \in Seq(Nat) /\ Len(s) \in Nat /\ Len(k) \in Nat
    BY <1>3 DEF Among
  <1>6. InRing(s)
    <2> SUFFICES ASSUME NEW j \in 1..Len(s) PROVE Place(s[j]) \in 1..Len(Ring)
      BY DEF InRing
    <2>1. PICK i \in 1..Len(ring) : s[j] = ring[i]
      BY <1>3 DEF Among
    <2> QED BY <2>1 DEF RingKept, InRing
  <1>7. p \in 0..Len(Ring)
    BY DEF RingKept
  <1> DEFINE n1 == IF Len(k) >= Len(s) THEN 0 ELSE Len(k)
  <1>8. n1 \in Nat /\ (n1 < Len(s) \/ n1 = 0)
    BY <1>5
  <1>9. OnTurn(s, n1, p)
    <2>1. CASE \A i \in 1..Len(ring) : IF i <= n THEN Place(ring[i]) <= p ELSE p < Place(ring[i])
      <3>1. ASSUME NEW j \in 1..Len(s), j <= Len(k) PROVE Place(s[j]) <= p
        <4>1. j \in 1..Len(k)
          BY <1>5, <3>1
        <4>2. s[j] = k[j]
          BY <1>4, <4>1 DEF Adds
        <4>3. PICK i \in 1..n : k[j] = ring[i]
          BY <1>3, <4>1 DEF Among
        <4>4. i \in 1..Len(ring) /\ i <= n
          BY <1>1
        <4>5. Place(ring[i]) <= p
          BY <2>1, <4>4
        <4> QED BY <4>2, <4>3, <4>5, Zenon
      <3>2. ASSUME NEW j \in 1..Len(s), ~(j <= Len(k)) PROVE p < Place(s[j])
        <4>1. j > Len(k)
          BY <1>5, <3>2
        <4>2. PICK i \in (n + 1)..Len(ring) : s[j] = ring[i]
          BY <1>4, <4>1 DEF Adds
        <4>3. i \in 1..Len(ring) /\ ~(i <= n)
          BY <1>1
        <4>4. p < Place(ring[i])
          BY <2>1, <4>3
        <4> QED BY <4>2, <4>4, Zenon
      <3>3. CASE Len(k) >= Len(s)
        <4>1. \A j \in 1..Len(s) : j <= Len(k)
          BY <1>5, <3>3
        <4> QED BY <3>1, <3>3, <4>1 DEF OnTurn
      <3>4. CASE ~(Len(k) >= Len(s))
        BY <3>1, <3>2, <3>4 DEF OnTurn
      <3> QED BY <3>3, <3>4
    <2>2. CASE n = 0 /\ \A i \in 1..Len(ring) : Place(ring[i]) <= p
      <3>1. k = <<>>
        BY <1>1, <2>2, KeptStep, Zenon
      <3>2. n1 = 0
        BY <3>1
      <3>3. \A j \in 1..Len(s) : Place(s[j]) <= p
        BY <1>3, <2>2 DEF Among
      <3> QED BY <3>2, <3>3 DEF OnTurn
    <2> QED BY <2>1, <2>2 DEF RingKept, OnTurn
  <1> QED BY <1>2, <1>5, <1>6, <1>7, <1>8, <1>9 DEF RingKept

\* The step of a position round a ring.
LEMMA RoundStep ==
  ASSUME NEW a \in Nat, NEW b \in Nat, a <= b, b >= 1
  PROVE  a % b = IF a = b THEN 0 ELSE a
  OBVIOUS

\* A turn is over: the next one is whose place comes next.
LEMMA AdvanceKeeps ==
  ASSUME NEW s, NEW n, NEW p, RingKept(s, n, p), s # <<>>
  PROVE  RingKept(s, (n + 1) % Len(s), Place(s[n + 1]))
  <1>1. s \in Seq(Nat) /\ Len(s) \in Nat /\ Len(s) >= 1 /\ n \in Nat /\ n < Len(s)
    BY DEF RingKept
  <1>2. n + 1 \in 1..Len(s) /\ n + 1 \in Nat /\ n + 1 <= Len(s)
    BY <1>1
  <1>3. PICK q : q = Place(s[n + 1])
    OBVIOUS
  <1>4. q \in 1..Len(Ring) /\ Len(Ring) \in Nat
    BY <1>2, <1>3, WritesAssumption DEF RingKept, InRing
  <1>5. PICK r : r = IF n + 1 = Len(s) THEN 0 ELSE n + 1
    OBVIOUS
  <1>6. (n + 1) % Len(s) = r
    BY <1>1, <1>2, <1>5, RoundStep, Zenon
  <1>7. ASSUME NEW i \in 1..Len(s)
        PROVE  IF i <= n + 1 THEN Place(s[i]) <= q ELSE q < Place(s[i])
    <2>1. PICK c \in 1..Len(Ring) : c = Place(s[i])
      BY DEF RingKept, InRing
    <2>2. i < n + 1 => c < q
      BY <1>2, <1>3, <2>1 DEF RingKept, Rises
    <2>3. n + 1 < i => q < c
      BY <1>2, <1>3, <2>1 DEF RingKept, Rises
    <2>4. i = n + 1 => c = q
      BY <1>3, <2>1
    <2>5. IF i <= n + 1 THEN c <= q ELSE q < c
      BY <1>1, <1>4, <2>2, <2>3, <2>4
    <2> QED BY <2>1, <2>5, Zenon
  <1>8. OnTurn(s, r, q)
    <2>1. CASE n + 1 = Len(s)
      <3>1. \A i \in 1..Len(s) : i <= n + 1
        BY <1>1, <2>1
      <3>2. \A i \in 1..Len(s) : Place(s[i]) <= q
        BY <1>7, <3>1, Zenon
      <3> QED BY <1>5, <2>1, <3>2, Zenon DEF OnTurn
    <2>2. CASE n + 1 # Len(s)
      BY <1>5, <1>7, <2>2, Zenon DEF OnTurn
    <2> QED BY <2>1, <2>2
  <1>9. r \in Nat /\ (r < Len(s) \/ r = 0) /\ q \in 0..Len(Ring)
    BY <1>1, <1>2, <1>4, <1>5
  <1>10. RingKept(s, r, q)
    BY <1>1, <1>8, <1>9, Zenon DEF RingKept
  <1> QED BY <1>3, <1>6, <1>10, Zenon

\* A step begins a conversation and leaves the ring alone.
LEMMA BuildTurn == ASSUME Inv, TurnInv, HBuild PROVE TurnInv'
  <1>1. /\ pc = "loop" /\ UNCHANGED <<poll, next, polled, scan_active, status_turn_done>>
        /\ kind' = Slot /\ step' = Asked
    BY DEF HBuild, Build, ringVars, scanVars
  <1>2. PollOnWire'
    <2>1. status_turn_done \in BOOLEAN /\ scan_active' = scan_active
      BY <1>1 DEF Inv, WriteType
    <2>2. CASE Slot = "poll"
      <3>1. status_turn_done /\ ~write_pending' /\ ~scan_active /\ poll # <<>>
        BY <2>2 DEF Slot
      <3>2. step' = Ask(poll[(next % Len(poll)) + 1], 0)
        BY <1>1, <2>2 DEF Asked
      <3>3. next \in Nat /\ Len(poll) \in Nat /\ next < Len(poll) /\ Len(poll) >= 1
        BY <3>1 DEF TurnInv, RingKept
      <3>4. next % Len(poll) = next
        <4>1. next <= Len(poll) /\ next # Len(poll)
          BY <3>3
        <4> QED BY <3>3, <4>1, RoundStep, Zenon
      <3>5. ~step'.is_write /\ step'.data_id = poll[next + 1]
        BY <3>2, <3>4 DEF Ask
      <3> QED BY <1>1, <2>2, <3>1, <3>5 DEF PollOnWire
    <2>3. CASE Slot # "poll"
      <3>1. \/ ~status_turn_done \/ scan_active \/ poll = <<>>
            \/ Slot = "write"
        BY <2>3 DEF Slot
      <3>2. Slot = "write" => step'.is_write
        BY <1>1 DEF Asked, Tell
      <3> QED BY <1>1, <2>3, <3>1, <3>2 DEF PollOnWire, RingMoves
    <2> QED BY <2>2, <2>3
  <1> QED BY <1>1, <1>2, Zenon DEF TurnInv

LEMMA DoneTurn == ASSUME TurnInv, HDone PROVE TurnInv'
  <1>1. /\ pc = "talk" /\ pc' # "talk" /\ poll' = poll
        /\ next' = IF RingMoves THEN (next + 1) % Len(poll) ELSE next
        /\ polled' = IF kind = "poll" /\ ~scan_active THEN Place(step.data_id) ELSE polled
    BY DEF HDone, Done, AdvanceRing
  <1>2. RingKept(poll', next', polled')
    <2>1. CASE kind = "poll" /\ ~scan_active
      <3>1. RingMoves /\ poll # <<>> /\ step.data_id = poll[next + 1]
        BY <1>1, <2>1 DEF TurnInv, PollOnWire, RingMoves
      <3>2. RingKept(poll, (next + 1) % Len(poll), Place(poll[next + 1]))
        BY <3>1, AdvanceKeeps DEF TurnInv
      <3> QED BY <1>1, <2>1, <3>1, <3>2, Zenon
    <2>2. CASE ~(kind = "poll" /\ ~scan_active)
      <3>1. ~RingMoves
        BY <1>1, <2>2 DEF TurnInv, PollOnWire, RingMoves
      <3> QED BY <1>1, <2>2, <3>1, Zenon DEF TurnInv
    <2> QED BY <2>1, <2>2
  <1> QED BY <1>1, <1>2, Zenon DEF TurnInv, PollOnWire

LEMMA JudgeTurn == ASSUME TurnInv, HJudge PROVE TurnInv'
  <1>1. PICK id \in Replies, unsupported \in BOOLEAN : Judge(id, unsupported)
    BY DEF HJudge
  <1>2. pc' = "loop" /\ polled' = polled
    BY <1>1 DEF HJudge, Judge, history
  <1>3. RingKept(poll', next', polled')
    <2>1. CASE unsupported
      <3>1. Disable(id)
        BY <1>1, <2>1 DEF Judge
      <3> DEFINE s == Kept(poll, id)[Len(poll)]
      <3> DEFINE k == Kept(poll, id)[next]
      <3>2. poll' = s /\ next' = IF Len(k) >= Len(s) THEN 0 ELSE Len(k)
        BY <3>1, Zenon DEF Disable
      <3>3. RingKept(s, IF Len(k) >= Len(s) THEN 0 ELSE Len(k), polled)
        BY DisableKeeps, Zenon DEF TurnInv
      <3> QED BY <1>2, <3>2, <3>3, Zenon
    <2>2. CASE ~unsupported
      BY <1>1, <1>2, <2>2, Zenon DEF Judge, ringVars, TurnInv
    <2> QED BY <2>1, <2>2
  <1>4. pc' # "talk"
    BY <1>2
  <1> QED BY <1>3, <1>4, Zenon DEF TurnInv, PollOnWire

\* Writers and the status byte touch nothing of it; a sweep only stops the ring.
LEMMA OthersTurn ==
  ASSUME TurnInv, HWrite \/ HSetStatus \/ HScan \/ UNCHANGED hvars
  PROVE  TurnInv'
  <1>1. /\ UNCHANGED <<poll, next, polled, pc, kind, step, status_turn_done>>
        /\ scan_active' = scan_active \/ scan_active' = TRUE
    BY DEF HWrite, Write, WriteIfIdle, HSetStatus, SetStatus, HScan, Scan, hvars, vars, history,
           taskVars, ringVars, scanVars
  <1>2. PollOnWire'
    BY <1>1 DEF TurnInv, PollOnWire, RingMoves
  <1> QED BY <1>1, <1>2, Zenon DEF TurnInv

\* From place p on a ring of L, q comes no later than c.
LEMMA NearerRound ==
  ASSUME NEW L \in Nat, NEW p \in 0..L, NEW q \in 1..L, NEW c \in 1..L,
         (q > p /\ c <= p) \/ q = c \/ (q < c /\ (q > p \/ c <= p))
  PROVE  (IF q > p THEN q - p ELSE q + L - p) <= (IF c > p THEN c - p ELSE c + L - p)
  OBVIOUS

\* Who has the turn is the next of those left, from the last place polled.
LEMMA FirstAfter ==
  ASSUME NEW s, NEW n, NEW p, RingKept(s, n, p), s # <<>>, NEW i \in 1..Len(s)
  PROVE  LET gap(c) == IF c > p THEN c - p ELSE c + Len(Ring) - p
         IN  gap(Place(s[n + 1])) <= gap(Place(s[i]))
  <1>1. s \in Seq(Nat) /\ Len(s) \in Nat /\ n \in Nat /\ n < Len(s)
    BY DEF RingKept
  <1>2. n + 1 \in 1..Len(s)
    BY <1>1
  <1>3. PICK q \in 1..Len(Ring), c \in 1..Len(Ring) : q = Place(s[n + 1]) /\ c = Place(s[i])
    BY <1>2, Zenon DEF RingKept, InRing
  <1>4. p \in 0..Len(Ring) /\ Len(Ring) \in Nat
    BY WritesAssumption DEF RingKept
  <1>5. n + 1 < i => q < c
    BY <1>2, <1>3 DEF RingKept, Rises
  <1>6. i = n + 1 => q = c
    BY <1>3
  <1>7. i <= n \/ i = n + 1 \/ n + 1 < i
    BY <1>1
  <1>8. \/ q > p /\ (i <= n => c <= p)
        \/ n = 0 /\ q <= p /\ c <= p
    <2>1. CASE \A j \in 1..Len(s) : IF j <= n THEN Place(s[j]) <= p ELSE p < Place(s[j])
      <3>1. ~(n + 1 <= n)
        BY <1>1
      <3>2. p < q /\ (i <= n => c <= p)
        BY <1>2, <1>3, <2>1, <3>1, Zenon
      <3> QED BY <1>3, <1>4, <3>2
    <2>2. CASE n = 0 /\ \A j \in 1..Len(s) : Place(s[j]) <= p
      BY <1>2, <1>3, <2>2, Zenon
    <2> QED BY <2>1, <2>2, Zenon DEF RingKept, OnTurn
  <1>9. (IF q > p THEN q - p ELSE q + Len(Ring) - p) <= (IF c > p THEN c - p ELSE c + Len(Ring) - p)
    <2>1. CASE i <= n
      <3>1. n # 0 /\ q > p /\ c <= p
        BY <1>1, <1>8, <2>1
      <3> QED BY <1>3, <1>4, <3>1, NearerRound, Zenon
    <2>2. CASE i = n + 1
      BY <1>3, <1>4, <1>6, <2>2, NearerRound, Zenon
    <2>3. CASE n + 1 < i
      <3>1. ~(i <= n)
        BY <1>1, <2>3
      <3>2. q < c /\ (q > p \/ c <= p)
        BY <1>5, <1>8, <2>3, Zenon
      <3> QED BY <1>3, <1>4, <3>2, NearerRound, Zenon
    <2> QED BY <1>7, <2>1, <2>2, <2>3
  <1> QED BY <1>3, <1>9, Zenon

\* The ring is gone round in order although identifiers drop out of it at any
\* moment: what is polled next is the first survivor after the last.
THEOREM RingsInOrder == HSpec => RingInOrder
  <1>1. HInit => Inv /\ TurnInv
    BY InitInv, InitTurn DEF HInit
  <1>2. Inv /\ [HNext]_hvars => Inv'
    BY StepOfBus, NextInv
  <1>3. Inv /\ TurnInv /\ [HNext]_hvars => TurnInv'
    BY BuildTurn, DoneTurn, JudgeTurn, OthersTurn DEF HNext, HBus
  <1>4. TurnInv /\ [HNext]_hvars
          => [Begins /\ kind' = "poll" =>
                \A i \in 1..Len(poll) : Gap(step'.data_id) <= Gap(poll[i])]_hvars
    <2> SUFFICES ASSUME TurnInv, HNext, Begins, kind' = "poll", NEW i \in 1..Len(poll)
                 PROVE  Gap(step'.data_id) <= Gap(poll[i])
      OBVIOUS
    <2>1. HBuild
      BY DEF HNext, HBus, Begins, HDone, Done, HJudge, Judge, HWrite, Write, WriteIfIdle,
             HSetStatus, SetStatus, HScan, Scan, taskVars
    <2>2. poll # <<>> /\ step' = Ask(poll[(next % Len(poll)) + 1], 0)
      BY <2>1 DEF HBuild, Build, Asked, Slot
    <2>3. next \in Nat /\ Len(poll) \in Nat /\ next <= Len(poll) /\ next # Len(poll) /\ Len(poll) >= 1
      <3>1. next \in Nat /\ poll \in Seq(Nat) /\ (next < Len(poll) \/ next = 0)
        BY Zenon DEF TurnInv, RingKept
      <3>2. Len(poll) \in Nat /\ Len(poll) >= 1
        <4>1. poll \in Seq(Nat) /\ poll # <<>>
          BY <2>2, <3>1, Zenon
        <4> HIDE DEF TurnInv
        <4> QED BY <4>1
      <3> QED BY <3>1, <3>2
    <2>4. next % Len(poll) = next
      BY <2>3, RoundStep, Zenon
    <2>5. step'.data_id = poll[next + 1]
      BY <2>2, <2>4 DEF Ask
    <2>6. Gap(poll[next + 1]) <= Gap(poll[i])
      BY <2>2, FirstAfter, Zenon DEF TurnInv, Gap
    <2> QED BY <2>5, <2>6, Zenon
  <1> QED BY <1>1, <1>2, <1>3, <1>4, PTL DEF HSpec, RingInOrder
-----------------------------------------------------------------------------
(* When a conversation begins: Pace, on a clock that wraps.                 *)

\* The clock m units after it stood at `start`.
Moment(start, m, clock) == (start + m) % clock

\* On a dial an offset of at most one turn is taken back.
LEMMA OnDial ==
  ASSUME NEW b \in Nat \ {0}, NEW a \in 0..(b - 1), NEW x \in Int, x = a \/ x = a + b
  PROVE  x % b = a
  OBVIOUS

\* Two moments less than a turn after a third are told apart by their distance.
LEMMA SinceIsTime ==
  ASSUME NEW clock \in Nat \ {0}, NEW start \in 0..(clock - 1), NEW m \in Nat, NEW n \in Nat,
         NEW k \in Nat, k = m + n, k < clock
  PROVE  Since(Moment(start, k, clock), Moment(start, m, clock), clock) = n
  <1>1. PICK x \in Nat : x = start + m /\ x < 2 * clock
    OBVIOUS
  <1>2. PICK y \in Nat : y = start + k /\ y = x + n /\ y < 2 * clock
    BY <1>1
  <1>3. PICK u \in 0..(clock - 1) : u = x % clock /\ (x = u \/ x = u + clock)
    <2>1. CASE x < clock
      <3>1. x \in 0..(clock - 1)
        BY <2>1
      <3>2. x % clock = x
        BY <3>1, OnDial
      <3> QED BY <3>1, <3>2
    <2>2. CASE ~(x < clock)
      <3>1. x - clock \in 0..(clock - 1) /\ x = (x - clock) + clock
        BY <1>1, <2>2
      <3>2. x % clock = x - clock
        BY <3>1, OnDial
      <3> QED BY <3>1, <3>2
    <2> QED BY <2>1, <2>2
  <1>4. PICK v \in 0..(clock - 1) : v = y % clock /\ (y = v \/ y = v + clock)
    <2>1. CASE y < clock
      <3>1. y \in 0..(clock - 1)
        BY <2>1
      <3>2. y % clock = y
        BY <3>1, OnDial
      <3> QED BY <3>1, <3>2
    <2>2. CASE ~(y < clock)
      <3>1. y - clock \in 0..(clock - 1) /\ y = (y - clock) + clock
        BY <1>2, <2>2
      <3>2. y % clock = y - clock
        BY <3>1, OnDial
      <3> QED BY <3>1, <3>2
    <2> QED BY <2>1, <2>2
  <1>5. n \in 0..(clock - 1)
    OBVIOUS
  <1>6. PICK d \in Int : d = v + (clock - u) /\ (d = n \/ d = n + clock)
    BY <1>2, <1>3, <1>4, <1>5
  <1>7. d % clock = n
    BY <1>5, <1>6, OnDial
  <1> QED BY <1>1, <1>2, <1>3, <1>4, <1>6, <1>7, Zenon DEF Since, Moment

\* What Pace says of a task that began a conversation `age` ago and ended it
\* `quiet` ago.
Paced(told, age, quiet, limits) ==
  /\ told.verb = IF age >= limits.period /\ quiet >= limits.gap THEN "TALK" ELSE "WAIT"
  /\ told.verb = "TALK" => told.delay = 0 /\ (told.overdue <=> age > limits.deadline)
  /\ told.verb = "WAIT" =>
       /\ told.delay \in Nat \ {0}
       /\ age + told.delay >= limits.period /\ quiet + told.delay >= limits.gap
       /\ age + told.delay = limits.period \/ quiet + told.delay = limits.gap

Limits == [period : Nat, gap : Nat, deadline : Nat, clock : Nat \ {0}]

LEMMA PaceByAge ==
  ASSUME NEW p, NEW now, NEW limits \in Limits, NEW age \in Nat, NEW quiet \in Nat, p.started,
         Since(now, p.last_start, limits.clock) = age, Since(now, p.last_end, limits.clock) = quiet
  PROVE  Paced(Pace(p, now, limits), age, quiet, limits)
  <1> DEFINE period == IF age < limits.period THEN limits.period - age ELSE 0
  <1> DEFINE gap == IF quiet < limits.gap THEN limits.gap - quiet ELSE 0
  <1>1. limits.period \in Nat /\ limits.gap \in Nat
    BY DEF Limits
  <1>2. Pace(p, now, limits) =
          IF period = 0 /\ gap = 0
          THEN [verb |-> "TALK", delay |-> 0, overdue |-> age > limits.deadline]
          ELSE [verb |-> "WAIT", delay |-> IF gap > period THEN gap ELSE period, overdue |-> FALSE]
    BY DEF Pace
  <1>3. /\ period \in Nat /\ gap \in Nat
        /\ period = 0 <=> age >= limits.period
        /\ gap = 0 <=> quiet >= limits.gap
        /\ age + period >= limits.period /\ quiet + gap >= limits.gap
        /\ period # 0 => age + period = limits.period
        /\ gap # 0 => quiet + gap = limits.gap
    BY <1>1
  <1> HIDE DEF period, gap
  <1>4. CASE period = 0 /\ gap = 0
    <2> DEFINE late == age > limits.deadline
    <2>1. Pace(p, now, limits) = [verb |-> "TALK", delay |-> 0, overdue |-> late]
      BY <1>2, <1>4, Zenon
    <2>2. Pace(p, now, limits).overdue <=> late
      <3> HIDE DEF late
      <3> QED BY <2>1
    <2>3. Pace(p, now, limits).verb = "TALK" /\ Pace(p, now, limits).delay = 0
      BY <2>1
    <2>4. age >= limits.period /\ quiet >= limits.gap
      BY <1>3, <1>4
    <2>5. "TALK" # "WAIT"
      OBVIOUS
    <2> QED BY <2>2, <2>3, <2>4, <2>5, Zenon DEF Paced
  <1>5. CASE ~(period = 0 /\ gap = 0)
    <2>1. PICK d \in Nat : d = IF gap > period THEN gap ELSE period
      BY <1>3
    <2>2. /\ d # 0 /\ age + d >= limits.period /\ quiet + d >= limits.gap
          /\ age + d = limits.period \/ quiet + d = limits.gap
      BY <1>1, <1>3, <1>5, <2>1
    <2>3. Pace(p, now, limits) = [verb |-> "WAIT", delay |-> d, overdue |-> FALSE]
      BY <1>2, <1>5, <2>1, Zenon
    <2> QED BY <1>3, <1>5, <2>2, <2>3 DEF Paced
  <1> QED BY <1>4, <1>5

\* Wherever the clock wraps, a task that waits as it is told talks then and not
\* before: at the pace and after the gap, in time unless the conversation before
\* lasted too long, and it knows when it is late (ot_bus_sched_step).
THEOREM PaceIsKept ==
  ASSUME NEW limits \in Limits, NEW start \in 0..(limits.clock - 1), NEW lasts \in Nat, NEW idle \in Nat,
         limits.period < limits.clock, lasts + limits.gap < limits.clock, lasts + idle < limits.clock
  PROVE  LET p     == [started |-> TRUE, last_start |-> start,
                       last_end |-> Moment(start, lasts, limits.clock)]
             at(n) == Pace(p, Moment(start, lasts + idle + n, limits.clock), limits)
             wait  == at(0).delay
             age   == lasts + idle + wait
         IN  /\ wait \in Nat /\ \A n \in 0..(wait - 1) : at(n).verb = "WAIT"
             /\ at(wait).verb = "TALK" /\ age >= limits.period /\ idle + wait >= limits.gap
             /\ at(wait).overdue <=> age > limits.deadline
             /\ /\ idle <= limits.gap /\ lasts + limits.gap <= limits.deadline
                /\ limits.period <= limits.deadline
                => ~at(wait).overdue
  <1> DEFINE p == [started |-> TRUE, last_start |-> start,
                   last_end |-> Moment(start, lasts, limits.clock)]
  <1> DEFINE at(n) == Pace(p, Moment(start, lasts + idle + n, limits.clock), limits)
  <1> DEFINE wait == at(0).delay
  <1>1. /\ limits.period \in Nat /\ limits.gap \in Nat /\ limits.deadline \in Nat
        /\ limits.clock \in Nat \ {0}
    BY DEF Limits
  <1>2. ASSUME NEW n \in Nat, lasts + idle + n < limits.clock
        PROVE  Paced(at(n), lasts + idle + n, idle + n, limits)
    <2>1. PICK now : now = Moment(start, lasts + idle + n, limits.clock)
      OBVIOUS
    <2>2. PICK k \in Nat, q \in Nat :
            k = lasts + idle + n /\ q = idle + n /\ k = lasts + q /\ k = 0 + k /\ k < limits.clock
      BY <1>2
    <2>3. Since(Moment(start, k, limits.clock), Moment(start, 0, limits.clock), limits.clock) = k
      <3>1. 0 \in Nat /\ k = 0 + k
        BY <2>2
      <3> QED BY <1>1, <2>2, <3>1, SinceIsTime, SMT
    <2>4. Moment(start, 0, limits.clock) = start
      <3>1. start + 0 = start /\ start \in Int
        BY <1>1
      <3> QED BY <1>1, <3>1, OnDial DEF Moment
    <2>5. Since(Moment(start, k, limits.clock), Moment(start, lasts, limits.clock), limits.clock) = q
      BY <1>1, <2>2, SinceIsTime, SMT
    <2>6. p.started /\ p.last_start = start /\ p.last_end = Moment(start, lasts, limits.clock)
      OBVIOUS
    <2> HIDE DEF p
    <2>7. Paced(Pace(p, now, limits), k, q, limits)
      BY <2>1, <2>2, <2>3, <2>4, <2>5, <2>6, PaceByAge, Zenon
    <2> QED BY <2>1, <2>2, <2>7, Zenon
  <1> HIDE DEF at, p
  <1>3. lasts + idle + 0 = lasts + idle /\ idle + 0 = idle /\ 0 \in Nat /\ lasts + idle \in Nat
    OBVIOUS
  <1>4. Paced(at(0), lasts + idle, idle, limits)
    BY <1>2, <1>3, Zenon
  <1>5. /\ wait \in Nat /\ lasts + idle + wait >= limits.period /\ idle + wait >= limits.gap
        /\ wait # 0 => lasts + idle + wait = limits.period \/ idle + wait = limits.gap
    BY <1>1, <1>4 DEF Paced
  <1> HIDE DEF wait
  <1>6. lasts + idle + wait < limits.clock
    BY <1>1, <1>5
  <1>7. Paced(at(wait), lasts + idle + wait, idle + wait, limits)
    BY <1>2, <1>5, <1>6, Zenon
  <1>8. ASSUME NEW n \in 0..(wait - 1) PROVE at(n).verb = "WAIT"
    <2>1. n \in Nat /\ lasts + idle + n < limits.clock
      BY <1>1, <1>5, <1>6
    <2>2. Paced(at(n), lasts + idle + n, idle + n, limits)
      BY <1>2, <2>1, Zenon
    <2>3. ~(lasts + idle + n >= limits.period /\ idle + n >= limits.gap)
      BY <1>1, <1>5, <2>1
    <2> QED BY <2>2, <2>3, Zenon DEF Paced
  <1>9. at(wait).verb = "TALK" /\ (at(wait).overdue <=> lasts + idle + wait > limits.deadline)
    BY <1>5, <1>7, Zenon DEF Paced
  <1>10. idle <= limits.gap /\ lasts + limits.gap <= limits.deadline /\ limits.period <= limits.deadline
           => ~(lasts + idle + wait > limits.deadline) \/ wait = 0
    BY <1>1, <1>5
  <1>11. idle <= limits.gap /\ lasts + limits.gap <= limits.deadline
           => ~(lasts + idle > limits.deadline)
    BY <1>1
  <1> QED BY <1>3, <1>5, <1>8, <1>9, <1>10, <1>11 DEF at, p, wait

=============================================================================
