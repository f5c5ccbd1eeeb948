---------------------------- MODULE OtRoom_proofs -----------------------------
(***************************************************************************)
(* Proofs about OtRoom, for every clock width, every limit of age, every   *)
(* filter and every order of readings, ticks and changed settings:         *)
(*                                                                         *)
(*   SteersYoung     what is steered by is younger than its limit, in true *)
(*                   time and not in what a wrapped clock makes of it      *)
(*   SteersInRoom    only a source in the room steers, under the settings  *)
(*                   in force when its reading came                        *)
(*   JumpsAreAsked   a jump is believed after as many refusals in a row as *)
(*                   the filter allows                                     *)
(*                                                                         *)
(* None of them is inductive.  What makes them so ties each sensor's three *)
(* counters to the history: `overdue` is the true age, held at the end of  *)
(* the counter, and between the two halves of a tick it lags by what the   *)
(* clock says has passed; `streak` is the refusals since the last value.   *)
(***************************************************************************)
EXTENDS OtRoom, TLAPS

Readings == ShieldReadings \cup BrokerReadings

Top == ClockWidth - 1

Sensors ==
  [stale : 0..Top, value : Int, have : BOOLEAN, overdue : 0..Top, last : 0..Top,
   seeded : BOOLEAN, streak : 0..MaxJumpRejects]

Typed ==
  /\ inbox \in [{0, 1} -> Readings \cup {NoReading}]
  /\ live \in Settings /\ built \in Settings /\ slots = BuildCfg(built)
  /\ clock \in 0..Top /\ due \in BOOLEAN
  /\ room \in [DOMAIN slots -> Sensors]
  /\ \A i \in DOMAIN slots : room[i].stale = slots[i].stale
  /\ age \in [{0, 1} -> 0..AgeBound] /\ refused \in [{0, 1} -> 0..MaxJumpRejects]
  /\ DOMAIN since = {0, 1}

\* What a counter that stops at its end shows of an age.
Cap(a) == IF a > Top THEN Top ELSE a

\* The counters of a sensor that has a value, after a tick and within one.
Counted(s, a, tick, now) ==
  IF tick THEN a >= 1 /\ AddSat(s.overdue, Since(now, s.last)) = Cap(a)
  ELSE s.last = now /\ s.overdue = Cap(a)

Histories ==
  \A i \in DOMAIN slots : room[i].have =>
    /\ room[i].seeded /\ since[i] = built /\ refused[i] = room[i].streak
    /\ Counted(room[i], age[i], due, clock)

\* The choice of the last tick is one the registry still bears out.
Chosen ==
  ~due /\ steer.fresh =>
    /\ steer.slot \in DOMAIN slots /\ slots[steer.slot].role = "ROOM"
    /\ State(room[steer.slot]) = "FRESH"

IInv == Typed /\ Histories /\ Chosen

-----------------------------------------------------------------------------
(* The clock.                                                               *)

LEMMA Widths == ClockWidth \in Nat /\ Top \in Nat /\ Top >= 1 /\ AgeBound \in Nat /\ AgeBound > Top
BY SensorAssumption, RoomAssumption DEF Top

\* A remainder, by the sum it stands for.
LEMMA Remainder ==
  ASSUME NEW m \in Nat \ {0}, NEW r \in 0..(m - 1)
  PROVE  r % m = r /\ (r + m) % m = r /\ (r - m) % m = r
OBVIOUS

\* The clock tells a gap shorter than its width, across the wrap as well.
LEMMA GapTold ==
  ASSUME NEW now \in 0..Top, NEW gap \in 1..Top
  PROVE  /\ (now + gap) % ClockWidth \in 0..Top
         /\ Since((now + gap) % ClockWidth, now) = gap
         /\ Since(now, now) = 0
<1>1. CASE now + gap <= Top
  <2>1. (now + gap) % ClockWidth = now + gap
    BY <1>1, Widths, Remainder DEF Top
  <2> QED BY <2>1, <1>1, Widths, Remainder DEF Since, Top
<1>2. CASE now + gap > Top
  <2>1. (now + gap) % ClockWidth = now + gap - ClockWidth
    <3>1. now + gap - ClockWidth \in 0..(ClockWidth - 1)
      BY <1>2, Widths DEF Top
    <3>2. ((now + gap - ClockWidth) + ClockWidth) % ClockWidth = now + gap - ClockWidth
      BY <3>1, Widths, Remainder
    <3> QED BY <3>2, Widths DEF Top
  <2>2. (gap - ClockWidth) % ClockWidth = gap
    BY Widths, Remainder DEF Top
  <2>3. (now + gap - ClockWidth) - now = gap - ClockWidth
    BY Widths DEF Top
  <2>4. Since(now, now) = 0
    BY Widths, Remainder DEF Since, Top
  <2> QED BY <1>2, <2>1, <2>2, <2>3, <2>4, Widths DEF Since, Top
<1> QED BY <1>1, <1>2, Widths DEF Top

\* Adding to a counter at its end adds to the age it stands for.
LEMMA Saturates ==
  ASSUME NEW a \in 0..AgeBound, NEW gap \in 0..Top
  PROVE  /\ AddSat(Cap(a), gap) = Cap(Longer(a, gap)) /\ Longer(a, gap) \in 0..AgeBound
         /\ AddSat(Cap(a), 0) = Cap(a) /\ Cap(a) \in 0..Top
         /\ gap >= 1 => Longer(a, gap) >= 1
BY Widths DEF AddSat, Cap, Longer, Top

LEMMA SaturatesTyped ==
  ASSUME NEW a \in 0..Top, NEW b \in 0..Top
  PROVE  AddSat(a, b) \in 0..Top
BY Widths DEF AddSat, Top
-----------------------------------------------------------------------------
(* One sensor.                                                              *)

LEMMA AdvanceStep ==
  ASSUME NEW s \in Sensors, NEW now \in 0..Top
  PROVE  LET a == Advance(s, now)
         IN  /\ a \in Sensors /\ a.seeded /\ a.last = now
             /\ a.overdue = IF s.seeded THEN AddSat(s.overdue, Since(now, s.last)) ELSE s.overdue
             /\ a.stale = s.stale /\ a.value = s.value /\ a.have = s.have /\ a.streak = s.streak
<1>1. AddSat(s.overdue, Since(now, s.last)) \in 0..Top
  <2>1. Since(now, s.last) \in 0..Top
    BY Widths DEF Since, Sensors, Top
  <2> QED BY <2>1, SaturatesTyped DEF Sensors
<1> HIDE DEF Top
<1> QED BY <1>1 DEF Advance, Sensors

\* What a refusal and a belief leave of it.
LEMMA RefusedSensor ==
  ASSUME NEW s \in Sensors, NEW k \in 0..MaxJumpRejects
  PROVE  LET r == [s EXCEPT !.streak = k]
         IN  /\ r \in Sensors /\ r.streak = k /\ r.stale = s.stale /\ r.value = s.value
             /\ r.have = s.have /\ r.overdue = s.overdue /\ r.last = s.last /\ r.seeded = s.seeded
<1> HIDE DEF Top
<1> QED BY DEF Sensors

LEMMA BelievedSensor ==
  ASSUME NEW s \in Sensors, NEW x \in Int
  PROVE  LET b == Believed(s, x)
         IN  /\ b \in Sensors /\ b.streak = 0 /\ b.stale = s.stale /\ b.value = x
             /\ b.have /\ b.overdue = 0 /\ b.last = s.last /\ b.seeded = s.seeded
<1>1. 0 \in 0..Top /\ 0 \in 0..MaxJumpRejects
  BY Widths, SensorAssumption
<1> HIDE DEF Top
<1> QED BY <1>1 DEF Sensors, Believed

\* The three outcomes of a reading.
LEMMA UpdateCases ==
  ASSUME NEW s \in Sensors, NEW now \in 0..Top, NEW x \in Readings
  PROVE  LET a == Advance(s, now)
             u == Update(s, x, now)
         IN  \/ x = Junk /\ u = a
             \/ /\ x # Junk /\ s.have /\ s.streak < MaxJumpRejects
                /\ u = [a EXCEPT !.streak = s.streak + 1]
             \/ /\ x # Junk /\ x \in Int /\ u = Believed(a, x)
                /\ Jumps(s, x) => s.streak >= MaxJumpRejects
<1>1. x # Junk => x \in Int
  BY RoomAssumption DEF Readings
<1>2. Advance(s, now).streak = s.streak /\ s.streak \in Nat /\ MaxJumpRejects \in Nat
  BY AdvanceStep, SensorAssumption DEF Sensors
<1>3. Jumps(Advance(s, now), x) = Jumps(s, x)
  BY AdvanceStep DEF Jumps
<1>4. Jumps(s, x) => s.have
  BY DEF Jumps
<1> QED BY <1>1, <1>2, <1>3, <1>4 DEF Update

\* What a tick makes of a sensor with its reading or without one, whether the
\* reading was believed, and the refusals in a row after it.
Ticked(s, x, now) == Advance(IF x = NoReading THEN s ELSE Update(s, x, now), now)

Taken(s, x, now) == x # NoReading /\ Ticked(s, x, now).have /\ Ticked(s, x, now).overdue = 0

Refusals(s, x, now, n) ==
  IF Taken(s, x, now) THEN 0
  ELSE IF x \in {NoReading, Junk} \/ n > MaxJumpRejects THEN n ELSE n + 1

\* What is true of both, of a sensor believed `a` ago and refused `n` times since.
Settles(s, x, a, n, now) ==
  /\ Ticked(s, x, now) \in Sensors /\ Ticked(s, x, now).stale = s.stale
  /\ Refusals(s, x, now, n) \in 0..MaxJumpRejects
  /\ Ticked(s, x, now).have =>
       /\ Ticked(s, x, now).seeded /\ Refusals(s, x, now, n) = Ticked(s, x, now).streak
       /\ Taken(s, x, now) \/ s.have
       /\ Counted(Ticked(s, x, now), IF Taken(s, x, now) THEN 0 ELSE a, FALSE, now)
  /\ Ticked(s, x, now).have /\ Jumps(s, Ticked(s, x, now).value) => n >= MaxJumpRejects

LEMMA SensorTick ==
  ASSUME NEW s \in Sensors, NEW now \in 0..Top, NEW x \in Readings \cup {NoReading},
         NEW a \in 0..AgeBound, NEW n \in 0..MaxJumpRejects,
         s.have => s.seeded /\ n = s.streak /\ Counted(s, a, TRUE, now)
  PROVE  Settles(s, x, a, n, now)
<1> DEFINE once  == Advance(s, now)
           u     == IF x = NoReading THEN s ELSE Update(s, x, now)
           t     == Advance(u, now)
           taken == x # NoReading /\ t.have /\ t.overdue = 0
           n1    == IF taken THEN 0
                    ELSE IF x \in {NoReading, Junk} \/ n > MaxJumpRejects THEN n ELSE n + 1
           Goal  == /\ t \in Sensors /\ t.stale = s.stale /\ n1 \in 0..MaxJumpRejects
                    /\ t.have => /\ t.seeded /\ n1 = t.streak /\ (taken \/ s.have)
                                 /\ Counted(t, IF taken THEN 0 ELSE a, FALSE, now)
                    /\ t.have /\ Jumps(s, t.value) => n >= MaxJumpRejects
<1> SUFFICES Goal
  <2>1. t = Ticked(s, x, now)
    BY DEF Ticked
  <2> HIDE DEF t
  <2>2. taken <=> Taken(s, x, now)
    BY <2>1 DEF Taken
  <2>3. n1 = Refusals(s, x, now, n)
    BY <2>2 DEF Refusals
  <2>4. (IF taken THEN 0 ELSE a) = IF Taken(s, x, now) THEN 0 ELSE a
    BY <2>2
  <2> HIDE DEF taken, n1
  <2> QED BY <2>1, <2>2, <2>3, <2>4 DEF Settles
<1>1. MaxJumpRejects \in Nat /\ MaxJump \in Nat
  BY SensorAssumption
<1>2. /\ once \in Sensors /\ once.seeded /\ once.last = now /\ once.stale = s.stale
      /\ once.value = s.value /\ once.have = s.have /\ once.streak = s.streak
      /\ s.have => once.overdue = Cap(a) /\ a >= 1
  BY AdvanceStep DEF Counted
<1>3. \A v \in Sensors : v.seeded /\ v.last = now /\ v.overdue \in 0..Top =>
        /\ Advance(v, now) \in Sensors /\ Advance(v, now).overdue = v.overdue
        /\ Advance(v, now).seeded /\ Advance(v, now).last = now
        /\ Advance(v, now).stale = v.stale /\ Advance(v, now).value = v.value
        /\ Advance(v, now).have = v.have /\ Advance(v, now).streak = v.streak
  <2>1. Since(now, now) = 0 /\ 0 \in 0..Top
    BY Widths, Remainder DEF Since, Top
  <2>2. \A o \in 0..Top : AddSat(o, 0) = o
    BY Widths DEF AddSat, Top
  <2> QED BY <2>1, <2>2, AdvanceStep
<1>4. s.value \in Int /\ s.streak \in 0..MaxJumpRejects /\ ~Jumps(s, s.value)
  <2>1. s.value \in Int /\ s.streak \in 0..MaxJumpRejects
    BY DEF Sensors
  <2> QED BY <1>1, <2>1 DEF Jumps
<1>5. a >= 1 => Cap(a) # 0
  BY Widths DEF Cap
<1>6. CASE x = NoReading
  <2>1. /\ t = once /\ ~taken /\ n1 = n
    BY <1>6
  <2> HIDE DEF once, t, taken, n1
  <2>2. Counted(once, a, FALSE, now) \/ ~s.have
    BY <1>2 DEF Counted
  <2> QED BY <1>1, <1>2, <1>4, <2>1, <2>2
<1>7. ASSUME x # NoReading, u = once, x = Junk PROVE Goal
  <2>1. /\ t \in Sensors /\ t.overdue = once.overdue /\ t.seeded /\ t.last = now
        /\ t.stale = s.stale /\ t.value = s.value /\ t.have = s.have /\ t.streak = s.streak
    BY <1>2, <1>3, <1>7 DEF Sensors
  <2>2. s.have => ~taken /\ n1 = n
    BY <1>2, <1>5, <1>7, <2>1
  <2>3. ~s.have => ~taken /\ n1 = n
    BY <1>7, <2>1
  <2> HIDE DEF once, u, t, taken, n1
  <2>4. s.have => Counted(t, a, FALSE, now)
    BY <1>2, <2>1 DEF Counted
  <2> QED BY <1>1, <1>4, <2>1, <2>2, <2>3, <2>4
<1>8. ASSUME x # NoReading, x # Junk, s.have, s.streak < MaxJumpRejects,
             u = [once EXCEPT !.streak = s.streak + 1]
      PROVE  Goal
  <2>1. /\ u \in Sensors /\ u.seeded /\ u.last = now /\ u.overdue = once.overdue
        /\ u.stale = s.stale /\ u.value = s.value /\ u.have /\ u.streak = s.streak + 1
    <3>1. s.streak + 1 \in 0..MaxJumpRejects
      BY <1>1, <1>4, <1>8
    <3> HIDE DEF once, u
    <3> QED BY <1>2, <1>8, <3>1, RefusedSensor
  <2>2. /\ t \in Sensors /\ t.overdue = once.overdue /\ t.seeded /\ t.last = now
        /\ t.stale = s.stale /\ t.value = s.value /\ t.have /\ t.streak = s.streak + 1
    <3> HIDE DEF once, u
    <3> QED BY <1>2, <1>3, <2>1 DEF Sensors
  <2>3. ~taken /\ n1 = s.streak + 1
    <3>1. ~taken
      BY <1>2, <1>5, <1>8, <2>2
    <3> HIDE DEF once, u, t, taken
    <3> QED BY <1>1, <1>8, <3>1
  <2> HIDE DEF once, u, t, taken, n1
  <2>4. Counted(t, a, FALSE, now)
    BY <1>2, <1>8, <2>2 DEF Counted
  <2>5. s.streak + 1 \in 0..MaxJumpRejects
    BY <1>1, <1>4, <1>8
  <2>6. ~Jumps(s, t.value)
    BY <1>4, <2>2
  <2> QED BY <1>8, <2>2, <2>3, <2>4, <2>5, <2>6
<1>9. ASSUME x # NoReading, x # Junk, x \in Int, u = Believed(once, x),
             Jumps(s, x) => s.streak >= MaxJumpRejects
      PROVE  Goal
  <2>1. /\ u \in Sensors /\ u.seeded /\ u.last = now /\ u.overdue = 0
        /\ u.stale = s.stale /\ u.value = x /\ u.have /\ u.streak = 0
    <3> HIDE DEF once, u
    <3> QED BY <1>2, <1>9, BelievedSensor
  <2>2. /\ t \in Sensors /\ t.overdue = 0 /\ t.seeded /\ t.last = now
        /\ t.stale = s.stale /\ t.value = x /\ t.have /\ t.streak = 0
    <3> HIDE DEF once, u
    <3> QED BY <1>2, <1>3, <2>1, Widths
  <2>3. taken /\ n1 = 0
    BY <1>9, <2>2
  <2> HIDE DEF once, u, t, taken, n1
  <2>4. Counted(t, 0, FALSE, now)
    BY <2>2, Widths DEF Counted, Cap
  <2>5. Jumps(s, x) => n >= MaxJumpRejects
    BY <1>9 DEF Jumps
  <2>6. 0 \in 0..MaxJumpRejects
    BY <1>1
  <2> QED BY <2>2, <2>3, <2>4, <2>5, <2>6
<1>10. CASE x # NoReading
  <2>1. x \in Readings /\ u = Update(s, x, now)
    BY <1>10
  <2> HIDE DEF Goal
  <2> QED BY <1>7, <1>8, <1>9, <1>10, <2>1, UpdateCases
<1> QED BY <1>6, <1>10

-----------------------------------------------------------------------------
(* The registry.                                                            *)

LEMMA Configured ==
  ASSUME NEW m \in Settings
  PROVE  /\ DOMAIN BuildCfg(m) \subseteq {0, 1} /\ DOMAIN Registry(BuildCfg(m)) = DOMAIN BuildCfg(m)
         /\ \A i \in DOMAIN BuildCfg(m) : BuildCfg(m)[i].stale \in 0..Top
<1>1. ShieldStale \in 0..Top /\ m.stale \in 0..Top
  BY Widths, RoomAssumption DEF Top
<1> HIDE DEF Top
<1> QED BY <1>1 DEF BuildCfg, Registry

\* A registry just built has no value in it.
LEMMA RegistryEmpty ==
  ASSUME NEW m \in Settings
  PROVE  LET r == Registry(BuildCfg(m))
         IN  /\ r \in [DOMAIN BuildCfg(m) -> Sensors]
             /\ \A i \in DOMAIN BuildCfg(m) : r[i].stale = BuildCfg(m)[i].stale /\ ~r[i].have
<1>1. 0 \in 0..Top /\ 0 \in 0..MaxJumpRejects /\ 0 \in Int
  BY Widths, SensorAssumption
<1>2. \A stale \in 0..Top : /\ Sensor(stale) \in Sensors
                            /\ Sensor(stale).stale = stale /\ ~Sensor(stale).have
  <2> HIDE DEF Top
  <2> QED BY <1>1 DEF Sensor, Sensors
<1> QED BY <1>2, Configured DEF Registry

\* What is chosen to steer by is a fresh source in the room.
LEMMA Selected ==
  ASSUME NEW r, NEW cfg, DOMAIN r \subseteq {0, 1}, SelectSteer(r, cfg).fresh
  PROVE  LET i == SelectSteer(r, cfg).slot
         IN  i \in DOMAIN r /\ cfg[i].role = "ROOM" /\ State(r[i]) = "FRESH"
<1> DEFINE fresh == FreshOf(r, cfg, "ROOM")
<1>1. fresh # {} /\ SelectSteer(r, cfg).slot = First(fresh)
  BY DEF SelectSteer, NoSteer
<1>2. fresh \subseteq {0, 1}
  BY DEF FreshOf
<1>3. First(fresh) \in fresh
  <2>1. \E i \in fresh : \A j \in fresh : i <= j
    <3> HIDE DEF fresh
    <3>1. CASE 0 \in fresh
      BY <1>2, <3>1
    <3>2. CASE 0 \notin fresh
      <4>1. fresh = {1}
        BY <1>1, <1>2, <3>2
      <4> QED BY <4>1
    <3> QED BY <3>1, <3>2
  <2> HIDE DEF fresh
  <2> QED BY <2>1 DEF First
<1> QED BY <1>1, <1>3 DEF FreshOf

-----------------------------------------------------------------------------
(* The inductive invariant.                                                 *)

LEMMA Initially == RInit => IInv
<1> SUFFICES ASSUME RInit PROVE IInv
  OBVIOUS
<1>1. /\ live \in Settings /\ built = live /\ slots = BuildCfg(live)
      /\ room = Registry(BuildCfg(live)) /\ clock \in 0..Top /\ due = FALSE /\ steer = NoSteer
      /\ inbox = [i \in {0, 1} |-> NoReading] /\ age = [i \in {0, 1} |-> 0]
      /\ refused = [i \in {0, 1} |-> 0] /\ since = [i \in {0, 1} |-> live]
  BY DEF RInit, Top
<1>2. Typed
  <2>1. 0 \in 0..AgeBound /\ 0 \in 0..MaxJumpRejects
    BY Widths, SensorAssumption
  <2> QED BY <1>1, <2>1, RegistryEmpty DEF Typed
<1>3. Histories
  BY <1>1, RegistryEmpty DEF Histories
<1> QED BY <1>1, <1>2, <1>3 DEF IInv, Chosen, NoSteer

\* The first half of a tick: time has passed, and perhaps the registry is new.
LEMMA RefreshStep ==
  ASSUME IInv, NEW gap \in Gaps, TickRefresh(gap)
  PROVE  IInv'
<1> DEFINE kept == {i \in DOMAIN room' : room'[i].have}
<1>1. /\ due = FALSE /\ due' = TRUE /\ clock' = (clock + gap) % ClockWidth /\ built' = live
      /\ slots' = IF built # live THEN BuildCfg(live) ELSE slots
      /\ room' = IF built # live THEN Registry(BuildCfg(live)) ELSE room
      /\ inbox' = inbox /\ live' = live
      /\ age' = [i \in {0, 1} |-> IF i \in kept THEN Longer(age[i], gap) ELSE 0]
      /\ since' = [i \in {0, 1} |-> IF i \in kept THEN since[i] ELSE live]
      /\ refused' = [i \in {0, 1} |-> IF i \in kept THEN refused[i] ELSE 0]
  BY DEF TickRefresh, Reload, IInv, Typed
<1>2. gap \in 1..Top /\ clock \in 0..Top /\ clock' \in 0..Top
  BY <1>1, GapTold, RoomAssumption DEF IInv, Typed, Top
<1>3. /\ slots' = BuildCfg(live) /\ DOMAIN slots' \subseteq {0, 1} /\ DOMAIN room' = DOMAIN slots'
      /\ room' \in [DOMAIN slots' -> Sensors] /\ \A i \in DOMAIN slots' : room'[i].stale = slots'[i].stale
  BY <1>1, RegistryEmpty, Configured DEF IInv, Typed
<1>4. kept # {} => built = live
  BY <1>1, RegistryEmpty, Configured DEF IInv, Typed
<1>5. Typed'
  <2>1. \A i \in {0, 1} : age[i] \in 0..AgeBound /\ refused[i] \in 0..MaxJumpRejects
    BY DEF IInv, Typed
  <2>2. \A i \in {0, 1} : Longer(age[i], gap) \in 0..AgeBound /\ 0 \in 0..AgeBound
                          /\ 0 \in 0..MaxJumpRejects
    <3>1. gap \in 0..Top
      BY <1>2, Widths
    <3>2. 0 \in 0..AgeBound /\ 0 \in 0..MaxJumpRejects
      BY Widths, SensorAssumption
    <3> QED BY <2>1, <3>1, <3>2, Saturates
  <2>3. age' \in [{0, 1} -> 0..AgeBound] /\ refused' \in [{0, 1} -> 0..MaxJumpRejects]
    <3> HIDE DEF kept
    <3> QED BY <1>1, <2>1, <2>2
  <2>4. DOMAIN since' = {0, 1}
    BY <1>1
  <2>5. inbox' \in [{0, 1} -> Readings \cup {NoReading}] /\ live' \in Settings /\ built' \in Settings
    BY <1>1 DEF IInv, Typed
  <2> QED BY <1>1, <1>2, <1>3, <2>3, <2>4, <2>5 DEF Typed
<1>6. ASSUME NEW i \in DOMAIN slots', room'[i].have
      PROVE  /\ room'[i].seeded /\ since'[i] = built' /\ refused'[i] = room'[i].streak
             /\ Counted(room'[i], age'[i], due', clock')
  <2>1. i \in kept /\ i \in {0, 1}
    BY <1>3, <1>6
  <2>2. built = live /\ room' = room /\ slots' = slots
    BY <1>1, <1>4, <2>1
  <2>3. /\ room[i].seeded /\ since[i] = built /\ refused[i] = room[i].streak
        /\ room[i].last = clock /\ room[i].overdue = Cap(age[i])
    BY <1>1, <1>6, <2>2 DEF IInv, Histories, Counted
  <2>4. age'[i] = Longer(age[i], gap) /\ since'[i] = since[i] /\ refused'[i] = refused[i]
    BY <1>1, <2>1
  <2>5. Since(clock', clock) = gap
    BY <1>1, <1>2, GapTold
  <2>6. AddSat(Cap(age[i]), gap) = Cap(age'[i]) /\ age'[i] >= 1
    <3>1. age[i] \in 0..AgeBound /\ gap \in 0..Top /\ gap >= 1
      BY <1>2, <2>1 DEF IInv, Typed
    <3> QED BY <2>4, <3>1, Saturates
  <2> QED BY <1>1, <2>2, <2>3, <2>4, <2>5, <2>6 DEF Counted
<1>7. Histories'
  BY <1>6 DEF Histories
<1> QED BY <1>1, <1>5, <1>7 DEF IInv, Chosen

\* The second half: every sensor takes its reading and its time.  What was
\* refused or forgotten here is what JumpsConfirmed is about.
LEMMA TickSensor ==
  ASSUME IInv, TickRoom, NEW i \in DOMAIN room
  PROVE  /\ i \in {0, 1} /\ i \in DOMAIN room' /\ room'[i] \in Sensors /\ room'[i].stale = room[i].stale
         /\ age'[i] \in 0..AgeBound /\ refused'[i] \in 0..MaxJumpRejects
         /\ room'[i].have => /\ room'[i].seeded /\ since'[i] = built
                             /\ refused'[i] = room'[i].streak
                             /\ Counted(room'[i], age'[i], FALSE, clock)
         /\ room'[i].have /\ Jumps(room[i], room'[i].value) => refused[i] >= MaxJumpRejects
<1> DEFINE s     == room[i]
           x     == inbox[i]
           t     == Ticked(s, x, clock)
           taken == Taken(s, x, clock)
           n1    == Refusals(s, x, clock, refused[i])
           a1    == IF taken THEN 0 ELSE age[i]
<1>1. i \in {0, 1} /\ due /\ DOMAIN room = DOMAIN slots
  BY Configured DEF TickRoom, IInv, Typed
<1>2. /\ s \in Sensors /\ clock \in 0..Top /\ x \in Readings \cup {NoReading}
      /\ age[i] \in 0..AgeBound /\ refused[i] \in 0..MaxJumpRejects
  BY <1>1 DEF IInv, Typed
<1>3. s.have => s.seeded /\ refused[i] = s.streak /\ Counted(s, age[i], TRUE, clock) /\ since[i] = built
  BY <1>1 DEF IInv, Histories, Typed
<1>4. i \in DOMAIN room' /\ room'[i] = t
  BY DEF TickRoom, Stepped, Submitted, Ticked
<1>5. /\ age'[i] = IF taken THEN 0 ELSE age[i]
      /\ since'[i] = IF taken THEN built ELSE since[i]
      /\ refused'[i] = n1
  <2>1. i \in {j \in DOMAIN room : inbox[j] # NoReading /\ room'[j].have /\ room'[j].overdue = 0} <=> taken
    BY <1>4 DEF Taken
  <2> QED BY <1>1, <2>1 DEF TickRoom, Refusals
<1>6. 0 \in 0..AgeBound
  BY Widths
<1>7. /\ t \in Sensors /\ t.stale = s.stale /\ n1 \in 0..MaxJumpRejects
      /\ t.have => /\ t.seeded /\ n1 = t.streak /\ (taken \/ s.have)
                   /\ Counted(t, a1, FALSE, clock)
      /\ t.have /\ Jumps(s, t.value) => refused[i] >= MaxJumpRejects
  <2>1. s.have => s.seeded /\ refused[i] = s.streak /\ Counted(s, age[i], TRUE, clock)
    BY <1>3
  <2>2. Settles(s, x, age[i], refused[i], clock)
    <3> HIDE DEF s, x
    <3> QED BY <1>2, <2>1, SensorTick
  <2> QED BY <2>2 DEF Settles
<1>8. age'[i] = a1 /\ a1 \in 0..AgeBound
  BY <1>2, <1>5, <1>6
<1>9. taken \/ s.have => since'[i] = built
  BY <1>3, <1>5
<1> HIDE DEF t, taken, n1, a1
<1> QED BY <1>1, <1>4, <1>5, <1>7, <1>8, <1>9

LEMMA TickStep ==
  ASSUME IInv, TickRoom
  PROVE  IInv'
<1>1. /\ due' = FALSE /\ UNCHANGED <<live, built, slots, clock>>
      /\ room' = Stepped(Submitted(room, inbox, clock), clock)
      /\ inbox' = [i \in {0, 1} |-> NoReading] /\ steer' = SelectSteer(room', slots)
  BY DEF TickRoom
<1>2. DOMAIN room = DOMAIN slots /\ DOMAIN slots \subseteq {0, 1}
  BY Configured DEF IInv, Typed
<1>3. DOMAIN room' = DOMAIN slots /\ room' = [i \in DOMAIN slots |-> room'[i]]
  BY <1>1, <1>2 DEF Stepped, Submitted
<1>4. Typed'
  <2>1. room' \in [DOMAIN slots -> Sensors]
    BY <1>2, <1>3, TickSensor
  <2>2. \A i \in DOMAIN slots : room'[i].stale = slots[i].stale
    BY <1>2, TickSensor DEF IInv, Typed
  <2>3. /\ age' = [i \in {0, 1} |-> age'[i]] /\ refused' = [i \in {0, 1} |-> refused'[i]]
        /\ DOMAIN since' = {0, 1}
        /\ \A i \in {0, 1} \ DOMAIN room : age'[i] = age[i] /\ refused'[i] = 0
    BY DEF TickRoom
  <2>4. \A i \in {0, 1} : age'[i] \in 0..AgeBound /\ refused'[i] \in 0..MaxJumpRejects
    <3>1. ASSUME NEW i \in {0, 1}, i \notin DOMAIN room
          PROVE  age'[i] \in 0..AgeBound /\ refused'[i] \in 0..MaxJumpRejects
      BY <2>3, <3>1, SensorAssumption DEF IInv, Typed
    <3> QED BY <3>1, TickSensor
  <2>5. age' \in [{0, 1} -> 0..AgeBound] /\ refused' \in [{0, 1} -> 0..MaxJumpRejects]
    BY <2>3, <2>4
  <2> QED BY <1>1, <2>1, <2>2, <2>3, <2>5 DEF IInv, Typed
<1>5. Histories'
  BY <1>1, <1>2, TickSensor DEF Histories
<1>6. Chosen'
  BY <1>1, <1>2, <1>3, Selected DEF Chosen
<1> QED BY <1>4, <1>5, <1>6 DEF IInv

LEMMA Inductive == IInv /\ [RNext]_rVars => IInv'
<1> SUFFICES ASSUME IInv, [RNext]_rVars PROVE IInv'
  OBVIOUS
<1>1. ASSUME NEW i \in {0, 1}, NEW celsius \in Readings, Submit(i, celsius)
      PROVE  IInv'
  <2>1. inbox' \in [{0, 1} -> Readings \cup {NoReading}]
    BY <1>1 DEF IInv, Typed, Submit
  <2> QED BY <1>1, <2>1 DEF Submit, IInv, Typed, Histories, Chosen
<1>2. ASSUME NEW m \in Settings, Reconfigure(m)
      PROVE  IInv'
  BY <1>2 DEF Reconfigure, IInv, Typed, Histories, Chosen
<1>3. CASE UNCHANGED rVars
  BY <1>3 DEF rVars, IInv, Typed, Histories, Chosen
<1> QED BY <1>1, <1>2, <1>3, RefreshStep, TickStep DEF RNext, Readings

\* Slots, mailbox and what the executor was given agree with their histories.
THEOREM Invariance == RSpec => []IInv
BY Initially, Inductive, PTL DEF RSpec

-----------------------------------------------------------------------------
(* The theorems.                                                            *)

\* SteerYoung: the executor is never given a value older than its limit, nor
\* one that a wrap of the 32-bit clock (ot_sensor.c) has made young again.
THEOREM SteersYoung == RSpec => []SteerYoung
<1>1. IInv => SteerYoung
  <2> SUFFICES ASSUME IInv, ~due, steer.fresh
               PROVE  age[steer.slot] < slots[steer.slot].stale
    BY DEF SteerYoung
  <2> DEFINE i == steer.slot
  <2>1. i \in DOMAIN slots /\ room[i].have /\ ~(room[i].overdue >= room[i].stale)
    BY DEF IInv, Chosen, State
  <2>2. room[i].overdue = Cap(age[i]) /\ room[i].stale = slots[i].stale
    BY <2>1 DEF IInv, Histories, Counted, Typed
  <2>3. slots[i].stale \in 0..Top /\ age[i] \in 0..AgeBound
    BY <2>1, Configured DEF IInv, Typed
  <2> HIDE DEF i
  <2>4. age[i] < slots[i].stale
    BY <2>1, <2>2, <2>3, Widths DEF Cap
  <2> QED BY <2>4 DEF i
<1> QED BY <1>1, Invariance, PTL

\* SteersFromRoom: after a change of the settings nothing steers until a
\* reading was drained under them (ot_thermostat_room_refresh_cfg), and a
\* source by the boiler never does.
THEOREM SteersInRoom == RSpec => []SteersFromRoom
<1>1. IInv => SteersFromRoom
  BY DEF IInv, Chosen, Histories, State, SteersFromRoom
<1> QED BY <1>1, Invariance, PTL

\* JumpsConfirmed: spikes between good readings never add up, whatever ticks
\* and changes of the settings come between them.
THEOREM JumpsAreAsked == RSpec => JumpsConfirmed
<1> DEFINE Asked ==
      \A i \in DOMAIN room \cap DOMAIN room' :
        /\ room'[i].have /\ Jumps(room[i], room'[i].value) => refused[i] >= MaxJumpRejects
        /\ refused'[i] <= MaxJumpRejects
<1>1. ASSUME IInv, [RNext]_rVars PROVE [Asked]_rVars
  <2> SUFFICES ASSUME RNext, NEW i \in DOMAIN room, i \in DOMAIN room'
               PROVE  /\ room'[i].have /\ Jumps(room[i], room'[i].value) => refused[i] >= MaxJumpRejects
                      /\ refused'[i] <= MaxJumpRejects
    BY <1>1
  <2>1. i \in {0, 1} /\ room[i] \in Sensors /\ MaxJumpRejects \in Nat /\ MaxJump \in Nat
    BY <1>1, Configured, SensorAssumption DEF IInv, Typed
  <2>2. refused'[i] <= MaxJumpRejects
    BY <1>1, <2>1, Inductive DEF IInv, Typed
  <2>3. CASE TickRoom
    BY <1>1, <2>2, <2>3, TickSensor
  <2>4. CASE ~TickRoom
    <3>1. room' = room \/ ~room'[i].have
      BY <1>1, <2>4, RegistryEmpty, Configured
      DEF RNext, Submit, Reconfigure, TickRefresh, Reload, IInv, Typed
    <3>2. ~Jumps(room[i], room[i].value)
      <4>1. room[i].value \in Int
        BY <2>1 DEF Sensors
      <4> QED BY <2>1, <4>1 DEF Jumps
    <3> QED BY <2>2, <3>1, <3>2
  <2> QED BY <2>3, <2>4
<1> QED BY <1>1, Invariance, PTL DEF RSpec, JumpsConfirmed

=============================================================================
