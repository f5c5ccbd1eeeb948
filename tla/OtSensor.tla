------------------------------ MODULE OtSensor -------------------------------
(***************************************************************************)
(* components/ot_sensor: one source of temperature, with its filter and    *)
(* its freshness.  Temperatures are whole numbers; Junk stands for what no *)
(* sensor can mean: not a number, infinite, or out of the range the header *)
(* allows.  The clock is a counter modulo ClockWidth (2^32 milliseconds).  *)
(***************************************************************************)
EXTENDS Integers

CONSTANTS ClockWidth, MaxJump, MaxJumpRejects, Junk

ASSUME SensorAssumption ==
  ClockWidth \in Nat \ {0, 1} /\ MaxJump \in Nat /\ MaxJumpRejects \in Nat

Since(now, then) == (now - then) % ClockWidth

\* Mutant of AddSat: plain unsigned addition.
AddWraps(a, b) == (a + b) % ClockWidth

AddSat(a, b) == IF a > ClockWidth - 1 - b THEN ClockWidth - 1 ELSE a + b

\* The first call only sets the reference.
Advance(s, now) ==
  [s EXCEPT !.overdue = IF s.seeded THEN AddSat(@, Since(now, s.last)) ELSE @,
            !.seeded  = TRUE,
            !.last    = now]

\* ot_sensor_init: its value means nothing until it has one.
Sensor(stale) ==
  [stale |-> stale, value |-> 0, have |-> FALSE, overdue |-> 0, last |-> 0,
   seeded |-> FALSE, streak |-> 0]

Jumps(s, celsius) ==
  s.have /\ (celsius - s.value > MaxJump \/ s.value - celsius > MaxJump)

Believed(s, celsius) ==
  [s EXCEPT !.value = celsius, !.have = TRUE, !.overdue = 0, !.streak = 0]

\* Mutant of Update: an accepted value does not end the row of refusals.
UpdateKeepsCount(s, celsius, now) ==
  LET a == Advance(s, now)
  IN  IF celsius = Junk THEN a
      ELSE IF Jumps(a, celsius) /\ a.streak < MaxJumpRejects
      THEN [a EXCEPT !.streak = @ + 1]
      ELSE [Believed(a, celsius) EXCEPT !.streak = a.streak]

\* A rejected value changes nothing but the count of jumps, and junk not that.
Update(s, celsius, now) ==
  LET a == Advance(s, now)
  IN  IF celsius = Junk THEN a
      ELSE IF Jumps(a, celsius) /\ a.streak < MaxJumpRejects
      THEN [a EXCEPT !.streak = @ + 1]
      ELSE Believed(a, celsius)

State(s) ==
  IF ~s.have THEN "NEVER" ELSE IF s.overdue >= s.stale THEN "STALE" ELSE "FRESH"
==============================================================================
