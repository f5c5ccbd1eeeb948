-------------------------------- MODULE MCBus --------------------------------
(***************************************************************************)
(* A small instance of OtBusRounds: a ring of three, an introduction of    *)
(* one write, a hand write, the executor's write of ID 1, at most one      *)
(* write queued during one conversation, and a sweep of two identifiers    *)
(* given the wrong way round, one of them in the ring.  The conversation   *)
(* itself, OtLine, is checked on words of three bits, every one of them.   *)
(***************************************************************************)
EXTENDS OtBusRounds, OtLine

SmallRing     == <<5, 3, 9>>
SmallIdentity == <<<<2, 0>>>>
OneHandWrite  == {<<3, 7>>}
OneExecWrite  == {<<1, 8>>}
SmallSweeps   == {<<4, 3>>}

\* Wherever the clock wraps, a task that waits as it is told talks then and not
\* before, at the pace and after the gap, and in time unless the conversation
\* before lasted too long.  The limits are in units of 50 ms.
ASSUME LET limits == [period |-> 19, gap |-> 2, deadline |-> 23, clock |-> 64]
           at(now, n) == (now + n) % limits.clock
       IN  \A start \in 0..63, lasts \in 0..24, idle \in 0..12 :
             LET p   == [started |-> TRUE, last_start |-> start, last_end |-> at(start, lasts)]
                 now == at(start, lasts + idle)
                 w   == Pace(p, now, limits)
                 t   == Pace(p, at(now, w.delay), limits)
                 age == lasts + idle + w.delay
             IN  /\ t.verb = "TALK" /\ age >= limits.period /\ idle + w.delay >= limits.gap
                 /\ \A n \in 0..w.delay - 1 : Pace(p, at(now, n), limits).verb = "WAIT"
                 /\ t.overdue <=> age > limits.deadline
                 /\ lasts + limits.gap <= limits.deadline /\ idle <= limits.gap => ~t.overdue

\* A word arrives as sent however the boiler's clock wavers within the
\* windows of ot_decode.h.
ASSUME EveryWaveArrives({4, 6}, {9, 12}) /\ EveryWaveArrives({5}, {10, 11})

\* A boiler that stops inside a frame gives no word, and a length outside
\* every window never gives another word than the one sent.
ASSUME NoHalfAFrame
ASSUME OneWrongLength({1, 2, 3, 7, 8, 13, 14})

\* The word carries type, identifier and value, and one bit turned over on
\* the wire is noticed.
ASSUME FrameCarries([type : {0, 4, 7}, id : {0, 56, 255}, value : {0, 1, 43520, 65535}])

\* A temperature beyond what 16 bits hold stops at the end of the range.
ASSUME SaturatesInPlace({-40000, -32769, -32768, -1, 0, 255, 32767, 32768, 40000})
==============================================================================
