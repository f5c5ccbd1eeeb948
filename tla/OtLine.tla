------------------------------- MODULE OtLine -------------------------------
(***************************************************************************)
(* A conversation on the wire: components/ot_encode draws a word as half   *)
(* bits, the boiler's answer is sampled every 100 us and goes through      *)
(* components/ot_decode one sample at a time, and ot_master_exchange says  *)
(* what became of it.  Width is 32 in the code; nothing depends on it.     *)
(*                                                                         *)
(* A level is TRUE for an active line.  What the line does is a sequence   *)
(* of samples, what the boiler does a sequence of lengths: how many        *)
(* samples the line stays where it is before the next edge.                *)
(***************************************************************************)
EXTENDS Integers, FiniteSets, FiniteSetsExt, Sequences

-----------------------------------------------------------------------------
(* components/ot_frame: the 32-bit word and the values it carries.  A word *)
(* is a function from the numbers of its bits to 0 and 1, so that a sum    *)
(* never leaves TLC's integers.                                            *)

Bit(v, i) == (v \div 2^i) % 2

\* The number in the `width` bits of w from `low` upwards.
Field(w, low, width) == SumSet({w[low + k] * 2^k : k \in 0..width - 1})

\* even_ones, whatever the width of the word.
EvenOnes(w) == Cardinality({i \in DOMAIN w : w[i] = 1}) % 2 = 0

\* ot_frame_encode: parity, type, four spare zeros, identifier, value.
Encode(f) ==
  LET bare == [i \in 0..31 |-> CASE i \in 0..15  -> Bit(f.value, i)
                                 [] i \in 16..23 -> Bit(f.id, i - 16)
                                 [] i \in 28..30 -> Bit(f.type, i - 28)
                                 [] OTHER        -> 0]
  IN  IF EvenOnes(bare) THEN bare ELSE [bare EXCEPT ![31] = 1]

\* ot_frame_decode: parity is the only refusal, the spare bits are ignored.
Decode(w) ==
  IF ~EvenOnes(w) THEN {}
  ELSE {[type |-> Field(w, 28, 3), id |-> Field(w, 16, 8), value |-> Field(w, 0, 16)]}

-----------------------------------------------------------------------------
(* ot_codec: 16 bits as numbers.                                            *)

Signed(v, width) == IF v >= 2^(width - 1) THEN v - 2^width ELSE v

S16(raw) == Signed(raw, 16)
U8Hb(raw) == raw \div 256
U8Lb(raw) == raw % 256
S8Hb(raw) == Signed(U8Hb(raw), 8)
S8Lb(raw) == Signed(U8Lb(raw), 8)
Flag(raw, high_byte, bit) == Bit(IF high_byte THEN U8Hb(raw) ELSE U8Lb(raw), bit % 8) = 1

\* ot_codec_float_to_f88 of a number of 256ths, {} for what is not finite; a
\* value out of reach stops at the bound.
ToF88(x) ==
  IF x = {} THEN 0
  ELSE LET v == CHOOSE v \in x : TRUE
       IN  CASE v > 32767  -> 32767
             [] v < -32768 -> 32768
             [] OTHER      -> v % 65536

-----------------------------------------------------------------------------
\* What is decoded is what was encoded, and of a frame with one bit turned
\* over on the wire nothing is.
FrameCarries(frames) ==
  \A f \in frames :
    LET w == Encode(f)
    IN  /\ Decode(w) = {f}
        /\ \A i \in 0..31 : Decode([w EXCEPT ![i] = 1 - @]) = {}

\* Within its range a value survives the way to 16 bits and back; outside, it
\* stops at the end and keeps its sign.
SaturatesInPlace(values) ==
  \A v \in values :
    S16(ToF88({v})) = CASE v > 32767 -> 32767 [] v < -32768 -> -32768 [] OTHER -> v

-----------------------------------------------------------------------------
(* The line.                                                               *)

CONSTANTS
  Width,        \* bits of data in a word
  RxBudget      \* samples the master waits (9000)

ASSUME LineAssumption == Width \in Nat \ {0} /\ RxBudget \in Nat \ {0}

\* A start bit, the data and a stop bit.
Bits == Width + 2
HalfBits == 2 * Bits

\* The windows of ot_decode.h for the samples between two edges.
IsHalf(n) == n \in 4..6
IsFull(n) == n \in 9..12
FullMax == 12

\* ot_encode_frame: the first half of a bit is the bit, the second its contrary.
HalfBitsOf(w) ==
  LET bits == [i \in 1..Bits |-> IF i \in {1, Bits} THEN 1 ELSE w[Width + 1 - i]]
  IN  [h \in 1..HalfBits |-> (bits[(h + 1) \div 2] = 1) = (h % 2 = 1)]

-----------------------------------------------------------------------------
(* The decoder.                                                             *)

Reset == [status |-> "IDLE", error |-> "NONE", armed |-> FALSE, last |-> FALSE,
          since |-> 0, mid |-> TRUE, bits |-> <<>>]

Fail(d, why) == [d EXCEPT !.status = "ERROR", !.error = why]

\* record_bit: an edge to idle is a one; the last bit has to be one.
RecordBit(d, to_idle) ==
  LET taken == [d EXCEPT !.bits = Append(@, IF to_idle THEN 1 ELSE 0), !.mid = FALSE]
  IN  CASE Len(taken.bits) < Bits -> taken
        [] to_idle                -> [taken EXCEPT !.status = "DONE"]
        [] OTHER                  -> Fail(taken, "STOP_BIT")

\* The edge after n samples.  After the edge of a boundary only the middle of
\* a bit can follow, half a bit away; after a middle either.
Edge(d, n, to_idle) ==
  CASE d.mid /\ IsHalf(n)  -> RecordBit(d, to_idle)
    [] ~d.mid /\ IsFull(n) -> RecordBit(d, to_idle)
    [] ~d.mid /\ IsHalf(n) -> [d EXCEPT !.mid = TRUE]
    [] OTHER               -> Fail(d, "TIMING")

\* ot_decode_push.
Push(d, level) ==
  CASE d.status \in {"DONE", "ERROR"} -> d
    [] d.status = "IDLE" /\ ~level -> [d EXCEPT !.armed = TRUE, !.last = FALSE]
    [] d.status = "IDLE" /\ level /\ d.armed -> [Reset EXCEPT !.status = "BUSY", !.armed = TRUE, !.last = TRUE]
    [] d.status = "IDLE" /\ level /\ ~d.armed -> [d EXCEPT !.last = TRUE]
    [] d.status = "BUSY" /\ level = d.last ->
         LET n == d.since + 1
         IN  IF n > FullMax THEN Fail([d EXCEPT !.since = n], "SILENCE") ELSE [d EXCEPT !.since = n]
    [] d.status = "BUSY" /\ level # d.last ->
         Edge([d EXCEPT !.since = 0, !.last = level], d.since + 1, d.last)

\* ot_decode_payload: what is between the start bit and the stop bit.
Payload(d) == [i \in 0..Width - 1 |-> d.bits[Width + 1 - i]]

-----------------------------------------------------------------------------
(* The exchange.                                                            *)

\* on_tick in PH_RX over the samples of a line that then stays as it is: the
\* decoder when it, or the budget, ends the reception.
Heard(samples) ==
  LET at(i) == samples[IF i <= Len(samples) THEN i ELSE Len(samples)]
      d[i \in 0..RxBudget] ==
        IF i = 0 THEN Reset ELSE Push(d[i - 1], at(i))
      n == Len(samples) + FullMax + 1
  IN  d[IF n < RxBudget THEN n ELSE RxBudget]

\* ot_master_exchange.
Exchange(samples) ==
  LET d == Heard(samples)
  IN  CASE d.status \in {"IDLE", "BUSY"} -> [result |-> "TIMEOUT"]
        [] d.status = "ERROR"            -> [result |-> "FRAME_ERROR"]
        [] d.status = "DONE" /\ ~EvenOnes(Payload(d)) -> [result |-> "PARITY_ERROR"]
        [] OTHER                         -> [result |-> "OK", word |-> Payload(d)]

-----------------------------------------------------------------------------
(* What a boiler may do, for the checks below.                              *)

\* The lengths between the edges of a word, from its leading edge: TRUE for a
\* whole bit, FALSE for half.
Lengths(w) ==
  LET h == HalfBitsOf(w)
      edges == {i \in 1..HalfBits - 1 : h[i] # h[i + 1]}
      nth(k) == CHOOSE i \in edges : Cardinality({j \in edges : j <= i}) = k
  IN  [k \in 1..Cardinality(edges) |->
         (IF k = 1 THEN nth(1) ELSE nth(k) - nth(k - 1)) = 2]

\* The samples of a line that was idle once and then changes after each length.
Drawn(lengths) ==
  LET line[k \in 0..Len(lengths)] ==
        IF k = 0 THEN <<FALSE>>
        ELSE line[k - 1] \o [i \in 1..lengths[k] |-> k % 2 = 1]
  IN  line[Len(lengths)] \o <<Len(lengths) % 2 = 0>>

\* What the spread of the boiler's clock makes of it, in the samples given.
Waves(w, halves, fulls) ==
  LET l == Lengths(w)
  IN  {f \in [1..Len(l) -> halves \cup fulls] : \A k \in 1..Len(l) : f[k] \in IF l[k] THEN fulls ELSE halves}

Words == {w \in [0..Width - 1 -> {0, 1}] : EvenOnes(w)}

\* ot_decode.h: a word arrives as it was sent whatever the boiler's clock
\* does within the tolerance.
EveryWaveArrives(halves, fulls) ==
  \A w \in Words : \A wave \in Waves(w, halves, fulls) :
    Exchange(Drawn(wave)) = [result |-> "OK", word |-> w]

\* A boiler that falls silent inside a frame, at any edge, gives no frame.
NoHalfAFrame ==
  \A w \in Words : \A wave \in Waves(w, {5}, {10}) :
    \A k \in 0..Len(wave) - 1 : Exchange(Drawn(SubSeq(wave, 1, k))).result # "OK"

\* One length outside its window spoils the frame, never changes it.
OneWrongLength(wrong) ==
  \A w \in Words : \A wave \in Waves(w, {5}, {10}) : \A k \in 1..Len(wave) : \A n \in wrong :
    LET got == Exchange(Drawn([wave EXCEPT ![k] = n]))
    IN  got.result = "OK" => got.word = w
=============================================================================
