----------------------------- MODULE MCCommands ------------------------------
(***************************************************************************)
(* A small instance of OtCommands: a page with the password and one        *)
(* without, a request of a foreign page, one that does not say it is JSON, *)
(* and what Home Assistant may send.                                       *)
(***************************************************************************)
EXTENDS OtCommands, OtOps, OtFields, TLC

Plain(path, cmd, value, cred) ==
  [method |-> "POST", path |-> path, cmd |-> cmd, value |-> value, cred |-> cred,
   host |-> "own", truncated |-> FALSE, body |-> TRUE, json |-> TRUE]

\* A password with a colon in it, and a browser's name in front.
Secret == <<112, 58, 119>>
SmallPasswords == {Secret}
SmallSalt == SaltOf("one")

Owner == Basic(<<97, 100>>, Secret)
Guess == Basic(<<97, 100>>, <<119>>)

SmallRequests ==
  {Plain("entity", "SEASON", 0, Owner), Plain("entity", "SEASON", 1, Absent),
   Plain("entity", "CH_SETPOINT", 453, Owner), Plain("entity", "FRAME", 1, Absent),
   Plain("op", "LINETEST", 0, Owner), Plain("op", "LINETEST", 0, Guess),
   Plain("config", "MODE", "HA", Owner),
   Plain("config", "PASSWORD", Secret, Absent), Plain("config", "PASSWORD", NoPassword, Owner)}
  \cup
  {[Plain("entity", "SEASON", 0, Owner) EXCEPT !.host = "foreign"],
   [Plain("entity", "SEASON", 0, Owner) EXCEPT !.json = FALSE]}

SmallHaOrders ==
  {[cmd |-> "SEASON", value |-> 0], [cmd |-> "CH_SETPOINT", value |-> 500],
   [cmd |-> "DHW_SETPOINT", value |-> 450], [cmd |-> "FRAME", value |-> 1]}

\* The router is gone and the device opens its access point.
SmallRadios == {[ap |-> TRUE, address |-> TRUE]}

SmallGone == {{FrameId, 56}}

-----------------------------------------------------------------------------
(* Claims over OtAuth, on passwords at and over the limit.                  *)

Letters(n) == [i \in 1..n |-> IF i % 5 = 0 THEN Colon ELSE 100 + (i % 20)]

\* "A user name never costs the password its length"
\* (test_a_user_name_never_costs_the_password_its_length): the longest
\* password gets in behind a name of any length up to 255, and no other
\* password does.
ASSUME OwnerGetsIn({<<>>, <<97, 100>>, [i \in 1..255 |-> 97]},
                   {Secret, <<119>>, Letters(127), Letters(PassMax)}, {SmallSalt, SaltOf("other")})

\* A password the settings take is one the door can be opened with.
ASSUME LET long(n) == [i \in 1..n |-> IF i % 7 = 0 THEN Colon ELSE 255]
       IN  /\ UiPassMax <= PassMax
           /\ \A n \in {UiPassMin, UiPassMax} :
                UiPasswordText(long(n)) /\ AuthCheck(Basic(<<97>>, long(n)), RecordOf(long(n))).result = "GRANTED"

\* One byte more is refused, never cut to what fits; so are a NUL on either
\* side of the colon, a blob without a colon, a second token, another scheme.
ASSUME /\ ParseHeader(Basic(<<97>>, Letters(PassMax + 1))).status = "TOO_LONG"
       /\ ParseHeader(Basic(<<97>>, <<112, Nul, 119>>)).status = "MALFORMED"
       /\ ParseHeader(Basic(<<Nul>>, Secret)).status = "MALFORMED"
       /\ ParseHeader([scheme |-> "Basic", tokens |-> <<Base64(<<112, 119>>)>>]).status = "MALFORMED"
       /\ ParseHeader([Owner EXCEPT !.tokens = @ \o @]).status = "MALFORMED"
       /\ ParseHeader([Owner EXCEPT !.scheme = "Other"]).status = "NOT_BASIC"

\* Of two padded encodings run together nothing is taken, nor of a group
\* that is short or all padding.
ASSUME \A t \in {Base64(<<58>>) \o Base64(<<58>>), Tail(Base64(Secret)), <<>>,
                 <<14, Equals, Equals, Equals>>, <<Foreign, 1, 2, 3>>} :
         ParseHeader([scheme |-> "Basic", tokens |-> <<t>>]).status = "MALFORMED"

\* An empty password opens nothing, whatever the record is of.
ASSUME AuthCheck(Basic(<<97>>, <<>>), RecordOf(<<>>)).result = "DENIED"

ASSUME RecordsAreRead({0, 1, 9, 10, 10000, 999999, IterationsMax, IterationsMax + 1})

\* Digits past the limit never wrap back below it.
ASSUME \A n \in 1..12 : Count([i \in 1..n |-> 9]) > 0 <=> n <= 7

\* The gate's buffer holds less than the parser would take ("a 128-character
\* password with 255 characters of user name in front of it",
\* ot_auth.c:31): of a name past 249 with the longest password it hands on
\* nothing.
ASSUME LET LongName(n) == InBuffer(Basic([i \in 1..n |-> 97], Letters(PassMax)))
       IN  \A n \in {248, 249, 250, 255} : LongName(n) = Absent <=> n > 249

-----------------------------------------------------------------------------
(* Claims over OtJson and OtOps, on documents made of these tokens.         *)

Tok(is)       == [is |-> is]
Text(t, size) == [is |-> "string", text |-> t, size |-> size]
Flag(b)       == [is |-> "bool", flag |-> b]
Num(cents) ==
  [is |-> "number", whole |-> cents % 100 = 0, negative |-> cents < 0, cents |-> cents,
   size |-> IF cents = Huge THEN "f32" ELSE "i32"]

\* Of a sequence of members <<key, value>>.
Doc(members) ==
  LET n == Len(members)
  IN  IF n = 0 THEN <<Tok("{"), Tok("}")>>
      ELSE [i \in 1..4 * n + 1 |->
              CASE i = 1 -> Tok("{")
                [] i % 4 = 2 -> Text(members[i \div 4 + 1][1], 8)
                [] i % 4 = 3 -> Tok(":")
                [] i % 4 = 0 -> members[i \div 4][2]
                [] OTHER -> IF i = 4 * n + 1 THEN Tok("}") ELSE Tok(",")]

Kinds == {Tok("{"), Tok("}"), Tok("["), Tok(":"), Tok(","), Tok("junk"),
          Text("value", 5), Num(50), Flag(TRUE)}

Scraps == UNION {[1..n -> Kinds] : n \in 0..5}

Two == Doc(<<<<"value", Num(100)>>, <<"from", Flag(TRUE)>>>>)

\* Two with one token replaced, taken out, or put in front of another.
Slips ==
  {[Two EXCEPT ![i] = kind] : i \in DOMAIN Two, kind \in Kinds}
  \cup {SubSeq(Two, 1, i - 1) \o SubSeq(Two, i + 1, Len(Two)) : i \in DOMAIN Two}
  \cup {SubSeq(Two, 1, i - 1) \o <<kind>> \o SubSeq(Two, i, Len(Two)) : i \in DOMAIN Two, kind \in Kinds}

Names == <<"a", "b", "c", "d", "e", "f", "g", "h", "i", "j", "k", "l", "m", "n", "o", "p", "q", "r">>
Long(n, again) == Doc([i \in 1..n |-> <<IF i = n THEN again ELSE Names[i], Num(100 * i)>>])

\* Whatever the body, a reader finds all of what the check accepted and
\* nothing but whole values.
ASSUME LET docs == Scraps \cup Slips \cup {Long(n, "z") : n \in 1..18} \cup
                   {Doc(<<<<"value", Text("abc", 64)>>, <<"from", Tok("null")>>>>), Doc(<<>>)}
       IN  /\ CheckedIsRead(docs, {"value", "from", "c", "missing"})
           /\ NothingHalf(docs, {"value", "from"})
           /\ OneOfEach(docs)

\* A key given again is refused as the seventeenth member and no longer as
\* the eighteenth ("the largest document this firmware accepts has ten
\* fields", ot_json_check.cpp): the reader then takes the first.
ASSUME /\ Check(Long(17, "p")) = "DUPLICATE"
       /\ Check(Long(18, "q")) = "OK" /\ Seek(Long(18, "q"), "q").at = 16

Numbers == {-1, 0, 1, 50, 99, 100, 9999, 10000, 12700, 12750, 12800, 500000, 500001, 3000000, 3000001, Huge}
OpDocs ==
  {Doc(<<<<name, Num(c)>>>>) : name \in {"from", "to", "duration_ms", "half_period_ms"}, c \in Numbers}
  \cup {Doc(<<<<"to", Num(c)>>, <<"from", Num(d)>>>>) : c \in Numbers, d \in Numbers}
  \cup {Doc(<<<<"duration_ms", Num(c)>>, <<"half_period_ms", Num(d)>>>>) : c \in Numbers, d \in Numbers}
  \cup {Long(n, "z") : n \in 1..5} \cup {Two, Doc(<<>>)} \cup Slips

ASSUME ConflictMeansRunning(OpDocs) /\ SweepIsTheOneNamed(OpDocs) /\ NoneLost(OpDocs)

\* Four numbers are taken, a fifth refuses the call.
ASSUME ParseOperation(Long(4, "z")).status = "OK" /\ ParseOperation(Long(5, "z")).status = "BAD_FIELD"

\* An entity is never given a guess: a flag is a flag, a number a number.
ASSUME /\ ParseEntityWrite(Doc(<<<<"value", Flag(TRUE)>>>>)) = [status |-> "OK", is_bool |-> TRUE, number |-> 100]
       /\ ParseEntityWrite(Doc(<<<<"value", Num(50)>>>>)) = [status |-> "OK", is_bool |-> FALSE, number |-> 50]
       /\ \A t \in {Text("on", 2), Tok("null")} : ParseEntityWrite(Doc(<<<<"value", t>>>>)).status = "BAD_FIELD"

\* The client's decimal is what the executor is given, the half away from
\* zero, and nothing wraps into a value of 16 bits.
ASSUME /\ \A c \in -3000..3000 :
            \E dc \in Tenths(c) : (IF c >= 0 THEN 10 * dc - c ELSE c - 10 * dc) \in -4..5
       /\ \A c \in {-327685, 327675, 655360, Huge} : Tenths(c) = {}
       /\ Tenths(-327684) = {-32768} /\ Tenths(327674) = {32767}
       /\ ToControlValue(FALSE, 50) = {} /\ ToControlValue(FALSE, 100) = {1} /\ ToControlValue(TRUE, 4505) = {451}

\* A body that comes in pieces is whole or refused.
ASSUME \A length \in {0, 1, 5, BodyMax - 1, BodyMax}, n \in 0..5 :
         LET ones == [i \in 1..n |-> 1]
         IN  ReadBody(length, ones \o <<0>>) = CASE length \in {0, BodyMax} -> 413
                                                [] length \in 1..n -> 0
                                                [] OTHER -> 400

\* An operation that halts the bus is never called on a device without a
\* password, nor any by a guess.
ASSUME \A op \in DOMAIN Halts \cup {"other"}, cred \in {Absent, Owner, Guess}, record \in {NoPassword, RecordOf(Secret)},
          ap \in BOOLEAN, on \in BOOLEAN :
         LET r == [op |-> op, length |-> 0, chunks |-> <<>>, doc |-> <<>>] @@ Plain("op", "OP", 0, cred)
             a == OpPost(r, [radio |-> [ap |-> ap, address |-> TRUE], record |-> record, on |-> on])
         IN  /\ a.status = 202 => ~ap /\ (record # NoPassword => cred = Owner)
             /\ a.status = 202 /\ op = "linetest" => record # NoPassword /\ ~on
             /\ op = "other" => a.status \in {401, 403, 404}
==============================================================================
