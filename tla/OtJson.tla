------------------------------- MODULE OtJson --------------------------------
(***************************************************************************)
(* How a request body is read: components/ot_json above its scanner.  A    *)
(* document is the sequence of its tokens, records with a field `is`:      *)
(*   "{" "}" "[" "," ":" "null"  the character, or the word                *)
(*   "bool"                      flag                                      *)
(*   "string"                    text, size (bytes once decoded)           *)
(*   "number"                    whole, negative, size, cents              *)
(*   "unclosed"                  a string the scanner refuses              *)
(*   "junk"                      anything else                             *)
(* The size of a number says what can hold it: "i32", the one value past   *)
(* it below zero "min", "u32", "f32" or "none".  A document holds no       *)
(* nested value, so its members stand at fixed places.                     *)
(***************************************************************************)
EXTENDS Integers, Sequences, FiniteSets

KeyMax   == 63      \* bytes of a key that is compared
SeenKeys == 16      \* keys remembered against their being given twice

At(doc, i) == IF i \in 1..Len(doc) THEN doc[i] ELSE [is |-> "end"]

\* Member k, from 0: its key, colon, value and what follows.
Key(doc, k)   == At(doc, 4 * k + 2)
ColonOf(doc, k) == At(doc, 4 * k + 3)
Value(doc, k) == At(doc, 4 * k + 4)
After(doc, k) == At(doc, 4 * k + 5)

Places(doc) == 0..(Len(doc) \div 4)

Least(S) == CHOOSE k \in S : \A j \in S : k <= j

\* read_value.
ReadValue(token) ==
  CASE token.is \in {"string", "number", "bool", "null"} -> "FOUND"
    [] token.is \in {"{", "["} -> "WRONG_TYPE"
    [] OTHER -> "MALFORMED"

-----------------------------------------------------------------------------
(* ot_json_check: is the whole of it a document.                            *)

Short(doc, k) == Key(doc, k).size <= KeyMax

\* The keys before k that are still remembered.
SeenBefore(doc, k) ==
  {j \in 0..k - 1 : Short(doc, j) /\ Cardinality({i \in 0..j : Short(doc, i)}) <= SeenKeys}

GivenTwice(doc, k) ==
  Short(doc, k) /\ \E j \in SeenBefore(doc, k) : Key(doc, j).text = Key(doc, k).text

MemberError(doc, k) ==
  IF Key(doc, k).is # "string" THEN "MALFORMED"
  ELSE IF GivenTwice(doc, k) THEN "DUPLICATE"
  ELSE IF ColonOf(doc, k).is # ":" THEN "MALFORMED"
  ELSE IF ReadValue(Value(doc, k)) = "WRONG_TYPE" THEN "NESTED"
  ELSE IF ReadValue(Value(doc, k)) # "FOUND" THEN "MALFORMED"
  ELSE IF After(doc, k).is \notin {",", "}"} THEN "MALFORMED"
  ELSE IF After(doc, k).is = "," /\ Key(doc, k + 1).is = "}" THEN "MALFORMED"
  ELSE "OK"

Check(doc) ==
  LET \* The first member that is wrong, or the last.  What is before it is not.
      ends[k \in Places(doc)] ==
        IF MemberError(doc, k) # "OK" \/ After(doc, k).is = "}" THEN k ELSE ends[k + 1]
      k == ends[0]
  IN  IF At(doc, 1).is # "{" THEN "NOT_AN_OBJECT"
      ELSE IF At(doc, 2).is = "}" THEN (IF Len(doc) = 2 THEN "OK" ELSE "MALFORMED")
      ELSE IF MemberError(doc, k) # "OK" THEN MemberError(doc, k)
      ELSE IF Len(doc) = 4 * k + 5 THEN "OK" ELSE "MALFORMED"

-----------------------------------------------------------------------------
(* The getters, which trust nobody to have checked.                         *)

\* seek: how the walk for a key ends at member k, or "on".
SeekAt(doc, key, k) ==
  IF Key(doc, k).is = "}" THEN "MISSING"
  ELSE IF Key(doc, k).is # "string" \/ ColonOf(doc, k).is # ":" THEN "MALFORMED"
  ELSE IF Short(doc, k) /\ Key(doc, k).text = key THEN "FOUND"
  ELSE IF ReadValue(Value(doc, k)) # "FOUND" THEN "MALFORMED"
  ELSE IF After(doc, k).is = "," THEN "on" ELSE "MISSING"

Seek(doc, key) ==
  LET ends[k \in Places(doc)] == IF SeekAt(doc, key, k) # "on" THEN k ELSE ends[k + 1]
  IN  IF At(doc, 1).is # "{" THEN [status |-> "MISSING", at |-> 0]
      ELSE [status |-> SeekAt(doc, key, ends[0]), at |-> ends[0]]

\* A value was one if the document goes on, or ends, behind it.
Closed(doc, k) == After(doc, k).is \in {",", "}"}

\* What a getter makes of the value under a key: `is` the type it wants,
\* Fits what it can hand on.
Get(doc, key, is, Fits(_)) ==
  LET found == Seek(doc, key)
      value == Value(doc, found.at)
  IN  CASE found.status # "FOUND" -> found.status
        [] found.status = "FOUND" /\ is = "string" /\ value.is \notin {"string", "unclosed"} -> "WRONG_TYPE"
        [] OTHER -> IF ReadValue(value) # "FOUND" THEN ReadValue(value)
                    ELSE IF value.is # is THEN "WRONG_TYPE"
                    ELSE IF is = "string" /\ ~Fits(value) THEN "TOO_LONG"
                    ELSE IF ~Closed(doc, found.at) THEN "MALFORMED"
                    ELSE IF ~Fits(value) THEN "OUT_OF_RANGE" ELSE "FOUND"

GetString(doc, key, cap) == Get(doc, key, "string", LAMBDA v : v.size < cap)
GetBool(doc, key) == Get(doc, key, "bool", LAMBDA v : TRUE)
GetU32(doc, key) == Get(doc, key, "number", LAMBDA v : v.whole /\ ~v.negative /\ v.size \in {"i32", "min", "u32"})
GetI32(doc, key) == Get(doc, key, "number", LAMBDA v : v.whole /\ (v.size = "i32" \/ (v.negative /\ v.size = "min")))
GetF32(doc, key) == Get(doc, key, "number", LAMBDA v : v.size # "none")

\* ot_json_key_at: the name of the i-th member, counted from 0, in room for cap bytes.
KeyAtEnds(doc, index, k) ==
  IF Key(doc, k).is = "}" THEN "MISSING"
  ELSE IF Key(doc, k).is # "string" \/ ColonOf(doc, k).is # ":" THEN "MALFORMED"
  ELSE IF k = index THEN "HERE"
  ELSE IF ReadValue(Value(doc, k)) # "FOUND" THEN "MALFORMED"
  ELSE IF After(doc, k).is = "," THEN "on" ELSE "MISSING"

KeyAt(doc, index, cap) ==
  LET ends[k \in Places(doc)] == IF KeyAtEnds(doc, index, k) # "on" THEN k ELSE ends[k + 1]
      how == KeyAtEnds(doc, index, ends[0])
  IN  CASE At(doc, 1).is # "{" -> "MISSING"
        [] At(doc, 1).is = "{" /\ how # "HERE" -> how
        [] OTHER -> IF Short(doc, index) /\ Key(doc, index).size < cap THEN "FOUND" ELSE "TOO_LONG"

-----------------------------------------------------------------------------
(* Claims.                                                                  *)

\* The member a reader that knows the whole document would find.
Members(doc) == 0..((Len(doc) - 5) \div 4)

ValueTypes == {"string", "number", "bool", "null"}

\* Of a document that passed the check every key is found, at its own value,
\* and no other is; walked by index it has the same keys.
CheckedIsRead(docs, keys) ==
  \A d \in docs : Check(d) = "OK" =>
    LET members == IF Len(d) = 2 THEN {} ELSE Members(d)
    IN  /\ \A key \in keys :
             LET of == {k \in members : Short(d, k) /\ Key(d, k).text = key}
             IN  IF of = {} THEN Seek(d, key).status = "MISSING"
                 ELSE Seek(d, key) = [status |-> "FOUND", at |-> Least(of)]
        /\ \A k \in members : KeyAt(d, k, KeyMax + 1) = IF Short(d, k) THEN "FOUND" ELSE "TOO_LONG"
        /\ KeyAt(d, Cardinality(members), KeyMax + 1) = "MISSING"

\* Up to SeenKeys members no key is there twice.
OneOfEach(docs) ==
  \A d \in docs : Check(d) = "OK" /\ Len(d) > 2 /\ Cardinality(Members(d)) <= SeenKeys =>
    \A j, k \in Members(d) : Short(d, j) /\ Key(d, j).text = Key(d, k).text => j = k

\* Checked or not, what a getter hands on is a whole value of its type under
\* its key.
NothingHalf(docs, keys) ==
  \A d \in docs, key \in keys :
    LET k == Seek(d, key).at
    IN  /\ GetF32(d, key) = "FOUND" => Key(d, k).text = key /\ Value(d, k).is = "number" /\ Closed(d, k)
        /\ GetBool(d, key) = "FOUND" => Key(d, k).text = key /\ Value(d, k).is = "bool" /\ Closed(d, k)
        /\ GetU32(d, key) = "FOUND" => GetF32(d, key) = "FOUND" /\ Value(d, k).whole
        /\ GetI32(d, key) = "FOUND" => GetF32(d, key) = "FOUND" /\ Value(d, k).whole
=============================================================================
