------------------------------- MODULE OtAuth --------------------------------
(***************************************************************************)
(* From an Authorization header to an answer: components/ot_auth, and the  *)
(* password's stored record of ot_config_record.c.                         *)
(*                                                                         *)
(* A header is Absent, or [scheme, tokens]: scheme "" (blank), "Basic" in  *)
(* any case, or "Other"; the tokens are what blanks separate, each a       *)
(* sequence of base64 characters.  Such a character is its value 0..63,    *)
(* Equals, or Foreign.  A password is a sequence of bytes.  What the       *)
(* one-way function returns is its arguments: two derivations are equal    *)
(* when all three are.                                                     *)
(***************************************************************************)
EXTENDS Integers, Sequences, FiniteSets

CONSTANTS Absent, NoPassword

Equals  == 64
Foreign == 65
Nul     == 0
Colon   == 58

PassMax       == 128      \* OT_AUTH_PASS_MAX
EncodedMax    == 512
IterationsMax == 1000000  \* OT_CONFIG_KDF_ITERATIONS_MAX
SaltChars     == 32
DigestChars   == 64

-----------------------------------------------------------------------------
(* Base64.                                                                  *)

Pad(token) ==
  LET n == Len(token)
  IN  IF token[n] # Equals THEN 0 ELSE IF token[n - 1] # Equals THEN 1 ELSE 2

\* Whole groups, and padding nowhere but at the end.
Decodable(token) ==
  /\ token # <<>> /\ Len(token) % 4 = 0
  /\ \A i \in 1..Len(token) - Pad(token) : token[i] \in 0..63

\* Three bytes of every four characters; the padding's are not there.
Decoded(token) ==
  LET sextet(i) == IF token[i] \in 0..63 THEN token[i] ELSE 0
      byte(k) == LET i == 4 * ((k - 1) \div 3) + 1
                 IN  CASE k % 3 = 1 -> sextet(i) * 4 + sextet(i + 1) \div 16
                       [] k % 3 = 2 -> (sextet(i + 1) % 16) * 16 + sextet(i + 2) \div 4
                       [] k % 3 = 0 -> (sextet(i + 2) % 4) * 64 + sextet(i + 3)
  IN  [k \in 1..3 * (Len(token) \div 4) - Pad(token) |-> byte(k)]

\* sink_byte: what follows the first colon, and what the rest came to.
Sink(bytes) ==
  LET colons == {i \in DOMAIN bytes : bytes[i] = Colon}
      first  == CHOOSE i \in colons : \A j \in colons : i <= j
      secret == IF colons = {} THEN <<>> ELSE SubSeq(bytes, first + 1, Len(bytes))
  IN  [nul |-> \E i \in DOMAIN bytes : bytes[i] = Nul, colon |-> colons # {},
       too_long |-> Len(secret) > PassMax, password |-> secret]

\* ot_auth_parse.  A refusal leaves no password behind.
ParseHeader(header) ==
  LET refuse(why) == [status |-> why, password |-> <<>>]
      token == header.tokens[1]
      sink  == Sink(Decoded(token))
  IN  CASE header = Absent -> refuse("ABSENT")
        [] header # Absent /\ header.scheme = "" -> refuse("ABSENT")
        [] header # Absent /\ header.scheme = "Other" -> refuse("NOT_BASIC")
        [] header # Absent /\ header.scheme = "Basic" ->
             CASE Len(header.tokens) # 1 -> refuse("MALFORMED")
               [] Len(header.tokens) = 1 /\ Len(token) > EncodedMax -> refuse("TOO_LONG")
               [] OTHER -> IF ~Decodable(token) THEN refuse("MALFORMED")
                           ELSE IF sink.nul \/ ~sink.colon THEN refuse("MALFORMED")
                           ELSE IF sink.too_long THEN refuse("TOO_LONG")
                           ELSE [status |-> "OK", password |-> sink.password]

-----------------------------------------------------------------------------
(* The record: [version, digits, salt, digest].  `digits` are the decimal   *)
(* digits of the iterations; of the salt's text its length, whether all of  *)
(* it is hexadecimal, and what it says; `digest` is what was derived.       *)

\* -1 once a digit follows a number past the limit.
Count(digits) ==
  LET count[i \in 0..Len(digits)] ==
        CASE i = 0 -> 0
          [] i > 0 -> IF count[i - 1] = -1 \/ count[i - 1] > IterationsMax THEN -1
                      ELSE count[i - 1] * 10 + digits[i]
  IN  count[Len(digits)]

\* ot_config_parse_record.
Readable(record) ==
  /\ record.version = 1
  /\ Count(record.digits) \in 1..IterationsMax
  /\ record.salt.chars = SaltChars /\ record.salt.hex
  /\ record.digest.chars = DigestChars

\* to_hex of fresh random bytes.
SaltOf(value) == [chars |-> SaltChars, hex |-> TRUE, value |-> value]

Derive(secret, salt, iterations) ==
  [chars |-> DigestChars, of |-> <<secret, salt.value, iterations>>]

Digits(n) ==
  LET width == CHOOSE w \in 1..9 : n < 10^w /\ (w = 1 \/ n >= 10^(w - 1))
  IN  [i \in 1..width |-> (n \div 10^(width - i)) % 10]

\* ot_config_hash_password; nothing for a count the parser would refuse.
HashPassword(secret, salt, iterations) ==
  IF iterations > IterationsMax THEN NoPassword
  ELSE [version |-> 1, digits |-> Digits(iterations), salt |-> salt,
        digest |-> Derive(secret, salt, iterations)]

\* ot_config_check_ui_password_against.
Matches(record, candidate) ==
  /\ candidate # <<>>
  /\ record # NoPassword
  /\ Readable(record)
  /\ record.digest = Derive(candidate, record.salt, Count(record.digits))

-----------------------------------------------------------------------------
\* ot_auth_check: with nothing stored no header is looked at; an attempt that
\* was made and failed is to wait.
AuthCheck(header, record) ==
  LET parsed == ParseHeader(header)
  IN  IF record = NoPassword THEN [result |-> "NO_PASSWORD", delay |-> FALSE, header |-> "ABSENT"]
      ELSE IF parsed.status = "ABSENT" THEN [result |-> "DENIED", delay |-> FALSE, header |-> "ABSENT"]
      ELSE IF parsed.status = "OK" /\ Matches(record, parsed.password)
      THEN [result |-> "GRANTED", delay |-> FALSE, header |-> "OK"]
      ELSE [result |-> "DENIED", delay |-> TRUE, header |-> parsed.status]

-----------------------------------------------------------------------------
(* What a browser sends, and the claims over it.                            *)

\* RFC 4648, of bytes.
Base64(bytes) ==
  LET n == Len(bytes)
      at(i) == IF i <= n THEN bytes[i] ELSE 0
      char(c) == LET i == 3 * ((c - 1) \div 4) + 1
                 IN  CASE c % 4 = 1 -> at(i) \div 4
                       [] c % 4 = 2 -> (at(i) % 4) * 16 + at(i + 1) \div 16
                       [] c % 4 = 3 -> IF i + 1 > n THEN Equals ELSE (at(i + 1) % 16) * 4 + at(i + 2) \div 64
                       [] c % 4 = 0 -> IF i + 2 > n THEN Equals ELSE at(i + 2) % 64
  IN  [c \in 1..4 * ((n + 2) \div 3) |-> char(c)]

Basic(name, secret) ==
  [scheme |-> "Basic", tokens |-> <<Base64(name \o <<Colon>> \o secret)>>]

\* The password arrives whole, colons included, whatever name is before it,
\* and opens the device it was set on and no other.
OwnerGetsIn(names, passwords, salts) ==
  \A n \in names, p \in passwords, s \in salts :
    LET record == HashPassword(p, s, 10000)
    IN  /\ ParseHeader(Basic(n, p)) = [status |-> "OK", password |-> p]
        /\ Readable(record)
        /\ AuthCheck(Basic(n, p), record).result = "GRANTED"
        /\ \A q \in passwords \ {p} : AuthCheck(Basic(n, q), record).result = "DENIED"

\* What the device would write it can read, and of every other count nothing.
RecordsAreRead(counts) ==
  \A c \in counts : LET record == HashPassword(<<1>>, SaltOf("a"), c)
                    IN  IF c > IterationsMax THEN record = NoPassword
                        ELSE (Readable(record) <=> c > 0) /\ (c > 0 => Matches(record, <<1>>))
=============================================================================
