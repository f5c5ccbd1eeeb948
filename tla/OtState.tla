------------------------------- MODULE OtState -------------------------------
(***************************************************************************)
(* components/ot_state: what the boiler said about every entity of the     *)
(* registry, with one set of "changed" marks for each consumer.  Every     *)
(* function of the component runs under one lock, so each is one operator  *)
(* on the whole model.  A decoded value is whatever Decode makes of an     *)
(* entity and the sixteen bits.                                            *)
(***************************************************************************)
EXTENDS Integers

CONSTANTS
  Ids,             \* Data-IDs
  Entities,
  Source,          \* Entities -> Ids, or Synthetic: written by the device itself
  Synthetic,
  Decode(_, _),
  UnsupportedAt,   \* so many UNKNOWN-DATAID in a row
  None             \* no value

ASSUME StateAssumption ==
  /\ UnsupportedAt \in Nat \ {0}
  /\ Source \in [Entities -> Ids \cup {Synthetic}] /\ Synthetic \notin Ids

Consumers == {"WEB", "MQTT"}

Unasked == [avail |-> "UNKNOWN", val |-> None]

\* ot_state_reset.
EmptyModel ==
  [value |-> [e \in Entities |-> Unasked], dirty |-> [c \in Consumers |-> {}],
   streak |-> [id \in Ids |-> 0], unsupported |-> {}, bounds |-> [id \in Ids |-> None]]

\* The one place a value is stored: marked for every consumer, on a change.
Store(m, new) ==
  [m EXCEPT !.value = [e \in Entities |-> IF e \in DOMAIN new THEN new[e] ELSE @[e]],
            !.dirty = [c \in Consumers |-> @[c] \cup {e \in DOMAIN new : new[e] # m.value[e]}]]

\* Mutant of Streak: an answer with data does not end the streak.
StreakKept(m, id, type) ==
  IF type = "UNKNOWN_DATAID" /\ m.streak[id] < UnsupportedAt THEN m.streak[id] + 1
  ELSE m.streak[id]

Streak(m, id, type) ==
  IF type # "UNKNOWN_DATAID" THEN 0
  ELSE IF m.streak[id] < UnsupportedAt THEN m.streak[id] + 1 ELSE m.streak[id]

Availability(type, unsupported) ==
  CASE type \in {"READ_ACK", "WRITE_ACK"} -> "OK"
    [] type = "DATA_INVALID" -> "INVALID"
    [] OTHER -> IF unsupported THEN "UNSUPPORTED" ELSE "UNKNOWN"

\* An answer reaches every entity that reads the identifier.  A type the
\* protocol does not provide for ends the streak and changes nothing else.
ApplyDataid(m, id, type, raw) ==
  LET streak == Streak(m, id, type)
      gone   == m.unsupported \cup (IF streak >= UnsupportedAt THEN {id} ELSE {})
      avail  == Availability(type, id \in gone)
      heard  == [m EXCEPT !.streak[id] = streak, !.unsupported = gone]
      read   == IF avail = "OK" THEN [heard EXCEPT !.bounds[id] = raw] ELSE heard
  IN  IF type \notin {"READ_ACK", "WRITE_ACK", "DATA_INVALID", "UNKNOWN_DATAID"} THEN heard
      ELSE Store(read, [e \in {x \in Entities : Source[x] = id} |->
                          [avail |-> avail, val |-> IF avail = "OK" THEN Decode(e, raw) ELSE None]])

\* The executor's own values; one of the boiler's comes from the wire alone.
SetVirtual(m, e, v) ==
  IF Source[e] = Synthetic THEN Store(m, [x \in {e} |-> [avail |-> "OK", val |-> v]]) ELSE m

TakeDirty(m, consumer, e) == [m EXCEPT !.dirty[consumer] = @ \ {e}]
==============================================================================
