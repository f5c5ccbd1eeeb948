----------------------------- MODULE OtWs_proofs ------------------------------
(***************************************************************************)
(* Proofs about OtWs, for any number of sockets, descriptors, entities and *)
(* tickets, and every order of answers, handshakes, lost frames, closed    *)
(* sessions and pieces of work:                                            *)
(*                                                                         *)
(*   PagesServed         an open page shows what the store holds, or what  *)
(*                       it does not show has a mark still to be served    *)
(*   TicketsOnce         a socket opens on a young, unspent ticket         *)
(*   GivenUpAfterARow    an identifier is given up after a whole row of    *)
(*                       UNKNOWN-DATAID                                    *)
(*                                                                         *)
(* The first is inductive once it is known that a descriptor stands in the *)
(* list once, that work which takes marks begins with none in hand, and    *)
(* that while it runs everybody on the list has had the whole state.       *)
(***************************************************************************)
EXTENDS OtWs, TLAPS, SequenceTheorems

IsModel(m) ==
  /\ DOMAIN m = {"value", "dirty", "streak", "unsupported", "bounds"}
  /\ m.streak \in [Ids -> 0..UnsupportedAt] /\ DOMAIN m.dirty = Consumers

\* No descriptor stands in the list twice.
Listed ==
  /\ client \in [Slots -> [fd : Fds \cup {Free}, snapshot : BOOLEAN, due : BOOLEAN]]
  /\ sess \in [Fds -> {"closed", "http", "ws", "closing"}]
  /\ \A s, o \in Slots : client[s].fd = client[o].fd /\ client[s].fd # Free => s = o

\* Work has marks in hand only between taking and sending them, and nobody
\* joins the list while it runs.
Working ==
  /\ phase \in {"none", "take", "delta", "ping"} /\ (phase \in {"none", "ping"} => mask = {})
  /\ phase # "none" => \A s \in Slots : client[s].fd # Free => client[s].snapshot

IInv == IsModel(model) /\ Listed /\ Working /\ PageCurrentOrOwed

Record == [age : Nat, spent : BOOLEAN]

\* A live ticket is one that was issued, is unspent and is as old as it looks.
Serials ==
  /\ issued \in Seq(Record)
  /\ tickets \in [1..TicketSlots -> [value : Nat, age : Nat, live : BOOLEAN]]
  /\ \A s \in 1..TicketSlots : tickets[s].live =>
       /\ tickets[s].value \in DOMAIN issued
       /\ ~issued[tickets[s].value].spent /\ issued[tickets[s].value].age = tickets[s].age

\* A streak is a row of answers, the newest first.
Rows ==
  /\ DOMAIN heard = Ids
  /\ \A id \in Ids : \A n \in 1..model.streak[id] : heard[id][n] = "UNKNOWN_DATAID"

-----------------------------------------------------------------------------
(* The store.                                                               *)

LEMMA StoreMarks ==
  ASSUME NEW m, IsModel(m), NEW new, DOMAIN new \subseteq Entities
  PROVE  LET s == Store(m, new)
         IN  /\ IsModel(s) /\ s.streak = m.streak /\ s.unsupported = m.unsupported
             /\ \A e \in Entities : /\ s.value[e] = m.value[e] \/ e \in s.dirty["WEB"]
                                    /\ e \in m.dirty["WEB"] => e \in s.dirty["WEB"]
<1> DEFINE s == Store(m, new)
<1>1. /\ DOMAIN s = DOMAIN m /\ s.streak = m.streak /\ s.unsupported = m.unsupported
      /\ s.value = [e \in Entities |-> IF e \in DOMAIN new THEN new[e] ELSE m.value[e]]
      /\ s.dirty = [c \in Consumers |-> m.dirty[c] \cup {e \in DOMAIN new : new[e] # m.value[e]}]
  BY DEF Store, IsModel
<1>2. "WEB" \in Consumers
  BY DEF Consumers
<1> HIDE DEF s
<1>3. s.dirty["WEB"] = m.dirty["WEB"] \cup {e \in DOMAIN new : new[e] # m.value[e]}
  BY <1>1, <1>2
<1>4. \A e \in Entities : s.value[e] = m.value[e] \/ e \in s.dirty["WEB"]
  BY <1>1, <1>3
<1>5. IsModel(s)
  BY <1>1 DEF IsModel
<1> QED BY <1>1, <1>3, <1>4, <1>5 DEF s

\* The identifier's streak after an answer, and what it makes of it.
Counts(m, s, id, n) ==
  /\ s.streak = [m.streak EXCEPT ![id] = n]
  /\ s.unsupported = m.unsupported \cup (IF n >= UnsupportedAt THEN {id} ELSE {})

LEMMA AnswerMarks ==
  ASSUME NEW m, IsModel(m), NEW id \in Ids, NEW type, NEW raw
  PROVE  LET s == ApplyDataid(m, id, type, raw)
         IN  /\ IsModel(s) /\ Counts(m, s, id, Streak(m, id, type))
             /\ \A e \in Entities : /\ s.value[e] = m.value[e] \/ e \in s.dirty["WEB"]
                                    /\ e \in m.dirty["WEB"] => e \in s.dirty["WEB"]
<1> DEFINE streak == Streak(m, id, type)
           gone   == m.unsupported \cup (IF streak >= UnsupportedAt THEN {id} ELSE {})
           avail  == Availability(type, id \in gone)
           heared == [m EXCEPT !.streak[id] = streak, !.unsupported = gone]
           read   == IF avail = "OK" THEN [heared EXCEPT !.bounds[id] = raw] ELSE heared
           new    == [e \in {x \in Entities : Source[x] = id} |->
                        [avail |-> avail, val |-> IF avail = "OK" THEN Decode(e, raw) ELSE None]]
           s      == ApplyDataid(m, id, type, raw)
<1>1. streak \in 0..UnsupportedAt
  BY StateAssumption DEF Streak, IsModel
<1>2. s = heared \/ s = Store(read, new)
  BY DEF ApplyDataid
<1> HIDE DEF streak
<1>3. IsModel(heared) /\ heared.streak = [m.streak EXCEPT ![id] = streak]
      /\ heared.unsupported = gone /\ heared.value = m.value /\ heared.dirty = m.dirty
  <2> HIDE DEF gone
  <2> QED BY <1>1 DEF IsModel
<1> HIDE DEF heared, gone
<1>4. IsModel(read) /\ read.streak = heared.streak /\ read.unsupported = heared.unsupported
      /\ read.value = m.value /\ read.dirty = m.dirty
  <2> HIDE DEF avail
  <2> QED BY <1>3 DEF IsModel
<1>5. DOMAIN new \subseteq Entities
  OBVIOUS
<1> HIDE DEF s, read, new
<1>6. CASE s = heared
  BY <1>3, <1>6 DEF streak, gone, s, Counts
<1>7. CASE s = Store(read, new)
  BY <1>3, <1>4, <1>5, <1>7, StoreMarks DEF streak, gone, s, Counts
<1> QED BY <1>2, <1>6, <1>7

LEMMA VirtualMarks ==
  ASSUME NEW m, IsModel(m), NEW e \in Entities, NEW v
  PROVE  LET s == SetVirtual(m, e, v)
         IN  /\ IsModel(s) /\ s.streak = m.streak /\ s.unsupported = m.unsupported
             /\ \A x \in Entities : /\ s.value[x] = m.value[x] \/ x \in s.dirty["WEB"]
                                    /\ x \in m.dirty["WEB"] => x \in s.dirty["WEB"]
<1>1. DOMAIN [x \in {e} |-> [avail |-> "OK", val |-> v]] \subseteq Entities
  OBVIOUS
<1> QED BY <1>1, StoreMarks DEF SetVirtual
-----------------------------------------------------------------------------
(* The page.                                                                *)

\* What an open session is owed: a place in the list, and a mark for whatever
\* its page, which has had the whole state, does not show.
Served(f) ==
  \E s \in Slots :
    /\ client[s].fd = f
    /\ client[s].snapshot => \A e \in Entities :
         shown[f][e] = model.value[e] \/ e \in model.dirty["WEB"] \cup mask

\* The list after pruning keeps the places of the open sessions.
LEMMA Pruned ==
  ASSUME Listed
  PROVE  /\ Prune \in [Slots -> [fd : Fds \cup {Free}, snapshot : BOOLEAN, due : BOOLEAN]]
         /\ \A s \in Slots : /\ Prune[s] = Gone \/ Prune[s] = client[s]
                             /\ client[s].fd \in Fds /\ sess[client[s].fd] = "ws" => Prune[s] = client[s]
                             /\ Prune[s].fd = Free \/ sess[Prune[s].fd] \in {"ws", "closing"}
         /\ Gone.fd = Free /\ Gone \in [fd : Fds \cup {Free}, snapshot : BOOLEAN, due : BOOLEAN]
<1>1. Gone.fd = Free /\ Gone \in [fd : Fds \cup {Free}, snapshot : BOOLEAN, due : BOOLEAN]
  BY DEF Gone
<1>2. \A s \in Slots : Prune[s] = IF client[s].fd # Free /\ sess[client[s].fd] \notin {"ws", "closing"}
                                  THEN Gone ELSE client[s]
  BY DEF Prune
<1>3. Prune = [s \in Slots |-> Prune[s]]
  BY DEF Prune
<1>4. \A s \in Slots : client[s] \in [fd : Fds \cup {Free}, snapshot : BOOLEAN, due : BOOLEAN]
  BY DEF Listed
<1> HIDE DEF Listed
<1> QED BY <1>1, <1>2, <1>3, <1>4

\* A change of the store marks what it changes.
LEMMA StoreChanges ==
  ASSUME IInv, IsModel(model'), UNCHANGED <<client, sess, phase, mask, shown>>,
         \A e \in Entities : /\ model'.value[e] = model.value[e] \/ e \in model'.dirty["WEB"]
                             /\ e \in model.dirty["WEB"] => e \in model'.dirty["WEB"]
  PROVE  IInv'
<1>1. Listed' /\ Working'
  BY DEF IInv, Listed, Working
<1>2. ASSUME NEW f \in Fds, sess[f] = "ws", Served(f)
      PROVE  Served(f)'
  <2>1. PICK s \in Slots : /\ client[s].fd = f
                           /\ client[s].snapshot => \A e \in Entities :
                                shown[f][e] = model.value[e] \/ e \in model.dirty["WEB"] \cup mask
    BY <1>2 DEF Served
  <2> QED BY <2>1 DEF Served
<1>3. PageCurrentOrOwed'
  BY <1>2 DEF IInv, PageCurrentOrOwed, Served
<1> QED BY <1>1, <1>3 DEF IInv, IsModel

\* Sessions may end, and time may pass for those that stay.
LEMMA SessionChanges ==
  ASSUME IInv, UNCHANGED <<model, phase, mask>>,
         client' \in [Slots -> [fd : Fds \cup {Free}, snapshot : BOOLEAN, due : BOOLEAN]],
         \A s \in Slots : client'[s].fd = client[s].fd /\ client'[s].snapshot = client[s].snapshot,
         sess' \in [Fds -> {"closed", "http", "ws", "closing"}],
         \A f \in Fds : sess'[f] = "ws" => sess[f] = "ws" /\ shown'[f] = shown[f]
  PROVE  IInv'
<1>1. Listed' /\ Working' /\ IsModel(model)'
  BY DEF IInv, Listed, Working, IsModel
<1>2. ASSUME NEW f \in Fds, sess'[f] = "ws"
      PROVE  Served(f)'
  <2>1. Served(f) /\ shown'[f] = shown[f]
    BY <1>2 DEF IInv, PageCurrentOrOwed, Served
  <2>2. PICK s \in Slots : /\ client[s].fd = f
                           /\ client[s].snapshot => \A e \in Entities :
                                shown[f][e] = model.value[e] \/ e \in model.dirty["WEB"] \cup mask
    BY <2>1 DEF Served
  <2> QED BY <2>1, <2>2 DEF Served
<1>3. PageCurrentOrOwed'
  BY <1>2 DEF PageCurrentOrOwed, Served
<1> QED BY <1>1, <1>3 DEF IInv

\* An open session after a frame to `to`.
Shows(list, to, items, s) ==
  /\ sess[list[s].fd] = "ws" /\ client'[s].fd = list[s].fd
  /\ s \notin to => client'[s] = list[s] /\ shown'[list[s].fd] = shown[list[s].fd]
  /\ s \in to => \A e \in Entities :
       shown'[list[s].fd][e] = IF e \in items THEN model.value[e] ELSE shown[list[s].fd][e]

\* What a frame leaves of the list, the sessions and the pages.
LEMMA Sent ==
  ASSUME NEW list \in [Slots -> [fd : Fds \cup {Free}, snapshot : BOOLEAN, due : BOOLEAN]],
         \A s, o \in Slots : list[s].fd = list[o].fd /\ list[s].fd # Free => s = o,
         sess \in [Fds -> {"closed", "http", "ws", "closing"}],
         NEW to \in SUBSET Seen(list), NEW failed \in SUBSET to, NEW items,
         SendTo(list, to, failed, items)
  PROVE  /\ Listed'
         /\ \A s \in Slots : client'[s].fd # Free =>
              /\ client'[s].fd = list[s].fd /\ (list[s].snapshot => client'[s].snapshot)
              /\ s \in to => client'[s].snapshot
         /\ \A s \in Slots : sess'[list[s].fd] = "ws" /\ list[s].fd # Free => Shows(list, to, items, s)
         /\ \A f \in Fds : sess'[f] = "ws" => sess[f] = "ws"
<1>1. /\ client' = [s \in Slots |-> IF s \notin to THEN list[s] ELSE IF s \in failed THEN Gone
                                    ELSE [fd |-> list[s].fd, snapshot |-> TRUE, due |-> FALSE]]
      /\ sess' = [f \in Fds |-> IF \E s \in failed : list[s].fd = f THEN "closing" ELSE sess[f]]
      /\ shown' = [f \in Fds |->
           IF \E s \in to \ failed : list[s].fd = f
           THEN [e \in Entities |-> IF e \in items THEN model.value[e] ELSE shown[f][e]]
           ELSE shown[f]]
  BY DEF SendTo
<1>2. \A s \in Slots : /\ list[s].fd \in Fds \cup {Free}
                       /\ s \in to => list[s].fd \in Fds /\ list[s].fd # Free
  BY WsAssumption DEF Seen
<1>3. Gone.fd = Free /\ Gone \in [fd : Fds \cup {Free}, snapshot : BOOLEAN, due : BOOLEAN]
  BY DEF Gone
<1>4. \A s \in Slots : client'[s].fd # Free =>
        /\ client'[s].fd = list[s].fd /\ (list[s].snapshot => client'[s].snapshot)
        /\ s \in to => client'[s].snapshot
  BY <1>1, <1>3
<1>5. Listed'
  <2>1. client' \in [Slots -> [fd : Fds \cup {Free}, snapshot : BOOLEAN, due : BOOLEAN]]
    <3>1. \A s \in Slots : [fd |-> list[s].fd, snapshot |-> TRUE, due |-> FALSE]
                             \in [fd : Fds \cup {Free}, snapshot : BOOLEAN, due : BOOLEAN]
      BY <1>2
    <3> QED BY <1>1, <1>3, <3>1
  <2>2. sess' \in [Fds -> {"closed", "http", "ws", "closing"}]
    BY <1>1
  <2> QED BY <1>4, <2>1, <2>2 DEF Listed
<1>6. ASSUME NEW s \in Slots, sess'[list[s].fd] = "ws", list[s].fd # Free
      PROVE  Shows(list, to, items, s)
  <2>1. list[s].fd \in Fds
    BY <1>2, <1>6
  <2>2. s \notin failed /\ sess[list[s].fd] = "ws"
    BY <1>1, <1>6, <2>1
  <2>3. (\E o \in to \ failed : list[o].fd = list[s].fd) <=> s \in to
    <3>1. to \subseteq Slots
      BY DEF Seen
    <3> QED BY <1>6, <2>2, <3>1
  <2>4. s \notin to => client'[s] = list[s] /\ shown'[list[s].fd] = shown[list[s].fd]
    BY <1>1, <2>1, <2>3
  <2>5. s \in to => /\ client'[s].fd = list[s].fd
                    /\ shown'[list[s].fd] = [e \in Entities |-> IF e \in items THEN model.value[e]
                                                               ELSE shown[list[s].fd][e]]
    BY <1>1, <2>1, <2>2, <2>3
  <2> QED BY <2>2, <2>4, <2>5 DEF Shows
<1>7. \A f \in Fds : sess'[f] = "ws" => sess[f] = "ws"
  BY <1>1
<1> QED BY <1>4, <1>5, <1>6, <1>7

-----------------------------------------------------------------------------
(* One lemma for each step.                                                 *)

LEMMA Initially == WInit => IInv
<1> SUFFICES ASSUME WInit PROVE IInv
  OBVIOUS
<1>1. IsModel(model)
  BY StateAssumption DEF WInit, EmptyModel, IsModel
<1>2. \A s \in Slots : client[s] = Gone
  BY DEF WInit
<1>3. Listed
  <2>1. Gone.fd = Free /\ Gone \in [fd : Fds \cup {Free}, snapshot : BOOLEAN, due : BOOLEAN]
    BY DEF Gone
  <2> QED BY <1>2, <2>1 DEF WInit, Listed
<1>4. Working
  BY DEF WInit, Working
<1>5. PageCurrentOrOwed
  BY DEF WInit, PageCurrentOrOwed
<1> QED BY <1>1, <1>3, <1>4, <1>5 DEF IInv

LEMMA HearKeeps == IInv /\ Hear => IInv'
<1> SUFFICES ASSUME IInv, Hear PROVE IInv'
  OBVIOUS
<1>1. PICK a \in Answers : model' = ApplyDataid(model, a.id, a.type, a.raw)
  BY DEF Hear
<1>2. a.id \in Ids /\ IsModel(model)
  BY WsAssumption DEF IInv
<1>3. /\ IsModel(model')
      /\ \A e \in Entities : /\ model'.value[e] = model.value[e] \/ e \in model'.dirty["WEB"]
                             /\ e \in model.dirty["WEB"] => e \in model'.dirty["WEB"]
  BY <1>1, <1>2, AnswerMarks
<1>4. UNCHANGED <<client, sess, phase, mask, shown>>
  BY DEF Hear
<1> QED BY <1>3, <1>4, StoreChanges

LEMMA DecidedKeeps == IInv /\ Decided => IInv'
<1> SUFFICES ASSUME IInv, Decided PROVE IInv'
  OBVIOUS
<1>1. PICK v \in Virtuals : model' = SetVirtual(model, v.entity, v.val)
  BY DEF Decided
<1>2. v.entity \in Entities /\ IsModel(model)
  BY WsAssumption DEF IInv
<1>3. /\ IsModel(model')
      /\ \A e \in Entities : /\ model'.value[e] = model.value[e] \/ e \in model'.dirty["WEB"]
                             /\ e \in model.dirty["WEB"] => e \in model'.dirty["WEB"]
  BY <1>1, <1>2, VirtualMarks
<1>4. UNCHANGED <<client, sess, phase, mask, shown>>
  BY DEF Decided
<1> QED BY <1>3, <1>4, StoreChanges

LEMMA SessionsKeep ==
  IInv /\ (Tick \/ TickRefused \/ Open \/ PostTicket \/ Second \/ \E f \in Fds : End(f)) => IInv'
<1> SUFFICES ASSUME IInv,
                    Tick \/ TickRefused \/ Open \/ PostTicket \/ Second \/ \E f \in Fds : End(f)
             PROVE  IInv'
  OBVIOUS
<1>1. UNCHANGED <<model, phase, mask>>
  BY DEF Tick, TickRefused, Open, PostTicket, Second, End
<1>2. Listed
  BY DEF IInv
<1>3. /\ sess' \in [Fds -> {"closed", "http", "ws", "closing"}]
      /\ \A f \in Fds : sess'[f] = "ws" => sess[f] = "ws" /\ shown'[f] = shown[f]
  <2>1. CASE Tick \/ TickRefused \/ PostTicket \/ Second
    BY <1>2, <2>1 DEF Tick, TickRefused, PostTicket, Second, Listed
  <2>2. CASE Open
    BY <1>2, <2>2 DEF Open, Listed
  <2>3. CASE \E f \in Fds : End(f)
    <3>1. PICK g \in Fds : End(g)
      BY <2>3
    <3>2. /\ sess' = [sess EXCEPT ![g] = "closed"] /\ shown' = [shown EXCEPT ![g] = Nothing]
      BY <3>1 DEF End
    <3>3. \A f \in Fds : f # g => shown'[f] = shown[f]
      BY <3>2
    <3> QED BY <1>2, <3>2, <3>3 DEF Listed
  <2> QED BY <2>1, <2>2, <2>3
<1>4. /\ client' \in [Slots -> [fd : Fds \cup {Free}, snapshot : BOOLEAN, due : BOOLEAN]]
      /\ \A s \in Slots : client'[s].fd = client[s].fd /\ client'[s].snapshot = client[s].snapshot
  <2>1. CASE Second
    <3>1. client' = [s \in Slots |-> IF client[s].fd # Free THEN [client[s] EXCEPT !.due = TRUE]
                                     ELSE client[s]]
      BY <2>1 DEF Second
    <3> QED BY <1>2, <3>1 DEF Listed
  <2>2. CASE ~Second
    BY <1>2, <2>2 DEF Tick, TickRefused, Open, PostTicket, End, Listed
  <2> QED BY <2>1, <2>2
<1> QED BY <1>1, <1>3, <1>4, SessionChanges

\* A list that holds the open sessions' places, each as it was, serves them.
LEMMA PlacesKept ==
  ASSUME IInv, UNCHANGED <<model, mask>>, NEW f \in Fds, sess[f] = "ws", shown'[f] = shown[f],
         \A s \in Slots : client[s].fd = f => client'[s] = client[s]
  PROVE  Served(f)'
<1>1. Served(f)
  BY DEF IInv, PageCurrentOrOwed, Served
<1>2. PICK s \in Slots : /\ client[s].fd = f
                         /\ client[s].snapshot => \A e \in Entities :
                              shown[f][e] = model.value[e] \/ e \in model.dirty["WEB"] \cup mask
  BY <1>1 DEF Served
<1>3. client'[s] = client[s]
  BY <1>2
<1> QED BY <1>2, <1>3 DEF Served

LEMMA HandshakeKeeps == ASSUME IInv, NEW f \in Fds, NEW v \in DOMAIN issued, Handshake(f, v) PROVE IInv'
<1> DEFINE Clients == [Slots -> [fd : Fds \cup {Free}, snapshot : BOOLEAN, due : BOOLEAN]]
<1>1. /\ Listed /\ IsModel(model) /\ phase = "none" /\ sess[f] = "http"
      /\ UNCHANGED <<model, mask, phase>> /\ Working
  BY DEF IInv, Handshake, Between
<1>2. /\ Prune \in Clients
      /\ \A s \in Slots : /\ Prune[s] = Gone \/ Prune[s] = client[s]
                          /\ client[s].fd \in Fds /\ sess[client[s].fd] = "ws" => Prune[s] = client[s]
                          /\ Prune[s].fd = Free \/ sess[Prune[s].fd] \in {"ws", "closing"}
      /\ Gone.fd = Free /\ Gone \in [fd : Fds \cup {Free}, snapshot : BOOLEAN, due : BOOLEAN]
  BY <1>1, Pruned
<1>3. Free \notin Fds
  BY WsAssumption
<1>4. IsModel(model)' /\ Working'
  BY <1>1 DEF IsModel, Working
<1>5. sess' \in [Fds -> {"closed", "http", "ws", "closing"}] /\ \A g \in Fds : g # f => sess'[g] = sess[g] /\ shown'[g] = shown[g]
  <2>1. /\ shown' = [shown EXCEPT ![f] = Nothing]
        /\ sess' = [sess EXCEPT ![f] = "closed"] \/ sess' = [sess EXCEPT ![f] = "ws"]
    BY DEF Handshake
  <2>2. \A g \in Fds : g # f => shown'[g] = shown[g]
    BY <2>1
  <2> QED BY <1>1, <2>1, <2>2 DEF Listed
<1>6. CASE client' = Prune /\ sess'[f] # "ws"
  <2>1. Listed'
    BY <1>1, <1>2, <1>5, <1>6 DEF Listed
  <2>2. ASSUME NEW g \in Fds, sess'[g] = "ws" PROVE Served(g)'
    <3>1. g # f /\ sess[g] = "ws" /\ shown'[g] = shown[g]
      BY <1>5, <1>6, <2>2
    <3>2. \A s \in Slots : client[s].fd = g => client'[s] = client[s]
      BY <1>2, <1>6, <3>1
    <3> QED BY <1>1, <3>1, <3>2, PlacesKept
  <2>3. PageCurrentOrOwed'
    BY <2>2 DEF PageCurrentOrOwed, Served
  <2> QED BY <1>4, <2>1, <2>3 DEF IInv
<1>7. CASE ~(client' = Prune /\ sess'[f] # "ws")
  <2>1. PICK s \in RoomIn(Prune) : client' = IF \E o \in Slots : Prune[o].fd = f THEN Prune
                                             ELSE [Prune EXCEPT ![s] = [Gone EXCEPT !.fd = f]]
    <3>1. ~(sess' = [sess EXCEPT ![f] = "closed"] /\ client' = Prune)
      BY <1>1, <1>7 DEF Listed
    <3> QED BY <3>1 DEF Handshake
  <2>2. s \in Slots /\ Prune[s].fd = Free
    BY DEF RoomIn
  <2>3. ~ \E o \in Slots : Prune[o].fd = f
    BY <1>1, <1>2, <1>3
  <2> DEFINE new == [Gone EXCEPT !.fd = f]
  <2>4. new.fd = f /\ ~new.snapshot /\ new \in [fd : Fds \cup {Free}, snapshot : BOOLEAN, due : BOOLEAN]
    BY DEF Gone
  <2>5. client' = [Prune EXCEPT ![s] = new]
    BY <2>1, <2>3
  <2> HIDE DEF new
  <2>6. client'[s] = new /\ client' \in Clients /\ \A o \in Slots : o # s => client'[o] = Prune[o]
    BY <1>2, <2>2, <2>4, <2>5
  <2>7. Listed'
    BY <1>1, <1>2, <1>5, <2>3, <2>4, <2>6 DEF Listed
  <2>8. ASSUME NEW g \in Fds, sess'[g] = "ws" PROVE Served(g)'
    <3>1. CASE g = f
      BY <2>2, <2>4, <2>6, <3>1 DEF Served
    <3>2. CASE g # f
      <4>1. sess[g] = "ws" /\ shown'[g] = shown[g]
        BY <1>5, <2>8, <3>2
      <4>2. \A o \in Slots : client[o].fd = g => client'[o] = client[o]
        BY <1>2, <1>3, <2>2, <2>6, <4>1
      <4> QED BY <1>1, <4>1, <4>2, PlacesKept
    <3> QED BY <3>1, <3>2
  <2>9. PageCurrentOrOwed'
    BY <2>8 DEF PageCurrentOrOwed, Served
  <2> QED BY <1>4, <2>7, <2>9 DEF IInv
<1> QED BY <1>6, <1>7

LEMMA NobodyKeeps == IInv /\ WorkForNobody => IInv'
<1> SUFFICES ASSUME IInv, WorkForNobody PROVE IInv'
  OBVIOUS
<1>1. /\ Listed /\ IsModel(model) /\ Working /\ client' = Prune /\ Seen(Prune) = {}
      /\ UNCHANGED <<model, mask, phase, sess, shown>>
  BY DEF IInv, WorkForNobody
<1>2. /\ Prune \in [Slots -> [fd : Fds \cup {Free}, snapshot : BOOLEAN, due : BOOLEAN]]
      /\ \A s \in Slots : client[s].fd \in Fds /\ sess[client[s].fd] = "ws" => Prune[s] = client[s]
  BY <1>1, Pruned
<1>3. \A s \in Slots : client'[s].fd = Free
  BY <1>1 DEF Seen
<1>4. Listed' /\ Working' /\ IsModel(model)'
  BY <1>1, <1>2, <1>3 DEF Listed, Working, IsModel
<1>5. ASSUME NEW f \in Fds, sess'[f] = "ws" PROVE Served(f)'
  <2>1. \A s \in Slots : client[s].fd = f => client'[s] = client[s]
    BY <1>1, <1>2, <1>5
  <2> QED BY <1>1, <1>5, <2>1, PlacesKept
<1>6. PageCurrentOrOwed'
  BY <1>5 DEF PageCurrentOrOwed, Served
<1> QED BY <1>4, <1>6 DEF IInv

\* After a frame to `to`, an open session that keeps its place is served: by
\* the frame, if it carried what was owed, else by what served it before.
LEMMA FramesServe ==
  ASSUME IInv, NEW f \in Fds, sess'[f] = "ws", UNCHANGED model,
         NEW list \in [Slots -> [fd : Fds \cup {Free}, snapshot : BOOLEAN, due : BOOLEAN]],
         \A s, o \in Slots : list[s].fd = list[o].fd /\ list[s].fd # Free => s = o,
         \A s \in Slots : client[s].fd \in Fds /\ sess[client[s].fd] = "ws" => list[s] = client[s],
         NEW to \in SUBSET Seen(list), NEW failed \in SUBSET to, NEW items,
         SendTo(list, to, failed, items),
         (\A s \in to : list[s].snapshot) \/ Entities \subseteq items,
         mask \subseteq mask' \/ (mask \subseteq items /\ \A s \in Seen(list) : s \in to)
  PROVE  Served(f)'
<1>1. \A s \in Slots : sess'[list[s].fd] = "ws" /\ list[s].fd # Free => Shows(list, to, items, s)
  <2>1. sess \in [Fds -> {"closed", "http", "ws", "closing"}]
    BY DEF IInv, Listed
  <2> HIDE DEF IInv
  <2> QED BY <2>1, Sent
<1>2. sess[f] = "ws" /\ f # Free
  BY WsAssumption DEF SendTo
<1>3. Served(f)
  BY <1>2 DEF IInv, PageCurrentOrOwed, Served
<1>4. PICK s \in Slots : /\ client[s].fd = f
                         /\ client[s].snapshot => \A e \in Entities :
                              shown[f][e] = model.value[e] \/ e \in model.dirty["WEB"] \cup mask
  BY <1>3 DEF Served
<1>5. list[s] = client[s] /\ s \in Seen(list) /\ list[s].fd = f
  BY <1>2, <1>4 DEF Seen
<1>6. CASE s \notin to
  <2>1. client'[s] = client[s] /\ shown'[f] = shown[f] /\ mask \subseteq mask'
    BY <1>1, <1>2, <1>5, <1>6 DEF Shows
  <2> QED BY <1>4, <2>1 DEF Served
<1>7. CASE s \in to
  <2>1. client'[s].fd = f /\ \A e \in Entities :
          shown'[f][e] = IF e \in items THEN model.value[e] ELSE shown[f][e]
    BY <1>1, <1>2, <1>5, <1>7 DEF Shows
  <2>2. ASSUME NEW e \in Entities
        PROVE  shown'[f][e] = model'.value[e] \/ e \in model'.dirty["WEB"] \cup mask'
    <3>1. e \in items \/ client[s].snapshot
      BY <1>5, <1>7
    <3>2. e \in items \/ shown[f][e] = model.value[e] \/ e \in model.dirty["WEB"] \cup mask
      BY <1>4, <3>1
    <3> QED BY <2>1, <3>2
  <2> QED BY <2>1, <2>2 DEF Served
<1> QED BY <1>6, <1>7

LEMMA BeginsKeeps == IInv /\ WorkBegins => IInv'
<1> SUFFICES ASSUME IInv, WorkBegins PROVE IInv'
  OBVIOUS
<1> DEFINE to == {s \in Seen(Prune) : ~Prune[s].snapshot}
<1>1. PICK failed \in SUBSET to : SendTo(Prune, to, failed, Entities)
  BY DEF WorkBegins
<1>2. /\ Listed /\ IsModel(model) /\ UNCHANGED model /\ phase' = "take" /\ mask = {} /\ mask' = {}
  BY DEF IInv, WorkBegins, Working, Between
<1>3. /\ Prune \in [Slots -> [fd : Fds \cup {Free}, snapshot : BOOLEAN, due : BOOLEAN]]
      /\ \A s \in Slots : /\ Prune[s] = Gone \/ Prune[s] = client[s]
                          /\ client[s].fd \in Fds /\ sess[client[s].fd] = "ws" => Prune[s] = client[s]
      /\ Gone.fd = Free
  BY <1>2, Pruned
<1>4. /\ \A s, o \in Slots : Prune[s].fd = Prune[o].fd /\ Prune[s].fd # Free => s = o
      /\ sess \in [Fds -> {"closed", "http", "ws", "closing"}] /\ to \in SUBSET Seen(Prune)
  BY <1>2, <1>3 DEF Listed
<1>5. \A s \in Slots : s \in to \/ Prune[s].fd = Free \/ Prune[s].snapshot
  BY DEF Seen
<1> HIDE DEF to
<1>6. /\ Listed'
      /\ \A s \in Slots : client'[s].fd # Free =>
           /\ client'[s].fd = Prune[s].fd /\ (Prune[s].snapshot => client'[s].snapshot)
           /\ s \in to => client'[s].snapshot
  BY <1>1, <1>3, <1>4, Sent
<1>7. Working'
  BY <1>2, <1>5, <1>6 DEF Working
<1>8. ASSUME NEW f \in Fds, sess'[f] = "ws" PROVE Served(f)'
  BY <1>1, <1>2, <1>3, <1>4, <1>8, FramesServe
<1>9. PageCurrentOrOwed'
  BY <1>8 DEF PageCurrentOrOwed, Served
<1> QED BY <1>2, <1>6, <1>7, <1>9 DEF IInv, IsModel

\* A mark that is taken moves into the work's hands.
LEMMA TakesKeeps == IInv /\ WorkTakes => IInv'
<1> SUFFICES ASSUME IInv, WorkTakes PROVE IInv'
  OBVIOUS
<1> DEFINE e == Registry[asking + 1]
<1>1. /\ mask' = IF e \in model.dirty["WEB"] THEN mask \cup {e} ELSE mask
      /\ model' = [model EXCEPT !.dirty["WEB"] = @ \ {e}]
      /\ phase = "take" /\ phase' \in {"take", "delta"} /\ UNCHANGED <<client, sess, shown>>
  BY DEF WorkTakes, TakeDirty
<1> HIDE DEF e
<1>2. Listed /\ IsModel(model) /\ Working /\ "WEB" \in Consumers
  BY DEF IInv, Consumers
<1>3. /\ model'.value = model.value /\ model'.dirty["WEB"] = model.dirty["WEB"] \ {e}
      /\ IsModel(model)'
  BY <1>1, <1>2 DEF IsModel
<1>4. Listed' /\ Working'
  BY <1>1, <1>2 DEF Listed, Working
<1>5. \A x : x \in model.dirty["WEB"] \cup mask => x \in model'.dirty["WEB"] \cup mask'
  BY <1>1, <1>3
<1>6. ASSUME NEW f \in Fds, sess'[f] = "ws" PROVE Served(f)'
  <2>1. Served(f)
    BY <1>1, <1>6 DEF IInv, PageCurrentOrOwed, Served
  <2>2. PICK s \in Slots : /\ client[s].fd = f
                           /\ client[s].snapshot => \A x \in Entities :
                                shown[f][x] = model.value[x] \/ x \in model.dirty["WEB"] \cup mask
    BY <2>1 DEF Served
  <2> QED BY <1>1, <1>3, <1>5, <2>2 DEF Served
<1>7. PageCurrentOrOwed'
  BY <1>6 DEF PageCurrentOrOwed, Served
<1> QED BY <1>3, <1>4, <1>7 DEF IInv

LEMMA DeltaKeeps == IInv /\ WorkSendsDelta => IInv'
<1> SUFFICES ASSUME IInv, WorkSendsDelta PROVE IInv'
  OBVIOUS
<1> DEFINE to == {s \in Seen(client) : client[s].snapshot}
<1>1. /\ Listed /\ IsModel(model) /\ Working /\ UNCHANGED model
      /\ phase = "delta" /\ phase' = "ping" /\ mask' = {}
  BY DEF IInv, WorkSendsDelta
<1>2. \A s \in Seen(client) : s \in to
  BY <1>1 DEF Working, Seen
<1>3. CASE mask = {} /\ UNCHANGED <<client, sess, shown>>
  <2>1. Listed' /\ Working' /\ IsModel(model)'
    BY <1>1, <1>3 DEF Listed, Working, IsModel
  <2>2. PageCurrentOrOwed'
    BY <1>1, <1>3 DEF IInv, PageCurrentOrOwed
  <2> QED BY <2>1, <2>2 DEF IInv
<1>4. CASE \E failed \in SUBSET to : SendTo(client, to, failed, mask)
  <2>1. PICK failed \in SUBSET to : SendTo(client, to, failed, mask)
    BY <1>4
  <2>2. /\ client \in [Slots -> [fd : Fds \cup {Free}, snapshot : BOOLEAN, due : BOOLEAN]]
        /\ sess \in [Fds -> {"closed", "http", "ws", "closing"}]
        /\ \A s, o \in Slots : client[s].fd = client[o].fd /\ client[s].fd # Free => s = o
        /\ to \in SUBSET Seen(client) /\ \A s \in to : client[s].snapshot
    BY <1>1 DEF Listed
  <2> HIDE DEF to
  <2>3. /\ Listed'
        /\ \A s \in Slots : client'[s].fd # Free =>
             client'[s].fd = client[s].fd /\ (client[s].snapshot => client'[s].snapshot)
    BY <2>1, <2>2, Sent
  <2>4. Working'
    BY <1>1, <2>3 DEF Working
  <2>5. ASSUME NEW f \in Fds, sess'[f] = "ws" PROVE Served(f)'
    <3>1. \A s \in Slots : client[s].fd \in Fds /\ sess[client[s].fd] = "ws" => client[s] = client[s]
      OBVIOUS
    <3>2. mask \subseteq mask
      OBVIOUS
    <3> QED BY <1>1, <1>2, <2>1, <2>2, <2>5, <3>1, <3>2, FramesServe
  <2>6. PageCurrentOrOwed'
    BY <2>5 DEF PageCurrentOrOwed, Served
  <2> QED BY <1>1, <2>3, <2>4, <2>6 DEF IInv, IsModel
<1> QED BY <1>3, <1>4 DEF WorkSendsDelta

LEMMA PingsKeep == IInv /\ WorkPings => IInv'
<1> SUFFICES ASSUME IInv, WorkPings PROVE IInv'
  OBVIOUS
<1> DEFINE to == {s \in Seen(client) : client[s].due}
<1>1. /\ Listed /\ IsModel(model) /\ Working /\ UNCHANGED <<model, mask>>
      /\ phase = "ping" /\ phase' = "none" /\ mask = {}
  BY DEF IInv, WorkPings, Working
<1>2. PICK failed \in SUBSET to : SendTo(client, to, failed, {})
  BY DEF WorkPings
<1>3. /\ client \in [Slots -> [fd : Fds \cup {Free}, snapshot : BOOLEAN, due : BOOLEAN]]
      /\ sess \in [Fds -> {"closed", "http", "ws", "closing"}]
      /\ \A s, o \in Slots : client[s].fd = client[o].fd /\ client[s].fd # Free => s = o
      /\ to \in SUBSET Seen(client)
  BY <1>1 DEF Listed
<1>4. \A s \in to : client[s].snapshot
  BY <1>1 DEF Working, Seen
<1> HIDE DEF to
<1>5. Listed'
  BY <1>2, <1>3, Sent
<1>6. Working'
  BY <1>1 DEF Working
<1>7. ASSUME NEW f \in Fds, sess'[f] = "ws" PROVE Served(f)'
  <2>1. \A s \in Slots : client[s].fd \in Fds /\ sess[client[s].fd] = "ws" => client[s] = client[s]
    OBVIOUS
  <2>2. mask \subseteq mask'
    BY <1>1
  <2> QED BY <1>1, <1>2, <1>3, <1>4, <1>7, <2>1, <2>2, FramesServe
<1>8. PageCurrentOrOwed'
  BY <1>7 DEF PageCurrentOrOwed, Served
<1> QED BY <1>1, <1>5, <1>6, <1>8 DEF IInv, IsModel

LEMMA IdleKeeps == IInv /\ UNCHANGED wvars => IInv'
<1> SUFFICES ASSUME IInv, UNCHANGED wvars PROVE IInv'
  OBVIOUS
<1> USE DEF wvars
<1>1. IsModel(model)' /\ Listed' /\ Working'
  BY DEF IInv, IsModel, Listed, Working
<1>2. PageCurrentOrOwed'
  BY DEF IInv, PageCurrentOrOwed
<1> QED BY <1>1, <1>2 DEF IInv

LEMMA Inductive == IInv /\ [WNext]_wvars => IInv'
BY HearKeeps, DecidedKeeps, SessionsKeep, HandshakeKeeps, NobodyKeeps, BeginsKeeps, TakesKeeps,
   DeltaKeeps, PingsKeep, IdleKeeps DEF WNext, Work

\* A page that is open is right, or is owed what is wrong with it: no order of
\* answers, frames, failures and handshakes leaves a stale value nobody will
\* send.
THEOREM PagesServed == WSpec => []PageCurrentOrOwed
<1>1. IInv => PageCurrentOrOwed
  BY DEF IInv
<1> QED BY <1>1, Initially, Inductive, PTL DEF WSpec

-----------------------------------------------------------------------------
(* Tickets.                                                                 *)

LEMMA SerialsBegin == WInit => Serials
BY TicketAssumption DEF WInit, NoTickets, Blank, Serials

LEMMA PostKeeps == Serials /\ PostTicket => Serials'
<1> SUFFICES ASSUME Serials, PostTicket PROVE Serials'
  OBVIOUS
<1> DEFINE new == [age |-> 0, spent |-> FALSE]
           v   == Len(issued) + 1
<1>1. /\ issued' = Append(issued, new)
      /\ tickets' = [tickets EXCEPT ![Chosen(tickets)] = [value |-> v, age |-> 0, live |-> TRUE]]
  BY DEF PostTicket, Issue
<1>2. issued \in Seq(Record) /\ new \in Record
  BY DEF Serials, Record
<1>3. new.age = 0 /\ ~new.spent
  OBVIOUS
<1> HIDE DEF new
<1>4. /\ issued' \in Seq(Record) /\ Len(issued') = v
      /\ \A n \in 1..Len(issued) : issued'[n] = issued[n]
      /\ issued'[v] = new /\ DOMAIN issued = 1..Len(issued) /\ DOMAIN issued' = 1..v
  BY <1>1, <1>2, AppendProperties
<1>5. v \in Nat /\ DOMAIN issued \subseteq DOMAIN issued' /\ v \in DOMAIN issued'
  BY <1>2, <1>4
<1> HIDE DEF v
<1>6. tickets' \in [1..TicketSlots -> [value : Nat, age : Nat, live : BOOLEAN]]
  BY <1>1, <1>5 DEF Serials
<1>7. ASSUME NEW s \in 1..TicketSlots, tickets'[s].live
      PROVE  /\ tickets'[s].value \in DOMAIN issued'
             /\ ~issued'[tickets'[s].value].spent
             /\ issued'[tickets'[s].value].age = tickets'[s].age
  <2>1. CASE tickets'[s] = tickets[s]
    BY <1>4, <1>5, <1>7, <2>1 DEF Serials
  <2>2. CASE tickets'[s] = [value |-> v, age |-> 0, live |-> TRUE]
    BY <1>3, <1>4, <1>5, <2>2
  <2> QED BY <1>1, <2>1, <2>2 DEF Serials
<1> QED BY <1>4, <1>6, <1>7 DEF Serials

LEMMA SecondKeeps == Serials /\ Second => Serials'
<1> SUFFICES ASSUME Serials, Second PROVE Serials'
  OBVIOUS
<1> DEFINE Aged(n) == IF n > TicketTtl THEN n ELSE n + 1
<1>1. /\ issued' = [v \in DOMAIN issued |-> [issued[v] EXCEPT !.age = Aged(issued[v].age)]]
      /\ tickets' = [s \in DOMAIN tickets |-> [tickets[s] EXCEPT !.age = Aged(tickets[s].age)]]
  BY DEF Second, Older
<1>2. \A n \in Nat : Aged(n) \in Nat
  BY TicketAssumption
<1> HIDE DEF Aged
<1>3. /\ DOMAIN issued = 1..Len(issued) /\ Len(issued) \in Nat
      /\ issued \in Seq(Record) /\ \A v \in DOMAIN issued : issued[v] \in Record
  <2>1. issued \in Seq(Record)
    BY DEF Serials
  <2> QED BY <2>1, LenProperties
<1>4. \A v \in DOMAIN issued : /\ issued'[v] \in Record
                               /\ issued'[v].spent = issued[v].spent
                               /\ issued'[v].age = Aged(issued[v].age)
  BY <1>1, <1>2, <1>3 DEF Record
<1>5. issued' \in Seq(Record) /\ DOMAIN issued' = DOMAIN issued
  <2>1. issued' \in [1..Len(issued) -> Record]
    BY <1>1, <1>3, <1>4
  <2> QED BY <1>1, <1>3, <2>1, SeqDef
<1>6. \A s \in 1..TicketSlots : /\ tickets'[s] \in [value : Nat, age : Nat, live : BOOLEAN]
                                /\ tickets'[s].live = tickets[s].live
                                /\ tickets'[s].value = tickets[s].value
                                /\ tickets'[s].age = Aged(tickets[s].age)
  BY <1>1, <1>2 DEF Serials
<1>7. tickets' \in [1..TicketSlots -> [value : Nat, age : Nat, live : BOOLEAN]]
  BY <1>1, <1>6 DEF Serials
<1>8. ASSUME NEW s \in 1..TicketSlots, tickets'[s].live
      PROVE  /\ tickets'[s].value \in DOMAIN issued'
             /\ ~issued'[tickets'[s].value].spent
             /\ issued'[tickets'[s].value].age = tickets'[s].age
  <2>1. /\ tickets[s].value \in DOMAIN issued /\ ~issued[tickets[s].value].spent
        /\ issued[tickets[s].value].age = tickets[s].age
    BY <1>6, <1>8 DEF Serials
  <2> QED BY <1>4, <1>5, <1>6, <2>1
<1> QED BY <1>5, <1>7, <1>8 DEF Serials

\* What a handshake that succeeds finds: an unspent ticket in time, all of
\* whose copies it takes out of the table.
LEMMA Redeemed ==
  ASSUME Serials, NEW v \in DOMAIN issued, Holding(tickets, v) # {},
         tickets' = Redeem(tickets, v), issued' = [issued EXCEPT ![v].spent = TRUE]
  PROVE  /\ Serials' /\ ~issued[v].spent /\ issued'[v].spent /\ issued[v].age <= TicketTtl
<1>1. /\ DOMAIN tickets = 1..TicketSlots /\ DOMAIN issued = 1..Len(issued) /\ Len(issued) \in Nat
      /\ issued \in Seq(Record) /\ \A n \in DOMAIN issued : issued[n] \in Record
  <2>1. issued \in Seq(Record)
    BY DEF Serials
  <2> QED BY <2>1, LenProperties DEF Serials
<1>2. PICK held \in 1..TicketSlots : /\ tickets[held].live /\ tickets[held].age <= TicketTtl
                                     /\ tickets[held].value = v
  BY <1>1 DEF Holding, Spendable
<1>3. ~issued[v].spent /\ issued[v].age <= TicketTtl
  BY <1>2 DEF Serials
<1>4. /\ issued'[v].spent /\ issued' \in Seq(Record)
      /\ DOMAIN issued' = DOMAIN issued /\ issued'[v].age = issued[v].age
      /\ \A n \in DOMAIN issued : n # v => issued'[n] = issued[n]
  <2> DEFINE new == [issued[v] EXCEPT !.spent = TRUE]
  <2>1. new \in Record /\ new.spent /\ new.age = issued[v].age
    BY <1>1 DEF Record
  <2>2. issued' = [issued EXCEPT ![v] = new]
    OBVIOUS
  <2> HIDE DEF new
  <2>3. issued' \in Seq(Record)
    <3>1. issued' \in [1..Len(issued) -> Record]
      BY <1>1, <2>1, <2>2
    <3> QED BY <1>1, <3>1, SeqDef
  <2> QED BY <1>1, <2>1, <2>2, <2>3
<1>5. \A s \in 1..TicketSlots :
        tickets'[s] = IF s \in Holding(tickets, v) THEN [tickets[s] EXCEPT !.live = FALSE]
                      ELSE tickets[s]
  BY <1>1 DEF Redeem
<1>6. tickets' \in [1..TicketSlots -> [value : Nat, age : Nat, live : BOOLEAN]]
  <2>1. \A s \in 1..TicketSlots : tickets'[s] \in [value : Nat, age : Nat, live : BOOLEAN]
    BY <1>5 DEF Serials
  <2> QED BY <1>1, <2>1 DEF Redeem
<1>7. ASSUME NEW s \in 1..TicketSlots, tickets'[s].live
      PROVE  tickets'[s] = tickets[s] /\ tickets[s].value # v
  <2>1. tickets[s] \in [value : Nat, age : Nat, live : BOOLEAN]
    BY DEF Serials
  <2>2. s \notin Holding(tickets, v) /\ tickets'[s] = tickets[s]
    BY <1>5, <1>7, <2>1
  <2>3. tickets[s].value = v => tickets[s].age <= TicketTtl
    BY <1>3, <1>7, <2>2 DEF Serials
  <2> QED BY <1>1, <1>7, <2>2, <2>3 DEF Holding, Spendable
<1>8. Serials'
  BY <1>4, <1>6, <1>7 DEF Serials
<1> QED BY <1>3, <1>4, <1>8

LEMMA HandshakeSpends ==
  ASSUME Serials, NEW f \in Fds, NEW v \in DOMAIN issued, Handshake(f, v)
  PROVE  /\ Serials'
         /\ \/ sess' = [sess EXCEPT ![f] = "closed"]
            \/ ~issued[v].spent /\ issued'[v].spent /\ issued[v].age <= TicketTtl
<1>1. CASE sess' = [sess EXCEPT ![f] = "closed"] /\ UNCHANGED <<tickets, issued>>
  BY <1>1 DEF Serials
<1>2. CASE Holding(tickets, v) # {} /\ tickets' = Redeem(tickets, v)
           /\ issued' = [issued EXCEPT ![v].spent = TRUE]
  BY <1>2, Redeemed
<1> QED BY <1>1, <1>2 DEF Handshake

\* No other step opens a socket, or touches a ticket but to age it.
LEMMA OthersOpenNothing ==
  ASSUME IInv, [WNext]_wvars, \A f \in Fds, v \in DOMAIN issued : ~Handshake(f, v)
  PROVE  /\ \A f \in Fds : sess'[f] = "ws" => sess[f] = "ws"
         /\ PostTicket \/ Second \/ UNCHANGED <<tickets, issued>>
<1>1. sess \in [Fds -> {"closed", "http", "ws", "closing"}]
  BY DEF IInv, Listed
<1>2. \/ Hear \/ Decided \/ Tick \/ TickRefused \/ Open \/ PostTicket \/ Second
      \/ WorkForNobody \/ WorkBegins \/ WorkTakes \/ WorkSendsDelta \/ WorkPings
      \/ (\E g \in Fds : End(g)) \/ UNCHANGED wvars
  BY DEF WNext, Work
<1>3. /\ PostTicket \/ Second \/ UNCHANGED <<tickets, issued>>
      /\ \/ UNCHANGED sess
         \/ \E g \in Fds : sess' = [sess EXCEPT ![g] = "http"] \/ sess' = [sess EXCEPT ![g] = "closed"]
         \/ \E list, to, failed, items : SendTo(list, to, failed, items)
  <2>1. CASE Hear \/ Decided \/ Tick \/ TickRefused
    BY <2>1 DEF Hear, Decided, Tick, TickRefused
  <2>2. CASE PostTicket \/ Second \/ WorkForNobody \/ WorkTakes \/ UNCHANGED wvars
    BY <2>2 DEF PostTicket, Second, WorkForNobody, WorkTakes, wvars
  <2>3. CASE Open \/ \E g \in Fds : End(g)
    BY <2>3 DEF Open, End
  <2>4. CASE WorkBegins
    BY <2>4 DEF WorkBegins
  <2>5. CASE WorkSendsDelta
    BY <2>5 DEF WorkSendsDelta
  <2>6. CASE WorkPings
    BY <2>6 DEF WorkPings
  <2> QED BY <1>2, <2>1, <2>2, <2>3, <2>4, <2>5, <2>6
<1>4. ASSUME NEW list, NEW to, NEW failed, NEW items, SendTo(list, to, failed, items),
             NEW f \in Fds, sess'[f] = "ws"
      PROVE  sess[f] = "ws"
  BY <1>4 DEF SendTo
<1>5. \A f \in Fds : sess'[f] = "ws" => sess[f] = "ws"
  BY <1>1, <1>3, <1>4
<1> QED BY <1>3, <1>5

LEMMA SerialsInductive == IInv /\ Serials /\ [WNext]_wvars => Serials'
<1> SUFFICES ASSUME IInv, Serials, [WNext]_wvars PROVE Serials'
  OBVIOUS
<1>1. CASE \E f \in Fds, v \in DOMAIN issued : Handshake(f, v)
  BY <1>1, HandshakeSpends
<1>2. CASE PostTicket \/ Second
  BY <1>2, PostKeeps, SecondKeeps
<1>3. CASE UNCHANGED <<tickets, issued>>
  BY <1>3 DEF Serials
<1> QED BY <1>1, <1>2, <1>3, OthersOpenNothing

\* The door: whatever else happens, a socket opens on one ticket that was
\* issued, is in time and is spent by opening it.
THEOREM TicketsOnce == WSpec => TicketOnceInTime
<1>1. ASSUME IInv, Serials, [WNext]_wvars, NEW f \in Fds, sess[f] # "ws" /\ sess'[f] = "ws"
      PROVE  \E v \in DOMAIN issued : ~issued[v].spent /\ issued'[v].spent
                                      /\ issued[v].age <= TicketTtl
  <2>1. PICK g \in Fds, v \in DOMAIN issued : Handshake(g, v)
    BY <1>1, OthersOpenNothing
  <2>2. sess' # [sess EXCEPT ![g] = "closed"]
    BY <1>1 DEF IInv, Listed
  <2> QED BY <1>1, <2>1, <2>2, HandshakeSpends
<1> DEFINE InTime == \A f \in Fds : (sess[f] # "ws" /\ sess'[f] = "ws") =>
       \E v \in DOMAIN issued : ~issued[v].spent /\ issued'[v].spent
                                 /\ issued[v].age <= TicketTtl
<1>2. IInv /\ Serials /\ [WNext]_wvars => [InTime]_wvars
  BY <1>1
<1> QED BY <1>2, Initially, Inductive, SerialsBegin, SerialsInductive, PTL DEF WSpec, TicketOnceInTime

-----------------------------------------------------------------------------
(* Identifiers that are given up.                                           *)

\* Only an answer touches a streak or gives an identifier up.
LEMMA OnlyAnswersCount ==
  ASSUME IInv, [WNext]_wvars
  PROVE  Hear \/ UNCHANGED <<model.streak, model.unsupported, heard>>
<1>1. IsModel(model)
  BY DEF IInv
<1>2. CASE Decided
  <2>1. PICK v \in Virtuals : model' = SetVirtual(model, v.entity, v.val)
    BY <1>2 DEF Decided
  <2>2. v.entity \in Entities /\ heard' = heard
    BY <1>2, WsAssumption DEF Decided
  <2> QED BY <1>1, <2>1, <2>2, VirtualMarks
<1>3. CASE WorkTakes
  <2>1. heard' = heard /\ model' = TakeDirty(model, "WEB", Registry[asking + 1])
    BY <1>3 DEF WorkTakes
  <2> QED BY <1>1, <2>1 DEF TakeDirty, IsModel
<1>4. CASE UNCHANGED <<model, heard>>
  BY <1>4
<1>5. CASE \/ Tick \/ TickRefused \/ Open \/ PostTicket \/ Second
           \/ WorkForNobody \/ WorkBegins \/ WorkSendsDelta \/ WorkPings \/ UNCHANGED wvars
           \/ (\E f \in Fds : End(f)) \/ \E f \in Fds : \E v \in DOMAIN issued : Handshake(f, v)
  <2>1. UNCHANGED <<model, heard>>
    BY <1>5 DEF Tick, TickRefused, Open, PostTicket, Second, WorkForNobody, WorkBegins,
                WorkSendsDelta, WorkPings, End, Handshake, wvars
  <2> QED BY <2>1
<1> QED BY <1>2, <1>3, <1>5 DEF WNext, Work

\* The whole step of an answer, for the identifier it is about.
LEMMA Counted ==
  ASSUME IInv, Rows, NEW a \in Answers, a.id \in Ids,
         model' = ApplyDataid(model, a.id, a.type, a.raw),
         heard' = [heard EXCEPT ![a.id] =
                     [n \in 1..UnsupportedAt |-> IF n = 1 THEN a.type ELSE @[n - 1]]]
  PROVE  /\ Rows'
         /\ \A id \in Ids : id \in model'.unsupported /\ id \notin model.unsupported =>
              model'.streak[id] = UnsupportedAt
<1> DEFINE n0 == model.streak[a.id]
           n1 == Streak(model, a.id, a.type)
<1>1. /\ IsModel(model) /\ UnsupportedAt \in Nat \ {0} /\ n0 \in 0..UnsupportedAt
      /\ DOMAIN heard = Ids
  BY StateAssumption DEF IInv, IsModel, Rows
<1>2. \/ a.type # "UNKNOWN_DATAID" /\ n1 = 0
      \/ a.type = "UNKNOWN_DATAID" /\ n0 < UnsupportedAt /\ n1 = n0 + 1
      \/ a.type = "UNKNOWN_DATAID" /\ n0 = UnsupportedAt /\ n1 = n0
  BY <1>1 DEF Streak
<1>3. IsModel(model') /\ Counts(model, model', a.id, n1)
  BY <1>1, AnswerMarks
<1> HIDE DEF n0, n1
<1>4. /\ model'.streak[a.id] = n1
      /\ \A id \in Ids : id # a.id => model'.streak[id] = model.streak[id]
  BY <1>1, <1>3 DEF IsModel, Counts
<1>5. /\ \A id \in Ids : id # a.id => heard'[id] = heard[id]
      /\ heard'[a.id] = [n \in 1..UnsupportedAt |-> IF n = 1 THEN a.type ELSE heard[a.id][n - 1]]
  BY <1>1
<1>6. \A n \in 1..n0 : heard[a.id][n] = "UNKNOWN_DATAID"
  BY DEF Rows, n0
<1>7. ASSUME NEW n \in 1..n1 PROVE heard'[a.id][n] = "UNKNOWN_DATAID"
  <2>1. n \in 1..UnsupportedAt /\ a.type = "UNKNOWN_DATAID"
    BY <1>1, <1>2
  <2>2. CASE n = 1
    BY <1>5, <2>1, <2>2
  <2>3. CASE n # 1
    <3>1. n - 1 \in 1..n0
      BY <1>1, <1>2, <2>1, <2>3
    <3> QED BY <1>5, <1>6, <2>1, <2>3, <3>1
  <2> QED BY <2>2, <2>3
<1>8. Rows'
  <2>1. \A id \in Ids : \A n \in 1..model'.streak[id] : heard'[id][n] = "UNKNOWN_DATAID"
    BY <1>4, <1>5, <1>7 DEF Rows
  <2> QED BY <1>1, <2>1 DEF Rows
<1>9. \A id \in Ids : id \in model'.unsupported /\ id \notin model.unsupported =>
        model'.streak[id] = UnsupportedAt
  BY <1>1, <1>2, <1>3, <1>4 DEF Counts
<1> QED BY <1>8, <1>9

LEMMA RowsBegin == WInit => Rows
BY DEF WInit, EmptyModel, Rows

LEMMA RowsInductive == IInv /\ Rows /\ [WNext]_wvars => Rows'
<1> SUFFICES ASSUME IInv, Rows, [WNext]_wvars PROVE Rows'
  OBVIOUS
<1>1. CASE Hear
  BY <1>1, Counted, WsAssumption DEF Hear
<1>2. CASE UNCHANGED <<model.streak, model.unsupported, heard>>
  BY <1>2 DEF Rows
<1> QED BY <1>1, <1>2, OnlyAnswersCount

\* An identifier is given up only after a whole row of UNKNOWN-DATAID: one
\* spoilt frame, or any other answer in between, never does it.
THEOREM GivenUpAfterARow == WSpec => GivenUpAfterTwo
<1> DEFINE AfterARow == \A id \in Ids :
             (id \in model'.unsupported /\ id \notin model.unsupported) =>
               \A n \in 1..UnsupportedAt : heard'[id][n] = "UNKNOWN_DATAID"
<1>1. ASSUME IInv, Rows, [WNext]_wvars PROVE AfterARow
  <2>1. CASE Hear
    <3>1. PICK a \in Answers :
            /\ model' = ApplyDataid(model, a.id, a.type, a.raw)
            /\ heard' = [heard EXCEPT ![a.id] =
                           [n \in 1..UnsupportedAt |-> IF n = 1 THEN a.type ELSE @[n - 1]]]
      BY <2>1 DEF Hear
    <3>2. Rows' /\ \A id \in Ids : id \in model'.unsupported /\ id \notin model.unsupported =>
                     model'.streak[id] = UnsupportedAt
      BY <1>1, <3>1, Counted, WsAssumption
    <3> QED BY <3>2 DEF Rows
  <2>2. CASE UNCHANGED <<model.streak, model.unsupported, heard>>
    BY <2>2
  <2> QED BY <1>1, <2>1, <2>2, OnlyAnswersCount
<1>2. IInv /\ Rows /\ [WNext]_wvars => [AfterARow]_wvars
  BY <1>1
<1> QED BY <1>2, Initially, Inductive, RowsBegin, RowsInductive, PTL DEF WSpec, GivenUpAfterTwo

=============================================================================
