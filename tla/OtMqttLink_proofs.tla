-------------------------- MODULE OtMqttLink_proofs ---------------------------
(***************************************************************************)
(* Proofs about OtMqttLink, for any registry, discovery documents, topic   *)
(* prefixes and settings, any length of the inbox and of a pass, and every *)
(* order of changes, edits, lost connections, refusals and messages:       *)
(*                                                                         *)
(*   NothingForgotten    what the broker holds otherwise than the device   *)
(*                       is owed                                           *)
(*   OnlineIsTrue        `online` means connected, or about to be put right*)
(*   JudgedUnderItsOwn   a message is judged against its own prefix        *)
(*                                                                         *)
(* The inductive invariant adds what the client's life is made of: without *)
(* a client there is no connection and no flag of one, a working           *)
(* connection has no will to come, and the inbox is empty when the next    *)
(* client starts.                                                          *)
(***************************************************************************)
EXTENDS OtMqttLink, TLAPS, SequenceTheorems

IsModel(m) ==
  DOMAIN m = {"value", "dirty", "streak", "unsupported", "bounds"} /\ DOMAIN m.dirty = Consumers

\* The broker's retained messages have the shape they began with.
Shape(h) ==
  /\ DOMAIN h = {"status", "value", "head", "doc", "subs"}
  /\ DOMAIN h.status = Prefixes /\ DOMAIN h.value = Prefixes /\ DOMAIN h.head = Prefixes
  /\ \A p \in Prefixes : DOMAIN h.value[p] = Entities /\ DOMAIN h.head[p] = Heads
  /\ DOMAIN h.doc = DocSet

Typed ==
  /\ IsModel(model) /\ Shape(held) /\ DOMAIN plan = DocSet /\ DOMAIN said = Heads
  /\ broker \in Settings \cup FirstSettings

\* The life of a client.
Linked ==
  /\ ~client => ~conn /\ ~wire /\ ~half /\ ~repub
  /\ client => ctx.prefix \in Prefixes
  /\ wire => conn /\ will = NoBroker
  /\ pc \in {"drain_again", "start"} => ~client
  /\ pc \in {"say_offline", "stop"} => client
  /\ pc \in {"say_offline", "stop", "drain_again", "start"} => seen.prefix \in Prefixes

\* Messages in hand arrived under the prefix the client runs on.
InHand ==
  /\ inbox \in Seq([prefix : {ctx.prefix}, leaf : Leaves, retained : {FALSE}])
  /\ pc = "start" => inbox = <<>>

\* A client that is about to go has said so, could not, or is already dead.
Parting ==
  pc = "stop" /\ held.status[ctx.prefix] = "online" => ctx.prefix \in unsaid \/ will = ctx.prefix

IInv == Typed /\ Linked /\ InHand /\ Parting /\ HeldOrOwed /\ OnlineMeansThere

-----------------------------------------------------------------------------
(* The store and what the broker retains.                                   *)

\* A change of the store marks what it changes.
Marks(m, s) ==
  \A e \in Entities : /\ s.value[e].val = m.value[e].val \/ e \in s.dirty["MQTT"]
                      /\ e \in m.dirty["MQTT"] => e \in s.dirty["MQTT"]

LEMMA StoreMarks ==
  ASSUME NEW m, IsModel(m), NEW new, DOMAIN new \subseteq Entities
  PROVE  IsModel(Store(m, new)) /\ Marks(m, Store(m, new))
<1> DEFINE s == Store(m, new)
<1>1. /\ DOMAIN s = DOMAIN m
      /\ s.value = [e \in Entities |-> IF e \in DOMAIN new THEN new[e] ELSE m.value[e]]
      /\ s.dirty = [c \in Consumers |-> m.dirty[c] \cup {e \in DOMAIN new : new[e] # m.value[e]}]
  BY DEF Store, IsModel
<1>2. "MQTT" \in Consumers
  BY DEF Consumers
<1> HIDE DEF s
<1>3. s.dirty["MQTT"] = m.dirty["MQTT"] \cup {e \in DOMAIN new : new[e] # m.value[e]}
  BY <1>1, <1>2
<1>4. Marks(m, s)
  BY <1>1, <1>3 DEF Marks
<1>5. IsModel(s)
  BY <1>1 DEF IsModel
<1> QED BY <1>4, <1>5 DEF s

LEMMA AnswerMarks ==
  ASSUME NEW m, IsModel(m), NEW id, NEW type, NEW raw
  PROVE  IsModel(ApplyDataid(m, id, type, raw)) /\ Marks(m, ApplyDataid(m, id, type, raw))
<1> DEFINE streak == Streak(m, id, type)
           gone   == m.unsupported \cup (IF streak >= UnsupportedAt THEN {id} ELSE {})
           avail  == Availability(type, id \in gone)
           heared == [m EXCEPT !.streak[id] = streak, !.unsupported = gone]
           read   == IF avail = "OK" THEN [heared EXCEPT !.bounds[id] = raw] ELSE heared
           new    == [e \in {x \in Entities : Source[x] = id} |->
                        [avail |-> avail, val |-> IF avail = "OK" THEN Decode(e, raw) ELSE None]]
           s      == ApplyDataid(m, id, type, raw)
<1>1. s = heared \/ s = Store(read, new)
  BY DEF ApplyDataid
<1> HIDE DEF streak
<1>2. IsModel(heared) /\ heared.value = m.value /\ heared.dirty = m.dirty
  <2> HIDE DEF gone
  <2> QED BY DEF IsModel
<1> HIDE DEF heared, gone
<1>3. IsModel(read) /\ read.value = m.value /\ read.dirty = m.dirty
  <2> HIDE DEF avail
  <2> QED BY <1>2 DEF IsModel
<1>4. DOMAIN new \subseteq Entities
  OBVIOUS
<1> HIDE DEF s, read, new
<1>5. CASE s = heared
  BY <1>2, <1>5 DEF s, Marks
<1>6. CASE s = Store(read, new)
  <2>1. IsModel(s) /\ Marks(read, s)
    BY <1>3, <1>4, <1>6, StoreMarks
  <2> QED BY <1>3, <2>1 DEF s, Marks
<1> QED BY <1>1, <1>5, <1>6

LEMMA VirtualMarks ==
  ASSUME NEW m, IsModel(m), NEW e \in Entities, NEW v
  PROVE  IsModel(SetVirtual(m, e, v)) /\ Marks(m, SetVirtual(m, e, v))
<1>1. DOMAIN [x \in {e} |-> [avail |-> "OK", val |-> v]] \subseteq Entities
  OBVIOUS
<1>2. Marks(m, m)
  BY DEF Marks
<1> QED BY <1>1, <1>2, StoreMarks DEF SetVirtual
\* The effect of one retained publish on what the broker holds.
StatusSet(h, n, p, v) ==
  /\ Shape(n) /\ n.value = h.value /\ n.head = h.head /\ n.doc = h.doc /\ n.subs = h.subs
  /\ \A q \in Prefixes : n.status[q] = IF q = p THEN v ELSE h.status[q]

LEMMA PublishStatus ==
  ASSUME NEW h, Shape(h), NEW p, NEW v
  PROVE  StatusSet(h, [h EXCEPT !.status[p] = v], p, v)
<1> DEFINE n == [h EXCEPT !.status[p] = v]
<1>1. n.value = h.value /\ n.head = h.head /\ n.doc = h.doc /\ n.subs = h.subs
      /\ n.status = [h.status EXCEPT ![p] = v] /\ DOMAIN n = DOMAIN h
  BY DEF Shape
<1> HIDE DEF n
<1>2. Shape(n) /\ \A q \in Prefixes : n.status[q] = IF q = p THEN v ELSE h.status[q]
  BY <1>1 DEF Shape
<1> QED BY <1>1, <1>2 DEF StatusSet, n

SubsSet(h, n, v) ==
  /\ Shape(n) /\ n.value = h.value /\ n.head = h.head /\ n.doc = h.doc /\ n.status = h.status
  /\ n.subs = v

LEMMA PublishSubs ==
  ASSUME NEW h, Shape(h), NEW v
  PROVE  SubsSet(h, [h EXCEPT !.subs = v], v)
BY DEF Shape, SubsSet

HeadSet(h, n, p, t, v) ==
  /\ Shape(n) /\ n.value = h.value /\ n.status = h.status /\ n.doc = h.doc /\ n.subs = h.subs
  /\ \A q \in Prefixes, x \in Heads :
       n.head[q][x] = IF q = p /\ x = t THEN v ELSE h.head[q][x]

LEMMA PublishHead ==
  ASSUME NEW h, Shape(h), NEW p, NEW t, NEW v
  PROVE  HeadSet(h, [h EXCEPT !.head[p][t] = v], p, t, v)
<1> DEFINE n == [h EXCEPT !.head[p][t] = v]
<1>1. n.value = h.value /\ n.status = h.status /\ n.doc = h.doc /\ n.subs = h.subs
      /\ n.head = [h.head EXCEPT ![p] = [h.head[p] EXCEPT ![t] = v]] /\ DOMAIN n = DOMAIN h
  BY DEF Shape
<1> HIDE DEF n
<1>2. \A q \in Prefixes : n.head[q] = IF q = p THEN [h.head[p] EXCEPT ![t] = v] ELSE h.head[q]
  BY <1>1 DEF Shape
<1>3. \A q \in Prefixes : DOMAIN n.head[q] = Heads /\
        \A x \in Heads : n.head[q][x] = IF q = p /\ x = t THEN v ELSE h.head[q][x]
  BY <1>2 DEF Shape
<1>4. Shape(n)
  BY <1>1, <1>3 DEF Shape
<1> QED BY <1>1, <1>3, <1>4 DEF HeadSet, n

ValueSet(h, n, p, e, v) ==
  /\ Shape(n) /\ n.head = h.head /\ n.status = h.status /\ n.doc = h.doc /\ n.subs = h.subs
  /\ \A q \in Prefixes, x \in Entities :
       n.value[q][x] = IF q = p /\ x = e THEN v ELSE h.value[q][x]

LEMMA PublishValue ==
  ASSUME NEW h, Shape(h), NEW p, NEW e, NEW v
  PROVE  ValueSet(h, [h EXCEPT !.value[p][e] = v], p, e, v)
<1> DEFINE n == [h EXCEPT !.value[p][e] = v]
<1>1. n.head = h.head /\ n.status = h.status /\ n.doc = h.doc /\ n.subs = h.subs
      /\ n.value = [h.value EXCEPT ![p] = [h.value[p] EXCEPT ![e] = v]] /\ DOMAIN n = DOMAIN h
  BY DEF Shape
<1> HIDE DEF n
<1>2. \A q \in Prefixes : n.value[q] = IF q = p THEN [h.value[p] EXCEPT ![e] = v] ELSE h.value[q]
  BY <1>1 DEF Shape
<1>3. \A q \in Prefixes : DOMAIN n.value[q] = Entities /\
        \A x \in Entities : n.value[q][x] = IF q = p /\ x = e THEN v ELSE h.value[q][x]
  BY <1>2 DEF Shape
<1>4. Shape(n)
  BY <1>1, <1>3 DEF Shape
<1> QED BY <1>1, <1>3, <1>4 DEF ValueSet, n

DocumentSet(h, n, e, d) ==
  /\ Shape(n) /\ n.value = h.value /\ n.head = h.head /\ n.status = h.status /\ n.subs = h.subs
  /\ \A x \in DocSet : n.doc[x] = IF x = e THEN d ELSE h.doc[x]

LEMMA PublishDocument ==
  ASSUME NEW h, Shape(h), NEW e, NEW d
  PROVE  DocumentSet(h, [h EXCEPT !.doc[e] = d], e, d)
<1> DEFINE n == [h EXCEPT !.doc[e] = d]
<1>1. n.value = h.value /\ n.head = h.head /\ n.status = h.status /\ n.subs = h.subs
      /\ n.doc = [h.doc EXCEPT ![e] = d] /\ DOMAIN n = DOMAIN h
  BY DEF Shape
<1> HIDE DEF n
<1>2. Shape(n) /\ \A x \in DocSet : n.doc[x] = IF x = e THEN d ELSE h.doc[x]
  BY <1>1 DEF Shape
<1> QED BY <1>1, <1>2 DEF DocumentSet, n

-----------------------------------------------------------------------------
(* One lemma for each step around the link and of the library.              *)

\* The connection whose beginning has been served, and what then holds.
Serving == client /\ conn /\ wire /\ ~half /\ ~repub /\ pc # "stop"

Values == \A e \in Entities : \/ held.value[ctx.prefix][e] = model.value[e].val
                              \/ e \in owed \cup model.dirty["MQTT"]

HeadsHeld == \A h \in Heads : said[h] # None => held.head[ctx.prefix][h] = said[h]

DocsHeld == \A e \in DocSet : plan[e].sent # "NONE" => held.doc[e] = plan[e] \/ ~Renders(plan[e])

Greeted == (subscribed => held.subs) /\ (status_sent => held.status[ctx.prefix] = "online")

LEMMA Parts == HeldOrOwed <=> (Serving => Values /\ HeadsHeld /\ DocsHeld /\ Greeted)
BY DEF HeldOrOwed, Serving, Values, HeadsHeld, DocsHeld, Greeted

\* The same, a step later.
LEMMA PartsNext == HeldOrOwed' <=> (Serving' => Values' /\ HeadsHeld' /\ DocsHeld' /\ Greeted')
BY DEF HeldOrOwed, Serving, Values, HeadsHeld, DocsHeld, Greeted

LEMMA Initially == LInit => IInv
<1> SUFFICES ASSUME LInit PROVE IInv
  OBVIOUS
<1> USE DEF LInit
<1>1. IsModel(model)
  BY DEF EmptyModel, IsModel
<1>2. Shape(held)
  BY DEF Shape, Unsaid, NoPlan, Heads
<1>3. Typed
  BY <1>1, <1>2 DEF Typed, Unsaid, NoPlan
<1>4. Linked /\ InHand /\ Parting
  BY EmptySeq DEF Linked, InHand, Parting
<1>5. HeldOrOwed
  BY DEF HeldOrOwed
<1>6. OnlineMeansThere
  <2>1. \A p \in Prefixes : held.status[p] = "none"
    OBVIOUS
  <2> QED BY <2>1 DEF OnlineMeansThere
<1> QED BY <1>3, <1>4, <1>5, <1>6 DEF IInv

LEMMA ChangedKeeps == IInv /\ Changed => IInv'
<1> SUFFICES ASSUME IInv, Changed PROVE IInv'
  OBVIOUS
<1>1. Typed /\ Linked /\ InHand /\ Parting /\ HeldOrOwed /\ OnlineMeansThere
  BY DEF IInv
<1>2. UNCHANGED <<unsaid, device, flags, pc, books, wire, will, held>>
  BY DEF Changed
<1>3. IsModel(model)' /\ Marks(model, model')
  <2>1. IsModel(model) /\ Marks(model, model)
    BY <1>1 DEF Typed, Marks
  <2>2. CASE \E a \in Answers : model' = ApplyDataid(model, a.id, a.type, a.raw)
    BY <2>1, <2>2, AnswerMarks
  <2>3. CASE \E v \in Virtuals : model' = SetVirtual(model, v.entity, v.val)
    BY <2>1, <2>3, VirtualMarks, LinkAssumption
  <2>4. CASE model' = model
    BY <2>1, <2>4
  <2> QED BY <2>2, <2>3, <2>4 DEF Changed
<1>4. Typed' /\ Linked' /\ InHand' /\ Parting' /\ OnlineMeansThere'
  BY <1>1, <1>2, <1>3 DEF Typed, Linked, InHand, Parting, OnlineMeansThere, device, flags, books
<1>5. HeldOrOwed'
  <2>1. Serving' => Serving
    BY <1>2 DEF Serving, device, flags
  <2>2. Values => Values'
    BY <1>2, <1>3 DEF Values, Marks, device, books
  <2>3. (HeadsHeld => HeadsHeld') /\ (DocsHeld => DocsHeld') /\ (Greeted => Greeted')
    BY <1>2 DEF HeadsHeld, DocsHeld, Greeted, device, books
  <2> QED BY <1>1, <2>1, <2>2, <2>3, Parts, PartsNext
<1> QED BY <1>4, <1>5 DEF IInv

\* A step that leaves the books, the store and what the broker retains alone.
LEMMA BooksStay ==
  ASSUME IInv, UNCHANGED <<model, books, held, ctx>>, Serving' => Serving
  PROVE  HeldOrOwed'
<1>1. HeldOrOwed
  BY DEF IInv
<1>2. /\ Values => Values'
      /\ (HeadsHeld => HeadsHeld') /\ (DocsHeld => DocsHeld') /\ (Greeted => Greeted')
  BY DEF Values, HeadsHeld, DocsHeld, Greeted, books
<1> QED BY <1>1, <1>2, Parts, PartsNext

LEMMA EditsKeep == IInv /\ (Edited \/ AddressMoves) => IInv'
<1> SUFFICES ASSUME IInv, Edited \/ AddressMoves PROVE IInv'
  OBVIOUS
<1>1. Typed /\ Linked /\ InHand /\ Parting /\ OnlineMeansThere
  BY DEF IInv
<1>2. /\ UNCHANGED <<unsaid, model, now, seen, ctx, client, inbox, flags, pc, books, wire, will, held>>
      /\ broker' \in Settings \cup FirstSettings
  BY <1>1 DEF Edited, AddressMoves, Typed
<1>3. Typed' /\ Linked' /\ InHand' /\ Parting' /\ OnlineMeansThere'
  BY <1>1, <1>2 DEF Typed, Linked, InHand, Parting, OnlineMeansThere, flags, books
<1>4. Serving' => Serving
  BY <1>2 DEF Serving, flags
<1> QED BY <1>2, <1>3, <1>4, BooksStay DEF IInv

LEMMA DropKeeps == IInv /\ WireDrops => IInv'
<1> SUFFICES ASSUME IInv, WireDrops PROVE IInv'
  OBVIOUS
<1>1. Typed /\ Linked /\ InHand /\ Parting /\ OnlineMeansThere
  BY DEF IInv
<1>2. /\ UNCHANGED <<unsaid, model, now, device, flags, pc, books>>
      /\ wire /\ ~wire' /\ will' = ctx.prefix /\ held' = [held EXCEPT !.subs = FALSE]
  BY DEF WireDrops
<1>3. SubsSet(held, held', FALSE)
  BY <1>1, <1>2, PublishSubs DEF Typed
<1>4. Typed' /\ Linked' /\ InHand'
  BY <1>1, <1>2, <1>3 DEF Typed, Linked, InHand, device, flags, books, SubsSet
<1>5. Parting' /\ OnlineMeansThere'
  BY <1>1, <1>2, <1>3, LinkAssumption DEF Linked, Parting, OnlineMeansThere, device, SubsSet
<1>6. HeldOrOwed'
  BY <1>2, PartsNext DEF Serving
<1> QED BY <1>4, <1>5, <1>6 DEF IInv

LEMMA WillKeeps == IInv /\ WillTold => IInv'
<1> SUFFICES ASSUME IInv, WillTold PROVE IInv'
  OBVIOUS
<1>1. Typed /\ Linked /\ InHand /\ Parting /\ OnlineMeansThere /\ HeldOrOwed
  BY DEF IInv
<1>2. /\ UNCHANGED <<unsaid, model, now, device, flags, pc, books, wire>>
      /\ will # NoBroker /\ will' = NoBroker /\ held' = [held EXCEPT !.status[will] = "offline"]
  BY DEF WillTold, Died
<1>3. StatusSet(held, held', will, "offline")
  BY <1>1, <1>2, PublishStatus DEF Typed
<1>4. Typed' /\ Linked' /\ InHand'
  BY <1>1, <1>2, <1>3 DEF Typed, Linked, InHand, device, flags, books, StatusSet
<1>5. ~Serving'
  BY <1>1, <1>2 DEF Linked, Serving, device
<1>6. OnlineMeansThere'
  BY <1>1, <1>2, <1>3 DEF OnlineMeansThere, device, StatusSet
<1>7. Parting'
  <2>1. SUFFICES ASSUME pc = "stop", held'.status[ctx.prefix] = "online" PROVE ctx.prefix \in unsaid
    BY <1>2 DEF Parting, device
  <2> QED BY <1>1, <1>2, <1>3, <2>1 DEF Parting, StatusSet, Linked
<1> QED BY <1>4, <1>5, <1>6, <1>7, PartsNext DEF IInv

LEMMA DisconnectKeeps == IInv /\ OnDisconnected => IInv'
<1> SUFFICES ASSUME IInv, OnDisconnected PROVE IInv'
  OBVIOUS
<1>1. Typed /\ Linked /\ InHand /\ Parting /\ OnlineMeansThere
  BY DEF IInv
<1>2. /\ UNCHANGED <<unsaid, model, now, device, repub, half, pc, books, wire, will, held>>
      /\ client /\ ~wire /\ ~conn'
  BY DEF OnDisconnected
<1>3. Typed' /\ Linked' /\ InHand' /\ Parting' /\ OnlineMeansThere'
  BY <1>1, <1>2 DEF Typed, Linked, InHand, Parting, OnlineMeansThere, device, books
<1>4. HeldOrOwed'
  BY <1>2, PartsNext DEF Serving
<1> QED BY <1>3, <1>4 DEF IInv

LEMMA ConnectKeeps == IInv /\ OnConnected => IInv'
<1> SUFFICES ASSUME IInv, OnConnected PROVE IInv'
  OBVIOUS
<1>1. Typed /\ Linked /\ InHand /\ Parting /\ OnlineMeansThere
  BY DEF IInv
<1>2. /\ UNCHANGED <<unsaid, model, now, device, repub, pc, books>>
      /\ client /\ ~wire /\ wire' /\ conn' /\ half' /\ will' = NoBroker
      /\ held' = (IF will # NoBroker THEN [held EXCEPT !.status[will] = "offline"] ELSE held)
  BY DEF OnConnected, Died
<1>3. /\ Shape(held')
      /\ \A q \in Prefixes : held'.status[q] = IF q = will THEN "offline" ELSE held.status[q]
  <2>1. CASE will # NoBroker
    <3>1. StatusSet(held, held', will, "offline")
      BY <1>1, <1>2, <2>1, PublishStatus DEF Typed
    <3> QED BY <3>1 DEF StatusSet
  <2>2. CASE will = NoBroker
    BY <1>1, <1>2, <2>2, LinkAssumption DEF Typed
  <2> QED BY <2>1, <2>2
<1>4. Typed' /\ Linked' /\ InHand'
  BY <1>1, <1>2, <1>3 DEF Typed, Linked, InHand, device, books
<1>5. Parting' /\ OnlineMeansThere'
  BY <1>1, <1>2, <1>3 DEF Linked, Parting, OnlineMeansThere, device
<1>6. HeldOrOwed'
  BY <1>2, PartsNext DEF Serving
<1> QED BY <1>4, <1>5, <1>6 DEF IInv

LEMMA ConnectRestKeeps == IInv /\ OnConnectedRest => IInv'
<1> SUFFICES ASSUME IInv, OnConnectedRest PROVE IInv'
  OBVIOUS
<1>1. Typed /\ Linked /\ InHand /\ Parting /\ OnlineMeansThere
  BY DEF IInv
<1>2. /\ UNCHANGED <<unsaid, model, now, device, conn, pc, books, wire, will, held>>
      /\ half /\ ~half' /\ repub'
  BY DEF OnConnectedRest
<1>3. Typed' /\ Linked' /\ InHand' /\ Parting' /\ OnlineMeansThere'
  BY <1>1, <1>2 DEF Typed, Linked, InHand, Parting, OnlineMeansThere, device, books
<1>4. HeldOrOwed'
  BY <1>2, PartsNext DEF Serving
<1> QED BY <1>3, <1>4 DEF IInv

\* The messages that may be in hand.
Message == [prefix : {ctx.prefix}, leaf : Leaves, retained : {FALSE}]

LEMMA DataKeeps == IInv /\ OnData => IInv'
<1> SUFFICES ASSUME IInv, OnData PROVE IInv'
  OBVIOUS
<1>1. Typed /\ Linked /\ InHand /\ Parting /\ OnlineMeansThere
  BY DEF IInv
<1>2. /\ UNCHANGED <<unsaid, model, now, broker, seen, ctx, client, flags, pc, books, wire, will, held>>
      /\ client
  BY DEF OnData
<1>3. inbox' \in Seq(Message)
  <2>1. PICK leaf \in Leaves :
          inbox' = IF Len(inbox) = InboxLen THEN inbox
                   ELSE Append(inbox, [prefix |-> ctx.prefix, leaf |-> leaf, retained |-> FALSE])
    BY DEF OnData
  <2>2. inbox \in Seq(Message) /\ [prefix |-> ctx.prefix, leaf |-> leaf, retained |-> FALSE] \in Message
    BY <1>1 DEF InHand, Message
  <2> QED BY <2>1, <2>2, AppendProperties
<1>4. InHand'
  BY <1>1, <1>2, <1>3 DEF InHand, Linked, Message
<1>5. Typed' /\ Linked' /\ Parting' /\ OnlineMeansThere'
  BY <1>1, <1>2 DEF Typed, Linked, Parting, OnlineMeansThere, flags, books
<1>6. Serving' => Serving
  BY <1>2 DEF Serving, flags
<1> QED BY <1>2, <1>4, <1>5, <1>6, BooksStay DEF IInv

-----------------------------------------------------------------------------
(* The task, before its pass.                                               *)

LEMMA DrainKeeps == IInv /\ Drain => IInv'
<1> SUFFICES ASSUME IInv, Drain PROVE IInv'
  OBVIOUS
<1>1. Typed /\ Linked /\ InHand /\ Parting /\ OnlineMeansThere /\ HeldOrOwed
  BY DEF IInv
<1>2. /\ UNCHANGED <<unsaid, model, now, broker, seen, ctx, client, moved, flags, owed,
                     status_sent, subscribed, said, wire, will, held>>
      /\ pc \in {"drain", "drain_again"}
      /\ \/ /\ inbox = <<>> /\ inbox' = inbox /\ plan' = plan
            /\ pc' = IF pc = "drain" THEN "follow" ELSE "start"
         \/ inbox # <<>> /\ inbox' = Tail(inbox) /\ pc' = pc /\ (plan' = NoPlan \/ plan' = plan)
  BY DEF Drain
<1>3. inbox' \in Seq(Message)
  <2>1. inbox \in Seq(Message)
    BY <1>1 DEF InHand, Message
  <2> QED BY <1>2, <2>1, HeadTailProperties
<1>4. InHand'
  BY <1>2, <1>3 DEF InHand, Message
<1>5. DOMAIN plan' = DocSet /\ \A e \in DocSet : plan'[e].sent # "NONE" => plan'[e] = plan[e]
  BY <1>1, <1>2 DEF Typed, NoPlan
<1>6. Typed' /\ Linked' /\ Parting' /\ OnlineMeansThere'
  BY <1>1, <1>2, <1>5 DEF Typed, Linked, Parting, OnlineMeansThere, flags
<1>7. Serving' => Serving
  BY <1>2 DEF Serving, flags
<1>8. (Values => Values') /\ (HeadsHeld => HeadsHeld') /\ (Greeted => Greeted')
  BY <1>2 DEF Values, HeadsHeld, Greeted
<1>9. DocsHeld => DocsHeld'
  BY <1>2, <1>5 DEF DocsHeld
<1> QED BY <1>1, <1>4, <1>6, <1>7, <1>8, <1>9, Parts, PartsNext DEF IInv

LEMMA FollowKeeps == IInv /\ Follow => IInv'
<1> SUFFICES ASSUME IInv, Follow PROVE IInv'
  OBVIOUS
<1>1. Typed /\ Linked /\ InHand /\ Parting /\ OnlineMeansThere /\ HeldOrOwed
  BY DEF IInv
<1>2. /\ UNCHANGED <<unsaid, model, now, broker, ctx, client, inbox, conn, half, wire, will, held>>
      /\ pc = "follow" /\ seen' = broker
  BY DEF Follow
<1>3. seen'.prefix \in Prefixes
  BY <1>1, <1>2, LinkAssumption DEF Typed
<1>4. CASE broker # seen
  <2>1. /\ UNCHANGED <<repub, books>> /\ pc' = IF client THEN "say_offline" ELSE "drain_again"
    BY <1>2, <1>4 DEF Follow
  <2>2. Typed' /\ Linked' /\ InHand' /\ Parting' /\ OnlineMeansThere'
    BY <1>1, <1>2, <1>3, <2>1 DEF Typed, Linked, InHand, Parting, OnlineMeansThere, books
  <2>3. Serving' => Serving
    BY <1>2, <2>1 DEF Serving
  <2> QED BY <1>2, <2>1, <2>2, <2>3, BooksStay DEF IInv
<1>5. CASE Goes
  <2>1. pc' \in {"drain", "status", "subscribe", "owner"} /\ (repub' = repub \/ (conn /\ ~repub'))
    BY <1>5 DEF Goes, FirstOf
  <2>2. \/ Fresh
        \/ /\ UNCHANGED <<owed, status_sent, subscribed, said, repub>>
           /\ plan' = NoPlan \/ plan' = plan
    BY <1>5 DEF Goes
  <2>3. DOMAIN plan' = DocSet /\ DOMAIN said' = Heads
    BY <1>1, <2>2 DEF Typed, NoPlan, Fresh, Unsaid
  <2>4. Typed' /\ Linked' /\ InHand' /\ Parting' /\ OnlineMeansThere'
    BY <1>1, <1>2, <2>1, <2>3 DEF Typed, Linked, InHand, Parting, OnlineMeansThere
  <2>5. CASE Fresh
    <3>1. Values' /\ HeadsHeld' /\ DocsHeld' /\ Greeted'
      BY <2>5 DEF Fresh, Values, HeadsHeld, DocsHeld, Greeted, NoPlan, Unsaid
    <3> QED BY <2>4, <3>1, PartsNext DEF IInv
  <2>6. CASE /\ UNCHANGED <<owed, status_sent, subscribed, said, repub>>
             /\ plan' = NoPlan \/ plan' = plan
    <3>1. UNCHANGED model
      BY DEF Follow
    <3>2. (Values => Values') /\ (HeadsHeld => HeadsHeld') /\ (Greeted => Greeted')
      BY <1>2, <2>6, <3>1 DEF Values, HeadsHeld, Greeted
    <3>3. DocsHeld => DocsHeld'
      BY <1>2, <2>6 DEF DocsHeld, NoPlan
    <3>4. Serving' => Serving
      BY <1>2, <2>6 DEF Serving
    <3> QED BY <1>1, <2>4, <3>2, <3>3, <3>4, Parts, PartsNext DEF IInv
  <2> QED BY <2>2, <2>5, <2>6
<1> QED BY <1>4, <1>5 DEF Follow

LEMMA SayOfflineKeeps == IInv /\ SayOffline => IInv'
<1> SUFFICES ASSUME IInv, SayOffline PROVE IInv'
  OBVIOUS
<1>1. Typed /\ Linked /\ InHand /\ Parting /\ OnlineMeansThere
  BY DEF IInv
<1>2. /\ UNCHANGED <<model, now, device, flags, books, wire, will>>
      /\ pc = "say_offline" /\ pc' = "stop"
      /\ \/ conn /\ held' = Retains(Died(ctx.prefix)) /\ unsaid' = unsaid
         \/ unsaid' = unsaid \cup {ctx.prefix} /\ held' = held
         \/ ~conn /\ held' = held /\ unsaid' = unsaid
  BY DEF SayOffline
<1>3. ctx.prefix \in Prefixes
  BY <1>1, <1>2 DEF Linked
<1>4. /\ Shape(held') /\ unsaid \subseteq unsaid'
      /\ \A q \in Prefixes : held'.status[q] = held.status[q] \/ held'.status[q] = "offline"
      /\ ~wire \/ ctx.prefix \in unsaid' \/ held'.status[ctx.prefix] = "offline"
  <2>1. CASE held' = [held EXCEPT !.status[ctx.prefix] = "offline"] /\ unsaid' = unsaid
    <3>1. StatusSet(held, held', ctx.prefix, "offline")
      BY <1>1, <2>1, PublishStatus DEF Typed
    <3> QED BY <1>3, <2>1, <3>1 DEF StatusSet
  <2>2. CASE ~wire /\ held' = held /\ unsaid' = unsaid
    BY <1>1, <2>2 DEF Typed
  <2>3. CASE unsaid' = unsaid \cup {ctx.prefix} /\ held' = held
    BY <1>1, <2>3 DEF Typed
  <2> QED BY <1>1, <1>2, <2>1, <2>2, <2>3 DEF Linked, Retains, Died
<1>5. Typed' /\ Linked' /\ InHand'
  BY <1>1, <1>2, <1>4 DEF Typed, Linked, InHand, device, flags, books
<1>6. OnlineMeansThere'
  BY <1>1, <1>2, <1>4 DEF OnlineMeansThere, device
<1>7. Parting'
  BY <1>1, <1>2, <1>3, <1>4 DEF Parting, OnlineMeansThere, device
<1>8. HeldOrOwed'
  BY <1>2, PartsNext DEF Serving
<1> QED BY <1>5, <1>6, <1>7, <1>8 DEF IInv

LEMMA StopKeeps == IInv /\ Stop => IInv'
<1> SUFFICES ASSUME IInv, Stop PROVE IInv'
  OBVIOUS
<1>1. Typed /\ Linked /\ InHand /\ Parting /\ OnlineMeansThere
  BY DEF IInv
<1>2. /\ UNCHANGED <<unsaid, model, now, broker, seen, ctx, inbox, half, books, will>>
      /\ pc = "stop" /\ ~half /\ pc' = "drain_again" /\ ~client' /\ ~conn' /\ ~repub' /\ ~wire'
      /\ held' = [held EXCEPT !.subs = FALSE]
  BY DEF Stop
<1>3. SubsSet(held, held', FALSE)
  BY <1>1, <1>2, PublishSubs DEF Typed
<1>4. Typed' /\ Linked' /\ InHand' /\ Parting'
  BY <1>1, <1>2, <1>3 DEF Typed, Linked, InHand, Parting, books, SubsSet
<1>5. OnlineMeansThere'
  BY <1>1, <1>2, <1>3 DEF Parting, OnlineMeansThere, SubsSet
<1>6. HeldOrOwed'
  BY <1>2, PartsNext DEF Serving
<1> QED BY <1>4, <1>5, <1>6 DEF IInv

LEMMA StartKeeps == IInv /\ Start => IInv'
<1> SUFFICES ASSUME IInv, Start PROVE IInv'
  OBVIOUS
<1>1. Typed /\ Linked /\ InHand /\ Parting /\ OnlineMeansThere
  BY DEF IInv
<1>2. /\ UNCHANGED <<unsaid, model, now, broker, seen, inbox, flags, books, wire, will, held>>
      /\ pc = "start" /\ pc' = "drain" /\ inbox = <<>> /\ ~client /\ ~conn
      /\ \/ ctx' = [prefix |-> seen.prefix, discovery |-> seen.discovery] /\ client'
         \/ UNCHANGED <<ctx, client>>
  BY <1>1 DEF Start, Linked, InHand
<1>3. client' => ctx'.prefix \in Prefixes
  <2>1. seen.prefix \in Prefixes
    BY <1>1, <1>2 DEF Linked
  <2>2. CASE ctx' = [prefix |-> seen.prefix, discovery |-> seen.discovery]
    BY <2>1, <2>2
  <2>3. CASE UNCHANGED <<ctx, client>>
    BY <1>2, <2>3
  <2> QED BY <1>2, <2>2, <2>3
<1>4. InHand'
  BY <1>2, EmptySeq DEF InHand
<1>5. Typed' /\ Linked' /\ Parting' /\ OnlineMeansThere'
  BY <1>1, <1>2, <1>3 DEF Typed, Linked, Parting, OnlineMeansThere, flags, books
<1>6. HeldOrOwed'
  BY <1>2, PartsNext DEF Serving, flags
<1> QED BY <1>4, <1>5, <1>6 DEF IInv

-----------------------------------------------------------------------------
(* The publishing pass.                                                     *)

\* Of the device, a step of the pass touches the books and the store's marks
\* alone, and it never makes a prefix say `online` but the one in use.
LEMMA PassFrame ==
  ASSUME IInv, UNCHANGED <<unsaid, now, device, flags, wire, will>>,
         pc' \notin {"say_offline", "stop", "drain_again", "start"}, pc # "stop",
         IsModel(model'), Shape(held'), DOMAIN plan' = DocSet, DOMAIN said' = Heads,
         \A p \in Prefixes : held'.status[p] = held.status[p] \/ (p = ctx.prefix /\ wire)
  PROVE  Typed' /\ Linked' /\ InHand' /\ Parting' /\ OnlineMeansThere' /\ (Serving' => Serving)
<1>1. Typed /\ Linked /\ InHand /\ OnlineMeansThere
  BY DEF IInv
<1>2. Typed' /\ Linked' /\ InHand' /\ Parting'
  BY <1>1 DEF Typed, Linked, InHand, Parting, device, flags
<1>3. OnlineMeansThere'
  BY <1>1 DEF Linked, OnlineMeansThere, device
<1> QED BY <1>2, <1>3 DEF Serving, device, flags

LEMMA RefusedKeeps ==
  ASSUME IInv, Rest, Refused, pc # "stop"
  PROVE  IInv'
<1>1. /\ UNCHANGED <<unsaid, model, now, device, flags, wire, will, held, books>> /\ pc' = "drain"
  BY DEF Rest, Refused
<1>2. Typed
  BY DEF IInv
<1>3. Typed' /\ Linked' /\ InHand' /\ Parting' /\ OnlineMeansThere' /\ (Serving' => Serving)
  BY <1>1, <1>2, PassFrame DEF Typed, books
<1> QED BY <1>1, <1>3, BooksStay DEF IInv, device

\* What an accepted publish leaves.
LEMMA Kept ==
  ASSUME NEW new, Accepted(new)
  PROVE  conn /\ held' = IF wire THEN new ELSE held
BY DEF Accepted, Retains

LEMMA StatusKeeps == IInv /\ PassStatus => IInv'
<1> SUFFICES ASSUME IInv, PassStatus PROVE IInv'
  OBVIOUS
<1>1. Typed /\ Linked /\ HeldOrOwed
  BY DEF IInv
<1>2. /\ pc = "status" /\ Rest
      /\ UNCHANGED <<unsaid, model, now, device, flags, wire, will>>
  BY DEF PassStatus, Rest
<1>3. CASE Refused
  BY <1>2, <1>3, RefusedKeeps
<1>4. CASE ~Refused
  <2> DEFINE new == [held EXCEPT !.status[ctx.prefix] = "online"]
  <2>1. /\ Accepted(new) /\ status_sent' = TRUE /\ pc' \in {"subscribe", "owner"}
        /\ UNCHANGED <<owed, plan, subscribed, said>>
    BY <1>4 DEF PassStatus, FirstOf
  <2>2. conn /\ held' = IF wire THEN new ELSE held
    BY <2>1, Kept
  <2>3. StatusSet(held, new, ctx.prefix, "online")
    BY <1>1, PublishStatus DEF Typed
  <2> HIDE DEF new
  <2>4. /\ Typed' /\ Linked' /\ InHand' /\ Parting' /\ OnlineMeansThere' /\ (Serving' => Serving)
    BY <1>1, <1>2, <2>1, <2>2, <2>3, PassFrame DEF Typed, StatusSet
  <2>5. ASSUME Serving, HeldOrOwed PROVE Values' /\ HeadsHeld' /\ DocsHeld' /\ Greeted'
    <3>1. Values /\ HeadsHeld /\ DocsHeld /\ Greeted /\ held' = new
      BY <2>2, <2>5, Parts DEF Serving
    <3>2. ctx.prefix \in Prefixes
      BY <1>1, <2>5 DEF Linked, Serving
    <3> QED BY <1>2, <2>1, <2>3, <3>1, <3>2
            DEF Values, HeadsHeld, DocsHeld, Greeted, StatusSet, device
  <2> QED BY <1>1, <2>4, <2>5, PartsNext DEF IInv
<1> QED BY <1>3, <1>4

LEMMA SubscribeKeeps == IInv /\ PassSubscribe => IInv'
<1> SUFFICES ASSUME IInv, PassSubscribe PROVE IInv'
  OBVIOUS
<1>1. Typed /\ Linked /\ HeldOrOwed
  BY DEF IInv
<1>2. /\ pc = "subscribe" /\ Rest
      /\ UNCHANGED <<unsaid, model, now, device, flags, wire, will>>
  BY DEF PassSubscribe, Rest
<1>3. CASE Refused
  BY <1>2, <1>3, RefusedKeeps
<1>4. CASE ~Refused
  <2> DEFINE new == [held EXCEPT !.subs = TRUE]
  <2>1. /\ Accepted(new) /\ subscribed' = TRUE /\ pc' = "owner"
        /\ UNCHANGED <<owed, plan, status_sent, said>>
    BY <1>4 DEF PassSubscribe
  <2>2. conn /\ held' = IF wire THEN new ELSE held
    BY <2>1, Kept
  <2>3. SubsSet(held, new, TRUE)
    BY <1>1, PublishSubs DEF Typed
  <2> HIDE DEF new
  <2>4. /\ Typed' /\ Linked' /\ InHand' /\ Parting' /\ OnlineMeansThere' /\ (Serving' => Serving)
    BY <1>1, <1>2, <2>1, <2>2, <2>3, PassFrame DEF Typed, SubsSet
  <2>5. ASSUME Serving, HeldOrOwed PROVE Values' /\ HeadsHeld' /\ DocsHeld' /\ Greeted'
    <3>1. Values /\ HeadsHeld /\ DocsHeld /\ Greeted /\ held' = new
      BY <2>2, <2>5, Parts DEF Serving
    <3> QED BY <1>2, <2>1, <2>3, <3>1
            DEF Values, HeadsHeld, DocsHeld, Greeted, SubsSet, device
  <2> QED BY <1>1, <2>4, <2>5, PartsNext DEF IInv
<1> QED BY <1>3, <1>4

LEMMA HeadKeeps == IInv /\ PassHead => IInv'
<1> SUFFICES ASSUME IInv, PassHead PROVE IInv'
  OBVIOUS
<1>1. Typed /\ Linked /\ HeldOrOwed
  BY DEF IInv
<1>2. /\ pc \in Heads /\ pc # "stop" /\ Rest
      /\ UNCHANGED <<unsaid, model, now, device, flags, wire, will>>
  BY DEF PassHead, Rest, Heads
<1>3. CASE Refused
  BY <1>2, <1>3, RefusedKeeps
<1>4. CASE UNCHANGED <<held, books>> /\ pc' \in {"attributes", "take"}
  <2>1. Typed' /\ Linked' /\ InHand' /\ Parting' /\ OnlineMeansThere' /\ (Serving' => Serving)
    BY <1>1, <1>2, <1>4, PassFrame DEF Typed, books
  <2> QED BY <1>2, <1>4, <2>1, BooksStay DEF IInv, device
<1>5. CASE ~Refused /\ ~(UNCHANGED <<held, books>> /\ pc' \in {"attributes", "take"})
  <2> DEFINE new == [held EXCEPT !.head[ctx.prefix][pc] = now[pc]]
  <2>1. /\ Accepted(new) /\ said' = [said EXCEPT ![pc] = now[pc]] /\ pc' \in {"attributes", "take"}
        /\ UNCHANGED <<owed, plan, status_sent, subscribed>>
    BY <1>5 DEF PassHead
  <2>2. conn /\ held' = IF wire THEN new ELSE held
    BY <2>1, Kept
  <2>3. HeadSet(held, new, ctx.prefix, pc, now[pc])
    BY <1>1, PublishHead DEF Typed
  <2> HIDE DEF new
  <2>4. /\ Typed' /\ Linked' /\ InHand' /\ Parting' /\ OnlineMeansThere' /\ (Serving' => Serving)
    BY <1>1, <1>2, <2>1, <2>2, <2>3, PassFrame DEF Typed, HeadSet
  <2>5. ASSUME Serving, HeldOrOwed PROVE Values' /\ HeadsHeld' /\ DocsHeld' /\ Greeted'
    <3>1. Values /\ HeadsHeld /\ DocsHeld /\ Greeted /\ held' = new
      BY <2>2, <2>5, Parts DEF Serving
    <3>2. ctx.prefix \in Prefixes
      BY <1>1, <2>5 DEF Linked, Serving
    <3>3. \A h \in Heads : said'[h] = IF h = pc THEN now[pc] ELSE said[h]
      BY <1>1, <2>1 DEF Typed
    <3>4. HeadsHeld'
      BY <1>2, <2>3, <3>1, <3>2, <3>3 DEF HeadsHeld, HeadSet, device
    <3> QED BY <1>2, <2>1, <2>3, <3>1, <3>4 DEF Values, DocsHeld, Greeted, HeadSet, device
  <2> QED BY <1>1, <2>4, <2>5, PartsNext DEF IInv
<1> QED BY <1>3, <1>4, <1>5

\* A mark becomes a debt and is never lost between the two.
LEMMA TakesKeeps == IInv /\ PassTakes => IInv'
<1> SUFFICES ASSUME IInv, PassTakes PROVE IInv'
  OBVIOUS
<1>1. Typed /\ HeldOrOwed /\ "MQTT" \in Consumers
  BY DEF IInv, Consumers
<1>2. /\ UNCHANGED <<unsaid, now, device, flags, plan, status_sent, subscribed, said, wire, will, held>>
      /\ pc = "take" /\ pc' = "states" /\ owed' = owed \cup model.dirty["MQTT"]
      /\ model' = [model EXCEPT !.dirty["MQTT"] = {}]
  BY DEF PassTakes
<1>3. IsModel(model') /\ model'.value = model.value
  BY <1>1, <1>2 DEF Typed, IsModel
<1>4. Typed' /\ Linked' /\ InHand' /\ Parting' /\ OnlineMeansThere' /\ (Serving' => Serving)
  BY <1>1, <1>2, <1>3, PassFrame DEF Typed
<1>5. (HeadsHeld => HeadsHeld') /\ (DocsHeld => DocsHeld') /\ (Greeted => Greeted')
  BY <1>2 DEF HeadsHeld, DocsHeld, Greeted, device
<1>6. Values => Values'
  BY <1>2, <1>3 DEF Values, device
<1> QED BY <1>1, <1>4, <1>5, <1>6, Parts, PartsNext DEF IInv

\* A debt is paid with the value the store holds at that moment.
LEMMA StatesKeeps == IInv /\ PassStates => IInv'
<1> SUFFICES ASSUME IInv, PassStates PROVE IInv'
  OBVIOUS
<1>1. Typed /\ Linked /\ HeldOrOwed
  BY DEF IInv
<1>2. /\ pc = "states" /\ Rest
      /\ UNCHANGED <<unsaid, model, now, device, flags, wire, will>>
  BY DEF PassStates, Rest
<1>3. CASE Refused
  BY <1>2, <1>3, RefusedKeeps
<1>4. CASE UNCHANGED <<held, books>> /\ pc' = "documents"
  <2>1. Typed' /\ Linked' /\ InHand' /\ Parting' /\ OnlineMeansThere' /\ (Serving' => Serving)
    BY <1>1, <1>2, <1>4, PassFrame DEF Typed, books
  <2> QED BY <1>2, <1>4, <2>1, BooksStay DEF IInv, device
<1>5. CASE ~Refused /\ ~(UNCHANGED <<held, books>> /\ pc' = "documents")
  <2> DEFINE e   == NextOwed
             new == [held EXCEPT !.value[ctx.prefix][e] = model.value[e].val]
  <2>1. /\ Accepted(new) /\ owed' = owed \ {e} /\ pc' = "states"
        /\ UNCHANGED <<plan, status_sent, subscribed, said>>
    BY <1>5 DEF PassStates, Paid
  <2>2. conn /\ held' = IF wire THEN new ELSE held
    BY <2>1, Kept
  <2>3. ValueSet(held, new, ctx.prefix, e, model.value[e].val)
    BY <1>1, PublishValue DEF Typed
  <2> HIDE DEF new, e
  <2>4. /\ Typed' /\ Linked' /\ InHand' /\ Parting' /\ OnlineMeansThere' /\ (Serving' => Serving)
    BY <1>1, <1>2, <2>1, <2>2, <2>3, PassFrame DEF Typed, ValueSet
  <2>5. ASSUME Serving, HeldOrOwed PROVE Values' /\ HeadsHeld' /\ DocsHeld' /\ Greeted'
    <3>1. Values /\ HeadsHeld /\ DocsHeld /\ Greeted /\ held' = new
      BY <2>2, <2>5, Parts DEF Serving
    <3>2. ctx.prefix \in Prefixes
      BY <1>1, <2>5 DEF Linked, Serving
    <3>3. Values'
      BY <1>2, <2>1, <2>3, <3>1, <3>2 DEF Values, ValueSet, device
    <3> QED BY <1>2, <2>1, <2>3, <3>1, <3>3 DEF HeadsHeld, DocsHeld, Greeted, ValueSet, device
  <2> QED BY <1>1, <2>4, <2>5, PartsNext DEF IInv
<1> QED BY <1>3, <1>4, <1>5

\* A document is either at the broker or cannot be rendered.
LEMMA DocumentsKeeps == IInv /\ PassDocuments => IInv'
<1> SUFFICES ASSUME IInv, PassDocuments PROVE IInv'
  OBVIOUS
<1>1. Typed /\ Linked /\ HeldOrOwed
  BY DEF IInv
<1>2. /\ pc = "documents" /\ Rest
      /\ UNCHANGED <<unsaid, model, now, device, flags, wire, will>>
  BY DEF PassDocuments, Rest
<1>3. CASE Refused
  BY <1>2, <1>3, RefusedKeeps
<1>4. CASE UNCHANGED <<held, books>> /\ pc' = "drain"
  <2>1. Typed' /\ Linked' /\ InHand' /\ Parting' /\ OnlineMeansThere' /\ (Serving' => Serving)
    BY <1>1, <1>2, <1>4, PassFrame DEF Typed, books
  <2> QED BY <1>2, <1>4, <2>1, BooksStay DEF IInv, device
<1>5. CASE ~Refused /\ ~(UNCHANGED <<held, books>> /\ pc' = "drain")
  <2> DEFINE e   == Docs[PlanNext(plan, model, ctx.discovery)]
             d   == Document(model, ctx.discovery, e)
             new == [held EXCEPT !.doc[e] = d]
  <2>1. /\ \/ Renders(d) /\ Accepted(new)
           \/ ~Renders(d) /\ UNCHANGED held
        /\ plan' = [plan EXCEPT ![e] = d] /\ pc' = "documents"
        /\ UNCHANGED <<owed, status_sent, subscribed, said>>
    BY <1>5 DEF PassDocuments
  <2>2. \/ Renders(d) /\ held' = IF wire THEN new ELSE held
        \/ ~Renders(d) /\ held' = held
    BY <2>1, Kept
  <2>3. DocumentSet(held, new, e, d)
    BY <1>1, PublishDocument DEF Typed
  <2> HIDE DEF new, d, e
  <2>4. /\ Typed' /\ Linked' /\ InHand' /\ Parting' /\ OnlineMeansThere' /\ (Serving' => Serving)
    <3>1. /\ Shape(held') /\ DOMAIN plan' = DocSet /\ held'.status = held.status
          /\ IsModel(model') /\ DOMAIN said' = Heads
      BY <1>1, <1>2, <2>1, <2>2, <2>3 DEF Typed, DocumentSet
    <3> QED BY <1>2, <2>1, <3>1, PassFrame
  <2>5. ASSUME Serving, HeldOrOwed PROVE Values' /\ HeadsHeld' /\ DocsHeld' /\ Greeted'
    <3>1. Values /\ HeadsHeld /\ DocsHeld /\ Greeted
      BY <2>5, Parts
    <3>2. /\ held'.value = held.value /\ held'.head = held.head /\ held'.status = held.status
          /\ held'.subs = held.subs
          /\ \A x \in DocSet : IF x = e THEN held'.doc[x] = d \/ ~Renders(d)
                               ELSE held'.doc[x] = held.doc[x]
      BY <2>2, <2>3, <2>5 DEF Serving, DocumentSet
    <3>3. \A x \in DocSet : plan'[x] = IF x = e THEN d ELSE plan[x]
      BY <1>1, <2>1 DEF Typed
    <3>4. DocsHeld'
      BY <3>1, <3>2, <3>3 DEF DocsHeld
    <3> QED BY <1>2, <2>1, <3>1, <3>2, <3>4 DEF Values, HeadsHeld, Greeted, device
  <2> QED BY <1>1, <2>4, <2>5, PartsNext DEF IInv
<1> QED BY <1>3, <1>4, <1>5

-----------------------------------------------------------------------------
(* The theorems.                                                            *)

LEMMA IdleKeeps == IInv /\ UNCHANGED lvars => IInv'
<1> SUFFICES ASSUME IInv, UNCHANGED lvars PROVE IInv'
  OBVIOUS
<1>1. /\ UNCHANGED <<model, now, device, flags, pc, books, budget, wire, will, held, unsaid>>
  BY DEF lvars
<1>2. Typed' /\ Linked' /\ InHand' /\ Parting' /\ OnlineMeansThere'
  BY <1>1 DEF IInv, Typed, Linked, InHand, Parting, OnlineMeansThere, device, flags, books
<1>3. Serving' => Serving
  BY <1>1 DEF Serving, device, flags
<1> QED BY <1>1, <1>2, <1>3, BooksStay DEF IInv, device

LEMMA Inductive == IInv /\ [LNext]_lvars => IInv'
BY ChangedKeeps, EditsKeep, DropKeeps, WillKeeps, DisconnectKeeps, ConnectKeeps, ConnectRestKeeps,
   DataKeeps, DrainKeeps, FollowKeeps, SayOfflineKeeps, StopKeeps, StartKeeps, StatusKeeps,
   SubscribeKeeps, HeadKeeps, TakesKeeps, StatesKeeps, DocumentsKeeps, IdleKeeps DEF LNext, Task

\* Books of both tasks, broker and network agree as IInv says, at all times.
THEOREM Invariance == LSpec => []IInv
BY Initially, Inductive, PTL DEF LSpec

\* Whatever the broker holds otherwise than the device is owed, through every
\* refusal, reconnection and change between two steps of a pass.
THEOREM NothingForgotten == LSpec => []HeldOrOwed
<1>1. IInv => HeldOrOwed
  BY DEF IInv
<1> QED BY <1>1, Invariance, PTL

\* A device the broker calls online is there, or its will is to come, or the
\* library would not carry its last word.
THEOREM OnlineIsTrue == LSpec => []OnlineMeansThere
<1>1. IInv => OnlineMeansThere
  BY DEF IInv
<1> QED BY <1>1, Invariance, PTL

\* No message outlives the client it came to: one that is handled is judged
\* against the prefix it arrived under.
THEOREM JudgedUnderItsOwn == LSpec => JudgedAsItArrived
<1> DEFINE Judged == (inbox # <<>> /\ inbox' = Tail(inbox)) => Head(inbox).prefix = ctx.prefix
<1>1. ASSUME IInv PROVE Judged
  <2>1. SUFFICES ASSUME inbox # <<>> PROVE Head(inbox).prefix = ctx.prefix
    OBVIOUS
  <2>2. inbox \in Seq(Message)
    BY <1>1 DEF IInv, InHand, Message
  <2>3. Head(inbox) \in Message
    BY <2>1, <2>2, HeadTailProperties
  <2> QED BY <2>3 DEF Message
<1>2. IInv => [Judged]_lvars
  BY <1>1
<1> QED BY <1>2, Invariance, PTL DEF JudgedAsItArrived

===============================================================================
