----------------------------- MODULE OtMqttLink ------------------------------
(***************************************************************************)
(* The broker connection (components/ot_mqtt_link) over the store of       *)
(* values and the discovery plan.                                          *)
(*                                                                         *)
(* Two tasks share it.  The client library's task runs on_event, which     *)
(* sets flags and queues a message; `half` says it stands between the two  *)
(* flags of a connection.  The link's own task goes round `pc`: messages,  *)
(* settings, address, then a publishing pass of at most PerPass messages,  *)
(* each owed until it was accepted.  The broker, the network and the       *)
(* library are external: `wire` is whether there is a working connection,  *)
(* `held` what the broker retains, `will` whether it still has to tell a   *)
(* death.  `heads` are the two small topics beside the values: who owns    *)
(* the heating, and the executor's reason.                                 *)
(***************************************************************************)
EXTENDS OtState, Sequences

-----------------------------------------------------------------------------
(* What Home Assistant should hold (components/ot_ha: ot_ha_plan.c), and   *)
(* what an arriving message means (components/ot_mqtt: ot_mqtt_in.c).      *)
(* A discovery document is named by the entity it describes; the limits    *)
(* printed in it are one value, Bounds of the store.                       *)

CONSTANTS
  Docs,          \* entities with a discovery document, in table order
  BoundsFrom,    \* Entities -> the identifier that tells its limits, or None
  Inverted       \* limits no document is rendered with

DocSet == {Docs[n] : n \in DOMAIN Docs}

\* A wire entity's document waits for the boiler's first word about it.
Want(m, on, e) ==
  CASE ~on -> "DROP"
    [] Source[e] = Synthetic -> "WANT"
    [] m.value[e].avail = "UNKNOWN" -> "WAIT"
    [] m.value[e].avail = "UNSUPPORTED" -> "DROP"
    [] OTHER -> "WANT"

\* The limits of an entity: the boiler's own once it has told them, until then
\* the table's, None here; None also for an entity without any.
Limits(m, e) == IF BoundsFrom[e] = None THEN None ELSE m.bounds[BoundsFrom[e]]

\* ot_ha_plan_reset: nothing told on this connection.
NoPlan == [e \in DocSet |-> [sent |-> "NONE", limits |-> None]]

\* Is there something to say about it that this connection has not heard?
Due(plan, m, on, e) ==
  CASE Want(m, on, e) = "WANT" -> plan[e] # [sent |-> "CONFIG", limits |-> Limits(m, e)]
    [] Want(m, on, e) = "DROP" -> plan[e].sent # "EMPTY"
    [] OTHER -> FALSE

\* The first document due; 0 when there is none.
PlanNext(plan, m, on) ==
  LET due == {n \in DOMAIN Docs : Due(plan, m, on, Docs[n])}
  IN  IF due = {} THEN 0 ELSE CHOOSE n \in due : \A o \in due : n <= o

Renders(doc) == doc.sent = "EMPTY" \/ doc.limits \notin Inverted

\* What is published for it: an empty document deletes the entity.
Document(m, on, e) ==
  IF Want(m, on, e) = "DROP" THEN [sent |-> "EMPTY", limits |-> Limits(m, e)]
  ELSE [sent |-> "CONFIG", limits |-> Limits(m, e)]

\* A message: the prefix in its topic, the rest of the topic, the retain flag.
Decide(prefix, msg) ==
  CASE msg.leaf = "homeassistant/status" -> "HA_ONLINE"
    [] msg.prefix # prefix -> "IGNORE"
    [] msg.retained -> "REJECT"
    [] msg.leaf = "room/state" -> "ROOM"
    [] OTHER -> "COMMAND"

-----------------------------------------------------------------------------
(* The broker connection (components/ot_mqtt_link).                        *)

CONSTANTS
  Prefixes,          \* topic prefixes; NoBroker is "no host"
  NoBroker,
  Registry,          \* the entities in order
  Settings, FirstSettings,   \* what ot_net_broker may give: [host, prefix, discovery]
  InboxLen, PerPass,
  Answers, Virtuals, \* what the bus hears and the executor shows, as in OtWs
  Leaves,            \* what messages arrive on
  Changes, Edits, Drops, Fails, Messages, Moves, Events   \* bounds

ASSUME LinkAssumption ==
  /\ InboxLen \in Nat \ {0} /\ PerPass \in Nat \ {0} /\ NoBroker \notin Prefixes
  /\ \A b \in Settings \cup FirstSettings : b.prefix \in Prefixes
  /\ \A v \in Virtuals : v.entity \in Entities

Heads == {"owner", "attributes"}

VARIABLES
  model, now,        \* the store; Heads -> what the executor says
  broker,            \* the stored settings, as ot_net_broker gives them
  seen,              \* the settings the task has followed
  ctx,               \* the prefix and the discovery flag the client runs on
  client,            \* is there a client?
  conn, repub, half, \* the flags of on_event
  inbox,
  moved,             \* has the address changed since the client was told?
  pc,
  owed, plan, status_sent, subscribed, said, budget,
  wire, will, held,
  unsaid,            \* history: prefixes left with the last word refused
  left

device == <<broker, seen, ctx, client, inbox, moved>>
flags  == <<conn, repub, half>>
books  == <<owed, plan, status_sent, subscribed, said>>
lvars  == <<model, now, device, flags, pc, books, budget, wire, will, held, unsaid, left>>

Spend(what) ==
  /\ left[what] > 0 /\ left.events > 0
  /\ left' = [left EXCEPT ![what] = @ - 1, !.events = @ - 1]

\* A publish the library refuses is counted apart from the rest.
RefusedOnce == left.fails > 0 /\ left' = [left EXCEPT !.fails = @ - 1]

Unsaid == [h \in Heads |-> None]

LInit ==
  /\ model = EmptyModel /\ now = [h \in Heads |-> 0]
  /\ broker \in FirstSettings
  /\ seen = None /\ ctx = [prefix |-> NoBroker, discovery |-> FALSE]
  /\ client = FALSE /\ conn = FALSE /\ repub = FALSE /\ half = FALSE
  /\ inbox = <<>> /\ moved = FALSE /\ pc = "drain"
  /\ owed = {} /\ plan = NoPlan /\ status_sent = FALSE /\ subscribed = FALSE
  /\ said = Unsaid /\ budget = 0
  /\ wire = FALSE /\ will = NoBroker /\ unsaid = {}
  /\ held = [status |-> [p \in Prefixes |-> "none"], value |-> [p \in Prefixes |-> [e \in Entities |-> None]],
             head |-> [p \in Prefixes |-> Unsaid], doc |-> NoPlan, subs |-> FALSE]
  /\ left = [changes |-> Changes, edits |-> Edits, drops |-> Drops, fails |-> Fails,
             messages |-> Messages, moves |-> Moves, events |-> Events]

-----------------------------------------------------------------------------
\* Around the link.

Changed ==
  /\ Spend("changes")
  /\ \/ \E a \in Answers : model' = ApplyDataid(model, a.id, a.type, a.raw) /\ UNCHANGED now
     \/ \E v \in Virtuals : model' = SetVirtual(model, v.entity, v.val) /\ UNCHANGED now
     \/ \E h \in Heads : now' = [now EXCEPT ![h] = 1 - @] /\ UNCHANGED model
  /\ UNCHANGED <<unsaid, device, flags, pc, books, budget, wire, will, held>>

Edited ==
  /\ Spend("edits")
  /\ broker' \in Settings \ {broker}
  /\ UNCHANGED <<unsaid, model, now, seen, ctx, client, inbox, moved, flags, pc, books, budget,
                 wire, will, held>>

AddressMoves ==
  /\ Spend("moves") /\ client /\ moved' = TRUE
  /\ UNCHANGED <<unsaid, model, now, broker, seen, ctx, client, inbox, flags, pc, books, budget,
                 wire, will, held>>

\* External: the connection dies and nobody is told yet.
WireDrops ==
  /\ Spend("drops") /\ wire
  /\ wire' = FALSE /\ will' = ctx.prefix /\ held' = [held EXCEPT !.subs = FALSE]
  /\ UNCHANGED <<unsaid, model, now, device, flags, pc, books, budget>>

\* External: the broker gives up on a silent client and publishes its will.
Died(p) == [held EXCEPT !.status[p] = "offline"]

WillTold ==
  /\ will # NoBroker /\ will' = NoBroker /\ held' = Died(will)
  /\ UNCHANGED <<unsaid, model, now, device, flags, pc, books, budget, wire, left>>

-----------------------------------------------------------------------------
\* on_event, on the library's task.

OnDisconnected ==
  /\ client /\ conn /\ ~wire /\ ~half
  /\ conn' = FALSE
  /\ UNCHANGED <<unsaid, model, now, device, repub, half, pc, books, budget, wire, will, held, left>>

\* The library reconnects for ever; a session that is taken over dies first.
OnConnected ==
  /\ client /\ ~conn /\ ~wire
  /\ wire' = TRUE /\ will' = NoBroker /\ held' = (IF will # NoBroker THEN Died(will) ELSE held)
  /\ conn' = TRUE /\ half' = TRUE
  /\ UNCHANGED <<unsaid, model, now, device, repub, pc, books, budget, left>>

OnConnectedRest ==
  /\ half /\ half' = FALSE /\ repub' = TRUE
  /\ UNCHANGED <<unsaid, model, now, device, conn, pc, books, budget, wire, will, held, left>>

\* A full inbox drops the message: applying it late is worse.
OnData ==
  /\ Spend("messages") /\ client /\ wire /\ ~half /\ held.subs
  /\ \E leaf \in Leaves :
       inbox' = IF Len(inbox) = InboxLen THEN inbox
                ELSE Append(inbox, [prefix |-> ctx.prefix, leaf |-> leaf, retained |-> FALSE])
  /\ UNCHANGED <<unsaid, model, now, broker, seen, ctx, client, moved, flags, pc, books, budget,
                 wire, will, held>>

-----------------------------------------------------------------------------
\* The task: messages and settings.

\* handle_inbound: a command, a reading and a refusal leave no trace in the link.
Drain ==
  /\ pc \in {"drain", "drain_again"}
  /\ IF inbox = <<>>
     THEN /\ pc' = IF pc = "drain" THEN "follow" ELSE "start"
          /\ UNCHANGED <<inbox, plan>>
     ELSE /\ inbox' = Tail(inbox) /\ UNCHANGED pc
          /\ plan' = IF Decide(ctx.prefix, Head(inbox)) = "HA_ONLINE" THEN NoPlan ELSE plan
  /\ UNCHANGED <<unsaid, model, now, broker, seen, ctx, client, moved, flags, owed, status_sent,
                 subscribed, said, budget, wire, will, held, left>>

\* The pass's first debt on this connection; the owner when there is none.
FirstOf(sent, subs) == IF ~sent THEN "status" ELSE IF ~subs THEN "subscribe" ELSE "owner"

\* Mutant of Fresh: the subscriptions of the last connection are believed.
FreshButSubscribed ==
  /\ owed' = Entities /\ plan' = NoPlan /\ status_sent' = FALSE /\ said' = Unsaid
  /\ subscribed' = subscribed

\* A broker that has just accepted us holds nothing we can trust.
Fresh ==
  /\ owed' = Entities /\ plan' = NoPlan /\ status_sent' = FALSE /\ said' = Unsaid
  /\ subscribed' = FALSE

\* Round to the messages, or into a pass; a changed address owes every document.
Goes ==
  /\ moved' = FALSE
  /\ \/ ~conn /\ pc' = "drain" /\ plan' = (IF moved THEN NoPlan ELSE plan)
        /\ UNCHANGED <<repub, owed, status_sent, subscribed, said, budget>>
     \/ conn /\ repub /\ Fresh /\ repub' = FALSE /\ budget' = PerPass /\ pc' = "status"
     \/ /\ conn /\ ~repub /\ plan' = (IF moved THEN NoPlan ELSE plan)
        /\ budget' = PerPass /\ pc' = FirstOf(status_sent, subscribed)
        /\ UNCHANGED <<repub, owed, status_sent, subscribed, said>>

\* A changed setting stops the client, which says so first.  Otherwise the
\* documents are told a changed address, and a connected link starts a pass.
Follow ==
  /\ pc = "follow" /\ seen' = broker
  /\ \/ /\ broker # seen
        /\ pc' = IF client THEN "say_offline" ELSE "drain_again"
        /\ UNCHANGED <<moved, repub, books, budget>>
     \/ broker = seen /\ Goes
  /\ UNCHANGED <<unsaid, model, now, broker, ctx, client, inbox, conn, half, wire, will,
                 held, left>>

\* What the broker retains after an accepted publish: nothing new from a dead wire.
Retains(new) == IF wire THEN new ELSE held

\* Mutant of SayOffline: it goes without a word.
SayNothing ==
  /\ pc = "say_offline" /\ pc' = "stop"
  /\ UNCHANGED <<unsaid, model, now, device, flags, books, budget, wire, will, held, left>>

\* Best effort.
SayOffline ==
  /\ pc = "say_offline" /\ pc' = "stop"
  /\ \/ conn /\ held' = Retains(Died(ctx.prefix)) /\ UNCHANGED <<unsaid, left>>
     \/ conn /\ RefusedOnce /\ unsaid' = unsaid \cup {ctx.prefix} /\ UNCHANGED held
     \/ ~conn /\ UNCHANGED <<held, unsaid, left>>
  /\ UNCHANGED <<model, now, device, flags, books, budget, wire, will>>

\* Mutant of Stop: the new client starts at once, without the second drain.
StopAndStart ==
  /\ pc = "stop" /\ ~half /\ pc' = "start"
  /\ client' = FALSE /\ conn' = FALSE /\ repub' = FALSE
  /\ wire' = FALSE /\ held' = [held EXCEPT !.subs = FALSE]
  /\ UNCHANGED <<unsaid, model, now, broker, seen, ctx, inbox, moved, half, books, budget, will, left>>

\* The stop waits for the event in hand.  A clean end leaves no will behind.
Stop ==
  /\ pc = "stop" /\ ~half /\ pc' = "drain_again"
  /\ client' = FALSE /\ conn' = FALSE /\ repub' = FALSE
  /\ wire' = FALSE /\ held' = [held EXCEPT !.subs = FALSE]
  /\ UNCHANGED <<unsaid, model, now, broker, seen, ctx, inbox, moved, half, books, budget, will, left>>

\* otml_client_start, which leaves a link with no host off.
Start ==
  /\ pc = "start" /\ pc' = "drain"
  /\ \/ /\ seen.host
        /\ ctx' = [prefix |-> seen.prefix, discovery |-> seen.discovery]
        /\ client' = TRUE /\ moved' = FALSE
     \/ ~seen.host /\ UNCHANGED <<ctx, client, moved>>
  /\ UNCHANGED <<unsaid, model, now, broker, seen, inbox, flags, books, budget, wire, will, held, left>>

-----------------------------------------------------------------------------
\* The publishing pass.

\* A publish the library accepts, and one it refuses: a refusal ends the pass.
Accepted(new) == conn /\ held' = Retains(new)

Refused ==
  /\ pc' = "drain" /\ UNCHANGED <<held, books, budget>>
  /\ \/ (~conn \/ ~wire) /\ UNCHANGED left
     \/ conn /\ wire /\ RefusedOnce

Rest == UNCHANGED <<unsaid, model, now, device, flags, wire, will>>

PassStatus ==
  /\ pc = "status" /\ Rest
  /\ \/ /\ Accepted([held EXCEPT !.status[ctx.prefix] = "online"])
        /\ status_sent' = TRUE /\ pc' = FirstOf(TRUE, subscribed)
        /\ UNCHANGED <<owed, plan, subscribed, said, budget, left>>
     \/ Refused

\* All three or again.
PassSubscribe ==
  /\ pc = "subscribe" /\ Rest
  /\ \/ /\ Accepted([held EXCEPT !.subs = TRUE]) /\ subscribed' = TRUE /\ pc' = "owner"
        /\ UNCHANGED <<owed, plan, status_sent, said, budget, left>>
     \/ Refused

\* The owner before the rest: the documents name it.  Each once in a pass.
PassHead ==
  /\ pc \in Heads /\ Rest
  /\ LET onward == IF pc = "owner" THEN "attributes" ELSE "take"
     IN  \/ /\ said[pc] = now[pc] /\ pc' = onward
            /\ UNCHANGED <<held, books, budget, left>>
         \/ /\ said[pc] # now[pc] /\ pc' = onward
            /\ Accepted([held EXCEPT !.head[ctx.prefix][pc] = now[pc]])
            /\ said' = [said EXCEPT ![pc] = now[pc]] /\ budget' = budget - 1
            /\ UNCHANGED <<owed, plan, status_sent, subscribed, left>>
         \/ said[pc] # now[pc] /\ Refused

\* The marks become debts.
PassTakes ==
  /\ pc = "take" /\ pc' = "states"
  /\ owed' = owed \cup model.dirty["MQTT"]
  /\ model' = [model EXCEPT !.dirty["MQTT"] = {}]
  /\ UNCHANGED <<unsaid, now, device, flags, plan, status_sent, subscribed, said, budget, wire, will,
                 held, left>>

NextOwed == CHOOSE e \in owed : \E n \in DOMAIN Registry :
              Registry[n] = e /\ \A o \in 1..(n - 1) : Registry[o] \notin owed

\* Mutant of Paid: the whole list at once.
PaidAll == {}

\* The bit that leaves with an accepted publish.
Paid == owed \ {NextOwed}

\* A debt is paid by an accepted publish and by nothing else.
PassStates ==
  /\ pc = "states" /\ Rest
  /\ \/ /\ (owed = {} \/ budget <= 0) /\ pc' = "documents"
        /\ UNCHANGED <<held, books, budget, left>>
     \/ /\ owed # {} /\ budget > 0
        /\ Accepted([held EXCEPT !.value[ctx.prefix][NextOwed] = model.value[NextOwed].val])
        /\ owed' = Paid /\ budget' = budget - 1 /\ pc' = "states"
        /\ UNCHANGED <<plan, status_sent, subscribed, said, left>>
     \/ owed # {} /\ budget > 0 /\ Refused

\* A document that will not render is settled unpublished.
PassDocuments ==
  /\ pc = "documents" /\ Rest
  /\ LET n == PlanNext(plan, model, ctx.discovery)
         e == Docs[n]
         d == Document(model, ctx.discovery, e)
     IN  \/ /\ (n = 0 \/ budget <= 0) /\ pc' = "drain"
            /\ UNCHANGED <<held, books, budget, left>>
         \/ /\ n # 0 /\ budget > 0
            /\ \/ Renders(d) /\ Accepted([held EXCEPT !.doc[e] = d])
               \/ ~Renders(d) /\ UNCHANGED held
            /\ plan' = [plan EXCEPT ![e] = d] /\ budget' = budget - 1 /\ pc' = "documents"
            /\ UNCHANGED <<owed, status_sent, subscribed, said, left>>
         \/ n # 0 /\ budget > 0 /\ Renders(d) /\ Refused

Task == Drain \/ Follow \/ SayOffline \/ Stop \/ Start \/ PassStatus \/ PassSubscribe
        \/ PassHead \/ PassTakes \/ PassStates \/ PassDocuments

LNext ==
  \/ Changed \/ Edited \/ AddressMoves \/ WireDrops \/ WillTold
  \/ OnDisconnected \/ OnConnected \/ OnConnectedRest \/ OnData
  \/ Task

\* The task goes round for ever and the library tells what it sees and
\* reconnects for ever.
LSpec ==
  /\ LInit /\ [][LNext]_lvars
  /\ WF_lvars(Task) /\ WF_lvars(OnDisconnected) /\ WF_lvars(OnConnected)
  /\ WF_lvars(OnConnectedRest)

-----------------------------------------------------------------------------
\* Properties.

\* While a connection works and its beginning has been served, whatever the
\* broker holds otherwise than the device is owed: no refused publish, no
\* reconnection and no change between two steps loses one.
HeldOrOwed ==
  (client /\ conn /\ wire /\ ~half /\ ~repub /\ pc # "stop") =>
    /\ \A e \in Entities :
         \/ held.value[ctx.prefix][e] = model.value[e].val
         \/ e \in owed \cup model.dirty["MQTT"]
    /\ \A h \in Heads : said[h] # None => held.head[ctx.prefix][h] = said[h]
    /\ \A e \in DocSet : plan[e].sent # "NONE" =>
         held.doc[e] = plan[e] \/ ~Renders(plan[e])
    /\ subscribed => held.subs
    /\ status_sent => held.status[ctx.prefix] = "online"

\* Nobody goes on reading `online` of a device that has left: under a prefix
\* the broker holds `online` for, the device is connected, or its will is to come,
\* or the broker's library refused to say goodbye.
OnlineMeansThere ==
  \A p \in Prefixes : held.status[p] = "online" =>
    (client /\ wire /\ ctx.prefix = p) \/ will = p \/ p \in unsaid

\* A message is judged against the prefix it arrived under.
JudgedAsItArrived ==
  [][(inbox # <<>> /\ inbox' = Tail(inbox)) => Head(inbox).prefix = ctx.prefix]_lvars

\* Once the owner and the network leave a configured link alone, the broker
\* comes to hold everything: availability, subscriptions, values, documents.
BrokerCatchesUp ==
  <>[](client /\ wire) => <>[](
    /\ client /\ wire
    /\ held.status[ctx.prefix] = "online" /\ held.subs
    /\ held.value[ctx.prefix] = [e \in Entities |-> model.value[e].val]
    /\ held.head[ctx.prefix] = now
    /\ \A e \in DocSet :
         LET d == Document(model, ctx.discovery, e)
         IN  Want(model, ctx.discovery, e) = "WAIT" \/ ~Renders(d) \/ held.doc[e] = d
             \/ (d.sent = "EMPTY" /\ held.doc[e].sent = "EMPTY"))
==============================================================================
