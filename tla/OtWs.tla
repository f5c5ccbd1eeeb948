-------------------------------- MODULE OtWs ---------------------------------
(***************************************************************************)
(* The live socket (components/ot_http: ot_http_ws.c, ot_http_ws_push.c)   *)
(* over the store of values (OtState) and the tickets (components/         *)
(* ot_ticket).                                                             *)
(*                                                                         *)
(* Three tasks.  The bus task changes the store at any time.  The timer's  *)
(* task queues one piece of work a second, and only while there is         *)
(* somebody to serve.  The server's task does one thing at a time: it      *)
(* answers a request, closes a session or does the queued work, which is   *)
(* several steps because the store may change between any two.  `phase` is *)
(* where the work stands.  Browsers are external: `shown` is what the page *)
(* behind a descriptor holds.                                              *)
(*                                                                         *)
(* The server is started once and never stopped: nothing in the firmware   *)
(* calls ot_http_stop.                                                     *)
(***************************************************************************)
EXTENDS OtState, Sequences, FiniteSets

-----------------------------------------------------------------------------
(* components/ot_ticket: the table of one-shot tickets.  A ticket's value  *)
(* is its serial number.  A slot keeps the ticket's age rather than the    *)
(* time of its issue; past the lifetime ages are alike.                    *)

CONSTANTS TicketSlots, TicketTtl

ASSUME TicketAssumption == TicketSlots \in Nat \ {0} /\ TicketTtl \in Nat

Blank == [value |-> 0, age |-> 0, live |-> FALSE]

\* ot_ticket_reset.
NoTickets == [s \in 1..TicketSlots |-> Blank]

Spendable(slot) == slot.live /\ slot.age <= TicketTtl

\* The first slot that is free or expired; else the oldest, the first of equals.
Chosen(t) ==
  LET free == {s \in DOMAIN t : ~Spendable(t[s])}
      oldest == {s \in DOMAIN t : \A o \in DOMAIN t : t[o].age <= t[s].age}
      from == IF free # {} THEN free ELSE oldest
  IN  CHOOSE s \in from : \A o \in from : s <= o

Issue(t, value) == [t EXCEPT ![Chosen(t)] = [value |-> value, age |-> 0, live |-> TRUE]]

Holding(t, value) == {s \in DOMAIN t : Spendable(t[s]) /\ t[s].value = value}

\* Mutant of Redeem: the ticket stays good.
RedeemForEver(t, value) == t

\* One-shot: redeeming one that is not there changes nothing.
Redeem(t, value) ==
  [s \in DOMAIN t |-> IF s \in Holding(t, value) THEN [t[s] EXCEPT !.live = FALSE] ELSE t[s]]

\* Time goes by.
Older(t) == [s \in DOMAIN t |-> [t[s] EXCEPT !.age = IF @ > TicketTtl THEN @ ELSE @ + 1]]

-----------------------------------------------------------------------------
(* The live socket.                                                        *)

CONSTANTS
  Slots,       \* places for sockets, 1..n
  Registry,    \* the entities in the order of the registry
  Fds,         \* descriptors, which the server gives out again
  Free,        \* no descriptor
  Answers,     \* what the bus hears: records [id, type, raw]
  Virtuals,    \* what the executor shows: records [entity, val]
  Changes, Refusals, Issues, Opens, Seconds,   \* bounds, one for each kind of event
  Events       \* and one for all of them together

ASSUME WsAssumption ==
  /\ Fds \subseteq Nat /\ Free \notin Fds /\ Slots \subseteq Nat /\ Registry # <<>>
  /\ \A a \in Answers : a.id \in Ids
  /\ \A v \in Virtuals : v.entity \in Entities

VARIABLES
  model,       \* the store
  client,      \* Slots -> [fd, snapshot, due]: due, the last send is a ping away
  idle, queued,
  work,        \* pieces of work in the server's control socket
  phase,       \* "none", "take", "delta", "ping"
  mask,        \* the marks the work has taken
  asking,      \* how many marks the work has looked at
  sess,        \* Fds -> "closed", "http", "ws", "closing"
  shown,       \* Fds -> Entities -> what the page shows
  tickets,
  issued,      \* history: serial number -> [age, spent]
  heard,       \* history: Ids -> the types of the last UnsupportedAt answers, newest first
  left

wvars == <<model, client, idle, queued, work, phase, mask, asking, sess, shown, tickets,
           issued, heard, left>>

Nothing == [e \in Entities |-> None]

Gone == [fd |-> Free, snapshot |-> FALSE, due |-> FALSE]

WInit ==
  /\ model = EmptyModel
  /\ client = [s \in Slots |-> Gone] /\ idle = TRUE /\ queued = FALSE
  /\ work = 0 /\ phase = "none" /\ mask = {} /\ asking = 0
  /\ sess = [f \in Fds |-> "closed"] /\ shown = [f \in Fds |-> Nothing]
  /\ tickets = NoTickets /\ issued = <<>>
  /\ heard = [id \in Ids |-> [n \in 1..UnsupportedAt |-> "none"]]
  /\ left = [changes |-> Changes, refusals |-> Refusals, issues |-> Issues,
             opens |-> Opens, seconds |-> Seconds, events |-> Events]

Spend(what) ==
  /\ left[what] > 0 /\ left.events > 0
  /\ left' = [left EXCEPT ![what] = @ - 1, !.events = @ - 1]

-----------------------------------------------------------------------------
\* The bus task and the executor.

Hear ==
  /\ Spend("changes")
  /\ \E a \in Answers :
       /\ model' = ApplyDataid(model, a.id, a.type, a.raw)
       /\ heard' = [heard EXCEPT ![a.id] =
                      [n \in 1..UnsupportedAt |-> IF n = 1 THEN a.type ELSE @[n - 1]]]
  /\ UNCHANGED <<client, idle, queued, work, phase, mask, asking, sess, shown, tickets, issued>>

Decided ==
  /\ Spend("changes")
  /\ \E v \in Virtuals : model' = SetVirtual(model, v.entity, v.val)
  /\ UNCHANGED <<client, idle, queued, work, phase, mask, asking, sess, shown, tickets,
                 issued, heard>>

-----------------------------------------------------------------------------
\* The timer's task.

\* ot_ws_push_queue, up to the call that queues.
Tick ==
  /\ ~idle /\ ~queued
  /\ queued' = TRUE /\ work' = work + 1
  /\ UNCHANGED <<model, client, idle, phase, mask, asking, sess, shown, tickets, issued,
                 heard, left>>

\* Mutant of TickRefused: a refusal leaves the flag up.
TickRefusedForGood ==
  /\ ~idle /\ ~queued /\ Spend("refusals")
  /\ queued' = TRUE
  /\ UNCHANGED <<model, client, idle, work, phase, mask, asking, sess, shown, tickets,
                 issued, heard>>

\* The server would not take the work: the next tick tries again.
TickRefused ==
  /\ ~idle /\ ~queued /\ Spend("refusals")
  /\ queued' = FALSE
  /\ UNCHANGED <<model, client, idle, work, phase, mask, asking, sess, shown, tickets,
                 issued, heard>>

-----------------------------------------------------------------------------
\* Sessions, on the server's task.

Between == phase = "none"

\* External: a browser opens a connection, and gets the lowest free descriptor.
Open ==
  /\ Between /\ Spend("opens")
  /\ \E f \in Fds :
       /\ sess[f] = "closed" /\ \A g \in Fds : sess[g] = "closed" => f <= g
       /\ sess' = [sess EXCEPT ![f] = "http"]
  /\ UNCHANGED <<model, client, idle, queued, work, phase, mask, asking, shown, tickets,
                 issued, heard>>

\* External: the peer closed, the oldest session made room, a close was due.
\* Nobody tells the list.
End(f) ==
  /\ Between /\ sess[f] # "closed"
  /\ sess' = [sess EXCEPT ![f] = "closed"] /\ shown' = [shown EXCEPT ![f] = Nothing]
  /\ UNCHANGED <<model, client, idle, queued, work, phase, mask, asking, tickets, issued,
                 heard, left>>

\* Mutant of Prune: the list remembers for itself.
PruneNothing == client

\* Descriptors behind which there is no socket any more.
Prune ==
  [s \in Slots |-> IF client[s].fd # Free /\ sess[client[s].fd] \notin {"ws", "closing"}
                   THEN Gone ELSE client[s]]

\* ot_http_ws_ticket_post, under the ordinary access policy.
PostTicket ==
  /\ Between /\ Spend("issues")
  /\ tickets' = Issue(tickets, Len(issued) + 1)
  /\ issued' = Append(issued, [age |-> 0, spent |-> FALSE])
  /\ UNCHANGED <<model, client, idle, queued, work, phase, mask, asking, sess, shown, heard>>

RoomIn(list) == {s \in Slots : list[s].fd = Free}

\* ot_http_ws_pre_handshake: room first, the ticket afterwards, then the slot.
Handshake(f, v) ==
  /\ Between /\ sess[f] = "http" /\ v \in DOMAIN issued
  /\ \E list \in {Prune} :
     \/ /\ RoomIn(list) = {} \/ Holding(tickets, v) = {}
        /\ client' = list
        /\ sess' = [sess EXCEPT ![f] = "closed"] /\ shown' = [shown EXCEPT ![f] = Nothing]
        /\ UNCHANGED <<tickets, issued, idle>>
     \/ /\ RoomIn(list) # {} /\ Holding(tickets, v) # {}
        /\ tickets' = Redeem(tickets, v) /\ issued' = [issued EXCEPT ![v].spent = TRUE]
        /\ \E s \in RoomIn(list) :
             /\ \A o \in RoomIn(list) : s <= o
             /\ client' = IF \E o \in Slots : list[o].fd = f THEN list
                          ELSE [list EXCEPT ![s] = [Gone EXCEPT !.fd = f]]
        /\ idle' = FALSE
        /\ sess' = [sess EXCEPT ![f] = "ws"] /\ shown' = [shown EXCEPT ![f] = Nothing]
  /\ UNCHANGED <<model, queued, work, phase, mask, asking, heard, left>>

\* Time, for the tickets and for the silence on every socket.
Second ==
  /\ Spend("seconds")
  /\ tickets' = Older(tickets)
  /\ issued' = [v \in DOMAIN issued |->
                  [issued[v] EXCEPT !.age = IF @ > TicketTtl THEN @ ELSE @ + 1]]
  /\ client' = [s \in Slots |-> IF client[s].fd # Free THEN [client[s] EXCEPT !.due = TRUE]
                                ELSE client[s]]
  /\ UNCHANGED <<model, idle, queued, work, phase, mask, asking, sess, shown, heard>>

-----------------------------------------------------------------------------
\* The queued work, on the server's task.

\* A frame to the sockets in `to`: those in `failed` are closed, not forgotten,
\* and the others show its values.  The value a frame carries was read with it.
SendTo(list, to, failed, items) ==
  /\ client' = [s \in Slots |->
       IF s \notin to THEN list[s]
       ELSE IF s \in failed THEN Gone
       ELSE [fd |-> list[s].fd, snapshot |-> TRUE, due |-> FALSE]]
  /\ sess' = [f \in Fds |-> IF \E s \in failed : list[s].fd = f THEN "closing" ELSE sess[f]]
  /\ shown' = [f \in Fds |->
       IF \E s \in to \ failed : list[s].fd = f
       THEN [e \in Entities |-> IF e \in items THEN model.value[e] ELSE shown[f][e]]
       ELSE shown[f]]

Seen(list) == {s \in Slots : list[s].fd # Free}

\* Nobody there: no mark is taken, and no more work until a handshake.
WorkForNobody ==
  /\ Between /\ work > 0 /\ Seen(Prune) = {}
  /\ work' = work - 1 /\ queued' = FALSE /\ idle' = TRUE /\ client' = Prune
  /\ UNCHANGED <<model, phase, mask, asking, sess, shown, tickets, issued, heard, left>>

\* The whole state to those who have not seen it.
WorkBegins ==
  /\ Between /\ work > 0 /\ Seen(Prune) # {}
  /\ work' = work - 1 /\ queued' = FALSE
  /\ \E list \in {Prune} :
       \E failed \in SUBSET {s \in Seen(list) : ~list[s].snapshot} :
         SendTo(list, {s \in Seen(list) : ~list[s].snapshot}, failed, Entities)
  /\ phase' = "take" /\ asking' = 0 /\ mask' = {}
  /\ UNCHANGED <<model, idle, tickets, issued, heard, left>>

\* The marks, one entity at a time, each under the lock by itself.
WorkTakes ==
  /\ phase = "take"
  /\ LET n == asking + 1
         e == Registry[n]
     IN  /\ mask' = IF e \in model.dirty["WEB"] THEN mask \cup {e} ELSE mask
         /\ model' = TakeDirty(model, "WEB", e)
         /\ IF n = Len(Registry) THEN phase' = "delta" /\ asking' = 0
            ELSE phase' = "take" /\ asking' = n
  /\ UNCHANGED <<client, idle, queued, work, sess, shown, tickets, issued, heard, left>>

\* One frame with what has changed, to those who have the rest.
WorkSendsDelta ==
  /\ phase = "delta"
  /\ LET to == {s \in Seen(client) : client[s].snapshot}
     IN  \/ mask = {} /\ UNCHANGED <<client, sess, shown>>
         \/ mask # {} /\ \E failed \in SUBSET to : SendTo(client, to, failed, mask)
  /\ mask' = {} /\ phase' = "ping"
  /\ UNCHANGED <<model, idle, queued, work, asking, tickets, issued, heard, left>>

\* A word to those who have had none for ten seconds.
WorkPings ==
  /\ phase = "ping" /\ phase' = "none"
  /\ LET to == {s \in Seen(client) : client[s].due}
     IN  \E failed \in SUBSET to : SendTo(client, to, failed, {})
  /\ UNCHANGED <<model, idle, queued, work, mask, asking, tickets, issued, heard, left>>

Work == WorkForNobody \/ WorkBegins \/ WorkTakes \/ WorkSendsDelta \/ WorkPings

WNext ==
  \/ Hear \/ Decided \/ Tick \/ TickRefused \/ Open \/ PostTicket \/ Second \/ Work
  \/ \E f \in Fds : End(f) \/ \E v \in DOMAIN issued : Handshake(f, v)

\* The timer is periodic and the server's task drains its control socket.
WSpec == WInit /\ [][WNext]_wvars /\ WF_wvars(Tick) /\ WF_wvars(Work)
-----------------------------------------------------------------------------
\* Properties.

\* An open socket is on the list, and whatever its page shows otherwise than
\* the store has a mark still to be served: there is no third outcome in which
\* it shows a stale value indefinitely.
PageCurrentOrOwed ==
  \A f \in Fds : sess[f] = "ws" =>
    \E s \in Slots :
      /\ client[s].fd = f
      /\ client[s].snapshot => \A e \in Entities :
           shown[f][e] = model.value[e] \/ e \in model.dirty["WEB"] \cup mask

\* A socket that stays open comes to show what the store holds.
PageCatchesUp ==
  \A f \in Fds : sess[f] = "ws" ~> (sess[f] # "ws" \/ shown[f] = model.value)

\* An identifier is given up after so many UNKNOWN-DATAID in a row and never
\* on a single spoilt frame: any other answer in between starts again.
GivenUpAfterTwo ==
  [][\A id \in Ids : (id \in model'.unsupported /\ id \notin model.unsupported) =>
       \A n \in 1..UnsupportedAt : heard'[id][n] = "UNKNOWN_DATAID"]_wvars

\* A socket opens on a ticket that is young enough and that no socket was
\* opened on before.
TicketOnceInTime ==
  [][\A f \in Fds : (sess[f] # "ws" /\ sess'[f] = "ws") =>
       \E v \in DOMAIN issued : ~issued[v].spent /\ issued'[v].spent
                                 /\ issued[v].age <= TicketTtl]_wvars

=============================================================================
