----------------------------- MODULE MqttBroker -----------------------------
(***************************************************************************)
(* mqtt_broker: the sessions of the embedded MQTT broker and the main loop *)
(* that reads, expires, writes and closes them.                            *)
(*                                                                         *)
(* Everything runs on the main task.  pc is where it is:                   *)
(*   accept  accept_: take new connections                                 *)
(*   read    read_ / feed of each session, in ascending order, one packet  *)
(*           per step                                                      *)
(*   tick    keep-alive and CONNECT time-outs                              *)
(*   close   write_ and close_ of each session, in descending order        *)
(*   rest    other components run; one of them may publish                 *)
(*   flush   flush_ of each session, in descending order                   *)
(* todo holds the sessions the current pass has still to visit.            *)
(*                                                                         *)
(* Sessions are numbered in the order of creation, which is their order in *)
(* conns_ and in sessions_ too.  The clients and the network are           *)
(* choices: what is read, whether a write fails, blocks or goes through,   *)
(* how much time has passed.  tx counts packets, not bytes.                *)
(***************************************************************************)
EXTENDS Naturals, FiniteSets

CONSTANTS
  ClientIds,    \* client identifiers
  NoId,         \* the empty client identifier
  Topics,
  Filters,      \* topic filters
  Matched,      \* Matched[f]: the topics that topic_matches pairs with f
  NoWill,       \* no will message
  KeepAlives,   \* subset of BOOLEAN: may a client ask for a keep-alive, for none?
  MaxClients,   \* max_clients_
  MaxBacklog,   \* max_tx_backlog, in packets
  MaxSessions   \* bound on the number of connections accepted

ASSUME BrokerAssumption ==
  /\ NoWill \notin Topics
  /\ Matched \in [Filters -> SUBSET Topics]
  /\ KeepAlives \subseteq BOOLEAN
  /\ {MaxClients, MaxBacklog, MaxSessions} \subseteq Nat

VARIABLES
  pc,
  todo,
  open,             \* the sessions in conns_ (and sessions_)
  created,          \* next_id_ - 1
  st,               \* state of every session, by number
  last_connected_,
  story             \* what the listener and the client saw of a session

vars == <<pc, todo, open, created, st, last_connected_, story>>

Numbers == 1..MaxSessions
Session ==
  [connected : BOOLEAN, graceful : BOOLEAN, close_after_flush : BOOLEAN, dead : BOOLEAN,
   client_id : ClientIds \cup {NoId}, will : Topics \cup {NoWill}, keepalive : BOOLEAN,
   subs : SUBSET Filters, tx : 0..MaxBacklog, heard : BOOLEAN]
Story ==
  [accepted : BOOLEAN, will : BOOLEAN, left : BOOLEAN, ends : Nat, wills : Nat]

\* Type correctness: no backlog grows past what a session may have queued.
TypeOK ==
  /\ pc \in {"accept", "read", "tick", "close", "rest", "flush"}
  /\ open \subseteq Numbers
  /\ todo \subseteq open
  /\ created \in 0..MaxSessions
  /\ st \in [Numbers -> Session]
  /\ last_connected_ \in Nat
  /\ story \in [Numbers -> Story]

NewSession ==
  [connected |-> FALSE, graceful |-> FALSE, close_after_flush |-> FALSE, dead |-> FALSE,
   client_id |-> NoId, will |-> NoWill, keepalive |-> FALSE, subs |-> {}, tx |-> 0,
   heard |-> FALSE]
NewStory == [accepted |-> FALSE, will |-> FALSE, left |-> FALSE, ends |-> 0, wills |-> 0]

Init ==
  /\ pc = "accept"
  /\ todo = {}
  /\ open = {}
  /\ created = 0
  /\ st = [n \in Numbers |-> NewSession]
  /\ last_connected_ = 0
  /\ story = [n \in Numbers |-> NewStory]

-----------------------------------------------------------------------------
(* Output.                                                                 *)

\* Mutant: off by one.
MutQueueOneMore(s) ==
  IF s.dead THEN s
  ELSE IF s.tx > MaxBacklog THEN [s EXCEPT !.dead = TRUE] ELSE [s EXCEPT !.tx = @ + 1]

\* queue_: a client that does not read its data is dropped.
Queue(s) ==
  IF s.dead THEN s
  ELSE IF s.tx + 1 > MaxBacklog THEN [s EXCEPT !.dead = TRUE] ELSE [s EXCEPT !.tx = @ + 1]

Live(s) == s.connected /\ ~s.dead
Subscribed(s, topic) == Live(s) /\ \E f \in s.subs : topic \in Matched[f]

\* route_, on the sessions ss.
Route(ss, topic) ==
  [n \in Numbers |-> IF n \in open /\ Subscribed(ss[n], topic) THEN Queue(ss[n]) ELSE ss[n]]

connected_count == Cardinality({n \in open : Live(st[n])})

-----------------------------------------------------------------------------
(* accept_: a connection past max_clients_ is closed at once.              *)

Accept ==
  /\ pc = "accept"
  /\ created < MaxSessions
  /\ Cardinality(open) < MaxClients
  /\ created' = created + 1
  /\ open' = open \cup {created + 1}
  /\ UNCHANGED <<pc, todo, st, last_connected_, story>>

EndAccept ==
  /\ pc = "accept"
  /\ pc' = "read"
  /\ todo' = open
  /\ UNCHANGED <<open, created, st, last_connected_, story>>

-----------------------------------------------------------------------------
(* read_, feed and handle_packet_ of session n.                            *)

Reading(n) ==
  /\ pc = "read"
  /\ n \in todo /\ \A m \in todo : n <= m
  /\ ~st[n].dead

\* The state after a packet: ss[n] has been heard, and is closed once its
\* output is flushed when the handler refused the packet (ok = FALSE) or the
\* session died of it; then read_ returns.
Fed(n, ss, ok) ==
  LET stop == ~ok \/ ss[n].dead
  IN /\ st' = [ss EXCEPT ![n].heard = TRUE, ![n].close_after_flush = @ \/ stop]
     /\ todo' = IF stop THEN todo \ {n} ELSE todo
     /\ UNCHANGED <<pc, open, created, last_connected_>>

\* Mutant: the replaced session stays.
MutReplacedStays(s) == [s EXCEPT !.graceful = TRUE]

Replaced(s) == [s EXCEPT !.graceful = TRUE, !.dead = TRUE]

\* The sessions that a CONNECT of session n with this client id takes over.
TakenOver(n, id) ==
  {m \in open \ {n} : Live(st[m]) /\ st[m].client_id = id /\ id # NoId}

\* handle_connect_, accepted
Connect(n, id, will, keepalive) ==
  /\ Reading(n) /\ ~st[n].connected
  /\ LET over == TakenOver(n, id)
         ss == [m \in Numbers |-> IF m \in over THEN Replaced(st[m]) ELSE st[m]]
     IN /\ Fed(n, [ss EXCEPT ![n] = Queue([@ EXCEPT !.connected = TRUE, !.client_id = id,
                                              !.will = will, !.keepalive = keepalive])], TRUE)
        /\ story' = [m \in Numbers |->
             IF m = n THEN [story[m] EXCEPT !.accepted = TRUE, !.will = will # NoWill]
             ELSE IF m \in over THEN [story[m] EXCEPT !.left = TRUE] ELSE story[m]]

\* A CONNECT that is refused with a CONNACK, or without one (malformed); any
\* other packet before CONNECT; a malformed, unexpected or oversized packet.
Refuse(n, connack) ==
  /\ Reading(n)
  /\ st[n].connected => ~connack
  /\ Fed(n, IF connack THEN [st EXCEPT ![n] = Queue(@)] ELSE st, FALSE)
  /\ UNCHANGED story

\* Some bytes, but no packet yet; a PUBACK; an oversized PUBLISH (discarded).
Partial(n) ==
  /\ Reading(n)
  /\ Fed(n, st, TRUE)
  /\ UNCHANGED story

\* PINGREQ, PUBREL
Ping(n) ==
  /\ Reading(n) /\ st[n].connected
  /\ Fed(n, [st EXCEPT ![n] = Queue(@)], TRUE)
  /\ UNCHANGED story

With(s, f) == [s EXCEPT !.subs = @ \cup {f}]
Without(s, f) == [s EXCEPT !.subs = @ \ {f}]

\* A packet that turns out malformed after filter f (ok = FALSE) is refused
\* without an acknowledgement, but f has been added, or removed, by then.
Answered(s, ok) == IF ok THEN Queue(s) ELSE s

handle_subscribe_(n, f, ok) ==
  /\ Reading(n) /\ st[n].connected
  /\ Fed(n, [st EXCEPT ![n] = Answered(With(@, f), ok)], ok)
  /\ UNCHANGED story

handle_unsubscribe_(n, f, ok) ==
  /\ Reading(n) /\ st[n].connected
  /\ Fed(n, [st EXCEPT ![n] = Answered(Without(@, f), ok)], ok)
  /\ UNCHANGED story

\* handle_publish_ at QoS 0 and 1: acknowledge, then route.
PublishQos01(n, topic, ack) ==
  /\ Reading(n) /\ st[n].connected
  /\ Fed(n, Route(IF ack THEN [st EXCEPT ![n] = Queue(@)] ELSE st, topic), TRUE)
  /\ UNCHANGED story

\* handle_publish_ at QoS 2: acknowledge; with the DUP flag that is all, whether or
\* not an earlier transmission was received (no message identifier is kept).
PublishQos2(n, topic, dup) ==
  LET ss == [st EXCEPT ![n] = Queue(@)]
  IN /\ Reading(n) /\ st[n].connected
     /\ Fed(n, IF dup THEN ss ELSE Route(ss, topic), TRUE)
     /\ UNCHANGED story

\* Mutant: DISCONNECT only closes the session.
MutLeavesUnmarked(s) == s

Leaves(s) == [s EXCEPT !.graceful = TRUE]

Disconnect(n) ==
  /\ Reading(n) /\ st[n].connected
  /\ Fed(n, [st EXCEPT ![n] = Leaves(@)], FALSE)
  /\ story' = [story EXCEPT ![n].left = TRUE]

\* The peer closed the connection, or the read failed.
ReadFails(n) ==
  /\ Reading(n)
  /\ st' = [st EXCEPT ![n].dead = TRUE]
  /\ todo' = todo \ {n}
  /\ UNCHANGED <<pc, open, created, last_connected_, story>>

\* Nothing more to read (for now), or the session is dead.
ReadEnds(n) ==
  /\ pc = "read"
  /\ n \in todo /\ \A m \in todo : n <= m
  /\ todo' = todo \ {n}
  /\ UNCHANGED <<pc, open, created, st, last_connected_, story>>

EndRead ==
  /\ pc = "read" /\ todo = {}
  /\ pc' = "tick"
  /\ UNCHANGED <<todo, open, created, st, last_connected_, story>>

-----------------------------------------------------------------------------
(* tick: sessions heard in this round cannot have expired.                 *)

MayExpire(s) == ~s.dead /\ ~s.heard /\ (s.connected => s.keepalive)

tick(expired) ==
  /\ pc = "tick"
  /\ expired \subseteq {n \in open : MayExpire(st[n])}
  /\ pc' = "close"
  /\ todo' = open
  /\ st' = [n \in Numbers |->
       IF n \in open THEN [st[n] EXCEPT !.dead = @ \/ n \in expired, !.heard = FALSE]
                     ELSE st[n]]
  /\ UNCHANGED <<open, created, last_connected_, story>>

-----------------------------------------------------------------------------
(* write_ and close_.                                                      *)

Mourned(s) == s.connected /\ ~s.graceful /\ s.will # NoWill

\* close_ and remove_session: the will is routed to the other sessions.
Remove(n) ==
  LET s == st[n]
      ss == [st EXCEPT ![n].dead = TRUE]
  IN /\ open' = open \ {n}
     /\ st' = [(IF Mourned(s) THEN Route(ss, s.will) ELSE ss) EXCEPT ![n] = NewSession]
     /\ story' = [story EXCEPT ![n].ends = IF s.connected THEN @ + 1 ELSE @,
                               ![n].wills = IF Mourned(s) THEN @ + 1 ELSE @]

\* One step of a pass that writes: session n, all but `left` of its packets go
\* out, or the write fails; the session is closed then, and when it is finished.
WritePass(n, left, ok, finished) ==
  /\ n \in todo /\ \A m \in todo : m <= n
  /\ left \in 0..st[n].tx
  /\ todo' = todo \ {n}
  /\ IF ~ok \/ finished
     THEN Remove(n)
     ELSE /\ st' = [st EXCEPT ![n].tx = left]
          /\ UNCHANGED <<open, story>>
  /\ UNCHANGED <<pc, created, last_connected_>>

\* Mutant: a dead session stays.
MutFinishedFlushOnly(s, left) == s.close_after_flush /\ left = 0

Finished(s, left) == s.dead \/ (s.close_after_flush /\ left = 0)

Close(n, left, ok) ==
  /\ pc = "close"
  /\ WritePass(n, left, ok, Finished(st[n], left))

\* notify_clients_
EndClose ==
  /\ pc = "close" /\ todo = {}
  /\ pc' = "rest"
  /\ last_connected_' = connected_count
  /\ UNCHANGED <<todo, open, created, st, story>>

-----------------------------------------------------------------------------
(* Between two rounds a component may publish, and flush_ writes at once.  *)

publish(topic) ==
  /\ pc = "rest"
  /\ pc' = "flush"
  /\ st' = Route(st, topic)
  /\ todo' = open
  /\ UNCHANGED <<open, created, last_connected_, story>>

flush_(n, left, ok) ==
  /\ pc = "flush"
  /\ WritePass(n, left, ok, FALSE)

EndFlush ==
  /\ pc = "flush" /\ todo = {}
  /\ pc' = "rest"
  /\ UNCHANGED <<todo, open, created, st, last_connected_, story>>

NextRound ==
  /\ pc = "rest"
  /\ pc' = "accept"
  /\ UNCHANGED <<todo, open, created, st, last_connected_, story>>

-----------------------------------------------------------------------------
Packet(n) ==
  \/ \E id \in ClientIds \cup {NoId}, will \in Topics \cup {NoWill}, k \in KeepAlives :
       Connect(n, id, will, k)
  \/ \E connack \in BOOLEAN : Refuse(n, connack)
  \/ Partial(n)
  \/ Ping(n)
  \/ \E f \in Filters, ok \in BOOLEAN : handle_subscribe_(n, f, ok)
  \/ \E f \in Filters, ok \in BOOLEAN : handle_unsubscribe_(n, f, ok)
  \/ \E topic \in Topics, ack \in BOOLEAN : PublishQos01(n, topic, ack)
  \/ \E topic \in Topics, dup \in BOOLEAN : PublishQos2(n, topic, dup)
  \/ Disconnect(n)

\* The steps that take the loop on.
LoopStep ==
  \/ EndAccept
  \/ \E n \in todo : ReadEnds(n)
  \/ EndRead
  \/ \E expired \in SUBSET open : tick(expired)
  \/ \E n \in todo : \E left \in 0..MaxBacklog, ok \in BOOLEAN : Close(n, left, ok)
  \/ EndClose
  \/ \E n \in todo : \E left \in 0..MaxBacklog, ok \in BOOLEAN : flush_(n, left, ok)
  \/ EndFlush
  \/ NextRound

Next ==
  \/ Accept
  \/ \E n \in todo : Packet(n)
  \/ \E n \in todo : ReadFails(n)
  \/ \E topic \in Topics : publish(topic)
  \/ LoopStep

Spec == Init /\ [][Next]_vars

Heard(n) == st[n].heard

\* The loop keeps running: read_ takes a bounded number of packets at a time
\* and other components publish a bounded number of times between two rounds.
\* The clock advances: a session that is not heard any more is found expired.
FairSpec ==
  /\ Spec
  /\ WF_vars(LoopStep)
  /\ SF_vars(NextRound)
  /\ \A n \in Numbers :
       []<>Heard(n) \/ SF_vars(\E expired \in SUBSET open : n \in expired /\ tick(expired))

-----------------------------------------------------------------------------
(* Properties.                                                             *)

\* At most one live session per client identifier, whatever the order in
\* which connections are opened, replaced, refused and lost.
OneSessionPerClient ==
  \A m, n \in open :
    /\ Live(st[m]) /\ Live(st[n])
    /\ st[m].client_id = st[n].client_id /\ st[m].client_id # NoId
    => m = n

\* The listener hears of the end of every accepted session once, when it is
\* removed; a will is published once if its client neither sent DISCONNECT nor
\* was replaced, and never otherwise (not even when the session dies of
\* something else between its DISCONNECT and its removal).
EndsAndWills ==
  \A n \in Numbers :
    LET over == story[n].accepted /\ n \notin open
    IN /\ story[n].ends = IF over THEN 1 ELSE 0
       /\ story[n].wills = IF over /\ story[n].will /\ ~story[n].left THEN 1 ELSE 0

\* A session whose client has gone silent (for good) is removed.
SilentIsRemoved == \A n \in Numbers : <>[](n \in open) => []<>Heard(n)
=============================================================================
