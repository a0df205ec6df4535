-------------------------- MODULE MqttBroker_proofs --------------------------
(***************************************************************************)
(* The safety properties of the broker, for any number of clients,         *)
(* sessions, topics and filters and any limits.                            *)
(*                                                                         *)
(* The inductive invariant adds to the properties what ties a session to   *)
(* its story (Account): while a session is open, its record and its story  *)
(* agree and nothing has been announced; once it is removed, its end, and  *)
(* its will where one is due, have been announced once.                    *)
(***************************************************************************)
EXTENDS MqttBroker, FiniteSetTheorems, TLAPS

Account(n) ==
  /\ n \notin open => st[n] = NewSession
  /\ n > created => n \notin open /\ story[n] = NewStory
  /\ n \in open =>
       /\ story[n].ends = 0 /\ story[n].wills = 0
       /\ story[n].accepted = st[n].connected
       /\ story[n].left = st[n].graceful
       /\ story[n].will = (st[n].will # NoWill)
  /\ n \notin open =>
       /\ story[n].ends = IF story[n].accepted THEN 1 ELSE 0
       /\ story[n].wills = IF story[n].accepted /\ story[n].will /\ ~story[n].left
                           THEN 1 ELSE 0

Accounts == \A n \in Numbers : Account(n)

IInv == TypeOK /\ Accounts /\ OneSessionPerClient

\* What packets, time-outs and writes leave alone in a session.
Kept(s, r) ==
  /\ r \in Session
  /\ r.connected = s.connected
  /\ r.graceful = s.graceful
  /\ r.client_id = s.client_id
  /\ r.will = s.will
  /\ s.dead => r.dead

-----------------------------------------------------------------------------
\* queue_ only adds to the output of a session, or marks it dead.
LEMMA QueueKeeps ==
  ASSUME NEW s \in Session
  PROVE  Kept(s, Queue(s))
  <1>1. MaxBacklog \in Nat
    BY BrokerAssumption
  <1>2. CASE s.dead
    BY <1>2 DEF Queue, Kept
  <1>3. CASE ~s.dead /\ s.tx + 1 > MaxBacklog
    <2>1. Queue(s) = [s EXCEPT !.dead = TRUE]
      BY <1>3 DEF Queue
    <2> QED BY <2>1 DEF Kept, Session
  <1>4. CASE ~s.dead /\ ~(s.tx + 1 > MaxBacklog)
    <2>1. Queue(s) = [s EXCEPT !.tx = @ + 1]
      BY <1>4 DEF Queue
    <2>2. s.tx + 1 \in 0..MaxBacklog
      BY <1>1, <1>4 DEF Session
    <2> QED BY <2>1, <2>2 DEF Kept, Session
  <1> QED BY <1>2, <1>3, <1>4

\* So does route_, for the open sessions; the others are left alone.
LEMMA RouteKeeps ==
  ASSUME NEW ss \in [Numbers -> Session], NEW topic
  PROVE  /\ Route(ss, topic) \in [Numbers -> Session]
         /\ \A n \in Numbers : Kept(ss[n], Route(ss, topic)[n])
         /\ \A n \in Numbers \ open : Route(ss, topic)[n] = ss[n]
  <1>1. \A n \in Numbers : Kept(ss[n], Queue(ss[n])) /\ Kept(ss[n], ss[n])
    BY QueueKeeps DEF Kept
  <1>2. \A n \in Numbers : Kept(ss[n], Route(ss, topic)[n])
    BY <1>1 DEF Route
  <1>3. \A n \in Numbers \ open : Route(ss, topic)[n] = ss[n]
    BY DEF Route
  <1>4. Route(ss, topic) \in [Numbers -> Session]
    <2>1. \A n \in Numbers : Route(ss, topic)[n] \in Session
      BY <1>2 DEF Kept
    <2>2. Route(ss, topic) = [n \in Numbers |-> Route(ss, topic)[n]]
      BY DEF Route
    <2> QED BY <2>1, <2>2
  <1> QED BY <1>2, <1>3, <1>4

\* Kept is a preorder.
LEMMA KeptTrans ==
  ASSUME NEW s, NEW r, NEW q, Kept(s, r), Kept(r, q)
  PROVE  Kept(s, q)
  BY DEF Kept

\* The number of connected clients is a number.
LEMMA CountType ==
  ASSUME TypeOK
  PROVE  connected_count \in Nat
  <1>1. IsFiniteSet(Numbers)
    BY FS_Interval, BrokerAssumption DEF Numbers
  <1>2. {n \in open : Live(st[n])} \subseteq Numbers
    BY DEF TypeOK
  <1> QED BY <1>1, <1>2, FS_Subset, FS_CardinalityType DEF connected_count

\* A step that keeps the sessions and their stories keeps the invariant.
LEMMA KeepingStep ==
  ASSUME IInv,
         TypeOK',
         open' = open, created' = created, story' = story,
         \A n \in open : Kept(st[n], st'[n]),
         \A n \in Numbers \ open : st'[n] = st[n]
  PROVE  IInv'
  <1>1. Accounts'
    <2> SUFFICES ASSUME NEW n \in Numbers PROVE Account(n)'
      BY DEF Accounts
    <2>1. Account(n)
      BY DEF IInv, Accounts
    <2> QED BY <2>1 DEF Account, Kept
  <1>2. OneSessionPerClient'
    BY DEF IInv, OneSessionPerClient, Kept, Live
  <1> QED BY <1>1, <1>2 DEF IInv

\* handle_packet_: the end of every packet handler.
LEMMA FedStep ==
  ASSUME IInv,
         NEW n \in open, NEW ss \in [Numbers -> Session], NEW ok \in BOOLEAN,
         Fed(n, ss, ok)
  PROVE  /\ pc' = pc /\ open' = open /\ created' = created
         /\ last_connected_' = last_connected_
         /\ todo' \subseteq open
         /\ st' \in [Numbers -> Session]
         /\ \A m \in Numbers : Kept(ss[m], st'[m])
         /\ \A m \in Numbers \ open : st'[m] = ss[m]
  <1>1. n \in Numbers /\ todo \subseteq open
    BY DEF IInv, TypeOK
  <1> DEFINE r == [ss[n] EXCEPT !.heard = TRUE, !.close_after_flush = @ \/ ~ok \/ ss[n].dead]
  <1>2. r \in Session /\ Kept(ss[n], r)
    BY <1>1 DEF Session, Kept
  <1>3. st' = [ss EXCEPT ![n] = r]
    BY <1>1 DEF Fed, Session
  <1>4. \A m \in Numbers : Kept(ss[m], st'[m])
    BY <1>2, <1>3 DEF Kept
  <1> QED BY <1>1, <1>2, <1>3, <1>4 DEF Fed

\* A packet that changes nothing but output, subscriptions and life.
LEMMA KeepingPacket ==
  ASSUME IInv,
         NEW n \in open, NEW ss \in [Numbers -> Session], NEW ok \in BOOLEAN,
         Fed(n, ss, ok),
         \A m \in open : Kept(st[m], ss[m]),
         \A m \in Numbers \ open : ss[m] = st[m],
         story' = story
  PROVE  IInv'
  <1>1. /\ pc' = pc /\ open' = open /\ created' = created
        /\ last_connected_' = last_connected_
        /\ todo' \subseteq open
        /\ st' \in [Numbers -> Session]
        /\ \A m \in Numbers : Kept(ss[m], st'[m])
        /\ \A m \in Numbers \ open : st'[m] = ss[m]
    BY FedStep
  <1>2. TypeOK'
    BY <1>1 DEF IInv, TypeOK
  <1>3. \A m \in open : Kept(st[m], st'[m])
    BY <1>1, KeptTrans DEF IInv, TypeOK
  <1> QED BY <1>1, <1>2, <1>3, KeepingStep

-----------------------------------------------------------------------------
\* The initial state satisfies the invariant: no session, nothing announced.
LEMMA InitInv == Init => IInv
  <1> SUFFICES ASSUME Init PROVE IInv
    OBVIOUS
  <1>1. NewSession \in Session /\ NewStory \in Story
    BY BrokerAssumption DEF NewSession, NewStory, Session, Story
  <1>2. TypeOK
    BY <1>1, BrokerAssumption DEF Init, TypeOK
  <1>3. Accounts
    BY DEF Init, Accounts, Account, NewStory
  <1>4. OneSessionPerClient
    BY DEF Init, OneSessionPerClient
  <1> QED BY <1>2, <1>3, <1>4 DEF IInv

\* accept_: a new session starts with a blank record and a blank story.
LEMMA AcceptInv == IInv /\ Accept => IInv'
  <1> SUFFICES ASSUME IInv, Accept PROVE IInv'
    OBVIOUS
  <1> DEFINE k == created + 1
  <1>1. k \in Numbers /\ k > created /\ created' = k
    BY BrokerAssumption DEF IInv, TypeOK, Accept, Numbers
  <1>2. /\ k \notin open /\ open' = open \cup {k}
        /\ st' = st /\ story' = story
        /\ st[k] = NewSession /\ story[k] = NewStory
    BY <1>1 DEF IInv, Accounts, Account, Accept
  <1>3. TypeOK'
    BY <1>1, <1>2 DEF IInv, TypeOK, Accept, Numbers
  <1>4. Accounts'
    <2> SUFFICES ASSUME NEW n \in Numbers PROVE Account(n)'
      BY DEF Accounts
    <2>1. Account(n) /\ created \in Nat /\ n \in Nat
      BY DEF IInv, Accounts, TypeOK, Numbers
    <2>2. CASE n = k
      <3>1. n \in open' /\ ~(n > created') /\ st'[n] = NewSession /\ story'[n] = NewStory
        BY <1>1, <1>2, <2>1, <2>2
      <3>2. /\ story'[n].ends = 0 /\ story'[n].wills = 0
            /\ ~story'[n].accepted /\ ~story'[n].left /\ ~story'[n].will
            /\ ~st'[n].connected /\ ~st'[n].graceful /\ st'[n].will = NoWill
        BY <3>1 DEF NewSession, NewStory
      <3>3. st'[n].connected \in BOOLEAN /\ st'[n].graceful \in BOOLEAN
            /\ story'[n] \in Story
        BY <1>3 DEF TypeOK, Session
      <3> QED BY <3>1, <3>2, <3>3 DEF Account, Story
    <2>3. CASE n # k
      <3>1. n > created' => n > created
        BY <1>1, <2>1
      <3> QED BY <1>2, <2>1, <2>3, <3>1 DEF Account
    <2> QED BY <2>2, <2>3
  <1>5. OneSessionPerClient'
    BY <1>2 DEF IInv, OneSessionPerClient, Live, NewSession
  <1> QED BY <1>3, <1>4, <1>5 DEF IInv

\* The steps that only move the loop on.
LEMMA MovesInv ==
  ASSUME IInv, UNCHANGED <<open, created, st, story>>,
         pc' \in {"accept", "read", "tick", "close", "rest", "flush"},
         todo' \subseteq open, last_connected_' \in Nat
  PROVE  IInv'
  BY DEF IInv, TypeOK, Accounts, Account, OneSessionPerClient

\* An accepted CONNECT, with the takeover it may entail.
LEMMA ConnectInv ==
  ASSUME IInv, NEW n \in todo, NEW id \in ClientIds \cup {NoId},
         NEW will \in Topics \cup {NoWill}, NEW k \in KeepAlives, Connect(n, id, will, k)
  PROVE  IInv'
  <1> DEFINE over == TakenOver(n, id)
             s1 == [st[n] EXCEPT !.connected = TRUE, !.client_id = id,
                                 !.will = will, !.keepalive = k]
             sr == [m \in Numbers |-> IF m \in over THEN Replaced(st[m]) ELSE st[m]]
             ss == [sr EXCEPT ![n] = Queue(s1)]
  <1>1. n \in open /\ n \in Numbers /\ ~st[n].dead /\ ~st[n].connected
        /\ over \subseteq open \ {n} /\ open \subseteq Numbers /\ st \in [Numbers -> Session]
    BY DEF IInv, TypeOK, Connect, Reading, TakenOver
  <1>2. s1 \in Session /\ s1.connected /\ s1.client_id = id /\ s1.will = will
        /\ s1.graceful = st[n].graceful
    BY <1>1, BrokerAssumption DEF Session
  <1>3. Kept(s1, Queue(s1))
    BY <1>2, QueueKeeps
  <1>4. \A m \in over : /\ Replaced(st[m]) \in Session
                        /\ Replaced(st[m]).dead /\ Replaced(st[m]).graceful
                        /\ Replaced(st[m]).connected = st[m].connected
                        /\ Replaced(st[m]).will = st[m].will
    BY <1>1 DEF Replaced, Session
  <1>5. sr \in [Numbers -> Session] /\ sr[n] = st[n]
    BY <1>1, <1>4
  <1>6. ss \in [Numbers -> Session] /\ ss[n] = Queue(s1)
        /\ \A m \in Numbers \ {n} : ss[m] = sr[m]
    BY <1>1, <1>3, <1>5 DEF Kept
  <1>7. Fed(n, ss, TRUE)
    BY <1>5 DEF Connect
  <1>8. /\ pc' = pc /\ open' = open /\ created' = created
        /\ last_connected_' = last_connected_
        /\ todo' \subseteq open
        /\ st' \in [Numbers -> Session]
        /\ \A m \in Numbers : Kept(ss[m], st'[m])
        /\ \A m \in Numbers \ open : st'[m] = ss[m]
    BY <1>1, <1>6, <1>7, FedStep
  <1>9. story' = [m \in Numbers |->
             IF m = n THEN [story[m] EXCEPT !.accepted = TRUE, !.will = will # NoWill]
             ELSE IF m \in over THEN [story[m] EXCEPT !.left = TRUE] ELSE story[m]]
    BY DEF Connect
  <1>10. TypeOK'
    <2>1. \A m \in Numbers :
            /\ [story[m] EXCEPT !.accepted = TRUE, !.will = will # NoWill] \in Story
            /\ [story[m] EXCEPT !.left = TRUE] \in Story
            /\ story[m] \in Story
      BY DEF IInv, TypeOK, Story
    <2>2. story' \in [Numbers -> Story]
      BY <1>9, <2>1
    <2> QED BY <1>8, <2>2 DEF IInv, TypeOK, Connect
  <1>11. /\ st'[n].connected /\ st'[n].graceful = st[n].graceful
         /\ st'[n].will = will /\ st'[n].client_id = id
    BY <1>1, <1>2, <1>3, <1>6, <1>8 DEF Kept
  <1>12. \A m \in over : /\ st'[m].connected = st[m].connected /\ st'[m].will = st[m].will
                         /\ st'[m].graceful /\ st'[m].dead
    <2> SUFFICES ASSUME NEW m \in over
                 PROVE  /\ st'[m].connected = st[m].connected /\ st'[m].will = st[m].will
                        /\ st'[m].graceful /\ st'[m].dead
      OBVIOUS
    <2>1. ss[m] = Replaced(st[m])
      BY <1>1, <1>6
    <2>2. Kept(ss[m], st'[m]) /\ m \in Numbers /\ m \in over
      BY <1>1, <1>8
    <2> HIDE DEF over, ss
    <2> QED BY <1>4, <2>1, <2>2 DEF Kept
  <1>13. \A m \in Numbers \ (over \cup {n}) : Kept(st[m], st'[m])
    BY <1>6, <1>8
  <1>14. \A m \in Numbers \ open : st'[m] = st[m]
    BY <1>1, <1>6, <1>8
  <1>15. Accounts'
    <2> SUFFICES ASSUME NEW m \in Numbers PROVE Account(m)'
      BY DEF Accounts
    <2>1. Account(m) /\ story[m] \in Story
      BY DEF IInv, Accounts, TypeOK
    <2>2. CASE m = n
      <3>1. /\ story'[m].accepted /\ story'[m].will = (will # NoWill)
            /\ story'[m].left = story[m].left /\ story'[m].ends = story[m].ends
            /\ story'[m].wills = story[m].wills
        BY <1>9, <2>1, <2>2 DEF Story
      <3> QED BY <1>1, <1>8, <1>11, <2>1, <2>2, <3>1 DEF Account
    <2>3. CASE m \in over
      <3>1. /\ story'[m].accepted = story[m].accepted /\ story'[m].will = story[m].will
            /\ story'[m].left /\ story'[m].ends = story[m].ends
            /\ story'[m].wills = story[m].wills
        BY <1>1, <1>9, <2>1, <2>3 DEF Story
      <3> QED BY <1>1, <1>8, <1>12, <2>1, <2>3, <3>1 DEF Account
    <2>4. CASE m \notin over \cup {n}
      <3>1. story'[m] = story[m]
        BY <1>9, <2>4
      <3> QED BY <1>8, <1>13, <1>14, <2>1, <2>4, <3>1 DEF Account, Kept
    <2> QED BY <2>2, <2>3, <2>4
  <1>16. OneSessionPerClient'
    <2> SUFFICES ASSUME NEW i \in open, NEW j \in open,
                        Live(st[i])', Live(st[j])',
                        st'[i].client_id = st'[j].client_id, st'[i].client_id # NoId
                 PROVE  i = j
      BY <1>8 DEF OneSessionPerClient
    <2>1. i \notin over /\ j \notin over
      BY <1>12 DEF Live
    <2>2. \A m \in open \ (over \cup {n}) :
            Live(st[m])' => Live(st[m]) /\ st'[m].client_id = st[m].client_id
      BY <1>1, <1>13 DEF Live, Kept
    <2>3. \A m \in open \ (over \cup {n}) :
            Live(st[m])' => st'[m].client_id # id \/ id = NoId
      BY <2>2 DEF TakenOver
    <2>4. CASE i # n /\ j # n
      BY <2>1, <2>2, <2>4 DEF IInv, OneSessionPerClient
    <2>5. CASE i = n \/ j = n
      BY <1>11, <2>1, <2>3, <2>5
    <2> QED BY <2>4, <2>5
  <1> QED BY <1>10, <1>15, <1>16 DEF IInv

\* A handler that queues something for its own session, then maybe routes.
LEMMA QueueOwn ==
  ASSUME IInv, NEW n \in open, NEW s \in Session, Kept(st[n], s),
         NEW ss, ss = [st EXCEPT ![n] = Queue(s)] \/ ss = [st EXCEPT ![n] = s]
  PROVE  /\ ss \in [Numbers -> Session]
         /\ \A m \in open : Kept(st[m], ss[m])
         /\ \A m \in Numbers \ open : ss[m] = st[m]
  <1>1. open \subseteq Numbers /\ st \in [Numbers -> Session] /\ n \in Numbers
    BY DEF IInv, TypeOK
  <1>2. Kept(st[n], Queue(s)) /\ Queue(s) \in Session
    BY QueueKeeps, KeptTrans DEF Kept
  <1>3. ss \in [Numbers -> Session]
    BY <1>1, <1>2
  <1>4. Kept(st[n], ss[n])
    BY <1>1, <1>2
  <1>5. \A m \in Numbers \ {n} : ss[m] = st[m] /\ Kept(st[m], st[m])
    BY <1>1 DEF Kept
  <1> QED BY <1>1, <1>3, <1>4, <1>5

\* Routing after such a handler still only keeps the sessions.
LEMMA ThenRoute ==
  ASSUME IInv, NEW topic, NEW ss \in [Numbers -> Session],
         \A m \in open : Kept(st[m], ss[m]),
         \A m \in Numbers \ open : ss[m] = st[m]
  PROVE  /\ Route(ss, topic) \in [Numbers -> Session]
         /\ \A m \in open : Kept(st[m], Route(ss, topic)[m])
         /\ \A m \in Numbers \ open : Route(ss, topic)[m] = st[m]
  <1>1. open \subseteq Numbers
    BY DEF IInv, TypeOK
  <1> QED BY <1>1, RouteKeeps, KeptTrans

\* Every packet handler preserves the invariant.
LEMMA PacketInv ==
  ASSUME IInv, NEW n \in todo, Packet(n)
  PROVE  IInv'
  <1>1. n \in open /\ n \in Numbers /\ open \subseteq Numbers /\ st \in [Numbers -> Session]
    BY DEF IInv, TypeOK
  <1>2. /\ st[n] \in Session /\ Kept(st[n], st[n])
        /\ st = [st EXCEPT ![n] = st[n]]
    BY <1>1 DEF Kept
  <1>4. ASSUME NEW id \in ClientIds \cup {NoId}, NEW will \in Topics \cup {NoWill},
               NEW k \in KeepAlives, Connect(n, id, will, k)
        PROVE  IInv'
    BY <1>4, ConnectInv
  <1>5. ASSUME NEW connack \in BOOLEAN, Refuse(n, connack)
        PROVE  IInv'
    <2> DEFINE ss == IF connack THEN [st EXCEPT ![n] = Queue(@)] ELSE st
    <2>1. ss = [st EXCEPT ![n] = Queue(st[n])] \/ ss = [st EXCEPT ![n] = st[n]]
      BY <1>2
    <2>2. Fed(n, ss, FALSE) /\ UNCHANGED story
      BY <1>5 DEF Refuse
    <2> HIDE DEF ss
    <2>3. /\ ss \in [Numbers -> Session]
          /\ \A m \in open : Kept(st[m], ss[m])
          /\ \A m \in Numbers \ open : ss[m] = st[m]
      BY <1>1, <1>2, <2>1, QueueOwn
    <2> QED BY <1>1, <2>2, <2>3, KeepingPacket
  <1>6. CASE Partial(n)
    <2>1. /\ \A m \in open : Kept(st[m], st[m])
      BY <1>1 DEF Kept
    <2> QED BY <1>1, <1>6, <2>1, KeepingPacket DEF Partial
  <1>7. CASE Ping(n)
    <2> DEFINE ss == [st EXCEPT ![n] = Queue(st[n])]
    <2>1. Fed(n, ss, TRUE) /\ UNCHANGED story
      BY <1>7 DEF Ping
    <2>2. /\ ss \in [Numbers -> Session]
          /\ \A m \in open : Kept(st[m], ss[m])
          /\ \A m \in Numbers \ open : ss[m] = st[m]
      BY <1>1, <1>2, QueueOwn
    <2> HIDE DEF ss
    <2> QED BY <1>1, <2>1, <2>2, KeepingPacket
  <1>8. ASSUME NEW f \in Filters, NEW ok \in BOOLEAN,
               handle_subscribe_(n, f, ok) \/ handle_unsubscribe_(n, f, ok)
        PROVE  IInv'
    <2>1. PICK s \in Session : /\ Kept(st[n], s)
                               /\ Fed(n, [st EXCEPT ![n] = Answered(s, ok)], ok)
                               /\ UNCHANGED story
      <3>1. /\ With(st[n], f) \in Session /\ Kept(st[n], With(st[n], f))
            /\ Without(st[n], f) \in Session /\ Kept(st[n], Without(st[n], f))
        BY <1>2 DEF Session, Kept, With, Without
      <3> QED BY <1>8, <3>1 DEF handle_subscribe_, handle_unsubscribe_
    <2> DEFINE ss == [st EXCEPT ![n] = Answered(s, ok)]
    <2>2. ss = [st EXCEPT ![n] = Queue(s)] \/ ss = [st EXCEPT ![n] = s]
      BY DEF Answered
    <2>3. Fed(n, ss, ok)
      BY <2>1
    <2> HIDE DEF ss
    <2>4. /\ ss \in [Numbers -> Session]
          /\ \A m \in open : Kept(st[m], ss[m])
          /\ \A m \in Numbers \ open : ss[m] = st[m]
      BY <1>1, <2>1, <2>2, QueueOwn
    <2> QED BY <1>1, <2>1, <2>3, <2>4, KeepingPacket
  <1>9. ASSUME NEW topic \in Topics, NEW ack \in BOOLEAN, PublishQos01(n, topic, ack)
        PROVE  IInv'
    <2> DEFINE ss == IF ack THEN [st EXCEPT ![n] = Queue(@)] ELSE st
    <2>1. ss = [st EXCEPT ![n] = Queue(st[n])] \/ ss = [st EXCEPT ![n] = st[n]]
      BY <1>2
    <2>2. Fed(n, Route(ss, topic), TRUE) /\ UNCHANGED story
      BY <1>9 DEF PublishQos01
    <2> HIDE DEF ss
    <2>3. /\ ss \in [Numbers -> Session]
          /\ \A m \in open : Kept(st[m], ss[m])
          /\ \A m \in Numbers \ open : ss[m] = st[m]
      BY <1>1, <1>2, <2>1, QueueOwn
    <2>4. /\ Route(ss, topic) \in [Numbers -> Session]
          /\ \A m \in open : Kept(st[m], Route(ss, topic)[m])
          /\ \A m \in Numbers \ open : Route(ss, topic)[m] = st[m]
      BY <2>3, ThenRoute
    <2> QED BY <1>1, <2>2, <2>4, KeepingPacket
  <1>10. ASSUME NEW topic \in Topics, NEW dup \in BOOLEAN, PublishQos2(n, topic, dup)
         PROVE  IInv'
    <2> DEFINE s1 == [st EXCEPT ![n] = Queue(st[n])]
               ss == IF dup THEN s1 ELSE Route(s1, topic)
    <2>1. /\ s1 \in [Numbers -> Session]
          /\ \A i \in open : Kept(st[i], s1[i])
          /\ \A i \in Numbers \ open : s1[i] = st[i]
      BY <1>1, <1>2, QueueOwn
    <2>2. Fed(n, ss, TRUE) /\ UNCHANGED story
      BY <1>10 DEF PublishQos2
    <2> HIDE DEF s1
    <2>4. /\ ss \in [Numbers -> Session]
          /\ \A i \in open : Kept(st[i], ss[i])
          /\ \A i \in Numbers \ open : ss[i] = st[i]
      BY <2>1, ThenRoute
    <2> HIDE DEF ss
    <2> QED BY <1>1, <2>2, <2>4, KeepingPacket
  <1>11. CASE Disconnect(n)
    <2> DEFINE ss == [st EXCEPT ![n] = Leaves(st[n])]
    <2>1. /\ Leaves(st[n]) \in Session /\ Leaves(st[n]).graceful
          /\ Leaves(st[n]).connected = st[n].connected
          /\ Leaves(st[n]).will = st[n].will
          /\ Leaves(st[n]).client_id = st[n].client_id
          /\ Leaves(st[n]).dead = st[n].dead
      BY <1>2 DEF Leaves, Session
    <2>2. ss \in [Numbers -> Session] /\ ss[n] = Leaves(st[n])
          /\ \A m \in Numbers \ {n} : ss[m] = st[m]
      BY <1>1, <2>1
    <2>3. Fed(n, ss, FALSE) /\ story' = [story EXCEPT ![n].left = TRUE]
      BY <1>11 DEF Disconnect
    <2> HIDE DEF ss
    <2>4. /\ pc' = pc /\ open' = open /\ created' = created
          /\ last_connected_' = last_connected_
          /\ todo' \subseteq open
          /\ st' \in [Numbers -> Session]
          /\ \A m \in Numbers : Kept(ss[m], st'[m])
          /\ \A m \in Numbers \ open : st'[m] = ss[m]
      BY <1>1, <2>2, <2>3, FedStep
    <2>5. /\ story' \in [Numbers -> Story]
          /\ story'[n].left /\ story'[n].accepted = story[n].accepted
          /\ story'[n].will = story[n].will
          /\ story'[n].ends = story[n].ends /\ story'[n].wills = story[n].wills
          /\ \A m \in Numbers \ {n} : story'[m] = story[m]
      <3>1. [story[n] EXCEPT !.left = TRUE] \in Story
        BY <1>1 DEF IInv, TypeOK, Story
      <3>2. story' = [story EXCEPT ![n] = [story[n] EXCEPT !.left = TRUE]]
        BY <2>3
      <3>3. story \in [Numbers -> Story]
        BY DEF IInv, TypeOK
      <3> QED BY <1>1, <3>1, <3>2, <3>3 DEF Story
    <2>6. TypeOK'
      BY <2>3, <2>4, <2>5 DEF IInv, TypeOK
    <2>7. Accounts'
      <3> SUFFICES ASSUME NEW m \in Numbers PROVE Account(m)'
        BY DEF Accounts
      <3>1. Account(m)
        BY DEF IInv, Accounts
      <3>2. CASE m = n
        <4>1. st'[n].connected = st[n].connected /\ st'[n].graceful /\ st'[n].will = st[n].will
          BY <1>1, <2>1, <2>2, <2>4 DEF Kept
        <4>2. story'[n].left \in BOOLEAN /\ st'[n].graceful \in BOOLEAN
          BY <1>1, <2>4, <2>5 DEF Story, Session
        <4> QED BY <1>1, <2>4, <2>5, <3>1, <3>2, <4>1, <4>2 DEF Account
      <3>3. CASE m # n
        BY <2>2, <2>4, <2>5, <3>1, <3>3 DEF Account, Kept
      <3> QED BY <3>2, <3>3
    <2>8. OneSessionPerClient'
      <3>1. \A m \in open : Live(st[m])' => Live(st[m])
        BY <1>1, <2>1, <2>2, <2>4 DEF Live, Kept
      <3>2. \A m \in open : st'[m].client_id = st[m].client_id
        BY <1>1, <2>1, <2>2, <2>4 DEF Kept
      <3> QED BY <2>4, <3>1, <3>2 DEF IInv, OneSessionPerClient
    <2> QED BY <2>6, <2>7, <2>8 DEF IInv
  <1> QED BY <1>4, <1>5, <1>6, <1>7, <1>8, <1>9, <1>10, <1>11 DEF Packet

-----------------------------------------------------------------------------
\* close_ preserves the invariant.
LEMMA RemoveInv ==
  ASSUME IInv, NEW n \in open, Remove(n),
         UNCHANGED <<pc, created, last_connected_>>, todo' \subseteq open \ {n}
  PROVE  IInv'
  <1> DEFINE s == st[n]
             s1 == [st EXCEPT ![n] = [st[n] EXCEPT !.dead = TRUE]]
             ss == IF Mourned(s) THEN Route(s1, s.will) ELSE s1
  <1>1. n \in Numbers /\ open \subseteq Numbers /\ st \in [Numbers -> Session] /\ s \in Session
    BY DEF IInv, TypeOK
  <1>2. /\ s1 \in [Numbers -> Session]
        /\ \A m \in open : Kept(st[m], s1[m])
        /\ \A m \in Numbers \ open : s1[m] = st[m]
    <2>1. [st[n] EXCEPT !.dead = TRUE] \in Session
          /\ Kept(st[n], [st[n] EXCEPT !.dead = TRUE])
      BY <1>1 DEF Session, Kept
    <2> QED BY <2>1, QueueOwn
  <1>3. /\ ss \in [Numbers -> Session]
        /\ \A m \in open : Kept(st[m], ss[m])
        /\ \A m \in Numbers \ open : ss[m] = st[m]
    <2> HIDE DEF s1, s
    <2> QED BY <1>2, ThenRoute
  <1>4. st' = [ss EXCEPT ![n] = NewSession]
    BY DEF Remove
  <1>5. NewSession \in Session
    BY BrokerAssumption DEF NewSession, Session
  <1>6. /\ st' \in [Numbers -> Session] /\ st'[n] = NewSession
        /\ \A m \in open \ {n} : Kept(st[m], st'[m])
        /\ \A m \in Numbers \ open : st'[m] = st[m]
    <2> HIDE DEF ss
    <2> QED BY <1>1, <1>3, <1>4, <1>5
  <1>7. /\ story' \in [Numbers -> Story]
        /\ story'[n].accepted = story[n].accepted /\ story'[n].will = story[n].will
        /\ story'[n].left = story[n].left
        /\ story'[n].ends = (IF s.connected THEN story[n].ends + 1 ELSE story[n].ends)
        /\ story'[n].wills = (IF Mourned(s) THEN story[n].wills + 1 ELSE story[n].wills)
        /\ \A m \in Numbers \ {n} : story'[m] = story[m]
    <2> DEFINE e == IF s.connected THEN story[n].ends + 1 ELSE story[n].ends
               w == IF Mourned(s) THEN story[n].wills + 1 ELSE story[n].wills
               y == [story[n] EXCEPT !.ends = e, !.wills = w]
    <2>1. story \in [Numbers -> Story] /\ story[n] \in Story
      BY <1>1 DEF IInv, TypeOK
    <2>2. e \in Nat /\ w \in Nat
      BY <2>1 DEF Story
    <2>3. y \in Story /\ y.accepted = story[n].accepted /\ y.will = story[n].will
          /\ y.left = story[n].left /\ y.ends = e /\ y.wills = w
      <3> HIDE DEF e, w
      <3> QED BY <2>1, <2>2 DEF Story
    <2>4. story' = [story EXCEPT ![n] = y]
      BY <2>1, <1>1 DEF Remove, Story
    <2> HIDE DEF y, e, w
    <2>5. story'[n] = y
      BY <1>1, <2>1, <2>4
    <2>6. story' \in [Numbers -> Story] /\ \A m \in Numbers \ {n} : story'[m] = story[m]
      BY <1>1, <2>1, <2>3, <2>4
    <2> QED BY <2>3, <2>5, <2>6 DEF e, w
  <1>8. open' = open \ {n}
    BY DEF Remove
  <1>9. TypeOK'
    BY <1>1, <1>6, <1>7, <1>8 DEF IInv, TypeOK
  <1>10. Accounts'
    <2> SUFFICES ASSUME NEW m \in Numbers PROVE Account(m)'
      BY DEF Accounts
    <2>1. Account(m)
      BY DEF IInv, Accounts
    <2>2. CASE m = n
      <3>1. /\ ~(n > created) /\ story[n].ends = 0 /\ story[n].wills = 0
            /\ story[n].accepted = s.connected /\ story[n].left = s.graceful
            /\ story[n].will = (s.will # NoWill)
        BY <2>1, <2>2 DEF Account
      <3>2. story'[n].ends = IF story'[n].accepted THEN 1 ELSE 0
        BY <1>7, <3>1
      <3>3. story'[n].wills = IF story'[n].accepted /\ story'[n].will /\ ~story'[n].left
                              THEN 1 ELSE 0
        <4>1. Mourned(s) <=> story[n].accepted /\ story[n].will /\ ~story[n].left
          BY <3>1 DEF Mourned
        <4> QED BY <1>7, <3>1, <4>1
      <3> QED BY <1>6, <1>8, <2>2, <3>1, <3>2, <3>3 DEF Account
    <2>3. CASE m # n
      BY <1>6, <1>7, <1>8, <2>1, <2>3 DEF Account, Kept
    <2> QED BY <2>2, <2>3
  <1>11. OneSessionPerClient'
    <2>1. \A m \in open' : /\ m \in open
                           /\ Live(st[m])' => Live(st[m])
                           /\ st'[m].client_id = st[m].client_id
      BY <1>6, <1>8 DEF Live, Kept
    <2> QED BY <2>1 DEF IInv, OneSessionPerClient
  <1> QED BY <1>9, <1>10, <1>11 DEF IInv

\* One session of a pass that writes.
LEMMA WritePassInv ==
  ASSUME IInv, NEW n \in todo, NEW left \in 0..MaxBacklog, NEW ok \in BOOLEAN,
         NEW finished \in BOOLEAN, WritePass(n, left, ok, finished)
  PROVE  IInv'
  <1>1. n \in open /\ n \in Numbers /\ todo \subseteq open /\ st \in [Numbers -> Session]
    BY DEF IInv, TypeOK
  <1>2. CASE ~ok \/ finished
    BY <1>1, <1>2, RemoveInv DEF WritePass
  <1>3. CASE ~(~ok \/ finished)
    <2> DEFINE s == [st[n] EXCEPT !.tx = left]
    <2>1. s \in Session /\ Kept(st[n], s)
      BY <1>1 DEF Session, Kept
    <2>2. st' = [st EXCEPT ![n] = s] /\ UNCHANGED <<open, story>>
      BY <1>3 DEF WritePass
    <2> HIDE DEF s
    <2>3. /\ st' \in [Numbers -> Session]
          /\ \A m \in open : Kept(st[m], st'[m])
          /\ \A m \in Numbers \ open : st'[m] = st[m]
      BY <1>1, <2>1, <2>2, QueueOwn
    <2>4. TypeOK'
      BY <1>1, <2>2, <2>3 DEF WritePass, IInv, TypeOK
    <2> QED BY <2>2, <2>3, <2>4, KeepingStep DEF WritePass
  <1> QED BY <1>2, <1>3

\* The invariant is inductive.
LEMMA NextInv == IInv /\ [Next]_vars => IInv'
  <1> SUFFICES ASSUME IInv, [Next]_vars PROVE IInv'
    OBVIOUS
  <1>0. /\ open \subseteq Numbers /\ todo \subseteq open /\ st \in [Numbers -> Session]
        /\ last_connected_ \in Nat /\ created \in 0..MaxSessions
        /\ story \in [Numbers -> Story]
        /\ pc \in {"accept", "read", "tick", "close", "rest", "flush"}
    BY DEF IInv, TypeOK
  <1>1. CASE Accept
    BY <1>1, AcceptInv
  <1>2. ASSUME NEW n \in todo, Packet(n) PROVE IInv'
    BY <1>2, PacketInv
  <1>3. ASSUME NEW n \in todo, ReadFails(n) PROVE IInv'
    <2> DEFINE s == [st[n] EXCEPT !.dead = TRUE]
    <2>1. s \in Session /\ Kept(st[n], s) /\ n \in open
      BY <1>0 DEF Session, Kept
    <2>2. st' = [st EXCEPT ![n] = s]
      BY <1>3 DEF ReadFails
    <2> HIDE DEF s
    <2>3. /\ st' \in [Numbers -> Session]
          /\ \A m \in open : Kept(st[m], st'[m])
          /\ \A m \in Numbers \ open : st'[m] = st[m]
      BY <2>1, <2>2, QueueOwn
    <2>4. TypeOK'
      BY <1>0, <1>3, <2>3 DEF ReadFails, TypeOK
    <2> QED BY <1>3, <2>3, <2>4, KeepingStep DEF ReadFails
  <1>5. ASSUME NEW topic \in Topics, publish(topic) PROVE IInv'
    <2>1. \A m \in open : Kept(st[m], st[m])
      BY <1>0 DEF Kept
    <2>2. /\ Route(st, topic) \in [Numbers -> Session]
          /\ \A m \in open : Kept(st[m], Route(st, topic)[m])
          /\ \A m \in Numbers \ open : Route(st, topic)[m] = st[m]
      BY <1>0, <2>1, ThenRoute
    <2>3. TypeOK'
      BY <1>0, <1>5, <2>2 DEF publish, TypeOK
    <2> QED BY <1>5, <2>2, <2>3, KeepingStep DEF publish
  <1>6. CASE EndAccept
    BY <1>0, <1>6, MovesInv DEF EndAccept
  <1>7. ASSUME NEW n \in todo, ReadEnds(n) PROVE IInv'
    BY <1>0, <1>7, MovesInv DEF ReadEnds
  <1>8. CASE EndRead
    BY <1>0, <1>8, MovesInv DEF EndRead
  <1>9. ASSUME NEW expired \in SUBSET open, tick(expired) PROVE IInv'
    <2> DEFINE r(n) == [st[n] EXCEPT !.dead = @ \/ n \in expired, !.heard = FALSE]
    <2>1. \A n \in Numbers : r(n) \in Session /\ Kept(st[n], r(n))
      BY <1>0 DEF Session, Kept
    <2>2. st' = [n \in Numbers |-> IF n \in open THEN r(n) ELSE st[n]]
      BY <1>9 DEF tick
    <2> HIDE DEF r
    <2>3. /\ st' \in [Numbers -> Session]
          /\ \A n \in open : Kept(st[n], st'[n])
          /\ \A n \in Numbers \ open : st'[n] = st[n]
      BY <1>0, <2>1, <2>2
    <2>4. TypeOK'
      BY <1>0, <1>9, <2>3 DEF tick, TypeOK
    <2> QED BY <1>0, <1>9, <2>3, <2>4, KeepingStep DEF tick
  <1>10. ASSUME NEW n \in todo, NEW left \in 0..MaxBacklog, NEW ok \in BOOLEAN,
                Close(n, left, ok) \/ flush_(n, left, ok)
         PROVE  IInv'
    <2>1. Finished(st[n], left) \in BOOLEAN
      BY DEF Finished
    <2> QED BY <1>10, <2>1, WritePassInv DEF Close, flush_
  <1>11. CASE EndClose
    <2>1. connected_count \in Nat
      BY CountType DEF IInv
    <2> QED BY <1>0, <1>11, <2>1, MovesInv DEF EndClose
  <1>12. CASE EndFlush
    BY <1>0, <1>12, MovesInv DEF EndFlush
  <1>13. CASE NextRound
    BY <1>0, <1>13, MovesInv DEF NextRound
  <1>14. CASE UNCHANGED vars
    BY <1>0, <1>14, MovesInv DEF vars
  <1> QED BY <1>1, <1>2, <1>3, <1>5, <1>6, <1>7, <1>8, <1>9, <1>10, <1>11, <1>12,
             <1>13, <1>14 DEF Next, LoopStep

\* Every reachable state satisfies the invariant.
THEOREM Invariance == Spec => []IInv
  BY InitInv, NextInv, PTL DEF Spec

\* Type correctness, the bound on the output of a session included: queue_
\* drops a client before its backlog exceeds max_tx_backlog.
THEOREM TypeTheorem == Spec => []TypeOK
  <1>1. IInv => TypeOK
    BY DEF IInv
  <1> QED BY Invariance, <1>1, PTL

\* handle_connect_ leaves at most one live session per client identifier,
\* and nothing the broker does later revives a replaced one.
THEOREM OneSessionTheorem == Spec => []OneSessionPerClient
  <1>1. IInv => OneSessionPerClient
    BY DEF IInv
  <1> QED BY Invariance, <1>1, PTL

\* remove_session announces the end of every accepted session once, and its
\* will exactly when the client neither sent DISCONNECT nor was replaced.
THEOREM EndsAndWillsTheorem == Spec => []EndsAndWills
  <1>1. IInv => EndsAndWills
    BY DEF IInv, Accounts, Account, EndsAndWills
  <1> QED BY Invariance, <1>1, PTL

=============================================================================
