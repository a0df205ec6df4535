----------------------- MODULE ModbusController_proofs -----------------------
(***************************************************************************)
(* Theorems about ModbusController, for any devices, ranges and retry      *)
(* limit.  The order of the queues needs nothing but itself (IInv); the    *)
(* other types (RestOK) need it, since a reply moves the command at the    *)
(* head of the queue of the device that the request names.                 *)
(*                                                                         *)
(* In the second half, the hub of marstek (HubTheorem): it raises no false *)
(* alarm, for any ranges, registers, values and retry limit.  The hub      *)
(* takes the controller's steps, so the controller's invariant goes over   *)
(* to it; write_register, which may queue two commands in one call, is the *)
(* only step that is not one of the controller's.  That the mode of the    *)
(* battery stays a value needs one fact more: a command that writes a      *)
(* register carries a value from the queue to the battery (Valued).        *)
(***************************************************************************)
EXTENDS Marstek, SequenceTheorems, FiniteSetTheorems, TLAPS

\* QueueShape, of one queue.
Shape(q) ==
  /\ \A i, j \in DOMAIN q : q[i].key = q[j].key => i = j
  /\ \A i \in DOMAIN q : IF i = 1 THEN q[i].send_count_ <= MaxRetries + 1
                                  ELSE q[i].send_count_ = 0

\* Two queues with the same command at their heads.
SameHead(q, r) == q # <<>> => r # <<>> /\ Head(r).key = Head(q).key

QueueType ==
  /\ command_queue_ = [d \in Devs |-> command_queue_[d]]
  /\ \A d \in Devs : command_queue_[d] \in Seq(Item(d))
Shapes == \A d \in Devs : Shape(command_queue_[d])
InFlight ==
  busy => /\ request.dev \in Devs
          /\ command_queue_[request.dev] # <<>>
          /\ Head(command_queue_[request.dev]).key = request.key

\* The inductive invariant.
IInv == QueueType /\ Shapes /\ InFlight

\* A command leaves from the head of its queue (reply, exception, give-up).
LEMMA TailShape ==
  ASSUME NEW d \in Devs, NEW q \in Seq(Item(d)), q # <<>>, Shape(q)
  PROVE  Tail(q) \in Seq(Item(d)) /\ Shape(Tail(q))
<1>0. MaxRetries \in Nat
  BY NumbersAssumption
<1> USE <1>0
<1>1. /\ Tail(q) \in Seq(Item(d)) /\ Len(Tail(q)) = Len(q) - 1 /\ Len(q) \in Nat
      /\ \A i \in 1..Len(Tail(q)) : Tail(q)[i] = q[i + 1]
  BY HeadTailProperties
<1>2. DOMAIN Tail(q) = 1..(Len(q) - 1) /\ DOMAIN q = 1..Len(q)
  BY <1>1
<1>3. \A i \in 1..(Len(q) - 1) : i + 1 \in DOMAIN q /\ i + 1 # 1 /\ Tail(q)[i] = q[i + 1]
  BY <1>1, <1>2
<1>4. \A i \in DOMAIN Tail(q) : Tail(q)[i].send_count_ = 0
  BY <1>2, <1>3 DEF Shape
<1>5. \A i, j \in DOMAIN Tail(q) : Tail(q)[i].key = Tail(q)[j].key => i = j
  <2> SUFFICES ASSUME NEW i \in 1..(Len(q) - 1), NEW j \in 1..(Len(q) - 1),
                      Tail(q)[i].key = Tail(q)[j].key
               PROVE  i = j
    BY <1>2
  <2>1. i + 1 = j + 1
    BY <1>2, <1>3 DEF Shape
  <2> QED
    BY <2>1
<1> QED
  BY <1>1, <1>4, <1>5 DEF Shape

\* An attempt is counted on the head of the queue.
LEMMA AttemptedShape ==
  ASSUME NEW d \in Devs, NEW q \in Seq(Item(d)), q # <<>>, Shape(q), Head(q).send_count_ <= MaxRetries
  PROVE  Attempted(q) \in Seq(Item(d)) /\ Shape(Attempted(q)) /\ SameHead(q, Attempted(q))
<1>0. MaxRetries \in Nat
  BY NumbersAssumption
<1> USE <1>0
<1>1. DOMAIN q = 1..Len(q) /\ 1 \in DOMAIN q /\ Head(q) = q[1] /\ Len(q) \in Nat
  OBVIOUS
<1> DEFINE c == [q[1] EXCEPT !.send_count_ = @ + 1]
           r == [q EXCEPT ![1] = c]
<1>2. q[1] \in Item(d)
  BY <1>1
<1>3. c \in Item(d) /\ c.key = q[1].key /\ c.send_count_ = q[1].send_count_ + 1
  BY <1>2 DEF Item
<1>4. Attempted(q) = r
  BY DEF Attempted
<1> HIDE DEF c
<1>5. r \in Seq(Item(d)) /\ DOMAIN r = DOMAIN q
  BY <1>1, <1>3, ExceptSeq
<1>6. \A i \in DOMAIN q : r[i] = IF i = 1 THEN c ELSE q[i]
  BY <1>1
<1>7. \A i \in DOMAIN q : r[i].key = q[i].key
  BY <1>3, <1>6
<1>8. \A i \in DOMAIN q : IF i = 1 THEN r[i].send_count_ <= MaxRetries + 1
                                   ELSE r[i].send_count_ = 0
  <2>1. c.send_count_ <= MaxRetries + 1
    BY <1>1, <1>2, <1>3 DEF Item
  <2> QED
    BY <1>6, <2>1 DEF Shape
<1>9. Shape(r)
  BY <1>5, <1>7, <1>8 DEF Shape
<1>10. SameHead(q, r)
  <2>1. r # <<>> /\ Head(r) = r[1]
    BY <1>1, <1>5
  <2> QED
    BY <1>1, <1>7, <2>1 DEF SameHead
<1> QED
  BY <1>4, <1>5, <1>9, <1>10

\* queue_command replaces a payload or appends; the head stays.
LEMMA QueuedShape ==
  ASSUME NEW d \in Devs, NEW q \in Seq(Item(d)), Shape(q), NEW key \in Keys(d),
         NEW val \in Values \cup {NoValue}
  PROVE  /\ Queued(q, key, val) \in Seq(Item(d))
         /\ Shape(Queued(q, key, val))
         /\ SameHead(q, Queued(q, key, val))
<1>0. MaxRetries \in Nat
  BY NumbersAssumption
<1> USE <1>0
<1>1. DOMAIN q = 1..Len(q) /\ Len(q) \in Nat
  OBVIOUS
<1>2. CASE key \in QueuedKeys(q)
  <2> DEFINE r == [i \in DOMAIN q |-> IF q[i].key = key THEN [q[i] EXCEPT !.val = val]
                                                        ELSE q[i]]
  <2>1. Queued(q, key, val) = r
    BY <1>2 DEF Queued
  <2>2. \A i \in DOMAIN q : r[i] \in Item(d) /\ r[i].key = q[i].key
                            /\ r[i].send_count_ = q[i].send_count_
    <3> SUFFICES ASSUME NEW i \in DOMAIN q
                 PROVE  r[i] \in Item(d) /\ r[i].key = q[i].key
                        /\ r[i].send_count_ = q[i].send_count_
      OBVIOUS
    <3>1. q[i] \in Item(d)
      BY <1>1
    <3> QED
      BY <3>1 DEF Item
  <2>3. DOMAIN r = 1..Len(q)
    BY <1>1
  <2> HIDE DEF r
  <2>4. r \in Seq(Item(d)) /\ Len(r) = Len(q)
    <3>1. r \in [1..Len(q) -> Item(d)]
      <4>1. r = [i \in DOMAIN r |-> r[i]]
        BY DEF r
      <4> QED
        BY <1>1, <2>2, <2>3, <4>1
    <3> QED
      BY <1>1, <3>1
  <2>5. Shape(r)
    BY <1>1, <2>2, <2>3 DEF Shape
  <2>6. SameHead(q, r)
    <3> SUFFICES ASSUME q # <<>>
                 PROVE  r # <<>> /\ Head(r).key = Head(q).key
      BY DEF SameHead
    <3>1. 1 \in DOMAIN q /\ Head(q) = q[1] /\ Len(r) # 0
      BY <2>4
    <3>2. r # <<>> /\ Head(r) = r[1]
      BY <2>4, <3>1
    <3> QED
      BY <2>2, <3>1, <3>2
  <2> QED
    BY <2>1, <2>4, <2>5, <2>6
<1>3. CASE key \notin QueuedKeys(q)
  <2> DEFINE c == NewItem(key, val)
             r == Append(q, c)
  <2>1. Queued(q, key, val) = r
    BY <1>3 DEF Queued
  <2>2. c \in Item(d) /\ c.key = key /\ c.send_count_ = 0
    BY DEF NewItem, Item
  <2> HIDE DEF c
  <2>3. /\ r \in Seq(Item(d)) /\ Len(r) = Len(q) + 1 /\ DOMAIN r = 1..(Len(q) + 1)
        /\ \A i \in 1..Len(q) : r[i] = q[i]
        /\ r[Len(q) + 1] = c
    BY <2>2, AppendProperties
  <2>4. \A i \in 1..Len(q) : q[i].key # key
    BY <1>1, <1>3 DEF QueuedKeys
  <2> HIDE DEF r
  <2>5. \A i \in DOMAIN r : IF i = 1 THEN r[i].send_count_ <= MaxRetries + 1
                                     ELSE r[i].send_count_ = 0
    BY <1>1, <2>2, <2>3 DEF Shape
  <2>6. \A i, j \in DOMAIN r : r[i].key = r[j].key => i = j
    BY <1>1, <2>2, <2>3, <2>4 DEF Shape
  <2>7. SameHead(q, r)
    <3> SUFFICES ASSUME q # <<>>
                 PROVE  r # <<>> /\ Head(r).key = Head(q).key
      BY DEF SameHead
    <3>1. 1 \in 1..Len(q) /\ Head(q) = q[1] /\ Len(r) # 0
      BY <1>1, <2>3
    <3>2. r # <<>> /\ Head(r) = r[1]
      BY <2>3, <3>1
    <3> QED
      BY <2>3, <3>1, <3>2
  <2> QED
    BY <2>1, <2>3, <2>5, <2>6, <2>7 DEF Shape
<1> QED
  BY <1>2, <1>3

\* The poll cycle appends reads that are not queued yet, each once.
LEMMA PolledShape ==
  ASSUME QueueType, Shapes, NEW d \in Devs, NEW due \in Ascending(DuePositions(d))
  PROVE  LET q == command_queue_[d]
             r == q \o [n \in DOMAIN due |-> NewItem(Ranges[d][due[n]], NoValue)]
         IN  r \in Seq(Item(d)) /\ Shape(r) /\ SameHead(q, r)
<1>0. MaxRetries \in Nat
  BY NumbersAssumption
<1> USE <1>0
<1> DEFINE q == command_queue_[d]
           P == DuePositions(d)
           N == Cardinality(P)
           add == [n \in DOMAIN due |-> NewItem(Ranges[d][due[n]], NoValue)]
           r == q \o add
<1>1. q \in Seq(Item(d)) /\ DOMAIN q = 1..Len(q) /\ Len(q) \in Nat /\ Shape(q)
  BY DEF QueueType, Shapes
<1>2. N \in Nat
  <2>1. Ranges[d] \in Seq(ReadKeys(d))
    BY RangesAssumption
  <2>2. Len(Ranges[d]) \in Nat /\ DOMAIN Ranges[d] = 1..Len(Ranges[d])
    BY <2>1
  <2>3. IsFiniteSet(1..Len(Ranges[d])) /\ P \in SUBSET (1..Len(Ranges[d]))
    BY <2>2, FS_Interval DEF DuePositions
  <2> QED
    BY <2>3, FS_Subset, FS_CardinalityType
<1>3. due \in [1..N -> P] /\ \A m, n \in 1..N : m < n => due[m] < due[n]
  BY DEF Ascending
<1>4. \A n \in 1..N : /\ due[n] \in DOMAIN Ranges[d] /\ due[n] \in Nat
                      /\ Ranges[d][due[n]] \notin QueuedKeys(q)
                      /\ Ranges[d][due[n]] \in Keys(d)
  <2> SUFFICES ASSUME NEW n \in 1..N
               PROVE  /\ due[n] \in DOMAIN Ranges[d] /\ due[n] \in Nat
                      /\ Ranges[d][due[n]] \notin QueuedKeys(q)
                      /\ Ranges[d][due[n]] \in Keys(d)
    OBVIOUS
  <2>1. due[n] \in P
    BY <1>3
  <2>2. due[n] \in DOMAIN Ranges[d] /\ Ranges[d][due[n]] \notin QueuedKeys(q)
    BY <2>1 DEF DuePositions
  <2>3. due[n] \in Nat
    <3>1. Ranges[d] \in Seq(ReadKeys(d))
      BY RangesAssumption
    <3> QED
      BY <2>2, <3>1
  <2>4. Ranges[d][due[n]] \in Keys(d)
    BY <2>2 DEF Keys, ReadKeys
  <2> QED
    BY <2>2, <2>3, <2>4 DEF Keys
<1>5. \A m, n \in 1..N : Ranges[d][due[m]] = Ranges[d][due[n]] => m = n
  <2> SUFFICES ASSUME NEW m \in 1..N, NEW n \in 1..N, Ranges[d][due[m]] = Ranges[d][due[n]]
               PROVE  m = n
    OBVIOUS
  <2>1. due[m] = due[n]
    BY <1>4, RangesAssumption
  <2>2. ~(due[m] < due[n]) /\ ~(due[n] < due[m])
    BY <1>4, <2>1
  <2> QED
    BY <1>2, <1>3, <2>2
<1>6. \A n \in 1..N : /\ add[n] \in Item(d) /\ add[n].key = Ranges[d][due[n]]
                      /\ add[n].send_count_ = 0
  BY <1>3, <1>4 DEF NewItem, Item
<1>7. add \in Seq(Item(d)) /\ Len(add) = N
  <2>1. add \in [1..N -> Item(d)]
    BY <1>3, <1>6
  <2> QED
    BY <1>2, <2>1
<1> HIDE DEF add, N, P, q
<1>8. /\ r \in Seq(Item(d)) /\ Len(r) = Len(q) + N /\ DOMAIN r = 1..(Len(q) + N)
      /\ \A i \in 1..Len(q) : r[i] = q[i]
      /\ \A i \in (Len(q) + 1)..(Len(q) + N) : r[i] = add[i - Len(q)]
  <2>1. r \in Seq(Item(d)) /\ Len(r) = Len(q) + N
    BY <1>1, <1>7, ConcatProperties
  <2>2. DOMAIN r = 1..(Len(q) + N)
    BY <2>1
  <2>3. \A i \in 1..(Len(q) + N) : r[i] = IF i <= Len(q) THEN q[i] ELSE add[i - Len(q)]
    BY <1>1, <1>7, ConcatProperties
  <2> HIDE DEF r
  <2>4. \A i \in 1..Len(q) : i \in 1..(Len(q) + N) /\ i <= Len(q)
    BY <1>1, <1>2
  <2>5. \A i \in (Len(q) + 1)..(Len(q) + N) : i \in 1..(Len(q) + N) /\ ~(i <= Len(q))
    BY <1>1, <1>2
  <2> QED
    BY <2>1, <2>2, <2>3, <2>4, <2>5
<1> HIDE DEF r
<1>9. ASSUME NEW i \in (Len(q) + 1)..(Len(q) + N)
      PROVE  /\ i - Len(q) \in 1..N
             /\ r[i].key = Ranges[d][due[i - Len(q)]]
             /\ r[i].send_count_ = 0
             /\ r[i].key \notin QueuedKeys(q)
  <2>1. i - Len(q) \in 1..N /\ r[i] = add[i - Len(q)]
    BY <1>1, <1>2, <1>8
  <2> QED
    BY <1>4, <1>6, <2>1
<1>10. \A i \in DOMAIN r : IF i = 1 THEN r[i].send_count_ <= MaxRetries + 1
                                    ELSE r[i].send_count_ = 0
  BY <1>1, <1>2, <1>8, <1>9 DEF Shape
<1>11. \A i, j \in DOMAIN r : r[i].key = r[j].key => i = j
  <2> SUFFICES ASSUME NEW i \in 1..(Len(q) + N), NEW j \in 1..(Len(q) + N),
                      r[i].key = r[j].key
               PROVE  i = j
    BY <1>8
  <2>1. CASE i \in 1..Len(q) /\ j \in 1..Len(q)
    BY <1>1, <1>8, <2>1 DEF Shape
  <2>2. CASE i \in (Len(q) + 1)..(Len(q) + N) /\ j \in (Len(q) + 1)..(Len(q) + N)
    <3>1. i - Len(q) = j - Len(q)
      BY <1>5, <1>9, <2>2
    <3> QED
      BY <1>1, <2>2, <3>1
  <2>3. CASE i \in 1..Len(q) /\ j \in (Len(q) + 1)..(Len(q) + N)
    <3>1. r[i].key \in QueuedKeys(q)
      BY <1>1, <1>8, <2>3 DEF QueuedKeys
    <3> QED
      BY <1>9, <2>3, <3>1
  <2>4. CASE j \in 1..Len(q) /\ i \in (Len(q) + 1)..(Len(q) + N)
    <3>1. r[j].key \in QueuedKeys(q)
      BY <1>1, <1>8, <2>4 DEF QueuedKeys
    <3> QED
      BY <1>9, <2>4, <3>1
  <2> QED
    BY <1>1, <1>2, <2>1, <2>2, <2>3, <2>4
<1>12. SameHead(q, r)
  <2> SUFFICES ASSUME q # <<>>
               PROVE  r # <<>> /\ Head(r).key = Head(q).key
    BY DEF SameHead
  <2>1. 1 \in 1..Len(q) /\ Head(q) = q[1] /\ Len(r) # 0
    BY <1>1, <1>2, <1>8
  <2>2. r # <<>> /\ Head(r) = r[1]
    BY <1>8, <2>1
  <2> QED
    BY <1>8, <2>1, <2>2
<1> QED
  BY <1>8, <1>10, <1>11, <1>12 DEF r, q, add, Shape

\* The queue of one device is replaced by one of the right shape.
LEMMA OneQueue ==
  ASSUME QueueType, Shapes, NEW d \in Devs, NEW r \in Seq(Item(d)), Shape(r),
         command_queue_' = [command_queue_ EXCEPT ![d] = r]
  PROVE  QueueType' /\ Shapes' /\ command_queue_'[d] = r
         /\ \A e \in Devs \ {d} : command_queue_'[e] = command_queue_[e]
  BY DEF QueueType, Shapes, Shape

LEMMA SameQueues ==
  ASSUME QueueType, Shapes, UNCHANGED command_queue_
  PROVE  QueueType' /\ Shapes'
  BY DEF QueueType, Shapes, Shape

\* A queue that keeps its head leaves the request in flight where it was.
LEMMA SameHeadInv ==
  ASSUME IInv, NEW d \in Devs, NEW r \in Seq(Item(d)), Shape(r), SameHead(command_queue_[d], r),
         command_queue_' = [command_queue_ EXCEPT ![d] = r],
         UNCHANGED <<busy, request>>
  PROVE  IInv'
<1>1. QueueType' /\ Shapes' /\ command_queue_'[d] = r
      /\ \A e \in Devs \ {d} : command_queue_'[e] = command_queue_[e]
  BY OneQueue DEF IInv
<1>2. busy' => /\ request'.dev \in Devs
               /\ command_queue_'[request'.dev] # <<>>
               /\ Head(command_queue_'[request'.dev]).key = request'.key
  <2> SUFFICES ASSUME busy
               PROVE  /\ command_queue_'[request.dev] # <<>>
                      /\ Head(command_queue_'[request.dev]).key = request.key
                      /\ request.dev \in Devs
    OBVIOUS
  <2>1. CASE request.dev = d
    BY <1>1, <2>1 DEF IInv, InFlight, SameHead
  <2>2. CASE request.dev # d
    BY <1>1, <2>2 DEF IInv, InFlight
  <2> QED
    BY <2>1, <2>2
<1> QED
  BY <1>1, <1>2 DEF IInv, InFlight

LEMMA IInvStep == IInv /\ [Next]_vars => IInv'
<1> SUFFICES ASSUME QueueType, Shapes, InFlight, [Next]_vars
             PROVE  IInv'
  BY DEF IInv
<1>0. \A d \in Devs : command_queue_[d] \in Seq(Item(d)) /\ Shape(command_queue_[d])
  BY DEF QueueType, Shapes
<1>1. CASE Reply("data") \/ Reply("exception")
  <2>1. busy /\ ~busy' /\ request.dev \in Devs /\ command_queue_[request.dev] # <<>>
    BY <1>1 DEF Reply, InFlight
  <2>2. command_queue_' = [command_queue_ EXCEPT ![request.dev] = Tail(command_queue_[request.dev])]
    BY <1>1, <2>1 DEF Reply, on_modbus_data, on_modbus_error
  <2>3. QueueType' /\ Shapes'
    BY <1>0, <2>1, <2>2, TailShape, OneQueue
  <2> QED
    BY <2>1, <2>3 DEF IInv, InFlight
<1>2. CASE Lose
  <2>1. ~busy' /\ UNCHANGED command_queue_
    BY <1>2 DEF Lose
  <2> QED
    BY <2>1, SameQueues DEF IInv, InFlight
<1>3. CASE \/ StillWaiting \/ UNCHANGED vars
           \/ \E d \in Devs : process_modbus_data_(d) \/ Idle(d)
  <2>1. UNCHANGED <<busy, request, command_queue_>>
    BY <1>3 DEF StillWaiting, vars, process_modbus_data_, Idle
  <2> QED
    BY <2>1, SameQueues DEF IInv, InFlight
<1>4. CASE \E d \in Devs, encoded \in BOOLEAN : SendNext(d, encoded)
  <2>1. PICK d \in Devs, encoded \in BOOLEAN : SendNext(d, encoded)
    BY <1>4
  <2> DEFINE q == command_queue_[d]
  <2>2. q \in Seq(Item(d)) /\ Shape(q) /\ q # <<>> /\ Head(q).send_count_ <= MaxRetries
    BY <1>0, <2>1 DEF SendNext, MaySend, should_retry
  <2>3. command_queue_' = [command_queue_ EXCEPT ![d] = Attempted(q)]
    BY <2>1 DEF SendNext
  <2>4. Attempted(q) \in Seq(Item(d)) /\ Shape(Attempted(q)) /\ SameHead(q, Attempted(q))
    BY <2>2, AttemptedShape
  <2>5. QueueType' /\ Shapes' /\ command_queue_'[d] = Attempted(q)
    BY <2>3, <2>4, OneQueue
  <2>6. busy' => request' = [dev |-> d, key |-> Head(q).key, val |-> Head(q).val]
    BY <2>1 DEF SendNext
  <2>7. busy' => /\ request'.dev = d
                 /\ command_queue_'[d] # <<>>
                 /\ Head(command_queue_'[d]).key = request'.key
    BY <2>2, <2>4, <2>5, <2>6 DEF SameHead
  <2> QED
    BY <2>5, <2>7 DEF IInv, InFlight
<1>5. CASE \E d \in Devs : GiveUp(d)
  <2>1. PICK d \in Devs : GiveUp(d)
    BY <1>5
  <2>2. ~busy /\ ~busy' /\ command_queue_[d] # <<>>
        /\ command_queue_' = [command_queue_ EXCEPT ![d] = Tail(command_queue_[d])]
    BY <2>1 DEF GiveUp, MaySend
  <2>3. QueueType' /\ Shapes'
    BY <1>0, <2>2, TailShape, OneQueue
  <2> QED
    BY <2>2, <2>3 DEF IInv, InFlight
<1>6. CASE \E d \in Devs : \E key \in Writes[d], val \in Values : queue_command(d, key, val)
  <2>0. PICK d \in Devs : \E key \in Writes[d], val \in Values : queue_command(d, key, val)
    BY <1>6
  <2>1. PICK key \in Writes[d], val \in Values : queue_command(d, key, val)
    BY <2>0
  <2>2. key \in Keys(d)
    BY DEF Keys
  <2>3. UNCHANGED <<busy, request>>
        /\ command_queue_' = [command_queue_ EXCEPT ![d] = Queued(command_queue_[d], key, val)]
    BY <2>1 DEF queue_command
  <2> QED
    BY <1>0, <2>2, <2>3, QueuedShape, SameHeadInv DEF IInv
<1>7. CASE \E d \in Devs : update(d)
  <2>1. PICK d \in Devs : update(d)
    BY <1>7
  <2>2. PICK due \in Ascending(DuePositions(d)) :
          command_queue_' = [command_queue_ EXCEPT
            ![d] = command_queue_[d] \o [n \in DOMAIN due |-> NewItem(Ranges[d][due[n]], NoValue)]]
    BY <2>1 DEF update
  <2>3. UNCHANGED <<busy, request>>
    BY <2>1 DEF update
  <2> QED
    BY <2>2, <2>3, PolledShape, SameHeadInv DEF IInv
<1> QED
  BY <1>1, <1>2, <1>3, <1>4, <1>5, <1>6, <1>7 DEF Next

LEMMA IInvInit == Init => IInv
<1> SUFFICES ASSUME Init
             PROVE  IInv
  OBVIOUS
<1>1. QueueType
  BY DEF Init, QueueType
<1>2. \A d \in Devs : command_queue_[d] = <<>>
  BY DEF Init
<1>3. Shapes
  BY <1>2 DEF Shapes, Shape
<1>4. ~busy
  BY DEF Init
<1> QED
  BY <1>1, <1>3, <1>4 DEF IInv, InFlight

\* A reply is credited to the command it answers: the head of the sender's
\* queue stays put while a request is in flight (on_modbus_data pops it blindly).
THEOREM HeadTheorem == Spec => []HeadIsInFlight
<1>1. IInv => HeadIsInFlight
  BY DEF IInv, InFlight, HeadIsInFlight
<1> QED
  BY <1>1, IInvInit, IInvStep, PTL DEF Spec

\* Queues hold each command once, so their length is bounded, and no command is
\* sent more than MaxRetries + 1 times.
THEOREM QueueTheorem == Spec => []QueueShape
<1>1. IInv => QueueShape
  BY DEF IInv, Shapes, Shape, QueueShape
<1> QED
  BY <1>1, IInvInit, IInvStep, PTL DEF Spec

-----------------------------------------------------------------------------
(* The other types, and the transitions of the offline state.              *)

RestOK ==
  /\ turn \in 0..Len(Order)
  /\ busy \in BOOLEAN
  /\ request \in Request \cup {NoRequest}
  /\ incoming_queue_ = [d \in Devs |-> incoming_queue_[d]]
  /\ \A d \in Devs : incoming_queue_[d] \in Seq(Keys(d))
  /\ module_offline_ \in [Devs -> BOOLEAN]
  /\ skip_counter = [d \in Devs |-> skip_counter[d]]
  /\ \A d \in Devs : skip_counter[d] \in [ReadKeys(d) -> Nat]

\* The loop of the next device, or that of the channel.
LEMMA TurnType ==
  /\ 0 \in 0..Len(Order) /\ 1 \in 0..Len(Order)
  /\ \A t \in 0..Len(Order) : (t + 1) % (Len(Order) + 1) \in 0..Len(Order)
<1> DEFINE n == Len(Order)
<1>1. n \in Nat /\ n > 0
  BY OrderAssumption, LenProperties
<1> HIDE DEF n
<1>2. \A t \in 0..n : (t + 1) % (n + 1) \in 0..n
  BY <1>1
<1> QED
  BY <1>1, <1>2 DEF n

\* What the queue of a device hands over when its head leaves.
LEMMA HeadCommand ==
  ASSUME IInv, NEW d \in Devs, command_queue_[d] # <<>>
  PROVE  LET c == Head(command_queue_[d]) IN
         /\ c \in Item(d)
         /\ c.key \in Keys(d) /\ c.val \in Values \cup {NoValue}
         /\ [dev |-> d, key |-> c.key, val |-> c.val] \in Request
         /\ c.send_count_ \in Nat /\ c.send_count_ <= MaxRetries + 1
<1> DEFINE q == command_queue_[d]
<1>1. q \in Seq(Item(d)) /\ q # <<>> /\ Shape(q)
  BY DEF IInv, QueueType, Shapes
<1> HIDE DEF q
<1>2. Head(q) = q[1] /\ 1 \in DOMAIN q /\ q[1] \in Item(d)
  BY <1>1
<1> DEFINE c == q[1]
<1>3. c \in Item(d) /\ c.send_count_ <= MaxRetries + 1
  BY <1>1, <1>2 DEF Shape
<1> HIDE DEF c
<1>4. c.key \in Keys(d) /\ c.val \in Values \cup {NoValue} /\ c.send_count_ \in Nat
  BY <1>3 DEF Item
<1>5. [dev |-> d, key |-> c.key, val |-> c.val] \in Request
  BY <1>4 DEF Request
<1> QED
  BY <1>2, <1>3, <1>4, <1>5 DEF q, c

\* A step that leaves the types of the turn and of the request alone.
LEMMA RestStep == IInv /\ RestOK /\ [Next]_vars => RestOK'
<1> SUFFICES ASSUME IInv, RestOK, [Next]_vars
             PROVE  RestOK'
  OBVIOUS
<1> USE DEF RestOK
<1>0. OfflineSkip \in Nat
  BY NumbersAssumption
<1>1. CASE Reply("data")
  <2>1. turn' = 1 /\ busy' = FALSE /\ busy /\ request' = request /\ on_modbus_data(request.dev)
    BY <1>1 DEF Reply
  <2> DEFINE d == request.dev
  <2>2. d \in Devs /\ command_queue_[d] # <<>>
    BY <2>1 DEF IInv, InFlight
  <2>3. Head(command_queue_[d]).key \in Keys(d)
    BY <2>2, HeadCommand
  <2>4. /\ incoming_queue_' = [incoming_queue_ EXCEPT
               ![d] = Append(incoming_queue_[d], Head(command_queue_[d]).key)]
        /\ module_offline_' = [module_offline_ EXCEPT ![d] = FALSE]
        /\ skip_counter' = IF module_offline_[d] /\ OfflineSkip > 0
                           THEN [skip_counter EXCEPT ![d] = [r \in ReadKeys(d) |-> 0]]
                           ELSE skip_counter
    BY <2>1, <2>2 DEF on_modbus_data
  <2> HIDE DEF d
  <2>5. /\ incoming_queue_' = [e \in Devs |-> incoming_queue_'[e]]
        /\ \A e \in Devs : incoming_queue_'[e] \in Seq(Keys(e))
    <3>1. Append(incoming_queue_[d], Head(command_queue_[d]).key) \in Seq(Keys(d))
      BY <2>2, <2>3, AppendProperties
    <3> QED
      BY <2>2, <2>4, <3>1
  <2>6. /\ skip_counter' = [e \in Devs |-> skip_counter'[e]]
        /\ \A e \in Devs : skip_counter'[e] \in [ReadKeys(e) -> Nat]
    BY <2>2, <2>4
  <2>7. module_offline_' \in [Devs -> BOOLEAN]
    BY <2>2, <2>4
  <2> QED
    BY <2>1, <2>5, <2>6, <2>7, TurnType
<1>2. CASE Reply("exception") \/ Lose \/ StillWaiting
  <2>1. /\ turn' = 1 /\ busy' \in BOOLEAN
        /\ UNCHANGED <<request, incoming_queue_, module_offline_, skip_counter>>
    BY <1>2 DEF Reply, on_modbus_error, Lose, StillWaiting
  <2> QED
    BY <2>1, TurnType
<1>3. ASSUME NEW d \in Devs, Turn(d)
      PROVE  turn' \in 0..Len(Order)
  BY <1>3, TurnType DEF Turn
<1>4. CASE \E d \in Devs : process_modbus_data_(d) \/ Idle(d)
  <2>1. PICK d \in Devs : process_modbus_data_(d) \/ Idle(d)
    BY <1>4
  <2>2. UNCHANGED <<busy, request, module_offline_, skip_counter>> /\ Turn(d)
    BY <2>1 DEF process_modbus_data_, Idle
  <2>3. /\ incoming_queue_' = [e \in Devs |-> incoming_queue_'[e]]
        /\ \A e \in Devs : incoming_queue_'[e] \in Seq(Keys(e))
    <3>1. CASE UNCHANGED incoming_queue_
      BY <3>1
    <3>2. CASE incoming_queue_[d] # <<>>
               /\ incoming_queue_' = [incoming_queue_ EXCEPT ![d] = Tail(incoming_queue_[d])]
      <4>1. Tail(incoming_queue_[d]) \in Seq(Keys(d))
        BY <3>2
      <4> QED
        BY <3>2, <4>1
    <3> QED
      BY <2>1, <3>1, <3>2 DEF process_modbus_data_, Idle
  <2> QED
    BY <1>3, <2>2, <2>3
<1>5. CASE \E d \in Devs, encoded \in BOOLEAN : SendNext(d, encoded)
  <2>1. PICK d \in Devs, encoded \in BOOLEAN : SendNext(d, encoded)
    BY <1>5
  <2> DEFINE c == Head(command_queue_[d])
  <2>2. Turn(d) /\ busy' = encoded /\ UNCHANGED <<incoming_queue_, module_offline_, skip_counter>>
        /\ command_queue_[d] # <<>>
        /\ request' = IF encoded THEN [dev |-> d, key |-> c.key, val |-> c.val] ELSE request
    BY <2>1 DEF SendNext, MaySend
  <2>3. [dev |-> d, key |-> c.key, val |-> c.val] \in Request
    BY <2>2, HeadCommand
  <2> HIDE DEF c
  <2>4. request' \in Request \cup {NoRequest}
    BY <2>2, <2>3
  <2> QED
    BY <1>3, <2>2, <2>4
<1>6. CASE \E d \in Devs : GiveUp(d)
  <2>1. PICK d \in Devs : GiveUp(d)
    BY <1>6
  <2>2. Turn(d) /\ UNCHANGED <<busy, request, incoming_queue_>>
        /\ module_offline_' = [module_offline_ EXCEPT ![d] = TRUE]
        /\ skip_counter' = IF ~module_offline_[d] /\ OfflineSkip > 0
                           THEN [skip_counter EXCEPT ![d] = [r \in ReadKeys(d) |-> OfflineSkip]]
                           ELSE skip_counter
    BY <2>1 DEF GiveUp
  <2>3. /\ skip_counter' = [e \in Devs |-> skip_counter'[e]]
        /\ \A e \in Devs : skip_counter'[e] \in [ReadKeys(e) -> Nat]
    BY <1>0, <2>2
  <2>4. module_offline_' \in [Devs -> BOOLEAN]
    BY <2>2
  <2> QED
    BY <1>3, <2>2, <2>3, <2>4
<1>7. CASE \/ \E d \in Devs : \E key \in Writes[d], val \in Values : queue_command(d, key, val)
           \/ UNCHANGED vars
  <2>1. UNCHANGED <<turn, busy, request, incoming_queue_, module_offline_, skip_counter>>
    BY <1>7 DEF queue_command, vars
  <2> QED
    BY <2>1
<1>8. CASE \E d \in Devs : update(d)
  <2>1. PICK d \in Devs : update(d)
    BY <1>8
  <2>2. UNCHANGED <<turn, busy, request, incoming_queue_, module_offline_>>
        /\ skip_counter' = [skip_counter EXCEPT ![d] = [r \in ReadKeys(d) |-> NextCounter(d, r)]]
    BY <2>1 DEF update
  <2>3. \A r \in ReadKeys(d) : NextCounter(d, r) \in Nat
    BY NumbersAssumption DEF NextCounter
  <2>4. [r \in ReadKeys(d) |-> NextCounter(d, r)] \in [ReadKeys(d) -> Nat]
    BY <2>3
  <2>5. /\ skip_counter' = [e \in Devs |-> skip_counter'[e]]
        /\ \A e \in Devs : skip_counter'[e] \in [ReadKeys(e) -> Nat]
    BY <2>2, <2>4
  <2> QED
    BY <2>2, <2>5
<1> QED
  BY <1>1, <1>2, <1>4, <1>5, <1>6, <1>7, <1>8 DEF Next

LEMMA RestInit == Init => RestOK
<1> SUFFICES ASSUME Init
             PROVE  RestOK
  OBVIOUS
<1>1. turn \in 0..Len(Order) /\ busy \in BOOLEAN /\ request \in Request \cup {NoRequest}
      /\ module_offline_ \in [Devs -> BOOLEAN]
  BY TurnType DEF Init
<1>2. /\ incoming_queue_ = [d \in Devs |-> incoming_queue_[d]]
      /\ \A d \in Devs : incoming_queue_[d] \in Seq(Keys(d))
  BY DEF Init
<1>3. /\ skip_counter = [d \in Devs |-> skip_counter[d]]
      /\ \A d \in Devs : skip_counter[d] \in [ReadKeys(d) -> Nat]
  BY DEF Init
<1> QED
  BY <1>1, <1>2, <1>3 DEF RestOK

LEMMA TypeFromParts == IInv /\ RestOK => TypeOK
  BY DEF IInv, QueueType, RestOK, TypeOK

\* The queues of each device hold its own commands and its countdowns do not pass
\* zero, in every interleaving of replies, poll cycles, writes and give-ups.
THEOREM TypeTheorem == Spec => []TypeOK
<1> QED
  BY TypeFromParts, IInvInit, IInvStep, RestInit, RestStep, PTL DEF Spec

\* module_offline_ is set in one place, by the last attempt of a command, and
\* cleared in one place, by a data reply of the device itself: no other step of
\* this or another device changes it.
THEOREM OfflineTheorem == Spec => OfflineTransitions
<1> DEFINE Reason ==
      \A d \in Devs :
        /\ ~module_offline_[d] /\ module_offline_'[d] =>
             ~busy /\ Head(command_queue_[d]).send_count_ = MaxRetries + 1
        /\ module_offline_[d] /\ ~module_offline_'[d] =>
             busy /\ ~busy' /\ request.dev = d
<1>1. ASSUME IInv, RestOK, Next, NEW d \in Devs
      PROVE  /\ ~module_offline_[d] /\ module_offline_'[d] =>
                  ~busy /\ Head(command_queue_[d]).send_count_ = MaxRetries + 1
             /\ module_offline_[d] /\ ~module_offline_'[d] =>
                  busy /\ ~busy' /\ request.dev = d
  <2>0. module_offline_ \in [Devs -> BOOLEAN] /\ MaxRetries \in Nat
    BY <1>1, NumbersAssumption DEF RestOK
  <2>1. CASE Reply("data")
    <3>1. busy /\ ~busy' /\ request.dev \in Devs /\ command_queue_[request.dev] # <<>>
      BY <1>1, <2>1 DEF Reply, IInv, InFlight
    <3>2. module_offline_' = [module_offline_ EXCEPT ![request.dev] = FALSE]
      BY <2>1, <3>1 DEF Reply, on_modbus_data
    <3> QED
      BY <2>0, <3>1, <3>2
  <2>2. CASE \E e \in Devs : GiveUp(e)
    <3>1. PICK e \in Devs : GiveUp(e)
      BY <2>2
    <3>2. ~busy /\ module_offline_' = [module_offline_ EXCEPT ![e] = TRUE]
          /\ command_queue_[e] # <<>> /\ ~(Head(command_queue_[e]).send_count_ <= MaxRetries)
      BY <3>1 DEF GiveUp, MaySend, should_retry
    <3>3. Head(command_queue_[e]).send_count_ = MaxRetries + 1
      <4> DEFINE n == Head(command_queue_[e]).send_count_
      <4>1. n \in Nat /\ n <= MaxRetries + 1
        BY <1>1, <3>2, HeadCommand
      <4>2. ~(n <= MaxRetries)
        BY <3>2
      <4> HIDE DEF n
      <4>3. n = MaxRetries + 1
        BY <2>0, <4>1, <4>2
      <4> QED
        BY <4>3 DEF n
    <3> QED
      BY <2>0, <3>2, <3>3
  <2>3. CASE UNCHANGED module_offline_
    BY <2>3
  <2> QED
    BY <1>1, <2>1, <2>2, <2>3 DEF Next, Reply, on_modbus_error, Lose, StillWaiting,
       process_modbus_data_, SendNext, Idle, queue_command, update
<1>2. IInv /\ RestOK /\ [Next]_vars => [Reason]_vars
  BY <1>1
<1> QED
  BY <1>2, IInvInit, IInvStep, RestInit, RestStep, PTL DEF Spec, OfflineTransitions, Reason

-----------------------------------------------------------------------------
(* The hub of marstek.                                                     *)

\* A command that writes carries a value.
Commands == {c \in Item(Hub) : c.key \in Writes[Hub] => c.val \in Values}

Valued ==
  /\ command_queue_[Hub] \in Seq(Commands)
  /\ busy /\ request.key \in Writes[Hub] => request.val \in Values

HubOK ==
  /\ connected_ \in BOOLEAN /\ rs485_enabled_ \in BOOLEAN
  /\ lastReply \in {"none", "data", "exception"}
  /\ mode \in Values \cup {"off"}
  /\ sampled \in Values \cup {"off"}

HInv == IInv /\ RestOK /\ Valued /\ HubOK /\ NoFalseAlarm

\* The only device.
LEMMA OnlyHub == Hub \in Devs /\ Devs = {Hub}
  <1>1. Order \in Seq(Devs) /\ Len(Order) = 1
    BY OrderAssumption, HubAssumption
  <1>2. DOMAIN Order = {1}
    BY <1>1
  <1>3. Hub \in Devs
    BY <1>2, Zenon DEF Devs, Hub
  <1>4. ASSUME NEW d \in Devs PROVE d = Hub
    BY <1>2, Zenon DEF Devs, Hub
  <1> QED BY <1>3, <1>4

-----------------------------------------------------------------------------
(* The queue of the hub                                                    *)

LEMMA AttemptedCommands ==
  ASSUME NEW q \in Seq(Commands), q # <<>>
  PROVE  Attempted(q) \in Seq(Commands)
  <1>1. DOMAIN q = 1..Len(q) /\ 1 \in DOMAIN q /\ Len(q) \in Nat /\ q[1] \in Commands
    OBVIOUS
  <1> DEFINE c == [q[1] EXCEPT !.send_count_ = @ + 1]
             r == [q EXCEPT ![1] = c]
  <1>2. c \in Commands
    BY <1>1 DEF Commands, Item
  <1> HIDE DEF c
  <1>3. r \in Seq(Commands)
    BY <1>1, <1>2, ExceptSeq
  <1> QED BY <1>3 DEF Attempted, c

LEMMA QueuedCommands ==
  ASSUME NEW q \in Seq(Commands), NEW key \in Keys(Hub), NEW val \in Values
  PROVE  Queued(q, key, val) \in Seq(Commands)
  <1>1. DOMAIN q = 1..Len(q) /\ Len(q) \in Nat /\ \A i \in DOMAIN q : q[i] \in Commands
    OBVIOUS
  <1>2. CASE key \in QueuedKeys(q)
    <2> DEFINE r == [i \in DOMAIN q |-> IF q[i].key = key THEN [q[i] EXCEPT !.val = val] ELSE q[i]]
    <2>1. ASSUME NEW i \in DOMAIN q
          PROVE  (IF q[i].key = key THEN [q[i] EXCEPT !.val = val] ELSE q[i]) \in Commands
      <3> DEFINE c == q[i]
      <3>1. c \in Commands
        BY <1>1
      <3> HIDE DEF c
      <3>2. (IF c.key = key THEN [c EXCEPT !.val = val] ELSE c) \in Commands
        BY <3>1 DEF Commands, Item
      <3> QED BY <3>2 DEF c
    <2>2. r \in [1..Len(q) -> Commands]
      BY <1>1, <2>1
    <2>3. Queued(q, key, val) = r
      BY <1>2 DEF Queued
    <2> HIDE DEF r
    <2> QED BY <1>1, <2>2, <2>3
  <1>3. CASE key \notin QueuedKeys(q)
    <2>1. NewItem(key, val) \in Commands
      BY DEF NewItem, Commands, Item
    <2>2. Queued(q, key, val) = Append(q, NewItem(key, val))
      BY <1>3 DEF Queued
    <2> QED BY <2>1, <2>2, AppendProperties
  <1> QED BY <1>2, <1>3

\* Reads carry no value, and are no writes.
LEMMA PolledCommands ==
  ASSUME NEW q \in Seq(Commands), NEW due \in Ascending(DuePositions(Hub))
  PROVE  q \o [n \in DOMAIN due |-> NewItem(Ranges[Hub][due[n]], NoValue)] \in Seq(Commands)
  <1> DEFINE P == DuePositions(Hub)
             N == Cardinality(P)
             add == [n \in DOMAIN due |-> NewItem(Ranges[Hub][due[n]], NoValue)]
  <1>1. Hub \in Devs
    BY OnlyHub
  <1>2. N \in Nat
    <2>1. Ranges[Hub] \in Seq(ReadKeys(Hub))
      BY <1>1, RangesAssumption
    <2>2. Len(Ranges[Hub]) \in Nat /\ DOMAIN Ranges[Hub] = 1..Len(Ranges[Hub])
      BY <2>1
    <2>3. IsFiniteSet(1..Len(Ranges[Hub])) /\ P \in SUBSET (1..Len(Ranges[Hub]))
      BY <2>2, FS_Interval DEF DuePositions
    <2> QED BY <2>3, FS_Subset, FS_CardinalityType
  <1>3. due \in [1..N -> P]
    BY DEF Ascending
  <1>4. ASSUME NEW n \in 1..N
        PROVE  NewItem(Ranges[Hub][due[n]], NoValue) \in Commands
    <2> DEFINE k == Ranges[Hub][due[n]]
    <2>1. due[n] \in P
      BY <1>3
    <2>2. k \in ReadKeys(Hub)
      BY <2>1 DEF DuePositions, ReadKeys
    <2>3. k \in Keys(Hub) /\ k \notin Writes[Hub]
      BY <1>1, <2>2, RangesAssumption DEF Keys
    <2> HIDE DEF k
    <2>4. NewItem(k, NoValue) \in Commands
      BY <2>3 DEF NewItem, Commands, Item
    <2> QED BY <2>4 DEF k
  <1>5. add \in [1..N -> Commands]
    BY <1>3, <1>4
  <1> HIDE DEF add, N, P
  <1>6. add \in Seq(Commands)
    BY <1>2, <1>5
  <1>7. q \o add \in Seq(Commands)
    BY <1>6, ConcatProperties
  <1> QED BY <1>7 DEF add

\* The writes of one call of write_register.
LEMMA WriteQueue ==
  ASSUME HInv, NEW reg \in Writes[Hub], NEW val \in Values, write_register(reg, val)
  PROVE  IInv' /\ RestOK' /\ Valued'
  <1> DEFINE q == command_queue_[Hub]
             first == IF reg \in CommandRegs /\ ~rs485_enabled_ THEN Queued(q, ModeReg, "on") ELSE q
             r == Queued(first, reg, val)
  <1>1. /\ command_queue_' = [command_queue_ EXCEPT ![Hub] = r]
        /\ UNCHANGED <<turn, busy, request, incoming_queue_, module_offline_, skip_counter>>
    BY DEF write_register
  <1>2. Hub \in Devs /\ reg \in Keys(Hub) /\ ModeReg \in Keys(Hub) /\ "on" \in Values
    BY OnlyHub, HubAssumption DEF Keys
  <1>3. q \in Seq(Item(Hub)) /\ Shape(q) /\ q \in Seq(Commands)
    BY <1>2 DEF HInv, IInv, QueueType, Shapes, Valued
  <1> HIDE DEF q
  <1>4. /\ first \in Seq(Item(Hub)) /\ Shape(first) /\ SameHead(q, first)
        /\ first \in Seq(Commands)
    BY <1>2, <1>3, QueuedShape, QueuedCommands DEF SameHead
  <1> HIDE DEF first
  <1>5. /\ r \in Seq(Item(Hub)) /\ Shape(r) /\ SameHead(first, r)
        /\ r \in Seq(Commands)
    BY <1>2, <1>4, QueuedShape, QueuedCommands
  <1> HIDE DEF r
  <1>6. SameHead(q, r)
    BY <1>4, <1>5 DEF SameHead
  <1>7. IInv'
    BY <1>1, <1>2, <1>5, <1>6, SameHeadInv DEF HInv, q
  <1>8. RestOK'
    BY <1>1 DEF HInv, RestOK
  <1>9. command_queue_'[Hub] = r
    BY <1>1, <1>2 DEF HInv, IInv, QueueType
  <1> QED BY <1>1, <1>5, <1>7, <1>8, <1>9 DEF HInv, Valued

\* The controller's steps keep the values of the commands.
LEMMA ControllerValued ==
  ASSUME IInv, Valued,
         \/ Reply("data") \/ Reply("exception") \/ Lose \/ StillWaiting
         \/ process_modbus_data_(Hub) \/ GiveUp(Hub) \/ Idle(Hub) \/ update(Hub)
         \/ \E encoded \in BOOLEAN : SendNext(Hub, encoded)
  PROVE  Valued'
  <1> DEFINE q == command_queue_[Hub]
  <1>1. /\ Hub \in Devs /\ q \in Seq(Commands)
        /\ command_queue_ = [d \in Devs |-> command_queue_[d]]
    BY OnlyHub DEF IInv, QueueType, Valued
  <1>2. CASE Reply("data") \/ Reply("exception")
    <2>1. ~busy' /\ request.dev = Hub /\ q # <<>>
      BY <1>2, OnlyHub DEF Reply, IInv, InFlight
    <2>2. command_queue_' = [command_queue_ EXCEPT ![Hub] = Tail(q)]
      BY <1>2, <2>1 DEF Reply, on_modbus_data, on_modbus_error
    <2>3. command_queue_'[Hub] \in Seq(Commands)
      BY <1>1, <2>1, <2>2
    <2> QED BY <2>1, <2>3 DEF Valued
  <1>3. CASE Lose
    <2>1. ~busy' /\ UNCHANGED command_queue_
      BY <1>3 DEF Lose
    <2> QED BY <2>1 DEF Valued
  <1>4. CASE StillWaiting \/ process_modbus_data_(Hub) \/ Idle(Hub)
    <2>1. UNCHANGED <<busy, request, command_queue_>>
      BY <1>4 DEF StillWaiting, process_modbus_data_, Idle
    <2> QED BY <2>1 DEF Valued
  <1>5. CASE GiveUp(Hub)
    <2>1. ~busy' /\ q # <<>> /\ command_queue_' = [command_queue_ EXCEPT ![Hub] = Tail(q)]
      BY <1>5 DEF GiveUp, MaySend
    <2>2. command_queue_'[Hub] \in Seq(Commands)
      BY <1>1, <2>1
    <2> QED BY <2>1, <2>2 DEF Valued
  <1>6. CASE update(Hub)
    <2>1. PICK due \in Ascending(DuePositions(Hub)) :
            command_queue_' = [command_queue_ EXCEPT
              ![Hub] = q \o [n \in DOMAIN due |-> NewItem(Ranges[Hub][due[n]], NoValue)]]
      BY <1>6 DEF update
    <2>2. command_queue_'[Hub] \in Seq(Commands)
      BY <1>1, <2>1, PolledCommands
    <2>3. UNCHANGED <<busy, request>>
      BY <1>6 DEF update
    <2> QED BY <2>2, <2>3 DEF Valued
  <1>7. CASE \E encoded \in BOOLEAN : SendNext(Hub, encoded)
    <2>1. PICK encoded \in BOOLEAN : SendNext(Hub, encoded)
      BY <1>7
    <2>2. /\ q # <<>> /\ command_queue_' = [command_queue_ EXCEPT ![Hub] = Attempted(q)]
          /\ busy' => request' = [dev |-> Hub, key |-> Head(q).key, val |-> Head(q).val]
      BY <2>1 DEF SendNext, MaySend
    <2>3. command_queue_'[Hub] \in Seq(Commands)
      BY <1>1, <2>2, AttemptedCommands
    <2>4. Head(q) \in Commands
      BY <1>1, <2>2
    <2>5. Head(q).key \in Writes[Hub] => Head(q).val \in Values
      BY <2>4 DEF Commands
    <2> HIDE DEF q
    <2> QED BY <2>2, <2>3, <2>5 DEF Valued
  <1> QED BY <1>2, <1>3, <1>4, <1>5, <1>6, <1>7

-----------------------------------------------------------------------------
(* All steps                                                               *)

\* The controller's steps, taken by the hub.
LEMMA ControllerInv ==
  ASSUME HInv, HubData \/ HubException \/ HubLose \/ HubDispatch \/ HubGiveUp \/ HubOther
  PROVE  IInv' /\ RestOK' /\ Valued'
  <1>1. \/ Reply("data") \/ Reply("exception") \/ Lose \/ StillWaiting
        \/ process_modbus_data_(Hub) \/ GiveUp(Hub) \/ Idle(Hub) \/ update(Hub)
        \/ \E encoded \in BOOLEAN : SendNext(Hub, encoded)
    BY DEF HubData, HubException, HubLose, HubDispatch, HubGiveUp, HubOther
  <1>2. Next
    BY <1>1, OnlyHub DEF Next
  <1>3. IInv' /\ RestOK'
    BY <1>2, IInvStep, RestStep DEF HInv
  <1> QED BY <1>1, <1>3, ControllerValued DEF HInv

\* The hub's own state in each step.
LEMMA HubStep ==
  ASSUME HInv, [HubNext]_allVars
  PROVE  HubOK' /\ NoFalseAlarm'
  <1>0. /\ module_offline_ \in [Devs -> BOOLEAN] /\ Hub \in Devs /\ "on" \in Values
        /\ busy => Executed \in Values \cup {"off"}
    BY OnlyHub, HubAssumption DEF HInv, RestOK, Valued, HubOK, Executed
  <1>1. CASE HubData
    <2>1. busy /\ connected_' = TRUE /\ mode' = Executed /\ lastReply' = "data"
          /\ sampled' = (IF request.key = ModeRange THEN mode ELSE sampled)
          /\ UNCHANGED rs485_enabled_
      BY <1>1 DEF HubData, Reply, Replied
    <2> QED BY <1>0, <2>1 DEF HInv, HubOK, NoFalseAlarm
  <1>2. CASE HubException
    <2>1. connected_' = TRUE /\ lastReply' = "exception" /\ UNCHANGED <<rs485_enabled_, mode, sampled>>
      BY <1>2 DEF HubException, Replied
    <2> QED BY <2>1 DEF HInv, HubOK, NoFalseAlarm
  <1>3. CASE HubLose
    <2>1. busy /\ mode' \in {mode, Executed}
          /\ UNCHANGED <<connected_, rs485_enabled_, sampled, lastReply, module_offline_>>
      BY <1>3 DEF HubLose, Lose
    <2> QED BY <1>0, <2>1 DEF HInv, HubOK, NoFalseAlarm
  <1>4. CASE HubDispatch
    <2>1. rs485_enabled_' \in BOOLEAN
          /\ UNCHANGED <<connected_, mode, sampled, lastReply, module_offline_>>
      BY <1>4 DEF HubDispatch, ReadBack, process_modbus_data_, HInv, HubOK
    <2> QED BY <2>1 DEF HInv, HubOK, NoFalseAlarm
  <1>5. CASE HubGiveUp
    <2>1. module_offline_' = [module_offline_ EXCEPT ![Hub] = TRUE]
          /\ UNCHANGED <<rs485_enabled_, mode, sampled, lastReply>>
      BY <1>5 DEF HubGiveUp, GiveUp
    <2>2. connected_' \in BOOLEAN
      BY <1>5 DEF HubGiveUp, GaveUp
    <2>3. module_offline_'[Hub]
      BY <1>0, <2>1
    <2> QED BY <2>1, <2>2, <2>3 DEF HInv, HubOK, NoFalseAlarm
  <1>6. CASE HubOther
    <2>1. UNCHANGED hubVars /\ UNCHANGED module_offline_
      BY <1>6 DEF HubOther, StillWaiting, SendNext, Idle, update
    <2> QED BY <2>1 DEF HInv, HubOK, NoFalseAlarm, hubVars
  <1>7. ASSUME NEW reg \in Writes[Hub], NEW val \in Values, write_register(reg, val)
        PROVE  HubOK' /\ NoFalseAlarm'
    <2>1. UNCHANGED <<connected_, mode, sampled, lastReply, module_offline_>>
      BY <1>7 DEF write_register
    <2>2. rs485_enabled_' \in BOOLEAN
      BY <1>7 DEF write_register
    <2> QED BY <2>1, <2>2 DEF HInv, HubOK, NoFalseAlarm
  <1>8. CASE UNCHANGED allVars
    BY <1>8 DEF allVars, vars, hubVars, HInv, HubOK, NoFalseAlarm
  <1> QED BY <1>1, <1>2, <1>3, <1>4, <1>5, <1>6, <1>7, <1>8 DEF HubNext

LEMMA HInvStep == HInv /\ [HubNext]_allVars => HInv'
  <1> SUFFICES ASSUME HInv, [HubNext]_allVars PROVE HInv'
    OBVIOUS
  <1>1. IInv' /\ RestOK' /\ Valued'
    <2>1. CASE HubData \/ HubException \/ HubLose \/ HubDispatch \/ HubGiveUp \/ HubOther
      BY <2>1, ControllerInv
    <2>2. CASE \E reg \in Writes[Hub], val \in Values : write_register(reg, val)
      BY <2>2, WriteQueue
    <2>3. CASE UNCHANGED allVars
      <3>1. UNCHANGED vars
        BY <2>3 DEF allVars
      <3>2. IInv' /\ RestOK'
        BY <3>1, IInvStep, RestStep DEF HInv
      <3>3. Valued'
        BY <3>1 DEF HInv, Valued, vars
      <3> QED BY <3>2, <3>3
    <2> QED BY <2>1, <2>2, <2>3 DEF HubNext
  <1> QED BY <1>1, HubStep DEF HInv

LEMMA HInvInit == HubInit => HInv
  <1> SUFFICES ASSUME HubInit PROVE HInv
    OBVIOUS
  <1>1. IInv /\ RestOK
    BY IInvInit, RestInit DEF HubInit
  <1>2. Valued
    BY OnlyHub DEF HubInit, Init, Valued
  <1>3. HubOK /\ NoFalseAlarm
    BY DEF HubInit, HubOK, NoFalseAlarm
  <1> QED BY <1>1, <1>2, <1>3 DEF HInv

\* Once the battery has replied, its connection sensor is off only while the
\* controller counts it as offline, through every order of replies, exceptions,
\* losses, give-ups and writes, and the hub's state stays well formed.
THEOREM HubTheorem == HubSpec => []HubInv
  <1>1. HInv => HubInv
    <2>1. IInv /\ RestOK => TypeOK
      BY TypeFromParts
    <2>2. HubOK => {connected_, rs485_enabled_} \subseteq BOOLEAN
      BY DEF HubOK
    <2> QED BY <2>1, <2>2 DEF HInv, HubOK, HubInv, HubTypeOK
  <1> QED BY <1>1, HInvInit, HInvStep, PTL DEF HubSpec
=============================================================================
