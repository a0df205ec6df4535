-------------------------- MODULE ModbusTcp_proofs --------------------------
(***************************************************************************)
(* Theorems about ModbusTcp, for every number of ids, units and bounds:    *)
(* its types, the buffers, the pairing of replies with their requests, and *)
(* that it implements RequestReply.                                        *)
(***************************************************************************)
EXTENDS ModbusTcp, Integers, SequenceTheorems, TLAPS

-----------------------------------------------------------------------------
(* Wrapping counters: facts about % that transaction ids rest on.          *)

\* Quotient and remainder, as the wrapping of a C unsigned counter defines them.
LEMMA DivMod ==
  ASSUME NEW N \in Nat \ {0}, NEW a \in Nat
  PROVE  a % N \in 0..(N - 1) /\ \E q \in Nat : a = (N * q) + (a % N)
<1>1. a % N \in 0..(N - 1)
  OBVIOUS
<1>2. a \div N \in Nat /\ a = (N * (a \div N)) + (a % N)
  OBVIOUS
<1> QED
  BY <1>1, <1>2

\* Only 0 is a multiple of N below N.
LEMMA SmallMultiple ==
  ASSUME NEW N \in Nat \ {0}, NEW q \in Int, 0 <= N * q, N * q < N
  PROVE  q = 0
<1>1. CASE q <= -1
  <2>1. N * q <= -N
    BY <1>1
  <2> QED
    BY <2>1
<1>2. CASE q >= 1
  <2>1. N * q >= N
    BY <1>2
  <2> QED
    BY <2>1
<1> QED
  BY <1>1, <1>2

\* The remainder is unique.
LEMMA ModUnique ==
  ASSUME NEW N \in Nat \ {0}, NEW q \in Nat, NEW r \in 0..(N - 1), NEW a \in Nat, a = (N * q) + r
  PROVE  a % N = r
<1>1. PICK p \in Nat : a = (N * p) + (a % N)
  BY DivMod
<1> DEFINE s == a % N
<1>2. s \in 0..(N - 1) /\ a = (N * p) + s
  BY <1>1, DivMod
<1> HIDE DEF s
<1>3. N * (p - q) = r - s /\ N * (q - p) = s - r
  <2>1. N * (p - q) = (N * p) - (N * q) /\ N * (q - p) = (N * q) - (N * p)
    OBVIOUS
  <2> QED
    BY <2>1, <1>2
<1>4. CASE r >= s
  <2>1. p - q = 0
    BY <1>2, <1>3, <1>4, SmallMultiple
  <2> QED
    BY <2>1, <1>2, <1>3 DEF s
<1>5. CASE r <= s
  <2>1. q - p = 0
    BY <1>2, <1>3, <1>5, SmallMultiple
  <2> QED
    BY <2>1, <1>2, <1>3 DEF s
<1> QED
  BY <1>2, <1>4, <1>5

\* Two numbers less than N apart that wrap to the same value are equal.
LEMMA ModInjective ==
  ASSUME NEW N \in Nat \ {0}, NEW a \in Nat, NEW b \in Nat,
         a <= b, b < a + N, a % N = b % N
  PROVE  a = b
<1>1. PICK p \in Nat : a = (N * p) + (a % N)
  BY DivMod
<1>2. PICK q \in Nat : b = (N * q) + (b % N)
  BY DivMod
<1>3. a % N \in Nat
  BY DivMod
<1> DEFINE r == a % N
<1>4. a = (N * p) + r /\ b = (N * q) + r /\ r \in Nat
  BY <1>1, <1>2, <1>3
<1> HIDE DEF r
<1>5. N * (q - p) = b - a
  <2>1. N * (q - p) = (N * q) - (N * p)
    OBVIOUS
  <2> QED
    BY <2>1, <1>4
<1>6. q - p = 0
  BY <1>5, SmallMultiple
<1> QED
  BY <1>4, <1>6

\* A counter that wraps at each increment counts modulo N (transaction_id_++).
LEMMA ModSuccessor ==
  ASSUME NEW N \in Nat \ {0}, NEW a \in Nat
  PROVE  ((a % N) + 1) % N = (a + 1) % N
<1>1. PICK q \in Nat : a = (N * q) + (a % N)
  BY DivMod
<1>2. a % N \in 0..(N - 1)
  BY DivMod
<1> DEFINE r == a % N
           b == a + 1
<1>3. b = (N * q) + (r + 1) /\ r \in 0..(N - 1) /\ b \in Nat
  BY <1>1, <1>2
<1> SUFFICES (r + 1) % N = b % N
  OBVIOUS
<1> HIDE DEF r, b
<1>4. CASE r + 1 < N
  <2>1. r + 1 \in 0..(N - 1) /\ r + 1 = (N * 0) + (r + 1)
    BY <1>3, <1>4
  <2>2. b % N = r + 1
    BY <2>1, <1>3, ModUnique
  <2>3. (r + 1) % N = r + 1
    BY <2>1, <1>3, ModUnique
  <2> QED
    BY <2>2, <2>3
<1>5. CASE r + 1 = N
  <2>1. b = (N * (q + 1)) + 0 /\ r + 1 = (N * 1) + 0 /\ 0 \in 0..(N - 1) /\ q + 1 \in Nat
    <3>1. N * (q + 1) = (N * q) + N
      OBVIOUS
    <3> QED
      BY <3>1, <1>3, <1>5
  <2>2. b % N = 0
    <3> DEFINE p == q + 1
    <3>1. b = (N * p) + 0 /\ p \in Nat
      BY <2>1
    <3> HIDE DEF p
    <3> QED
      BY <2>1, <3>1, <1>3, ModUnique
  <2>3. (r + 1) % N = 0
    BY <2>1, <1>3, ModUnique
  <2> QED
    BY <2>2, <2>3
<1> QED
  BY <1>3, <1>4, <1>5

-----------------------------------------------------------------------------
(* Types and buffers                                                       *)

\* A buffer that holds a whole frame keeps a part when its first is dropped.
LEMMA TwoOrMore ==
  ASSUME NEW S, NEW s \in Seq(S), Len(s) >= 2
  PROVE  Tail(s) \in Seq(S) /\ Tail(s) # <<>>
<1>1. s # <<>> /\ Len(s) \in Nat
  BY LenProperties
<1>2. Tail(s) \in Seq(S) /\ Len(Tail(s)) = Len(s) - 1
  BY <1>1, HeadTailProperties
<1> DEFINE rest == Tail(s)
<1>3. rest \in Seq(S) /\ Len(rest) # 0
  BY <1>1, <1>2
<1> HIDE DEF rest
<1>4. rest # <<>>
  BY <1>3
<1> QED
  BY <1>3, <1>4 DEF rest

\* PartsIn is the set of the elements of a buffer.
LEMMA PartsOfSeq ==
  ASSUME NEW S, NEW s \in Seq(S)
  PROVE  PartsIn(s) \subseteq S
  BY ElementOfSeq DEF PartsIn

\* TypeOK in two parts, which different provers handle: the Boolean flags, and
\* the rest.
FlagsOK ==
  /\ awaiting_response_ \in BOOLEAN
  /\ connected_ \in BOOLEAN
  /\ reset_requested_ \in BOOLEAN

Outcomes == [seq : Nat, how : RR!Delivered \cup {"none", "lost"}]

DataOK ==
  /\ pc \in {"reset", "take", "parse", "timers", "app"}
  /\ waiting_for_response \in 0..255
  /\ transaction_id_ \in 0..(TidMod - 1)
  /\ pending \in [tid : 0..(TidMod - 1), unit : Units \cup {0}, seq : Nat]
  /\ pending_rx_ \in Seq(Part)
  /\ rx_buffer_ \in Seq(Part)
  /\ link \in {"closed", "connecting", "open"}
  /\ conn \in Nat
  /\ inCallback \in Seq(Part)
  /\ toServer \subseteq [seq : Nat, tid : 0..(TidMod - 1)]
  /\ wire \in Seq(Part)
  /\ issued \in Nat
  /\ sentOn \in Nat
  /\ answered \subseteq [seq : Nat, kind : RR!Kinds]
  /\ result \in Outcomes

\* A request that is given up has an outcome.
LEMMA LostIsOutcome == DataOK => [seq |-> issued, how |-> "lost"] \in Outcomes
  BY DEF DataOK, Outcomes

\* The flags that the two tasks share hold Booleans.
LEMMA FlagsStep == FlagsOK /\ [Next]_vars => FlagsOK'
<1> SUFFICES ASSUME FlagsOK, [Next]_vars
             PROVE  FlagsOK'
  OBVIOUS
<1> USE DEF FlagsOK, mainVars, sharedVars, netVars, ghostVars, onConnect, onDisconnect
<1>1. CASE ProcessReset
  BY <1>1, Zenon DEF ProcessReset, reset_link_state_, GiveUpRequest
<1>2. CASE ParseFrame
  BY <1>2, Zenon DEF ParseFrame, handle_frame_
<1>3. CASE ParseInvalid
  BY <1>3, Zenon DEF ParseInvalid, CloseClient
<1>4. CASE \E due, accepted, expired \in BOOLEAN : LoopTimers(due, accepted, expired)
  BY <1>4, Zenon DEF LoopTimers, GiveUpRequest
<1>5. CASE \E unit \in Units, writable \in BOOLEAN : send_pdu_(unit, writable)
  BY <1>5, Zenon DEF send_pdu_
<1>6. CASE \E accepted \in BOOLEAN : set_host_and_reconnect(accepted)
  BY <1>6, Zenon DEF set_host_and_reconnect, reset_link_state_, GiveUpRequest
<1>7. CASE \/ ProcessTake \/ ParseEnd \/ AppIdle
           \/ \E n \in 1..Len(pending_rx_) : ParseGarbage(n)
  BY <1>7, Zenon DEF ProcessTake, ParseEnd, AppIdle, ParseGarbage
<1>8. CASE Async
  <2>1. CASE \E req \in toServer, kind \in RR!Kinds : ServerAnswer(req, kind)
    BY <2>1, Zenon DEF ServerAnswer
  <2>2. CASE OnConnect \/ OnDisconnect
    BY <2>2, Zenon DEF OnConnect, OnDisconnect
  <2>3. CASE Segment \/ on_rx_
    BY <2>3, Zenon DEF Segment, on_rx_
  <2> QED
    BY <1>8, <2>1, <2>2, <2>3 DEF Async
<1>9. CASE UNCHANGED vars
  BY <1>9, Zenon DEF vars
<1> QED
  BY <1>1, <1>2, <1>3, <1>4, <1>5, <1>6, <1>7, <1>8, <1>9 DEF Next, Main

\* Ids stay uint16_t values, buffers hold frame parts.
LEMMA DataStep == DataOK /\ [Next]_vars => DataOK'
<1> SUFFICES ASSUME DataOK, [Next]_vars
             PROVE  DataOK'
  OBVIOUS
<1> USE TidModAssumption DEF DataOK, mainVars, sharedVars, netVars, ghostVars
<1>1. CASE ProcessReset
  <2>1. CASE reset_requested_
    <3>1. result' \in Outcomes
      BY <1>1, <2>1, LostIsOutcome DEF ProcessReset, reset_link_state_, GiveUpRequest
    <3> QED
      BY <1>1, <2>1, <3>1 DEF ProcessReset, reset_link_state_, GiveUpRequest
  <2>2. CASE ~reset_requested_
    BY <1>1, <2>2 DEF ProcessReset
  <2> QED
    BY <2>1, <2>2
<1>2. CASE ProcessTake
  BY <1>2 DEF ProcessTake
<1>3. CASE ParseFrame
  <2>1. Len(pending_rx_) >= 2
    BY <1>3 DEF ParseFrame, HasFrame
  <2>2. Tail(Tail(pending_rx_)) \in Seq(Part)
    <3>1. Tail(pending_rx_) \in Seq(Part) /\ Tail(pending_rx_) # <<>>
      BY <2>1, TwoOrMore
    <3> QED
      BY <3>1, HeadTailProperties
  <2> QED
    <3>1. result' \in Outcomes /\ waiting_for_response' \in 0..255
      <4> DEFINE f == Head(pending_rx_)
      <4>1. CASE Matches(f) /\ f.kind \in RR!Delivered
        BY <1>3, <4>1 DEF ParseFrame, handle_frame_, Outcomes
      <4>2. CASE ~(Matches(f) /\ f.kind \in RR!Delivered)
        BY <1>3, <4>2 DEF ParseFrame, handle_frame_
      <4> QED
        BY <4>1, <4>2
    <3> QED
      BY <1>3, <2>2, <3>1 DEF ParseFrame
<1>4. CASE \E n \in 1..Len(pending_rx_) : ParseGarbage(n)
  <2>1. PICK n \in 1..Len(pending_rx_) : ParseGarbage(n)
    BY <1>4
  <2>2. SubSeq(pending_rx_, n + 1, Len(pending_rx_)) \in Seq(Part)
    BY SubSeqProperties
  <2> QED
    BY <2>1, <2>2 DEF ParseGarbage
<1>5. CASE ParseInvalid
  <2>1. CASE link = "closed"
    BY <1>5, <2>1 DEF ParseInvalid
  <2>2. CASE link # "closed"
    BY <1>5, <2>2 DEF ParseInvalid, CloseClient, LinkDown
  <2> QED
    BY <2>1, <2>2
<1>6. CASE ParseEnd \/ AppIdle
  BY <1>6 DEF ParseEnd, AppIdle
<1>7. CASE \E due, accepted, expired \in BOOLEAN : LoopTimers(due, accepted, expired)
  <2>1. PICK due, accepted, expired \in BOOLEAN : LoopTimers(due, accepted, expired)
    BY <1>7
  <2>2. link' \in {"closed", "connecting", "open"}
    BY <2>1 DEF LoopTimers, Reconnect
  <2>3. result' \in Outcomes /\ waiting_for_response' \in 0..255
    <3>1. CASE TimedOut(expired)
      BY <2>1, <3>1, LostIsOutcome DEF LoopTimers, GiveUpRequest
    <3>2. CASE ~TimedOut(expired)
      BY <2>1, <3>2 DEF LoopTimers
    <3> QED
      BY <3>1, <3>2
  <2> QED
    BY <2>1, <2>2, <2>3 DEF LoopTimers
<1>8. CASE \E unit \in Units, writable \in BOOLEAN : send_pdu_(unit, writable)
  <2>1. PICK unit \in Units, writable \in BOOLEAN : send_pdu_(unit, writable)
    BY <1>8
  <2>2. WaitingMark(unit) \in 0..255
    BY UnitsAssumption DEF WaitingMark
  <2>3. NextTid \in 0..(TidMod - 1)
    <3>1. transaction_id_ + 1 \in Nat
      OBVIOUS
    <3> QED
      BY <3>1, DivMod DEF NextTid
  <2> QED
    BY <2>1, <2>2, <2>3 DEF send_pdu_
<1>9. CASE \E accepted \in BOOLEAN : set_host_and_reconnect(accepted)
  <2>1. PICK accepted \in BOOLEAN : set_host_and_reconnect(accepted)
    BY <1>9
  <2>2. result' \in Outcomes
    BY <2>1, LostIsOutcome DEF set_host_and_reconnect, reset_link_state_, GiveUpRequest
  <2>3. link' \in {"closed", "connecting", "open"}
    BY <2>1 DEF set_host_and_reconnect
  <2> QED
    BY <2>1, <2>2, <2>3 DEF set_host_and_reconnect, reset_link_state_, GiveUpRequest
<1>10. CASE \E req \in toServer, kind \in RR!Kinds : ServerAnswer(req, kind)
  <2>1. PICK req \in toServer, kind \in RR!Kinds : ServerAnswer(req, kind)
    BY <1>10
  <2> DEFINE frame(h) == [seq |-> req.seq, tid |-> req.tid, conn |-> conn,
                          kind |-> kind, half |-> h]
  <2>2. frame("head") \in Part /\ frame("tail") \in Part
    BY DEF Part
  <2>3. wire' \in Seq(Part)
    BY <2>1, <2>2 DEF ServerAnswer
  <2> QED
    BY <2>1, <2>3 DEF ServerAnswer
<1>11. CASE OnConnect \/ OnDisconnect
  <2>1. CASE OnConnect
    BY <2>1 DEF OnConnect
  <2>2. CASE OnDisconnect
    BY <2>2 DEF OnDisconnect, LinkDown
  <2> QED
    BY <1>11, <2>1, <2>2
<1>12. CASE Segment \/ on_rx_
  <2>1. CASE Segment
    <3>1. <<Head(wire)>> \in Seq(Part) /\ Tail(wire) \in Seq(Part)
      BY <2>1 DEF Segment
    <3> QED
      BY <2>1, <3>1 DEF Segment
  <2>2. CASE on_rx_
    <3>1. rx_buffer_' \in Seq(Part)
      <4>1. rx_buffer_ \o inCallback \in Seq(Part) /\ <<>> \in Seq(Part)
        OBVIOUS
      <4>2. rx_buffer_' \in {<<>>, rx_buffer_ \o inCallback}
        BY <2>2, Zenon DEF on_rx_
      <4> QED
        BY <4>1, <4>2
    <3> QED
      BY <2>2, <3>1 DEF on_rx_
  <2> QED
    BY <1>12, <2>1, <2>2
<1>13. CASE UNCHANGED vars
  BY <1>13 DEF vars
<1> QED
  BY <1>1, <1>2, <1>3, <1>4, <1>5, <1>6, <1>7, <1>8, <1>9, <1>10, <1>11, <1>12,
     <1>13 DEF Next, Main, Async

LEMMA DataInit == Init => DataOK
<1>1. RR!NoResult \in Outcomes /\ 0 \in 0..(TidMod - 1)
  BY TidModAssumption DEF RR!NoResult, Outcomes
<1> QED
  BY <1>1 DEF Init, DataOK

\* The type invariant; in particular transaction_id_ and the ids of frames stay
\* uint16_t values, and waiting_for_response a uint8_t one.
THEOREM TypeTheorem == Spec => []TypeOK
<1>1. Init => FlagsOK
  BY DEF Init, FlagsOK
<1>2. Init => DataOK
  BY DataInit
<1>3. FlagsOK /\ DataOK => TypeOK
  BY Zenon DEF FlagsOK, DataOK, TypeOK, Outcomes
<1> QED
  BY <1>1, <1>2, <1>3, FlagsStep, DataStep, PTL DEF Spec

\* waiting_for_response, which devices test before they send, is non-zero
\* exactly while a request is in flight (modbustcp.h:54).
THEOREM WaitingTheorem == Spec => []WaitingIffAwaiting
<1>1. Init => WaitingIffAwaiting
  BY DEF Init, WaitingIffAwaiting
<1>2. WaitingIffAwaiting /\ [Next]_vars => WaitingIffAwaiting'
  <2> SUFFICES ASSUME WaitingIffAwaiting, [Next]_vars
               PROVE  WaitingIffAwaiting'
    OBVIOUS
  <2> USE DEF WaitingIffAwaiting, mainVars
  <2>1. CASE ProcessReset
    BY <2>1 DEF ProcessReset, reset_link_state_, GiveUpRequest
  <2>2. CASE ParseFrame
    BY <2>2 DEF ParseFrame, handle_frame_
  <2>3. CASE \E due, accepted, expired \in BOOLEAN : LoopTimers(due, accepted, expired)
    BY <2>3 DEF LoopTimers, GiveUpRequest
  <2>4. CASE \E unit \in Units, writable \in BOOLEAN : send_pdu_(unit, writable)
    <3>1. PICK unit \in Units : /\ awaiting_response_' = TRUE
                               /\ waiting_for_response' = WaitingMark(unit)
      BY <2>4 DEF send_pdu_
    <3>2. WaitingMark(unit) # 0
      BY UnitsAssumption DEF WaitingMark
    <3> QED
      BY <3>1, <3>2
  <2>5. CASE \E accepted \in BOOLEAN : set_host_and_reconnect(accepted)
    BY <2>5 DEF set_host_and_reconnect, reset_link_state_, GiveUpRequest
  <2>6. CASE \/ ProcessTake \/ ParseInvalid \/ ParseEnd \/ AppIdle
             \/ \E n \in 1..Len(pending_rx_) : ParseGarbage(n)
    BY <2>6 DEF ProcessTake, ParseInvalid, ParseEnd, AppIdle, ParseGarbage
  <2>7. CASE Async
    BY <2>7 DEF Async, ServerAnswer, OnConnect, OnDisconnect, Segment, on_rx_
  <2>8. CASE UNCHANGED vars
    BY <2>8 DEF vars
  <2> QED
    BY <2>1, <2>2, <2>3, <2>4, <2>5, <2>6, <2>7, <2>8 DEF Next, Main
<1> QED
  BY <1>1, <1>2, PTL DEF Spec

\* connected_, which loop() tests before it dials, is the state of the socket.
LEMMA ConnectedStep == ConnectedIffOpen /\ [Next]_vars => ConnectedIffOpen'
<1> SUFFICES ASSUME ConnectedIffOpen, [Next]_vars
             PROVE  ConnectedIffOpen'
  OBVIOUS
<1> USE DEF ConnectedIffOpen, sharedVars, netVars
<1>1. CASE ParseInvalid
  <2>1. CASE link = "closed"
    BY <1>1, <2>1 DEF ParseInvalid
  <2>2. CASE link # "closed"
    BY <1>1, <2>2 DEF ParseInvalid, CloseClient, LinkDown, onDisconnect
  <2> QED
    BY <2>1, <2>2
<1>2. CASE \E due, accepted, expired \in BOOLEAN : LoopTimers(due, accepted, expired)
  BY <1>2 DEF LoopTimers, Reconnect
<1>3. CASE \E accepted \in BOOLEAN : set_host_and_reconnect(accepted)
  <2>1. ~connected_' /\ link' # "open"
    BY <1>3 DEF set_host_and_reconnect
  <2>2. connected_' = FALSE
    BY <1>3, Zenon DEF set_host_and_reconnect
  <2> QED
    BY <2>1, <2>2
<1>4. CASE OnConnect
  BY <1>4 DEF OnConnect, onConnect
<1>5. CASE OnDisconnect
  BY <1>5 DEF OnDisconnect, onDisconnect, LinkDown
<1>6. CASE UNCHANGED <<connected_, link>>
  BY <1>6
<1>7. CASE Segment \/ on_rx_ \/ \E req \in toServer, kind \in RR!Kinds : ServerAnswer(req, kind)
  BY <1>6, <1>7 DEF Segment, on_rx_, ServerAnswer
<1>8. CASE \/ ProcessReset \/ ProcessTake \/ ParseFrame \/ ParseEnd \/ AppIdle
           \/ \E n \in 1..Len(pending_rx_) : ParseGarbage(n)
           \/ \E unit \in Units, writable \in BOOLEAN : send_pdu_(unit, writable)
  BY <1>6, <1>8 DEF ProcessReset, ProcessTake, ParseFrame, ParseEnd, AppIdle,
                    ParseGarbage, send_pdu_
<1>9. CASE UNCHANGED vars
  BY <1>6, <1>9 DEF vars
<1> QED
  BY <1>1, <1>2, <1>3, <1>4, <1>5, <1>7, <1>8, <1>9 DEF Next, Main, Async

\* The client's flag and its socket always agree, whatever order the callbacks,
\* the reconnection and set_host_and_reconnect come in.
THEOREM ConnectedTheorem == Spec => []ConnectedIffOpen
<1>1. Init => ConnectedIffOpen
  BY DEF Init, ConnectedIffOpen
<1> QED
  BY <1>1, ConnectedStep, PTL DEF Spec

\* The inductive form of NoStaleBytes: what arrives on an open connection is
\* its own, and once its reset has been honoured so is what is buffered.
Current == {p \in Part : p.conn = conn}

OwnBytes ==
  /\ link # "open" => wire = <<>>
  /\ link = "open" => wire \in Seq(Current) /\ inCallback \in Seq(Current)
  /\ link = "open" /\ ~reset_requested_ =>
       pending_rx_ \in Seq(Current) /\ rx_buffer_ \in Seq(Current)

LEMMA OwnBytesStep == DataOK /\ OwnBytes /\ [Next]_vars => OwnBytes'
<1> SUFFICES ASSUME DataOK, OwnBytes, [Next]_vars
             PROVE  OwnBytes'
  OBVIOUS
<1> USE DEF OwnBytes, mainVars, sharedVars, netVars
<1> <<>> \in Seq(Current)
  OBVIOUS
<1>0. conn' = conn => Current' = Current
  BY DEF Current
<1>1. CASE ProcessReset
  <2>1. Current' = Current /\ UNCHANGED <<link, wire, inCallback>>
    BY <1>0, <1>1 DEF ProcessReset
  <2>2. CASE reset_requested_
    BY <1>1, <2>1, <2>2 DEF ProcessReset, reset_link_state_
  <2>3. CASE ~reset_requested_
    BY <1>1, <2>1, <2>3 DEF ProcessReset
  <2> QED
    BY <2>2, <2>3
<1>2. CASE ProcessTake
  <2>1. Current' = Current /\ UNCHANGED <<link, wire, inCallback, reset_requested_>>
    BY <1>0, <1>2 DEF ProcessTake
  <2>2. ASSUME pending_rx_ \in Seq(Current), rx_buffer_ \in Seq(Current)
        PROVE  pending_rx_' \in Seq(Current) /\ rx_buffer_' \in Seq(Current)
    BY <1>2, <2>2 DEF ProcessTake
  <2> QED
    BY <2>1, <2>2
<1>3. CASE ParseFrame
  <2>1. Current' = Current /\ UNCHANGED <<link, wire, inCallback, reset_requested_, rx_buffer_>>
    BY <1>0, <1>3 DEF ParseFrame
  <2>2. ASSUME pending_rx_ \in Seq(Current)
        PROVE  pending_rx_' \in Seq(Current)
    <3>1. pending_rx_ # <<>> /\ Len(pending_rx_) >= 2
      BY <1>3 DEF ParseFrame, HasFrame, Aligned
    <3>2. Tail(pending_rx_) \in Seq(Current) /\ Tail(pending_rx_) # <<>>
      BY <2>2, <3>1, TwoOrMore
    <3> QED
      BY <1>3, <3>2, HeadTailProperties DEF ParseFrame
  <2> QED
    BY <2>1, <2>2
<1>4. CASE \E n \in 1..Len(pending_rx_) : ParseGarbage(n)
  <2>1. PICK n \in 1..Len(pending_rx_) : ParseGarbage(n)
    BY <1>4
  <2>2. Current' = Current /\ UNCHANGED <<link, wire, inCallback, reset_requested_, rx_buffer_>>
    BY <1>0, <2>1 DEF ParseGarbage
  <2>3. ASSUME pending_rx_ \in Seq(Current)
        PROVE  pending_rx_' \in Seq(Current)
    BY <2>1, <2>3, SubSeqProperties DEF ParseGarbage
  <2> QED
    BY <2>2, <2>3
<1>5. CASE ParseInvalid
  <2>1. CASE link = "closed"
    BY <1>5, <2>1 DEF ParseInvalid
  <2>2. CASE link # "closed"
    BY <1>5, <2>2 DEF ParseInvalid, CloseClient, LinkDown
  <2> QED
    BY <2>1, <2>2
<1>6. CASE \E due, accepted, expired \in BOOLEAN : LoopTimers(due, accepted, expired)
  <2>1. Current' = Current /\ UNCHANGED <<wire, inCallback, reset_requested_, rx_buffer_, pending_rx_>>
    BY <1>0, <1>6 DEF LoopTimers
  <2>2. link' = link \/ (link = "closed" /\ link' = "connecting")
    BY <1>6 DEF LoopTimers, Reconnect
  <2> QED
    BY <2>1, <2>2
<1>7. CASE \E accepted \in BOOLEAN : set_host_and_reconnect(accepted)
  <2>1. link' # "open" /\ wire' = <<>>
    BY <1>7 DEF set_host_and_reconnect
  <2> QED
    BY <2>1
<1>8. CASE \E req \in toServer, kind \in RR!Kinds : ServerAnswer(req, kind)
  <2>1. PICK req \in toServer, kind \in RR!Kinds : ServerAnswer(req, kind)
    BY <1>8
  <2> DEFINE frame(h) == [seq |-> req.seq, tid |-> req.tid, conn |-> conn,
                          kind |-> kind, half |-> h]
  <2>2. frame("head") \in Current /\ frame("tail") \in Current
    BY DEF Part, Current, DataOK
  <2>3. Current' = Current /\ link = "open"
        /\ UNCHANGED <<link, inCallback, reset_requested_, rx_buffer_, pending_rx_>>
    BY <1>0, <2>1 DEF ServerAnswer
  <2>4. wire' \in Seq(Current)
    BY <2>1, <2>2, <2>3 DEF ServerAnswer
  <2> QED
    BY <2>3, <2>4
<1>9. CASE OnConnect
  <2>1. wire' = <<>> /\ inCallback' = <<>> /\ link' = "open"
    BY <1>9 DEF OnConnect
  <2>2. reset_requested_'
    BY <1>9 DEF OnConnect, onConnect
  <2> QED
    BY <2>1, <2>2
<1>10. CASE OnDisconnect
  BY <1>10 DEF OnDisconnect, LinkDown
<1>11. CASE Segment
  <2>1. Current' = Current /\ link = "open"
        /\ UNCHANGED <<link, reset_requested_, rx_buffer_, pending_rx_>>
    BY <1>0, <1>11 DEF Segment
  <2>2. <<Head(wire)>> \in Seq(Current) /\ Tail(wire) \in Seq(Current)
    BY <1>11, <2>1 DEF Segment
  <2> QED
    BY <1>11, <2>1, <2>2 DEF Segment
<1>12. CASE on_rx_
  <2>1. Current' = Current /\ inCallback' = <<>> /\ UNCHANGED <<link, wire, pending_rx_>>
    BY <1>0, <1>12 DEF on_rx_
  <2>2. ASSUME inCallback \in Seq(Current), rx_buffer_ \in Seq(Current)
        PROVE  rx_buffer_' \in Seq(Current)
    <3>1. rx_buffer_ \o inCallback \in Seq(Current)
      BY <2>2
    <3>2. rx_buffer_' \in {<<>>, rx_buffer_ \o inCallback}
      BY <1>12, Zenon DEF on_rx_
    <3> QED
      BY <3>1, <3>2
  <2>3. ~reset_requested_' => ~reset_requested_
    BY <1>12 DEF on_rx_
  <2> QED
    BY <2>1, <2>2, <2>3
<1>13. CASE \/ ParseEnd \/ AppIdle
            \/ \E unit \in Units, writable \in BOOLEAN : send_pdu_(unit, writable)
            \/ UNCHANGED vars
  <2>1. Current' = Current
        /\ UNCHANGED <<link, wire, inCallback, reset_requested_, rx_buffer_, pending_rx_>>
    BY <1>0, <1>13 DEF ParseEnd, AppIdle, send_pdu_, vars
  <2> QED
    BY <2>1
<1> QED
  BY <1>1, <1>2, <1>3, <1>4, <1>5, <1>6, <1>7, <1>8, <1>9, <1>10, <1>11, <1>12,
     <1>13 DEF Next, Main, Async

\* Once a connection is up and its reset has been honoured, the receive buffers
\* hold no byte of an earlier connection, a late onData included.
THEOREM NoStaleBytesTheorem == Spec => []NoStaleBytes
<1>1. Init => OwnBytes
  BY DEF Init, OwnBytes
<1>2. ConnectedIffOpen /\ OwnBytes => NoStaleBytes
  <2> SUFFICES ASSUME ConnectedIffOpen, OwnBytes, connected_, ~reset_requested_,
                      NEW p \in PartsIn(pending_rx_) \cup PartsIn(rx_buffer_)
                                  \cup PartsIn(inCallback)
               PROVE  p.conn = conn
    BY DEF NoStaleBytes
  <2>1. {pending_rx_, rx_buffer_, inCallback} \subseteq Seq(Current)
    BY DEF ConnectedIffOpen, OwnBytes
  <2>2. p \in Current
    BY <2>1, PartsOfSeq
  <2> QED
    BY <2>2 DEF Current
<1>3. Init => DataOK
  BY DataInit
<1> QED
  BY <1>1, <1>2, <1>3, DataStep, OwnBytesStep, ConnectedTheorem, PTL DEF Spec

-----------------------------------------------------------------------------
(* Replies are paired with their requests                                  *)

\* The number of a request and the id it was sent with.
Numbered(seq, tid) ==
  /\ seq \in 1..issued
  /\ issued < seq + TidMod
  /\ tid = (seq - 1) % TidMod

\* A request the server may still answer.
ReqOK ==
  {r \in [seq : Nat, tid : 0..(TidMod - 1)] :
     /\ Numbered(r.seq, r.tid)
     /\ r.seq = issued => sentOn = conn
     /\ \A a \in answered : a.seq # r.seq}

\* A part of an answer.
FrameOK ==
  {p \in Part :
     /\ Numbered(p.seq, p.tid)
     /\ p.seq = issued => p.conn = sentOn
     /\ [seq |-> p.seq, kind |-> p.kind] \in answered}

\* The inductive invariant: ids are request numbers modulo TidMod, and nothing
\* under way is a full turn of the counter behind.
Pairing ==
  /\ transaction_id_ = issued % TidMod
  /\ awaiting_response_ =>
       issued > 0 /\ pending.seq = issued /\ pending.tid = (issued - 1) % TidMod
  /\ link # "open" => toServer = {}
  /\ toServer \subseteq ReqOK
  /\ \A a \in answered : a.seq \in 1..issued
  /\ wire \in Seq(FrameOK)
  /\ inCallback \in Seq(FrameOK)
  /\ rx_buffer_ \in Seq(FrameOK)
  /\ pending_rx_ \in Seq(FrameOK)

\* A buffer whose elements all lie in T is a sequence over T.
LEMMA SeqOfParts ==
  ASSUME NEW S, NEW T, NEW s \in Seq(S), PartsIn(s) \subseteq T
  PROVE  s \in Seq(T)
<1>1. \A i \in 1..Len(s) : s[i] \in T
  BY LenProperties DEF PartsIn
<1> QED
  BY <1>1, LenProperties, IsASeq

\* A step that changes neither the numbering nor the answers keeps the sets.
LEMMA SameSets ==
  UNCHANGED <<issued, sentOn, conn, answered>> => ReqOK' = ReqOK /\ FrameOK' = FrameOK
  BY DEF ReqOK, FrameOK, Numbered

LEMMA PairingInit == Init => Pairing
<1> SUFFICES ASSUME Init
             PROVE  Pairing
  OBVIOUS
<1>1. 0 % TidMod = 0
  <2>1. 0 = (TidMod * 0) + 0 /\ 0 \in 0..(TidMod - 1)
    BY TidModAssumption
  <2> QED
    BY <2>1, TidModAssumption, ModUnique
<1> QED
  BY <1>1 DEF Init, Pairing

\* send_pdu_ takes the next id, which nothing under way bears.
LEMMA PairingSend ==
  ASSUME DataOK, Pairing, NEW unit \in Units, NEW writable \in BOOLEAN,
         send_pdu_(unit, writable)
  PROVE  Pairing'
<1> USE TidModAssumption
<1>1. issued \in Nat /\ issued' = issued + 1 /\ FreshTid
      /\ UNCHANGED <<answered, link, conn, wire, inCallback, rx_buffer_, pending_rx_>>
  BY DEF send_pdu_, DataOK, sharedVars
<1>2. transaction_id_' = issued' % TidMod
  <2>1. transaction_id_' = NextTid
    BY DEF send_pdu_
  <2> QED
    BY <2>1, <1>1, ModSuccessor DEF NextTid, Pairing
<1>3. issued' > 0 /\ pending'.seq = issued' /\ pending'.tid = (issued' - 1) % TidMod
  <2>1. pending' = [tid |-> transaction_id_, unit |-> unit, seq |-> issued + 1]
    BY DEF send_pdu_
  <2>2. issued' - 1 = issued
    BY <1>1
  <2> QED
    BY <2>1, <2>2, <1>1 DEF Pairing
<1>4. ASSUME NEW p \in Travelling, p \in FrameOK
      PROVE  p \in FrameOK'
  <2>1. issued + 1 < p.seq + TidMod
    BY <1>1 DEF FreshTid, Lagging
  <2> QED
    BY <1>1, <1>4, <2>1 DEF FrameOK, Numbered, Part
<1>5. /\ wire' \in Seq(FrameOK') /\ inCallback' \in Seq(FrameOK')
      /\ rx_buffer_' \in Seq(FrameOK') /\ pending_rx_' \in Seq(FrameOK')
  <2>1. ASSUME NEW s \in {wire, inCallback, rx_buffer_, pending_rx_}
        PROVE  s \in Seq(FrameOK')
    <3>1. s \in Seq(FrameOK)
      BY DEF Pairing
    <3>2. PartsIn(s) \subseteq FrameOK /\ PartsIn(s) \subseteq Travelling
      BY <3>1, PartsOfSeq DEF Travelling
    <3>3. PartsIn(s) \subseteq FrameOK'
      BY <1>4, <3>2
    <3> QED
      BY <3>1, <3>3, SeqOfParts
  <2> QED
    BY <1>1, <2>1
<1>6. toServer' \subseteq ReqOK'
  <2>1. ASSUME NEW r \in toServer
        PROVE  r \in ReqOK'
    <3>1. issued + 1 < r.seq + TidMod
      BY <1>1 DEF FreshTid, Lagging
    <3>2. r \in ReqOK
      BY DEF Pairing
    <3> QED
      BY <1>1, <3>1, <3>2 DEF ReqOK, Numbered
  <2> DEFINE new == [seq |-> issued + 1, tid |-> transaction_id_]
  <2>2. ASSUME new \in toServer', new \notin toServer
        PROVE  new \in ReqOK'
    <3>1. sentOn' = conn
      BY <2>2 DEF send_pdu_
    <3>2. \A a \in answered : a.seq # issued + 1
      BY <1>1 DEF Pairing
    <3>3. new \in [seq : Nat, tid : 0..(TidMod - 1)]
      BY <1>1 DEF DataOK
    <3>4. (issued + 1) - 1 = issued /\ issued + 1 \in 1..(issued + 1)
          /\ issued + 1 < (issued + 1) + TidMod
      BY <1>1
    <3>5. new.tid = issued % TidMod /\ new.seq = issued + 1
      BY DEF Pairing
    <3> QED
      BY <1>1, <3>1, <3>2, <3>3, <3>4, <3>5 DEF ReqOK, Numbered
  <2>3. toServer' \subseteq toServer \cup {new}
    BY DEF send_pdu_
  <2> QED
    BY <2>1, <2>2, <2>3
<1>7. link' # "open" => toServer' = {}
  BY <1>1 DEF send_pdu_, Pairing
<1>8. \A a \in answered' : a.seq \in 1..issued'
  BY <1>1 DEF Pairing
<1> QED
  BY <1>2, <1>3, <1>5, <1>6, <1>7, <1>8 DEF Pairing

\* The server answers a request it holds once.
LEMMA PairingAnswer ==
  ASSUME DataOK, Pairing, NEW req \in toServer, NEW kind \in RR!Kinds,
         ServerAnswer(req, kind)
  PROVE  Pairing'
<1> DEFINE ans == [seq |-> req.seq, kind |-> kind]
           frame(h) == [seq |-> req.seq, tid |-> req.tid, conn |-> conn,
                        kind |-> kind, half |-> h]
<1>1. /\ link = "open" /\ answered' = answered \cup {ans} /\ toServer' = toServer \ {req}
      /\ wire' = wire \o <<frame("head"), frame("tail")>>
      /\ UNCHANGED <<issued, sentOn, conn, link, transaction_id_, pending, inCallback,
                     rx_buffer_, pending_rx_>>
  BY DEF ServerAnswer, mainVars, sharedVars
<1>2. awaiting_response_' = awaiting_response_
  BY Zenon DEF ServerAnswer, mainVars
<1>3. req \in ReqOK
  BY DEF Pairing
<1>4. FrameOK \subseteq FrameOK'
  BY <1>1 DEF FrameOK, Numbered
<1>5. frame("head") \in FrameOK' /\ frame("tail") \in FrameOK'
  <2>1. frame("head") \in Part /\ frame("tail") \in Part
    BY DEF DataOK, Part
  <2>2. Numbered(req.seq, req.tid)' /\ (req.seq = issued => conn = sentOn)
    BY <1>1, <1>3 DEF ReqOK, Numbered
  <2>3. [seq |-> req.seq, kind |-> kind] \in answered'
    BY <1>1
  <2> QED
    BY <1>1, <2>1, <2>2, <2>3 DEF FrameOK
<1>6. ASSUME NEW s \in Seq(FrameOK)
      PROVE  s \in Seq(FrameOK')
  BY <1>4, SeqMonotonic
<1>7. /\ wire' \in Seq(FrameOK') /\ inCallback' \in Seq(FrameOK')
      /\ rx_buffer_' \in Seq(FrameOK') /\ pending_rx_' \in Seq(FrameOK')
  <2>1. /\ wire \in Seq(FrameOK') /\ inCallback \in Seq(FrameOK')
        /\ rx_buffer_ \in Seq(FrameOK') /\ pending_rx_ \in Seq(FrameOK')
    BY <1>6 DEF Pairing
  <2>2. <<frame("head"), frame("tail")>> \in Seq(FrameOK')
    BY <1>5
  <2> QED
    BY <1>1, <2>1, <2>2, ConcatProperties
<1>8. ASSUME NEW r \in toServer', r.seq = req.seq
      PROVE  FALSE
  <2>1. r \in ReqOK
    BY <1>1 DEF Pairing
  <2>2. r.tid = req.tid
    BY <1>3, <1>8, <2>1 DEF ReqOK, Numbered
  <2>3. r = req
    BY <1>3, <1>8, <2>1, <2>2 DEF ReqOK
  <2> QED
    BY <1>1, <2>3
<1>9. toServer' \subseteq ReqOK'
  <2>1. ASSUME NEW r \in toServer'
        PROVE  r \in ReqOK'
    <3>1. r \in ReqOK /\ r.seq # req.seq
      BY <1>1, <1>8 DEF Pairing
    <3> QED
      BY <1>1, <3>1 DEF ReqOK, Numbered
  <2> QED
    BY <2>1
<1>10. \A a \in answered' : a.seq \in 1..issued'
  BY <1>1, <1>3 DEF Pairing, ReqOK, Numbered
<1> QED
  BY <1>1, <1>2, <1>7, <1>9, <1>10 DEF Pairing

\* Every other step moves parts between buffers or drops them.
LEMMA PairingStep == DataOK /\ Pairing /\ [Next]_vars => Pairing'
<1> SUFFICES ASSUME DataOK, Pairing, [Next]_vars
             PROVE  Pairing'
  OBVIOUS
<1> USE DEF mainVars, sharedVars, netVars, ghostVars
<1> DEFINE Kept == UNCHANGED <<issued, sentOn, answered, transaction_id_, pending>>
           Fewer == awaiting_response_' => awaiting_response_
           Server == \/ UNCHANGED <<link, conn, toServer>>
                     \/ conn' = conn /\ toServer' = {}
                     \/ conn' = conn /\ toServer' = toServer /\ link # "open"
                     \/ toServer' = toServer /\ link # "open" /\ link' = "open"
           Buffers == /\ wire' \in Seq(FrameOK) /\ inCallback' \in Seq(FrameOK)
                      /\ rx_buffer_' \in Seq(FrameOK) /\ pending_rx_' \in Seq(FrameOK)
<1>1. ASSUME Kept, Fewer, Server, Buffers
      PROVE  Pairing'
  <2>1. FrameOK' = FrameOK
    BY <1>1 DEF FrameOK, Numbered
  <2>2. toServer' \subseteq ReqOK'
    <3>1. CASE conn' = conn
      <4>1. ReqOK' = ReqOK
        BY <1>1, <3>1 DEF ReqOK, Numbered
      <4> QED
        BY <1>1, <4>1 DEF Pairing
    <3>2. CASE conn' # conn
      BY <1>1, <3>2 DEF Pairing
    <3> QED
      BY <3>1, <3>2
  <2>3. link' # "open" => toServer' = {}
    BY <1>1 DEF Pairing
  <2> QED
    BY <1>1, <2>1, <2>2, <2>3 DEF Pairing
<1>2. <<>> \in Seq(FrameOK) /\ wire \in Seq(FrameOK) /\ inCallback \in Seq(FrameOK)
      /\ rx_buffer_ \in Seq(FrameOK) /\ pending_rx_ \in Seq(FrameOK)
  BY DEF Pairing
<1>3. CASE ProcessReset
  <2>1. Kept /\ Server
    BY <1>3 DEF ProcessReset
  <2>2. CASE reset_requested_
    <3>1. Fewer /\ Buffers
      BY <1>2, <1>3, <2>2 DEF ProcessReset, reset_link_state_, GiveUpRequest
    <3> QED
      BY <1>1, <2>1, <3>1
  <2>3. CASE ~reset_requested_
    <3>1. Fewer /\ Buffers
      BY <1>2, <1>3, <2>3 DEF ProcessReset
    <3> QED
      BY <1>1, <2>1, <3>1
  <2> QED
    BY <2>2, <2>3
<1>4. CASE ProcessTake
  <2>1. Kept /\ Server /\ Fewer
    BY <1>4 DEF ProcessTake
  <2>2. Buffers
    BY <1>2, <1>4, ConcatProperties DEF ProcessTake
  <2> QED
    BY <1>1, <2>1, <2>2
<1>5. CASE ParseFrame
  <2>1. Kept /\ Server
    BY <1>5 DEF ParseFrame
  <2>2. Fewer
    BY <1>5 DEF ParseFrame, handle_frame_
  <2>3. Buffers
    <3>1. Len(pending_rx_) >= 2
      BY <1>5 DEF ParseFrame, HasFrame
    <3>2. Tail(pending_rx_) \in Seq(FrameOK) /\ Tail(pending_rx_) # <<>>
      BY <1>2, <3>1, TwoOrMore
    <3>3. Tail(Tail(pending_rx_)) \in Seq(FrameOK)
      BY <3>2, HeadTailProperties
    <3> QED
      BY <1>2, <1>5, <3>3 DEF ParseFrame
  <2> QED
    BY <1>1, <2>1, <2>2, <2>3
<1>6. CASE \E n \in 1..Len(pending_rx_) : ParseGarbage(n)
  <2>1. PICK n \in 1..Len(pending_rx_) : ParseGarbage(n)
    BY <1>6
  <2>2. Kept /\ Server /\ Fewer
    BY <2>1 DEF ParseGarbage
  <2>3. Buffers
    <3>1. SubSeq(pending_rx_, n + 1, Len(pending_rx_)) \in Seq(FrameOK)
      BY <1>2, SubSeqProperties
    <3> QED
      BY <1>2, <2>1, <3>1 DEF ParseGarbage
  <2> QED
    BY <1>1, <2>2, <2>3
<1>7. CASE ParseInvalid
  <2>1. Kept /\ Fewer
    BY <1>7 DEF ParseInvalid
  <2>2. Server /\ Buffers
    <3>1. CASE link = "closed"
      BY <1>2, <1>7, <3>1 DEF ParseInvalid
    <3>2. CASE link # "closed"
      BY <1>2, <1>7, <3>2 DEF ParseInvalid, CloseClient, LinkDown
    <3> QED
      BY <3>1, <3>2
  <2> QED
    BY <1>1, <2>1, <2>2
<1>8. CASE \E due, accepted, expired \in BOOLEAN : LoopTimers(due, accepted, expired)
  <2>1. PICK due, accepted, expired \in BOOLEAN : LoopTimers(due, accepted, expired)
    BY <1>8
  <2>2. Kept /\ Buffers
    BY <1>2, <2>1 DEF LoopTimers
  <2>3. Fewer
    BY <2>1 DEF LoopTimers, GiveUpRequest
  <2>4. Server
    BY <2>1 DEF LoopTimers, Reconnect
  <2> QED
    BY <1>1, <2>2, <2>3, <2>4
<1>9. CASE \E unit \in Units, writable \in BOOLEAN : send_pdu_(unit, writable)
  BY <1>9, PairingSend
<1>10. CASE \E accepted \in BOOLEAN : set_host_and_reconnect(accepted)
  <2>1. Kept /\ Server /\ Buffers /\ Fewer
    BY <1>2, <1>10 DEF set_host_and_reconnect, reset_link_state_, GiveUpRequest
  <2> QED
    BY <1>1, <2>1
<1>11. CASE \E req \in toServer, kind \in RR!Kinds : ServerAnswer(req, kind)
  BY <1>11, PairingAnswer
<1>12. CASE OnConnect
  <2>1. Kept /\ Fewer /\ Buffers
    BY <1>2, <1>12 DEF OnConnect
  <2>2. Server
    BY <1>12 DEF OnConnect
  <2> QED
    BY <1>1, <2>1, <2>2
<1>13. CASE OnDisconnect
  <2>1. Kept /\ Fewer /\ Buffers /\ Server
    BY <1>2, <1>13 DEF OnDisconnect, LinkDown
  <2> QED
    BY <1>1, <2>1
<1>14. CASE Segment
  <2>1. Kept /\ Fewer /\ Server
    BY <1>14 DEF Segment
  <2>2. <<Head(wire)>> \in Seq(FrameOK) /\ Tail(wire) \in Seq(FrameOK)
    BY <1>2, <1>14 DEF Segment
  <2>3. Buffers
    BY <1>2, <1>14, <2>2 DEF Segment
  <2> QED
    BY <1>1, <2>1, <2>3
<1>15. CASE on_rx_
  <2>1. Kept /\ Fewer /\ Server
    BY <1>15 DEF on_rx_
  <2>2. rx_buffer_' \in Seq(FrameOK)
    <3>1. rx_buffer_ \o inCallback \in Seq(FrameOK)
      BY <1>2, ConcatProperties
    <3>2. rx_buffer_' \in {<<>>, rx_buffer_ \o inCallback}
      BY <1>15, Zenon DEF on_rx_
    <3> QED
      BY <1>2, <3>1, <3>2
  <2>3. Buffers
    BY <1>2, <1>15, <2>2 DEF on_rx_
  <2> QED
    BY <1>1, <2>1, <2>3
<1>16. CASE ParseEnd \/ AppIdle \/ UNCHANGED vars
  <2>1. Kept /\ Fewer /\ Server /\ Buffers
    BY <1>2, <1>16 DEF ParseEnd, AppIdle, vars
  <2> QED
    BY <1>1, <2>1
<1> QED
  BY <1>3, <1>4, <1>5, <1>6, <1>7, <1>8, <1>9, <1>10, <1>11, <1>12, <1>13, <1>14,
     <1>15, <1>16 DEF Next, Main, Async

\* A buffered frame with the id in flight answers the request in flight.
LEMMA PairingMatches == DataOK /\ Pairing => MatchIsOwn
<1> SUFFICES ASSUME DataOK, Pairing, awaiting_response_,
                    NEW p \in Travelling, p.tid = pending.tid
             PROVE  p.seq = pending.seq /\ p.conn = sentOn
  BY DEF MatchIsOwn
<1>1. p \in FrameOK
  BY PartsOfSeq DEF Pairing, Travelling
<1>2. issued \in Nat /\ issued > 0 /\ p.seq \in 1..issued /\ issued < p.seq + TidMod
      /\ (p.seq - 1) % TidMod = (issued - 1) % TidMod
  BY <1>1 DEF Pairing, FrameOK, Numbered, DataOK
<1>3. p.seq - 1 = issued - 1
  <2> DEFINE a == p.seq - 1
             b == issued - 1
  <2>1. a \in Nat /\ b \in Nat /\ a <= b /\ b < a + TidMod /\ a % TidMod = b % TidMod
    BY <1>2, TidModAssumption
  <2> HIDE DEF a, b
  <2>2. a = b
    BY <2>1, TidModAssumption, ModInjective
  <2> QED
    BY <2>2 DEF a, b
<1>4. p.seq = issued
  BY <1>2, <1>3
<1> QED
  BY <1>1, <1>4 DEF FrameOK, Pairing

\* handle_frame_ cannot pair a late reply with a newer request, for 2^16 ids as
\* for any other number of them.
THEOREM MatchTheorem == Spec => []MatchIsOwn
<1> QED
  BY DataInit, DataStep, PairingInit, PairingStep, PairingMatches, PTL DEF Spec

\* Every step of the transport is a step of RequestReply, or leaves its
\* variables alone.
LEMMA RefinementStep ==
  FlagsOK /\ DataOK /\ Pairing /\ WaitingIffAwaiting /\ [Next]_vars => [RR!Next]_RR!chan
<1> SUFFICES ASSUME FlagsOK, DataOK, Pairing, WaitingIffAwaiting, [Next]_vars
             PROVE  [RR!Next]_RR!chan
  OBVIOUS
<1> USE DEF mainVars, ghostVars
<1>1. ASSUME GiveUpRequest, UNCHANGED <<issued, answered>>
      PROVE  [RR!Next]_RR!chan
  <2>1. CASE awaiting_response_
    <3>1. RR!Lose
      BY <1>1, <2>1 DEF GiveUpRequest, RR!Lose
    <3> QED
      BY <3>1 DEF RR!Next
  <2>2. CASE ~awaiting_response_
    <3>1. awaiting_response_ = FALSE /\ awaiting_response_' = FALSE
      BY <1>1, <2>2, Zenon DEF GiveUpRequest, FlagsOK
    <3>2. awaiting_response_' = awaiting_response_
      BY <3>1
    <3>3. UNCHANGED <<issued, answered, result>>
      BY <1>1, <2>2 DEF GiveUpRequest
    <3> QED
      BY <3>2, <3>3 DEF RR!chan
  <2> QED
    BY <2>1, <2>2
<1>2. ASSUME UNCHANGED <<awaiting_response_, issued, answered, result>>
      PROVE  [RR!Next]_RR!chan
  BY <1>2, Zenon DEF RR!chan
<1>3. CASE ProcessReset
  <2>1. CASE reset_requested_
    BY <1>1, <1>3, <2>1 DEF ProcessReset, reset_link_state_
  <2>2. CASE ~reset_requested_
    BY <1>2, <1>3, <2>2 DEF ProcessReset
  <2> QED
    BY <2>1, <2>2
<1>4. CASE ParseFrame
  <2> DEFINE f == Head(pending_rx_)
  <2>1. CASE Matches(f) /\ f.kind \in RR!Delivered
    <3>1. awaiting_response_ /\ f.tid = pending.tid
      BY <2>1 DEF Matches
    <3>2. f \in PartsIn(pending_rx_) /\ f \in FrameOK
      <4>1. pending_rx_ # <<>> /\ pending_rx_ \in Seq(FrameOK)
        BY <1>4 DEF ParseFrame, HasFrame, Aligned, Pairing
      <4>2. f = pending_rx_[1] /\ 1 \in DOMAIN pending_rx_
        BY <4>1
      <4>3. f \in PartsIn(pending_rx_)
        BY <4>2 DEF PartsIn
      <4> QED
        BY <4>1, <4>3, PartsOfSeq
    <3>3. f.seq = issued
      BY <3>1, <3>2, PairingMatches DEF MatchIsOwn, Travelling, Pairing
    <3>4. [seq |-> issued, kind |-> f.kind] \in answered
      BY <3>2, <3>3 DEF FrameOK
    <3>5. RR!Reply(f.kind)
      BY <1>4, <2>1, <3>1, <3>4 DEF ParseFrame, handle_frame_, RR!Reply
    <3> QED
      BY <2>1, <3>5 DEF RR!Next
  <2>2. CASE ~(Matches(f) /\ f.kind \in RR!Delivered)
    <3>1. UNCHANGED <<awaiting_response_, issued, answered, result>>
      BY <1>4, <2>2, Zenon DEF ParseFrame, handle_frame_
    <3> QED
      BY <1>2, <3>1
  <2> QED
    BY <2>1, <2>2
<1>5. CASE \E due, accepted, expired \in BOOLEAN : LoopTimers(due, accepted, expired)
  <2>1. PICK due, accepted, expired \in BOOLEAN : LoopTimers(due, accepted, expired)
    BY <1>5
  <2>2. CASE TimedOut(expired)
    BY <1>1, <2>1, <2>2 DEF LoopTimers
  <2>3. CASE ~TimedOut(expired)
    <3>1. UNCHANGED <<awaiting_response_, issued, answered, result>>
      BY <2>1, <2>3, Zenon DEF LoopTimers
    <3> QED
      BY <1>2, <3>1
  <2> QED
    BY <2>2, <2>3
<1>6. CASE \E unit \in Units, writable \in BOOLEAN : send_pdu_(unit, writable)
  <2>1. PICK unit \in Units, writable \in BOOLEAN : send_pdu_(unit, writable)
    BY <1>6
  <2>2. waiting_for_response = 0
    BY <2>1 DEF send_pdu_
  <2>3. ~awaiting_response_
    BY <2>2 DEF WaitingIffAwaiting
  <2>4. RR!Issue
    BY <2>1, <2>3 DEF send_pdu_, RR!Issue
  <2> QED
    BY <2>4 DEF RR!Next
<1>7. CASE \E accepted \in BOOLEAN : set_host_and_reconnect(accepted)
  BY <1>1, <1>7 DEF set_host_and_reconnect, reset_link_state_
<1>8. CASE \E req \in toServer, kind \in RR!Kinds : ServerAnswer(req, kind)
  <2>1. PICK req \in toServer, kind \in RR!Kinds : ServerAnswer(req, kind)
    BY <1>8
  <2>2. req.seq \in 1..issued /\ \A a \in answered : a.seq # req.seq
    BY DEF Pairing, ReqOK, Numbered
  <2>3. awaiting_response_' = awaiting_response_
    BY <2>1, Zenon DEF ServerAnswer
  <2>4. RR!Answer(req.seq, kind)
    BY <2>1, <2>2, <2>3 DEF ServerAnswer, RR!Answer
  <2> QED
    BY <2>2, <2>4 DEF RR!Next
<1>9. CASE \/ ProcessTake \/ ParseInvalid \/ ParseEnd \/ AppIdle \/ UNCHANGED vars
           \/ \E n \in 1..Len(pending_rx_) : ParseGarbage(n)
  <2>1. UNCHANGED <<awaiting_response_, issued, answered, result>>
    BY <1>9, Zenon DEF ProcessTake, ParseInvalid, ParseEnd, AppIdle, vars, ParseGarbage
  <2> QED
    BY <1>2, <2>1
<1>10. CASE OnConnect \/ OnDisconnect \/ Segment \/ on_rx_
  <2>1. UNCHANGED <<awaiting_response_, issued, answered, result>>
    BY <1>10, Zenon DEF OnConnect, OnDisconnect, Segment, on_rx_
  <2> QED
    BY <1>2, <2>1
<1> QED
  BY <1>3, <1>4, <1>5, <1>6, <1>7, <1>8, <1>9, <1>10 DEF Next, Main, Async

\* The transport keeps its promise: at most one request is outstanding, and it
\* ends with the server's answer to that very request, or it is lost.
THEOREM RefinementTheorem == Spec => ImplementsRequestReply
<1>1. Init => RR!Init
  BY DEF Init, RR!Init
<1>2. Init => FlagsOK
  BY DEF Init, FlagsOK
<1> QED
  BY <1>1, <1>2, DataInit, DataStep, FlagsStep, PairingInit, PairingStep,
     WaitingTheorem, RefinementStep, PTL DEF Spec, ImplementsRequestReply, RR!Spec
=============================================================================
