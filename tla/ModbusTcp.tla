------------------------------ MODULE ModbusTcp ------------------------------
(***************************************************************************)
(* modbustcp: one TCP connection to one Modbus server, shared by the       *)
(* devices registered on it.                                               *)
(*                                                                         *)
(* Two tasks run concurrently.  The async_tcp task runs the AsyncClient    *)
(* callbacks: they flip connected_ and reset_requested_ and append bytes   *)
(* to rx_buffer_ under rx_mutex_.  The main task runs ModbusTCP::loop and  *)
(* then the loops of the devices; pc is where it is in that round:         *)
(*                                                                         *)
(*   reset   process_rx_: reset_requested_.exchange, reset_link_state_     *)
(*   take    process_rx_: move rx_buffer_ to pending_rx_ under rx_mutex_   *)
(*   parse   process_rx_: the while loop, one frame per step               *)
(*   timers  loop: the reconnection and the reply time-out                 *)
(*   app     device loops (send) and automations (set_host_and_reconnect)  *)
(*                                                                         *)
(* A frame travels as two parts, "head" (MBAP header and some of the PDU)  *)
(* and "tail" (the rest), so a frame can be cut by a segment boundary, by  *)
(* a reset of the buffers or by an overflow.  Time is a choice: a timer    *)
(* may have expired whenever it is looked at.  Requests are numbered by    *)
(* issued; the transaction id is that number modulo TidMod (2^16).         *)
(***************************************************************************)
EXTENDS Naturals, Sequences

CONSTANTS
  TidMod,     \* number of transaction ids (uint16_t: 65536)
  Units,      \* unit ids that devices use
  RxCap,      \* MAX_RX_BUFFER, in parts
  MaxSends,   \* bound on the number of requests
  MaxConns    \* bound on the number of connections

ASSUME TidModAssumption == TidMod \in Nat \ {0}
ASSUME UnitsAssumption == Units \subseteq 0..255
ASSUME BoundsAssumption == RxCap \in Nat /\ MaxSends \in Nat /\ MaxConns \in Nat

VARIABLES
  pc,
  awaiting_response_,
  waiting_for_response,
  transaction_id_,
  pending,            \* pending_tid_ and pending_unit_, with the request's number
  pending_rx_,
  connected_,
  reset_requested_,
  rx_buffer_,
  link,               \* AsyncClient: "closed", "connecting" or "open"
  conn,               \* number of the current (or last) connection
  inCallback,         \* the segment the async task is inside onData with
  toServer,           \* requests the server holds on this connection, [seq, tid]
  wire,               \* parts on their way from the server
  issued,             \* number of requests sent so far
  sentOn,             \* connection the last request went out on (0: not written)
  answered,           \* answers the server gave, [seq, kind]
  result              \* how the last finished request ended, [seq, how]

mainVars == <<awaiting_response_, waiting_for_response, transaction_id_,
              pending, pending_rx_>>
netVars == <<link, conn, inCallback, toServer, wire>>
ghostVars == <<issued, sentOn, answered, result>>
sharedVars == <<connected_, reset_requested_, rx_buffer_>>
vars == <<pc, mainVars, sharedVars, netVars, ghostVars>>

RR == INSTANCE RequestReply WITH busy <- awaiting_response_

Part == [seq : Nat, tid : 0..(TidMod - 1), conn : Nat, kind : RR!Kinds,
         half : {"head", "tail"}]

\* Type correctness: transaction ids keep within 16 bits, waiting_for_response within 8.
TypeOK ==
  /\ pc \in {"reset", "take", "parse", "timers", "app"}
  /\ awaiting_response_ \in BOOLEAN
  /\ waiting_for_response \in 0..255
  /\ transaction_id_ \in 0..(TidMod - 1)
  /\ pending \in [tid : 0..(TidMod - 1), unit : Units \cup {0}, seq : Nat]
  /\ pending_rx_ \in Seq(Part)
  /\ connected_ \in BOOLEAN
  /\ reset_requested_ \in BOOLEAN
  /\ rx_buffer_ \in Seq(Part)
  /\ link \in {"closed", "connecting", "open"}
  /\ conn \in Nat
  /\ inCallback \in Seq(Part)
  /\ toServer \subseteq [seq : Nat, tid : 0..(TidMod - 1)]
  /\ wire \in Seq(Part)
  /\ issued \in Nat
  /\ sentOn \in Nat
  /\ answered \subseteq [seq : Nat, kind : RR!Kinds]
  /\ result \in [seq : Nat, how : RR!Delivered \cup {"none", "lost"}]

Init ==
  /\ pc = "reset"
  /\ awaiting_response_ = FALSE
  /\ waiting_for_response = 0
  /\ transaction_id_ = 0
  /\ pending = [tid |-> 0, unit |-> 0, seq |-> 0]
  /\ pending_rx_ = <<>>
  /\ connected_ = FALSE
  /\ reset_requested_ = FALSE
  /\ rx_buffer_ = <<>>
  /\ link = "closed"
  /\ conn = 0
  /\ inCallback = <<>>
  /\ toServer = {}
  /\ wire = <<>>
  /\ issued = 0
  /\ sentOn = 0
  /\ answered = {}
  /\ result = RR!NoResult

-----------------------------------------------------------------------------
(* The server, and the async_tcp task.  The task runs one callback at a    *)
(* time; only the main task can act while onData is in progress.           *)

\* The server answers one of the requests it holds, in any order and as late
\* as it likes: with data or an exception, with a frame the client rejects
\* (other function code, truncated) or with an invalid MBAP header.
ServerAnswer(req, kind) ==
  /\ link = "open"
  /\ req \in toServer
  /\ toServer' = toServer \ {req}
  /\ LET frame(h) == [seq |-> req.seq, tid |-> req.tid, conn |-> conn,
                      kind |-> kind, half |-> h]
     IN wire' = wire \o <<frame("head"), frame("tail")>>
  /\ answered' = answered \cup {[seq |-> req.seq, kind |-> kind]}
  /\ UNCHANGED <<pc, mainVars, sharedVars, link, conn, inCallback, issued,
                 sentOn, result>>

\* Mutant: onConnect forgets to request the reset.
MutOnConnectNoReset == connected_' = TRUE /\ UNCHANGED reset_requested_

onConnect ==
  /\ connected_' = TRUE
  /\ reset_requested_' = TRUE

\* The connection opens: the client's state changes and onConnect runs.
OnConnect ==
  /\ inCallback = <<>>
  /\ link = "connecting"
  /\ conn < MaxConns
  /\ link' = "open"
  /\ conn' = conn + 1
  /\ onConnect
  /\ UNCHANGED <<pc, mainVars, rx_buffer_, inCallback, toServer, wire, ghostVars>>

\* Mutant: the disconnection leaves connected_ as it is.
MutOnDisconnectKeepsFlag == reset_requested_' = TRUE /\ UNCHANGED connected_

\* onDisconnect, and onError.
onDisconnect ==
  /\ connected_' = FALSE
  /\ reset_requested_' = TRUE

\* What is left of a connection when it goes away; a segment that the async
\* task is already delivering is not called back.
LinkDown ==
  /\ link' = "closed"
  /\ toServer' = {}
  /\ wire' = <<>>
  /\ UNCHANGED <<conn, inCallback>>

\* The attempt failed, or an open connection closed or broke.
OnDisconnect ==
  /\ inCallback = <<>>
  /\ link # "closed"
  /\ LinkDown
  /\ onDisconnect
  /\ UNCHANGED <<pc, mainVars, rx_buffer_, ghostVars>>

\* A segment arrives: the async task enters onData with it.
Segment ==
  /\ inCallback = <<>>
  /\ link = "open"
  /\ wire # <<>>
  /\ inCallback' = <<Head(wire)>>
  /\ wire' = Tail(wire)
  /\ UNCHANGED <<pc, mainVars, sharedVars, link, conn, toServer, ghostVars>>

on_rx_ ==
  /\ inCallback # <<>>
  /\ IF Len(rx_buffer_) + Len(inCallback) > RxCap
     THEN /\ rx_buffer_' = <<>>
          /\ reset_requested_' = TRUE
     ELSE /\ rx_buffer_' = rx_buffer_ \o inCallback
          /\ UNCHANGED reset_requested_
  /\ inCallback' = <<>>
  /\ UNCHANGED <<pc, mainVars, connected_, link, conn, toServer, wire, ghostVars>>

-----------------------------------------------------------------------------
(* The main task.                                                          *)

\* The request in flight ends without an answer.
GiveUpRequest ==
  /\ awaiting_response_' = FALSE
  /\ waiting_for_response' = 0
  /\ result' = IF awaiting_response_ THEN [seq |-> issued, how |-> "lost"]
                                     ELSE result

reset_link_state_ ==
  /\ GiveUpRequest
  /\ pending_rx_' = <<>>
  /\ rx_buffer_' = <<>>

ProcessReset ==
  /\ pc = "reset"
  /\ pc' = "take"
  /\ reset_requested_' = FALSE
  /\ IF reset_requested_
     THEN reset_link_state_
     ELSE UNCHANGED <<awaiting_response_, waiting_for_response, result,
                      pending_rx_, rx_buffer_>>
  /\ UNCHANGED <<transaction_id_, pending, connected_, netVars, issued, sentOn,
                 answered>>

ProcessTake ==
  /\ pc = "take"
  /\ pc' = "parse"
  /\ pending_rx_' = pending_rx_ \o rx_buffer_
  /\ rx_buffer_' = <<>>
  /\ UNCHANGED <<awaiting_response_, waiting_for_response, transaction_id_,
                 pending, connected_, reset_requested_, netVars, ghostVars>>

\* pending_rx_ starts at a frame boundary / holds a whole frame there.
Aligned == pending_rx_ # <<>> /\ Head(pending_rx_).half = "head"
HasFrame ==
  /\ Aligned
  /\ Len(pending_rx_) >= 2
  /\ pending_rx_[2] = [Head(pending_rx_) EXCEPT !.half = "tail"]
Garbage == pending_rx_ # <<>> /\ ~HasFrame /\ (Aligned => Len(pending_rx_) >= 2)
BadHeader == Aligned /\ Head(pending_rx_).kind = "badHeader"

\* AsyncClient::close(true) runs onDisconnect before it returns.
CloseClient ==
  /\ LinkDown
  /\ onDisconnect

\* Mutant: the first reply to arrive is taken, whatever its transaction id.
MutMatchesAny(f) == awaiting_response_

Matches(f) == awaiting_response_ /\ f.tid = pending.tid

\* A frame that carries the id in flight and passes the checks ends the request.
handle_frame_ ==
  LET f == Head(pending_rx_)
  IN IF Matches(f) /\ f.kind \in RR!Delivered
     THEN /\ awaiting_response_' = FALSE
          /\ waiting_for_response' = 0
          /\ result' = [seq |-> issued, how |-> f.kind]
     ELSE UNCHANGED <<awaiting_response_, waiting_for_response, result>>

ParseFrame ==
  /\ pc = "parse"
  /\ HasFrame /\ ~BadHeader
  /\ handle_frame_
  /\ pending_rx_' = Tail(Tail(pending_rx_))
  /\ UNCHANGED <<pc, transaction_id_, pending, sharedVars, netVars, issued,
                 sentOn, answered>>

\* Bytes that do not start a frame are read as a header all the same: a frame
\* that ends after any number of the parts present, and that is ignored (it
\* does not carry the id in flight).
ParseGarbage(n) ==
  /\ pc = "parse"
  /\ Garbage /\ ~BadHeader
  /\ n \in 1..Len(pending_rx_)
  /\ pending_rx_' = SubSeq(pending_rx_, n + 1, Len(pending_rx_))
  /\ UNCHANGED <<pc, awaiting_response_, waiting_for_response, transaction_id_,
                 pending, sharedVars, netVars, ghostVars>>

\* The header is invalid: resynchronise by dropping the connection.
ParseInvalid ==
  /\ pc = "parse"
  /\ BadHeader \/ Garbage
  /\ pc' = "timers"
  /\ pending_rx_' = <<>>
  /\ IF link = "closed" THEN UNCHANGED <<netVars, connected_, reset_requested_>>
                        ELSE CloseClient
  /\ UNCHANGED <<awaiting_response_, waiting_for_response, transaction_id_,
                 pending, rx_buffer_, ghostVars>>

\* Less than a header, or less than the frame it announces: wait for the rest, which
\* is less than a frame and never more than MAX_RX_BUFFER.
ParseEnd ==
  /\ pc = "parse"
  /\ ~HasFrame /\ ~BadHeader
  /\ pc' = "timers"
  /\ UNCHANGED <<mainVars, sharedVars, netVars, ghostVars>>

\* The reconnection: connect() does nothing unless the client is idle, and
\* AsyncClient::connect may refuse.
Reconnect(due, accepted) ==
  link' = IF due /\ ~connected_ /\ link = "closed" /\ accepted
          THEN "connecting" ELSE link

\* Mutant: the time-out only runs while the link is up.
MutTimedOutOnline(expired) == awaiting_response_ /\ expired /\ connected_

TimedOut(expired) == awaiting_response_ /\ expired

LoopTimers(due, accepted, expired) ==
  /\ pc = "timers"
  /\ pc' = "app"
  /\ Reconnect(due, accepted)
  /\ IF TimedOut(expired)
     THEN GiveUpRequest
     ELSE UNCHANGED <<awaiting_response_, waiting_for_response, result>>
  /\ UNCHANGED <<transaction_id_, pending, pending_rx_, sharedVars, conn,
                 inCallback, toServer, wire, issued, sentOn, answered>>

\* Requests that may still be answered, or whose answer is on its way.
PartsIn(s) == {s[i] : i \in DOMAIN s}
Travelling == PartsIn(wire) \cup PartsIn(inCallback) \cup PartsIn(rx_buffer_)
                \cup PartsIn(pending_rx_)
Lagging == {r.seq : r \in toServer} \cup {p.seq : p \in Travelling}

\* Environment assumption: nothing lags TidMod requests (hours) behind.
FreshTid == \A n \in Lagging : issued + 1 < n + TidMod

\* Mutants: the id does not wrap; the id is not advanced.
MutNextTidNoWrap == transaction_id_ + 1
MutNextTidSame == transaction_id_

NextTid == (transaction_id_ + 1) % TidMod

\* Mutant: the unit id itself, 0 included.
MutWaitingMarkRaw(unit) == unit

\* Never 0, so that a request to unit 0 blocks other senders too.
WaitingMark(unit) == IF unit # 0 THEN unit ELSE 255

\* A device sends when nothing is in flight (ModbusDevice::waiting_for_response).
\* The request is marked in flight whether or not it could be written.
send_pdu_(unit, writable) ==
  /\ pc = "app"
  /\ waiting_for_response = 0
  /\ issued < MaxSends
  /\ FreshTid
  /\ LET written == writable /\ connected_ /\ link = "open"
         n == issued + 1
     IN /\ issued' = n
        /\ transaction_id_' = NextTid
        /\ pending' = [tid |-> transaction_id_, unit |-> unit, seq |-> n]
        /\ toServer' = IF written
                        THEN toServer \cup {[seq |-> n, tid |-> transaction_id_]}
                        ELSE toServer
        /\ sentOn' = IF written THEN conn ELSE 0
  /\ awaiting_response_' = TRUE
  /\ waiting_for_response' = WaitingMark(unit)
  /\ pc' = "reset"
  /\ UNCHANGED <<pending_rx_, sharedVars, link, conn, inCallback, wire,
                 answered, result>>

\* set_host_and_reconnect, from an automation: close what is open, forget the
\* link state and connect to the new host at once.
set_host_and_reconnect(accepted) ==
  /\ pc = "app"
  /\ conn < MaxConns
  /\ reset_link_state_
  /\ connected_' = FALSE
  /\ reset_requested_' = (reset_requested_ \/ link # "closed")
  /\ link' = IF accepted THEN "connecting" ELSE "closed"
  /\ toServer' = {}
  /\ wire' = <<>>
  /\ UNCHANGED <<pc, transaction_id_, pending, conn, inCallback, issued, sentOn,
                 answered>>

AppIdle ==
  /\ pc = "app"
  /\ pc' = "reset"
  /\ UNCHANGED <<mainVars, sharedVars, netVars, ghostVars>>

-----------------------------------------------------------------------------
Main ==
  \/ ProcessReset
  \/ ProcessTake
  \/ ParseFrame
  \/ \E n \in 1..Len(pending_rx_) : ParseGarbage(n)
  \/ ParseInvalid
  \/ ParseEnd
  \/ \E due, accepted, expired \in BOOLEAN : LoopTimers(due, accepted, expired)
  \/ \E unit \in Units, writable \in BOOLEAN : send_pdu_(unit, writable)
  \/ \E accepted \in BOOLEAN : set_host_and_reconnect(accepted)
  \/ AppIdle

Async ==
  \/ \E req \in toServer, kind \in RR!Kinds : ServerAnswer(req, kind)
  \/ OnConnect
  \/ OnDisconnect
  \/ Segment
  \/ on_rx_

Next == Main \/ Async

Spec == Init /\ [][Next]_vars

\* The main loop keeps running, and the clock advances: a deadline that the
\* loop looks at again and again is found expired in the end.
LoopStep ==
  \/ ProcessReset
  \/ ProcessTake
  \/ ParseFrame
  \/ \E n \in 1..Len(pending_rx_) : ParseGarbage(n)
  \/ ParseInvalid
  \/ ParseEnd
  \/ \E due, accepted, expired \in BOOLEAN : LoopTimers(due, accepted, expired)
  \/ AppIdle

ReplyTimeout ==
  awaiting_response_ /\ \E due, accepted \in BOOLEAN : LoopTimers(due, accepted, TRUE)

ConnectAttempt ==
  /\ ~connected_ /\ link = "closed"
  /\ \E expired \in BOOLEAN : LoopTimers(TRUE, TRUE, expired)

FairSpec ==
  /\ Spec
  /\ WF_vars(LoopStep)
  /\ SF_vars(ReplyTimeout)
  /\ SF_vars(ConnectAttempt)

-----------------------------------------------------------------------------
(* Properties.                                                             *)

\* waiting_for_response, which devices test before they send, says exactly
\* whether a request is in flight, for unit 0 too.
WaitingIffAwaiting == (waiting_for_response # 0) = awaiting_response_

\* The client's flag and its socket agree: were connected_ left TRUE on a
\* dead socket, loop() would never reconnect.
ConnectedIffOpen == connected_ = (link = "open")

\* Once a connection is up and its reset has been honoured, no byte of an
\* earlier connection is left in a buffer, a late onData included.
NoStaleBytes ==
  connected_ /\ ~reset_requested_ =>
    \A p \in PartsIn(pending_rx_) \cup PartsIn(rx_buffer_) \cup PartsIn(inCallback) :
      p.conn = conn

\* While a request is in flight, every buffered or travelling frame that
\* bears its transaction id answers that very request, on the connection it
\* was sent on: handle_frame_ cannot pair a late reply with a newer request.
MatchIsOwn ==
  awaiting_response_ =>
    \A p \in Travelling :
      p.tid = pending.tid => p.seq = pending.seq /\ p.conn = sentOn

\* The transport keeps the promise of RequestReply.
ImplementsRequestReply == RR!Spec

\* Every request ends: no device waits on waiting_for_response for ever.
RequestEnds == awaiting_response_ ~> ~awaiting_response_

\* After any loss of the link the client dials again.
Reconnects == (link = "closed") ~> (link # "closed")

\* Whatever the server and the link do, nobody is stuck: neither a device behind a
\* request in flight nor the client behind a lost link.
NeverStuck == RequestEnds /\ Reconnects
=============================================================================
