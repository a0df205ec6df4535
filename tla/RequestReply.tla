---------------------------- MODULE RequestReply ----------------------------
(***************************************************************************)
(* What the Modbus/TCP transport promises the devices that share it: at    *)
(* most one request is outstanding; it ends with the server's answer to    *)
(* that very request, or it is lost (time-out, dropped connection).  An    *)
(* answer to an earlier request never ends a later one.                    *)
(*                                                                         *)
(* ModbusTcp implements this specification, and ModbusController is built  *)
(* on it instead of on the byte stream.                                    *)
(***************************************************************************)
EXTENDS Naturals

VARIABLES
  busy,       \* waiting_for_response # 0: a request is outstanding
  issued,     \* number of the newest request (0: none yet)
  answered,   \* the answers the server has given, [seq, kind]
  result      \* how the last finished request ended, [seq, how]

chan == <<busy, issued, answered, result>>

\* An answer devices can be handed: register data / write echo, or a Modbus
\* exception.  The other kinds never reach a device.
Delivered == {"data", "exception"}
Undeliverable == {"rejected", "badHeader"}
Kinds == Delivered \cup Undeliverable

NoResult == [seq |-> 0, how |-> "none"]

ChanTypeOK ==
  /\ busy \in BOOLEAN
  /\ issued \in Nat
  /\ answered \subseteq [seq : Nat, kind : Kinds]
  /\ result \in [seq : Nat, how : Delivered \cup {"none", "lost"}]

Init ==
  /\ busy = FALSE
  /\ issued = 0
  /\ answered = {}
  /\ result = NoResult

Issue ==
  /\ ~busy
  /\ busy' = TRUE
  /\ issued' = issued + 1
  /\ UNCHANGED <<answered, result>>

\* The server answers any request that it has received and not answered yet.
Answer(n, kind) ==
  /\ \A a \in answered : a.seq # n
  /\ answered' = answered \cup {[seq |-> n, kind |-> kind]}
  /\ UNCHANGED <<busy, issued, result>>

Reply(how) ==
  /\ busy
  /\ [seq |-> issued, kind |-> how] \in answered
  /\ busy' = FALSE
  /\ result' = [seq |-> issued, how |-> how]
  /\ UNCHANGED <<issued, answered>>

Lose ==
  /\ busy
  /\ busy' = FALSE
  /\ result' = [seq |-> issued, how |-> "lost"]
  /\ UNCHANGED <<issued, answered>>

Next ==
  \/ Issue
  \/ \E n \in 1..issued, kind \in Kinds : Answer(n, kind)
  \/ \E how \in Delivered : Reply(how)
  \/ Lose

Spec == Init /\ [][Next]_chan
=============================================================================
