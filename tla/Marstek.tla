------------------------------- MODULE Marstek -------------------------------
(***************************************************************************)
(* marstek: the hub of one Venus battery, a ModbusTCPController with       *)
(*  - the modbus_connection sensor (connected_), fed by the controller's   *)
(*    online / offline callbacks and by every reply;                       *)
(*  - the automatic RS485 control mode: rs485_enabled_ is the hub's idea   *)
(*    of register 42000, which the battery must hold at "on" before it     *)
(*    accepts the command registers 42001..42999.                          *)
(* Each action is the controller's action together with what the hub does  *)
(* in the same call.                                                       *)
(***************************************************************************)
EXTENDS ModbusController

CONSTANTS
  ModeRange,    \* the read range that holds register 42000 (the switch entity)
  ModeReg,      \* register 42000 as a write
  CommandRegs   \* registers 42001..42999 as writes

Hub == Order[1]

ASSUME HubAssumption ==
  /\ Len(Order) = 1
  /\ ModeReg \in Writes[Hub]
  /\ CommandRegs \subseteq Writes[Hub] \ {ModeReg}
  /\ "on" \in Values

VARIABLES
  connected_,       \* last state published by set_connected_
  rs485_enabled_,
  mode,             \* register 42000 in the battery
  sampled,          \* register 42000 as read by the last answered read of it
  lastReply         \* how the battery replied last: "none", "data", "exception"

hubVars == <<connected_, rs485_enabled_, mode, sampled, lastReply>>
allVars == <<vars, hubVars>>

\* Type correctness of the hub and of the controller it is.
HubTypeOK ==
  /\ TypeOK
  /\ {connected_, rs485_enabled_} \subseteq BOOLEAN
  /\ lastReply \in {"none", "data", "exception"}
  /\ mode \in Values \cup {"off"}
  /\ sampled \in Values \cup {"off"}

HubInit ==
  /\ Init
  /\ connected_ = FALSE
  /\ rs485_enabled_ = FALSE
  /\ mode = "off"
  /\ sampled = "off"
  /\ lastReply = "none"

\* Mutant: only the controller's back-online callback sets the sensor.
MutRepliedCallbackOnly == connected_' = (connected_ \/ module_offline_[Hub])

\* MarstekHub::on_modbus_data and on_modbus_error: set_connected_(true).
Replied == connected_' = TRUE

\* What the battery holds once it has carried out the request in flight.
Executed == IF request.key = ModeReg THEN request.val ELSE mode

HubData ==
  /\ Reply("data")
  /\ Replied
  /\ mode' = Executed
  /\ sampled' = IF request.key = ModeRange THEN mode ELSE sampled
  /\ lastReply' = "data"
  /\ UNCHANGED rs485_enabled_

HubException ==
  /\ Reply("exception")
  /\ Replied
  /\ lastReply' = "exception"
  /\ UNCHANGED <<rs485_enabled_, mode, sampled>>

\* A request that times out may have reached the battery or not.
HubLose ==
  /\ Lose
  /\ mode' \in {mode, Executed}
  /\ UNCHANGED <<connected_, rs485_enabled_, sampled, lastReply>>

\* Mutant: the read-back can only confirm the mode.
MutReadBackConfirms == rs485_enabled_ \/ sampled = "on"

\* The switch entity of register 42000 reads the mode back.
ReadBack == sampled = "on"

HubDispatch ==
  /\ process_modbus_data_(Hub)
  /\ rs485_enabled_' = IF Head(incoming_queue_[Hub]) = ModeRange THEN ReadBack ELSE rs485_enabled_
  /\ UNCHANGED <<connected_, mode, sampled, lastReply>>

\* Mutant: the sensor is left alone.
MutGaveUpNothing == UNCHANGED connected_

\* The offline callback runs when the controller was online.
GaveUp == connected_' = (module_offline_[Hub] /\ connected_)

HubGiveUp ==
  /\ GiveUp(Hub)
  /\ GaveUp
  /\ UNCHANGED <<rs485_enabled_, mode, sampled, lastReply>>

\* The controller's other steps do not involve the hub.
HubOther ==
  /\ \/ StillWaiting
     \/ \E encoded \in BOOLEAN : SendNext(Hub, encoded)
     \/ Idle(Hub)
     \/ update(Hub)
  /\ UNCHANGED hubVars

\* Enable the control mode first when a command register is written and the
\* mode is not known to be active; then queue the write itself.
write_register(reg, val) ==
  LET enable == reg \in CommandRegs /\ ~rs485_enabled_
      q == command_queue_[Hub]
      first == IF enable THEN Queued(q, ModeReg, "on") ELSE q
  IN /\ command_queue_' = [command_queue_ EXCEPT ![Hub] = Queued(first, reg, val)]
     /\ rs485_enabled_' = IF reg = ModeReg THEN val = "on" ELSE rs485_enabled_ \/ enable
     /\ UNCHANGED <<turn, busy, request, incoming_queue_, module_offline_, skip_counter,
                    connected_, mode, sampled, lastReply>>

HubNext ==
  \/ HubData
  \/ HubException
  \/ HubLose
  \/ HubDispatch
  \/ HubGiveUp
  \/ HubOther
  \/ \E reg \in Writes[Hub], val \in Values : write_register(reg, val)

HubSpec == HubInit /\ [][HubNext]_allVars

HubFairSpec ==
  /\ HubSpec
  /\ WF_allVars(HubDispatch \/ HubOther)
  /\ SF_allVars(HubData \/ HubException \/ HubLose)
  /\ SF_allVars(HubGiveUp \/ (SendNext(Hub, TRUE) /\ UNCHANGED hubVars))
  /\ WF_allVars(update(Hub) /\ UNCHANGED hubVars)

-----------------------------------------------------------------------------
(* Properties.                                                             *)

\* Once the battery has replied, the connection sensor is off only while the
\* controller counts it as offline (the controller itself reports no change
\* at the first reply).
NoFalseAlarm == lastReply # "none" /\ ~connected_ => module_offline_[Hub]

\* The state of the hub is well formed and its connection sensor raises no false alarm.
HubInv == HubTypeOK /\ NoFalseAlarm

\* A battery that has gone silent after a data reply is shown as disconnected
\* in the end, whatever it refused before.  (After an exception it may not be:
\* an exception of an offline battery sets the sensor, but not the controller,
\* which then reports no transition to offline.)
SilenceNoticed ==
  <>[][~HubData /\ ~HubException]_allVars => <>[](connected_ => lastReply = "exception")

\* The hub takes the mode for active as soon as the write that enables it is
\* queued, and a read-back may be older than a queued write.  Such a belief does
\* not last: as long as the mode does not change and the battery goes on
\* answering its reads, the hub is right about it again and again.
ReadBackCorrects ==
  \A v \in Values :
    <>[](mode = v) /\ []<><<HubData /\ request.key = ModeRange>>_allVars
      => []<>(rs485_enabled_ = (v = "on"))
=============================================================================
