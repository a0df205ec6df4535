-------------------------- MODULE ModbusController --------------------------
(***************************************************************************)
(* modbustcp_controller: the command queue of each device, on the channel  *)
(* that the devices share.                                                 *)
(*                                                                         *)
(* Everything runs on the main task.  One round of the main loop is        *)
(* ModbusTCP::loop (turn 0), where the request in flight may end, then the *)
(* loop of each device in the order Order (turn 1, 2, ...).  Poll cycles   *)
(* (update) and writes (queue_command) come from the scheduler and from    *)
(* entities at any point of the round.                                     *)
(*                                                                         *)
(* The channel is taken at the level of RequestReply, which ModbusTcp      *)
(* implements: a request ends with its own reply ("data", "exception") or  *)
(* is lost.  A command is identified by the fields that is_equal compares, *)
(* its key; a write also carries a value.                                  *)
(***************************************************************************)
EXTENDS Integers, Sequences, FiniteSets

CONSTANTS
  Order,         \* the devices, in the order of their loops
  Ranges,        \* Ranges[d]: keys of the read ranges of d, in polling order
  Writes,        \* Writes[d]: keys of the registers of d that can be written
  Values,        \* values written
  MaxRetries,    \* max_cmd_retries_
  SkipUpdates,   \* SkipUpdates[d][r]: skip_updates of range r
  OfflineSkip,   \* offline_skip_updates_
  NoValue        \* payload of a read

Devs == {Order[i] : i \in DOMAIN Order}
ReadKeys(d) == {Ranges[d][i] : i \in DOMAIN Ranges[d]}
Keys(d) == ReadKeys(d) \cup Writes[d]

ASSUME OrderAssumption ==
  Order \in Seq(Devs) /\ Len(Order) > 0 /\
  \A i, j \in DOMAIN Order : Order[i] = Order[j] => i = j
ASSUME RangesAssumption ==
  /\ \A d \in Devs : Ranges[d] \in Seq(ReadKeys(d))
  /\ \A d \in Devs : \A i, j \in DOMAIN Ranges[d] : Ranges[d][i] = Ranges[d][j] => i = j
  /\ \A d \in Devs : ReadKeys(d) \cap Writes[d] = {}
ASSUME NumbersAssumption ==
  /\ MaxRetries \in Nat
  /\ OfflineSkip \in Nat
  /\ \A d \in Devs : SkipUpdates[d] \in [ReadKeys(d) -> Nat]
  /\ NoValue \notin Values

VARIABLES
  turn,               \* 0: ModbusTCP::loop is next; i: the loop of Order[i]
  busy,               \* waiting_for_response # 0
  request,            \* the newest request, [dev, key, val]
  command_queue_,     \* per device, of [key, val, send_count_]
  incoming_queue_,    \* per device, keys of answered commands to dispatch
  module_offline_,
  skip_counter        \* skip_updates_counter of each range

vars == <<turn, busy, request, command_queue_, incoming_queue_, module_offline_,
          skip_counter>>

Item(d) == [key : Keys(d), val : Values \cup {NoValue}, send_count_ : Nat]
Request == UNION {[dev : {d}, key : Keys(d), val : Values \cup {NoValue}] : d \in Devs}
NoRequest == [dev |-> Order[1], key |-> NoValue, val |-> NoValue]

\* Type correctness: the countdowns do not pass zero.
TypeOK ==
  /\ turn \in 0..Len(Order)
  /\ busy \in BOOLEAN
  /\ request \in Request \cup {NoRequest}
  /\ \A d \in Devs :
       /\ command_queue_[d] \in Seq(Item(d))
       /\ incoming_queue_[d] \in Seq(Keys(d))
       /\ module_offline_[d] \in BOOLEAN
       /\ skip_counter[d] \in [ReadKeys(d) -> Nat]

Init ==
  /\ turn = 0
  /\ busy = FALSE
  /\ request = NoRequest
  /\ command_queue_ = [d \in Devs |-> <<>>]
  /\ incoming_queue_ = [d \in Devs |-> <<>>]
  /\ module_offline_ = [d \in Devs |-> FALSE]
  /\ skip_counter = [d \in Devs |-> [r \in ReadKeys(d) |-> 0]]

-----------------------------------------------------------------------------
(* ModbusTCP::loop, turn 0.                                                *)

\* A data reply: the command it answers moves to the incoming queue and the
\* device is online again.
on_modbus_data(d) ==
  /\ IF command_queue_[d] = <<>>
     THEN UNCHANGED <<command_queue_, incoming_queue_, module_offline_, skip_counter>>
     ELSE /\ incoming_queue_' = [incoming_queue_ EXCEPT
               ![d] = Append(@, Head(command_queue_[d]).key)]
          /\ command_queue_' = [command_queue_ EXCEPT ![d] = Tail(@)]
          /\ module_offline_' = [module_offline_ EXCEPT ![d] = FALSE]
          /\ skip_counter' =
               IF module_offline_[d] /\ OfflineSkip > 0
               THEN [skip_counter EXCEPT ![d] = [r \in ReadKeys(d) |-> 0]]
               ELSE skip_counter

\* An exception reply: the command is dropped; the offline state stays.
on_modbus_error(d) ==
  /\ command_queue_' = [command_queue_ EXCEPT ![d] = IF @ = <<>> THEN @ ELSE Tail(@)]
  /\ UNCHANGED <<incoming_queue_, module_offline_, skip_counter>>

\* The reply goes to the device whose address the request has: the devices of one
\* client have different addresses.
Reply(how) ==
  /\ turn = 0 /\ turn' = 1
  /\ busy /\ busy' = FALSE
  /\ \/ how = "data" /\ on_modbus_data(request.dev)
     \/ how = "exception" /\ on_modbus_error(request.dev)
  /\ UNCHANGED request

Lose ==
  /\ turn = 0 /\ turn' = 1
  /\ busy /\ busy' = FALSE
  /\ UNCHANGED <<request, command_queue_, incoming_queue_, module_offline_,
                 skip_counter>>

StillWaiting ==
  /\ turn = 0 /\ turn' = 1
  /\ UNCHANGED <<busy, request, command_queue_, incoming_queue_, module_offline_,
                 skip_counter>>

-----------------------------------------------------------------------------
(* ModbusTCPController::loop of device d, one of four outcomes.            *)

Turn(d) ==
  /\ turn > 0 /\ Order[turn] = d
  /\ turn' = (turn + 1) % (Len(Order) + 1)

\* Hand one answered command to its handler.
process_modbus_data_(d) ==
  /\ Turn(d)
  /\ incoming_queue_[d] # <<>>
  /\ incoming_queue_' = [incoming_queue_ EXCEPT ![d] = Tail(@)]
  /\ UNCHANGED <<busy, request, command_queue_, module_offline_, skip_counter>>

\* Mutant: the channel is not looked at.
MutMaySendBusy(d) == incoming_queue_[d] = <<>> /\ command_queue_[d] # <<>>

\* send_next_command_ acts: nothing to dispatch, the channel is free, the
\* throttle delay has passed and a command is queued.
MaySend(d) ==
  incoming_queue_[d] = <<>> /\ ~busy /\ command_queue_[d] # <<>>

should_retry(d) == Head(command_queue_[d]).send_count_ <= MaxRetries

\* Mutant: an attempt is not counted.
MutAttemptUncounted(q) == q

\* Every attempt counts, also one that ModbusTCP::send refuses to encode.
Attempted(q) == [q EXCEPT ![1].send_count_ = @ + 1]

\* Every command has an on_data_func (the factories at the end of the file set one), so
\* none is removed as soon as it is sent.
SendNext(d, encoded) ==
  /\ Turn(d)
  /\ MaySend(d)
  /\ should_retry(d)
  /\ LET c == Head(command_queue_[d])
     IN request' = IF encoded THEN [dev |-> d, key |-> c.key, val |-> c.val]
                              ELSE request
  /\ busy' = encoded
  /\ command_queue_' = [command_queue_ EXCEPT ![d] = Attempted(@)]
  /\ UNCHANGED <<incoming_queue_, module_offline_, skip_counter>>

\* The command was sent too often: the device is declared offline, once.
GiveUp(d) ==
  /\ Turn(d)
  /\ MaySend(d)
  /\ ~should_retry(d)
  /\ command_queue_' = [command_queue_ EXCEPT ![d] = Tail(@)]
  /\ module_offline_' = [module_offline_ EXCEPT ![d] = TRUE]
  /\ skip_counter' =
       IF ~module_offline_[d] /\ OfflineSkip > 0
       THEN [skip_counter EXCEPT ![d] = [r \in ReadKeys(d) |-> OfflineSkip]]
       ELSE skip_counter
  /\ UNCHANGED <<busy, request, incoming_queue_>>

\* Nothing to do, or the throttle delay has not passed.
Idle(d) ==
  /\ Turn(d)
  /\ incoming_queue_[d] = <<>>
  /\ UNCHANGED <<busy, request, command_queue_, incoming_queue_, module_offline_,
                 skip_counter>>

-----------------------------------------------------------------------------
(* Commands enter the queue.                                               *)

QueuedKeys(q) == {q[i].key : i \in DOMAIN q}
NewItem(key, val) == [key |-> key, val |-> val, send_count_ |-> 0]

\* Mutant: duplicates are queued again.
MutQueuedAlways(q, key, val) == Append(q, NewItem(key, val))

\* queue_command: a command that is already queued only gets the new payload,
\* even when it is the one in flight.
Queued(q, key, val) ==
  IF key \in QueuedKeys(q)
  THEN [i \in DOMAIN q |-> IF q[i].key = key THEN [q[i] EXCEPT !.val = val] ELSE q[i]]
  ELSE Append(q, NewItem(key, val))

queue_command(d, key, val) ==
  /\ command_queue_' = [command_queue_ EXCEPT ![d] = Queued(@, key, val)]
  /\ UNCHANGED <<turn, busy, request, incoming_queue_, module_offline_, skip_counter>>

\* Mutant: the countdown stands still while the device is offline.
MutNextCounterStuck(d, r) ==
  IF skip_counter[d][r] = 0 THEN SkipUpdates[d][r]
  ELSE IF module_offline_[d] THEN skip_counter[d][r] ELSE skip_counter[d][r] - 1

\* update_range_: a range whose countdown has ended is due and restarts it.
NextCounter(d, r) ==
  IF skip_counter[d][r] = 0 THEN SkipUpdates[d][r] ELSE skip_counter[d][r] - 1

\* The positions of the due ranges whose read is not queued yet, and the
\* enumerations of a set of positions in the order of register_ranges_.
DuePositions(d) ==
  {i \in DOMAIN Ranges[d] : /\ skip_counter[d][Ranges[d][i]] = 0
                            /\ Ranges[d][i] \notin QueuedKeys(command_queue_[d])}
Ascending(P) ==
  {f \in [1..Cardinality(P) -> P] : \A m, n \in DOMAIN f : m < n => f[m] < f[n]}

\* The poll cycle: a read of every due range is queued, in polling order.
update(d) ==
  /\ \E due \in Ascending(DuePositions(d)) :
       command_queue_' = [command_queue_ EXCEPT
         ![d] = @ \o [n \in DOMAIN due |-> NewItem(Ranges[d][due[n]], NoValue)]]
  /\ skip_counter' = [skip_counter EXCEPT ![d] = [r \in ReadKeys(d) |-> NextCounter(d, r)]]
  /\ UNCHANGED <<turn, busy, request, incoming_queue_, module_offline_>>

-----------------------------------------------------------------------------
SendOrGiveUp(d) == GiveUp(d) \/ \E encoded \in BOOLEAN : SendNext(d, encoded)
DeviceLoop(d) == process_modbus_data_(d) \/ SendOrGiveUp(d) \/ Idle(d)

Next ==
  \/ Reply("data")
  \/ Reply("exception")
  \/ Lose
  \/ StillWaiting
  \/ \E d \in Devs : process_modbus_data_(d)
  \/ \E d \in Devs, encoded \in BOOLEAN : SendNext(d, encoded)
  \/ \E d \in Devs : GiveUp(d)
  \/ \E d \in Devs : Idle(d)
  \/ \E d \in Devs : \E key \in Writes[d], val \in Values : queue_command(d, key, val)
  \/ \E d \in Devs : update(d)

Spec == Init /\ [][Next]_vars

\* The main loop keeps turning; a request in flight ends (RequestEnds of
\* ModbusTcp); a throttle delay that is looked at again and again has passed
\* in the end; the poll timer fires again and again.
FairSpec ==
  /\ Spec
  /\ WF_vars(StillWaiting \/ \E d \in Devs : DeviceLoop(d))
  /\ SF_vars(Reply("data") \/ Reply("exception") \/ Lose)
  /\ \A d \in Devs :
       /\ WF_vars(process_modbus_data_(d))
       /\ SF_vars(SendOrGiveUp(d))
       /\ WF_vars(update(d))

-----------------------------------------------------------------------------
(* Properties.                                                             *)

\* The command at the head of the sender's queue is the one in flight, so the
\* reply is credited to the command it answers: neither a give-up, nor a poll
\* cycle, nor a write may move the queue under a request in flight.
HeadIsInFlight ==
  busy => LET q == command_queue_[request.dev]
          IN q # <<>> /\ Head(q).key = request.key

\* Only the head of a queue has ever been sent, and never more than
\* MaxRetries + 1 times; no command is queued twice, so a queue is no longer
\* than the number of its device's commands.
QueueShape ==
  \A d \in Devs : LET q == command_queue_[d] IN
    /\ \A i, j \in DOMAIN q : q[i].key = q[j].key => i = j
    /\ \A i \in DOMAIN q : IF i = 1 THEN q[i].send_count_ <= MaxRetries + 1
                                    ELSE q[i].send_count_ = 0

\* A device is declared offline only by a command that was sent MaxRetries + 1
\* times in vain, and leaves that state only by a data reply of its own.
OfflineTransitions ==
  [][ \A d \in Devs :
        /\ ~module_offline_[d] /\ module_offline_'[d] =>
             ~busy /\ Head(command_queue_[d]).send_count_ = MaxRetries + 1
        /\ module_offline_[d] /\ ~module_offline_'[d] =>
             busy /\ ~busy' /\ request.dev = d ]_vars

Leaves(d) ==
  \A key \in Keys(d) :
    key \in QueuedKeys(command_queue_[d]) ~> key \notin QueuedKeys(command_queue_[d])

\* Every command queued on the device that runs first is answered, refused or
\* given up, however fast new polls and writes come in.
FirstDeviceServed == Leaves(Order[1])

\* So is every command of another device, provided that its loop finds the
\* channel free again and again (busy predecessors can take every turn).
OthersServed ==
  \A i \in 2..Len(Order) : []<>(turn = i /\ ~busy) => Leaves(Order[i])

\* A device that answers again is found online again, however seldom it was
\* polled while it was offline.
Recovers ==
  <>[][~Lose /\ ~Reply("exception") /\ ~SendNext(Order[1], FALSE)]_vars
    => <>[](~module_offline_[Order[1]])

\* Every command leaves its queue: neither retries, nor polls, nor the other devices
\* on the channel keep send_next_command_ from it for ever.
Served == FirstDeviceServed /\ OthersServed

\* module_offline_ changes only for a reason, and not for good.
OfflineAndBack == OfflineTransitions /\ Recovers

\* "update the payload of the queued command, replaces a previous command":
\* a write that is removed because it was acknowledged was sent with the value
\* it held.
AcknowledgedIsSent ==
  [][ Reply("data") => Head(command_queue_[request.dev]).val = request.val ]_vars
=============================================================================
