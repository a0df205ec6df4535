# A TLA+ development for myESPhome

The repository is a collection of ESPHome external components (`components/`) for
solar inverters, batteries, chargers, meters and radios. They run on an ESP32: one
main task calls every component's `loop()` in turn, timers and entity callbacks run
between those calls, and a few components also have a second task (`async_tcp`, an HTTP
worker) that shares state with the main one. What is hard in such code is not the
decoding of registers but the protocol state: who may use a shared channel now, which
request a late reply belongs to, what is left behind when a connection drops in the
middle of an exchange, what a retry does to something already done, and whether a
device that was given up is ever polled again.

This directory models those parts. Each module says which component it stands for;
`PROJECT.json` maps every definition to the source lines it translates, and lists runs,
mutants, findings, hazards and theorems.

1. [Inventory](#inventory) – the components, their state and their hard behaviours
2. [Modules](#modules) – how state and actions correspond to the code
3. [Runs](#runs) – what TLC checks, with which bounds
4. [Fairness](#fairness)
5. [Proofs](#proofs)
6. [Disagreements between code and documents](#disagreements-between-code-and-documents)
7. [Not modelled](#not-modelled)
8. [Plan](#plan)

To run a check, in this directory: `tlc -workers 2 -config MCModbusTcp.cfg MCModbusTcp`;
to check proofs: `tlapm ModbusTcp_proofs.tla`.

## Inventory

### Components with protocol state of their own

| Component | State it keeps | Operations | Interacts with |
|---|---|---|---|
| `modbustcp` | connection flag, receive buffers, pending transaction id and unit, `waiting_for_response`, reset request | AsyncClient callbacks (connect, disconnect, error, data); `loop`: reset, parse, reconnect, time-out; `send`, `set_host_and_reconnect` | `async_tcp` task; the devices registered on it |
| `modbustcp_controller` | per device: command queue with attempt counts, queue of answers, offline flag, poll countdown of each range | `loop`, `update`, `queue_command`, `on_modbus_data`, `on_modbus_error` | `modbustcp` (channel), entities, automations |
| `marstek` | connection sensor, idea of the RS485 control mode | reply and offline callbacks, `write_register`, reading the mode back | is a `modbustcp_controller` |
| `hms` | exchange state, fragments, resend and retransmission counts, power limit, work channel | `loop` (transmit, receive, verify, poll), `set_power_limit`, `reset_radio` | `cmt2300a`, other `hms` instances through its lock |
| `cmt2300a` | lock owner, channel | `try_lock_external`, `unlock_external`, channel register | `hms` |
| `mqtt_broker` | sessions (client id, will, keep-alive, subscriptions, output), connections | accept, packets, routing, keep-alive, write, close, `publish` | TCP clients; sink components such as `jackerysv3` |
| `jackerysv3` | last values of the main fields, list of plugs, freshness, what each entity last showed | sink callbacks, `loop`, poll, commands of entities, output | `mqtt_broker`; control loops |
| `hm`, `nrf24l01` | as `hms`, with channel hopping | as `hms` | each other through the radio's lock |
| `hmsw`, `tsungen3`, `deyemi` | socket state machine, request and deadline | connect, send, receive, time out | TCP peer; a worker task in two of them |
| `zensdk` | two bounded queues shared with an HTTP worker, last power command, last report, failure count | `update`, `set_power`, entity writes, `process_result_` | worker task; control loops |
| `indevolt` | the same, and per list of points the cycle under way, the believed work mode | `update`, timers, `set_power`, `process_result_`, the worker's batches | worker task; control loops |
| `rylr998`, `ryuw122`, `rylr999_ble` | AT command queue, deadline, received lines | send, response, time-out, reception | serial or BLE link |
| `faikin` | S21 request, retries, acknowledgement state | poll, ACK/NAK, set | serial link |
| `vecan`, `smartsolar`, `multirs` | bus address, claim state, register requests | address claim, requests | CAN bus |
| `dualpid`, `dualpidpcm` | mode, cached levels, lock-out latch, start-up and confirmation timers | `pid_update` at every value of the grid sensor, switches | charger, inverter or converter outputs |
| `offsr`, `bioffsr`, `minipid`, `solarpid` | integral, previous values | periodic regulation | sensors and outputs |
| `api_resync` | debounce timer, client list | resync | API server |
| `ch9438` | ring buffers | interrupt, read, write | UART children |

The remaining components decode registers or frames, drive a chip, or come from ESPHome
or third parties; `PROJECT.json` lists every one with the reason it is left out.

### What makes the modelled components correct, and what is hard about it

**`modbustcp`.** Devices only look at `waiting_for_response`; so it must say exactly
whether a request is in flight (unit id 0 included), a reply must be credited to the
request it answers, no byte of an earlier connection may be parsed, and whatever the
server and the link do, a request ends and a lost link is dialled again. Hard: the
callbacks run on another task, between any two steps of `loop()`; the reset they ask for
is honoured later; replies arrive late, cut, or after the client gave up; the buffer
overflows; a 16-bit id wraps.

**`modbustcp_controller`.** The reply handler takes the head of the queue for the command
in flight: nothing may move that head in between. Commands are retried and then given
up, devices go offline and are polled less often, several devices share the channel in
loop order. Hard: give-ups, poll cycles, writes and replies come in any order; a write
may change a command that is in flight; a device late in the order may never find the
channel free.

**`marstek`.** The connection sensor has two sources (callbacks of the controller, every
reply) and must agree with both; the mode write must precede the first command write and
may be refused or lost.

**`hms` / `cmt2300a`.** One chip, several instances: the lock must cover an exchange from
its first frame to its last retransmission and be given back on every path; a channel
change must be undone; a late fragment must not be taken for the answer of another
inverter. Hard: reset and power limit at any moment, frames that the chip refuses, lost, late
and reordered fragments.

**`mqtt_broker`.** At most one live session per client id; every accepted session is
announced as ended once; a will is published exactly when the client neither left nor was
replaced; a silent client is removed. Hard: sessions die in the middle of the read pass, of
a full backlog, of a takeover, of a failed write, and are only removed by a later pass; a
retransmitted QoS 2 message cannot be told from one whose first transmission was lost.

**`zensdk`, `indevolt`.** Two tasks and two queues that drop what does not fit. A power command
that repeats the last one is not sent again for a while, so "the last one was sent" must mean
that it is in force; what entities show before a write is sent must become true or be
corrected; polling must survive every lost job or result. Hard: the failure of a write is a
result like any other and may be dropped; a report is older than a command queued since;
the vendor's app changes the battery; in `indevolt` a failed batch ends the cycles of the
other lists too, and a power command is void unless a mode write before it got through.

**`dualpid`, `dualpidpcm`.** One function with many early returns drives two devices (or two
directions of one): they must never work against each other, a device must be at rest
when its mode ends, and an empty battery must not be discharged but must still be charged.
Hard: levels are cached and sent only when they change, on some paths only cached; the grid
sensor may have no value; the lock-out, the deadband, the start-up delay and the switches meet
in any order.

**`jackerysv3`.** Reports carry any subset of the fields, lists of plugs are replaced or merged,
entities are published optimistically and from reports. What is shown must follow the
battery, disappear when it falls silent, and two slots must never be the same plug. Hard:
spelling of topics, late clock, sessions that break, commands that the battery ignores.

## Modules

| Module | Models | Role |
|---|---|---|
| `RequestReply` | what `modbustcp` promises its devices | abstract specification |
| `ModbusTcp` | `components/modbustcp` | component, both tasks |
| `ModbusController` | `components/modbustcp_controller` | component, on the channel of `RequestReply` |
| `Marstek` | `components/marstek` hub | composition: extends `ModbusController` |
| `HmsRadio` | `components/hms` and the lock and channel of `components/cmt2300a` | component, several instances |
| `MqttBroker` | `components/mqtt_broker` | component |
| `ZenSdk` | `components/zensdk` | component, both tasks |
| `Indevolt` | `components/indevolt` | component, both tasks |
| `DualPid` | `components/dualpid` | component |
| `DualPidPcm` | `components/dualpidpcm` | component |
| `Jackery` | `components/jackerysv3` | component, behind the broker |
| `ModbusTcp_proofs`, `ModbusController_proofs` (with `Marstek`), `HmsRadio_proofs`, `MqttBroker_proofs`, `ZenSdk_proofs`, `DualPid_proofs`, `DualPidPcm_Indevolt_proofs`, `Jackery_proofs` | – | theorems |
| `MC…` with its `.cfg` files | – | instances for TLC |

Definitions named `Mut…` are mutated forms of the definition that follows them: a bug one
could plausibly write there. For every property of a passing run one of them makes TLC
find that property violated.

### `ModbusTcp`

Variables ending in `_` are the members of `ModbusTCP`. `pc` is the position of the main
task in its round; `link`, `conn`, `inCallback`, `toServer` and `wire` are the AsyncClient,
the network and the server; `issued`, `sentOn`, `answered` and `result` are history.

| Action | Code (`modbustcp.cpp`) |
|---|---|
| `OnConnect`, `OnDisconnect`, `Segment`, `on_rx_` | the lambdas installed by `connect()`, and `on_rx_` with its overflow branch |
| `ProcessReset`, `ProcessTake`, `ParseFrame`, `ParseGarbage`, `ParseInvalid`, `ParseEnd` | `process_rx_`: the reset exchange, the move under `rx_mutex_`, one turn of the parsing loop |
| `LoopTimers` | the rest of `loop()`: reconnection and reply time-out |
| `send_pdu_`, `set_host_and_reconnect`, `AppIdle` | device loops and automations |
| `ServerAnswer` | the Modbus server (external) |

A frame is two parts, so that segment boundaries, resets and overflows can cut it. A
reply has a kind: data, exception, rejected (wrong function code, truncated PDU) or with an
invalid header. Timers are choices: a deadline may or may not have passed when it is looked
at. Assumptions about the environment:

- `FreshTid`: nothing under way is `TidMod` (65536) requests behind, so a 16-bit id is not
  met again while its first bearer still travels.
- Bytes out of frame alignment are read as some header, which does not happen to carry the
  id in flight together with an expected function code.
- `AsyncClient::close(true)` runs `onDisconnect` before it returns; a segment the async task is
  already inside `onData` with is not called back; the async task runs one callback at a time.
- A callback that only stores two flags is one step, as is the exchange of
  `reset_requested_` with the `reset_link_state_` it guards; `on_rx_` and `ProcessTake` are
  critical sections of `rx_mutex_`. `onError` has the same effect as `onDisconnect`.

### `ModbusController`

`turn` is the position in a round of the main loop: 0 is `ModbusTCP::loop`, where the request
in flight may end (`Reply`, `Lose`, `StillWaiting`); `i` is the loop of the `i`-th device,
with the outcomes `process_modbus_data_`, `SendNext`, `GiveUp` and `Idle`. `update` (poll timer)
and `queue_command` (entities) may come at any point. The channel is the abstract one: that
a request ends with its own reply or is lost is what `ModbusTcp` is shown to implement. A
command is identified by what `is_equal` compares (`key`); a write also carries a value.
`encoded = FALSE` is a send that `ModbusTCP::send` refuses to encode: it counts as an attempt
and puts nothing in flight.

### `Marstek`

Each action is the controller's action with what the hub does in the same call:
`HubData` and `HubException` (`on_modbus_data`, `on_modbus_error`), `HubGiveUp` (offline
callback), `HubDispatch` (the switch reads the mode back), `write_register`. `mode` is the
register in the battery, `sampled` the value a read-back under way carries; a lost request may
have reached the battery or not.

### `HmsRadio`

`st[i]` is the state of one instance; the comment of the module lists the members each field
stands for. A step is one `loop()` tick of one instance that does not yield to another owner
(`process_tx_`, `IdleTick`, `WaitTick`), a new power limit or a reset. `WaitTick` is a whole
tick: receive, verify, and, when the exchange ends, unlock and go on as an idle tick. `air`
holds the fragments under way. The chip may refuse every frame (`cmt_start_tx_` fails), and the
reset button of an instance in `Buttons` may be pressed whenever no other instance owns the radio,
also in the middle of an exchange or of a ChannelChange; it succeeds, finds no chip (`silent`: the
channel stays) or cannot configure it (`unconfigured`). `dtu` is the DTU serial of each instance:
its own, or by default that of the board, which all instances share. `REACHABLE_THRESHOLD`
counts are saturated one above the threshold, which no test of the code tells apart. A CRC can
fail at any time, and holds only over fragments that make up one whole reply. `abandoned` is
history: the instances with a ChannelChange that was refused, or that a reset has abandoned, until
they are idle with none of its flags and on their own channel.

### `MqttBroker`

`pc` is the pass the main loop is in: accept, read (ascending), tick, close (descending),
rest, flush (descending); `todo` holds the sessions still to visit. One packet per step; a
SUBSCRIBE or UNSUBSCRIBE that is malformed after some filters keeps the earlier ones (`ok = FALSE`).
Sessions are numbered in order of creation. `story[n]` is what the client and the listener
saw. Which topics a filter matches is
the constant `Matched`; output is counted in packets. A sink does not call `publish()` from
inside a sink callback, as `mqtt_broker_component.h:21-22` demands and `jackerysv3` respects.

### `ZenSdk`

The variables ending in `_` are members; `running` is the job the worker waits for; `reported`
collects the fields of the last report the control logic reads, `shown` the states of the
entities; `device` is what the battery holds (external). `age` counts ticks since the last
power command up to `Refresh`.

| Action | Code (`zensdk.cpp`) |
|---|---|
| `update`, `enqueue_write_` | queue a poll or a write, or drop it |
| `set_request`, `repeat_request`, `write_number` | the outputs and numbers, all through `set_power` with its kick-start, limits, suppression and note of what was sent |
| `write_property`, `set_kickstart` | the other numbers, selects and switches; the kick-start switch |
| `TakeJob`, `Answered`, `Unanswered` | `run_task_`: take, perform (the request may have been carried out although it failed), post or drop |
| `process_result_` | one turn of the loop in `loop()`: `WriteResult`, `PollResult` with `parse_report_` |

The four fields of a power command always travel together and are one record; the other
writable properties are one value. `surprise` is history: the battery may differ from
`last_power_props_` for a reason the code cannot know (the app, a dropped failure).

### `Indevolt`

As `ZenSdk`, with three lists of points in batches. `polling`, `batch`, `running` and `outbox` are
the locals of `run_task_`; `late` is the watchdog of a list. `set_power` may queue two jobs, the
mode and the power command, with a step of the worker in between (`main = "power"`); so may
`update` (identification and poll). `main = "draining"` is the loop of `loop()`. One constant lists
the configurations, so that one run covers a hub with lists, one with numbers and a select,
and one with outputs.

### `DualPid`, `DualPidPcm`

`pid_update` is one action with one operator per early return or branch (`Deactivated`, `StayIdle`,
`StopInDeadband`, `Transition`, `Regulate` …), in the code's order; `TooSoon` is the call within the
same millisecond. Per direction a record holds the computed level, the cached ones and the level
the device really has (`dev`), so that "cached but not sent" can be told from "sent". The
PID itself is a choice of any level within the limits; the error takes one value per class
that the thresholds tell apart (`ErrorClasses`), or, in `DualPid`, is NaN: then the output, and in
DISCHARGE the level sent, is NaN too, on that update and on the next (through the derivative).
Comparisons are false on it (`Above`, `Below`, `AtMost`). The battery voltage is below, between or
above the two thresholds, or unknown. During a manual override the user sets devices by hand
(`byHand`), after which nothing is claimed about their levels; neither is it about levels the
devices hold from before the boot, since `setup()` sends none. `dis.stray` says so for the
inverter, until the controller sends it a level again. Limits and `reverse` are entities that can
be changed at run time; here they are constants, as constrained by `DualPidAssumption`. (The
limits of `dualpid.h`, 2 and 100, are percentages: they only become fractions, and satisfy it, when
the number entities exist, whose `setup()` divides them by 100.) In `DualPidPcm` the timers are flags that run out at some time, and a
NaN error is left out: both levels go to 0 and the next update recovers.

### `Jackery`

`battery` and `link` are the battery and its session with the broker (external): it connects,
subscribes, answers polls, volunteers reports, carries out or misses commands, reboots. `f_` and
`plugs_` are `JackeryState`, `hub` the flags of the hub, `shown`/`last`, `power` and `plug_switch` what
the entities show and what `publish_states_` last gave them.

| Action | Code |
|---|---|
| `loop`, `update` | `loop` with pending poll, publication and housekeeping; the poll timer |
| `on_message`, `on_subscribed`, `on_clients_changed` | the sink callbacks, with `ingest` and its merges |
| `control`, `send_plug_command`, `send_reboot` | switches, numbers and selects, plug switches, the button |
| `write_state` | the output, with the repetition after `RESEND_MS` |

Main fields stand for their kinds: one sensor, one switch, one number with its two limits. A
select behaves as the switch does. The output drives a number without limits of the battery, the
maximum output power being the only setting it can be configured for (`output/__init__.py`).
What `number_bounds` leaves uninitialised is a choice over `Garbage`.

## Runs

| Run | Instance | Distinct states |
|---|---|---|
| `modbustcp` | 2 ids, units {0, 1}, a buffer of 2 parts, 3 requests, 2 connections | 662,237 |
| `controller` | 2 devices, the first with 2 ranges (one polled every other cycle) and 1 write, 1 retry, offline skip 2 | 43,560 |
| `marstek` | 1 hub, the mode range, 2 writes, values on/off, 1 retry | 64,790 |
| `hms` | 2 inverters, with the default DTU serial and with one of their own, the first with a power limit and a reset button; replies of 2 fragments, 1 resend, 1 retransmission, 2 fragments in the air | 231,800 |
| `mqtt` | 2 connections, 1 client id and the empty one, 1 topic, a backlog of 2 packets | 307,792 |
| `zensdk` | queues of 1, charge up to 1, discharge up to 2, kick-start at 1, 2 failures to offline, 2 changes by users, app or network | 365,130 |
| `indevolt` | queues of 1; lists of 1 and 2 batches with 1 change, numbers and select with 1, outputs with 2 | 170,350 |
| `dualpid` | 5 levels and NaN, all error classes, all switches, all voltages, any levels at boot | 384,000 |
| `dualpidpcm` | 5 levels, all error classes, all switches, all voltages, any levels at boot | 188,800 |
| `jackery` | 5 hubs: sensor with every fault, number, output, 2 plugs and 2 slots (one pinned), 1 local plug | 177,823 |

Two further runs, `controller_ack` and `jackery_last_word`, expect a violation; they are in
[Disagreements](#disagreements-between-code-and-documents).

**`modbustcp`** – `TypeOK`; `WaitingIffAwaiting` (the flag devices test, unit 0 included);
`ConnectedIffOpen` (the cached flag is never left TRUE on a dead socket); `NoStaleBytes`;
`MatchIsOwn` (a frame with the pending id answers the pending request);
`ImplementsRequestReply` (refinement); `NeverStuck` (every request ends, and a lost link is dialled
again). Two ids are the hardest
modulus that `FreshTid` allows: every second request reuses an id, and a late answer meets the
next request at once. A buffer of two parts overflows with a third; three requests over two
connections are what a late reply of the first, a reset and a new request need. The safety
properties are also proved for all values.

**`controller`** – `HeadIsInFlight`, `QueueShape`; `Served` (every command leaves its queue; for a
device that is not first, provided that its loop finds the channel free again and again – a
busy predecessor can take every turn); `OfflineAndBack` (a device goes offline only after
`MaxRetries` + 1 attempts, comes back only by a data reply, and does come back when it answers
again). Queues need no bound: a command is queued once. Two devices are enough for a
predecessor and a successor. The type invariant is checked with that of the hub in `marstek`.

**`marstek`** – `HubInv` (types, and: once the battery has replied, the sensor is off only while
the controller counts it as offline); `SilenceNoticed` (a battery that falls silent after a data
reply is shown as disconnected in the end); `ReadBackCorrects` (the hub believes the mode before
the battery has it, and a read-back may be older than a queued write; as long as reads are
answered, the belief is right again and again).

**`hms`** – `LockIffActive` (the lock covers an exchange or a ChannelChange frame and nothing else,
but for an instance in `abandoned`; and an idle owner gives the lock back after its next frame);
`ChannelRestored` (with the same exception, which does not spread: no other instance takes the boot
channel for its own); `ReassemblyOK` (fragment numbers and attempts keep within their limits, and
nobody publishes the telemetry of an inverter with another DTU serial); `ExchangeEnds`;
`ResetRecovers` (an unreachable inverter becomes reachable only by a successful reset). Without
the exception the first two fail: it is what the code does, and what it leads to is under
[Observations](#observations). `View` keeps the fields that can still be read: `ask` while its
frame is on the air, the reassembly until the exchange ends. Threshold 0 makes an inverter
unreachable after one failure, so that the channel change is met soon; two fragments in the air
allow a reply to be overtaken by a fragment of another one. Only the first instance has a limit
and a button: what an instance does to itself with them, and to one without, is in the run.

**`mqtt`** – `TypeOK` (with the bound on the backlog), `OneSessionPerClient`, `EndsAndWills`,
`SilentIsRemoved`. Two connections make every takeover there is (of a live, a closing and a dead
session); the bound `MaxSessions` is what limits the run, and the theorems remove it for the first
three. A backlog of two packets is full after one answer and one publication, in either order.
All clients of this run ask for a keep-alive: without one, a silent session stays, as MQTT wants.

**`zensdk`** – `ZenInv` (types, and: a command that would be suppressed as a repetition is the one
the battery holds, unless a failure was dropped or the app interfered); `RequestInForce`;
`EntitiesAgree` (entities and online sensor); `KickStarts`. Queues of one entry drop at every
opportunity; two changes are what a request, a loss and a recovery need. Liveness is stated
for a battery that stays reachable and a main loop that keeps up with the worker
(`LoopKeepsUp`): a failure dropped for ever leaves nothing to act on.

**`indevolt`** – `IndInv` (types, with queues within their lengths, batches within the list and the
counter within 255; and: the identification is under way at most once, only while
`info_pending_` is set); `PollingGoesOn` (every list goes on being polled and its cycles go on ending,
whatever results were lost, and the identification succeeds unless one of its results was
dropped); `RequestInForce`; `OnlineFollows`. The premise `KeepUp` says what `LoopKeepsUp` says, that
`update` and `set_power` find room, and that a watchdog runs out only for a cycle whose end was
lost.

**`dualpid`** – `Interlocked` (outside DISCHARGE the inverter is at rest if the controller knows its
level, the rectifier is off outside CHARGE, no discharge under the lock-out; together: the charger
never works against an inverter whose level the controller knows); `EmptyBatteryCharges` (the
lock-out, which only charging can release, does not prevent charging). Five levels lie below, at and
above the inverter's minimum, which is also the minimum discharge level, as by default. `View`
leaves out the level the charger really holds, which nothing reads.

**`dualpidpcm`** – `ConverterOK` (current flows only the way the direction switch says and only
while the converter is on; it is on exactly in an active mode; no discharge under the
lock-out); `SwapsAtMinimum` (the direction is never switched under load);
`EmptyBatteryCharges`.

**`jackery`** – `JackInv` (types with the bound on the list of plugs; two slots never stand for the
same plug); `SensorsHonest` (a sensor follows the battery while it stays subscribed, and shows
nothing once no report arrives any more); `PlugsShown` (the slots show exactly the plugs that
stay bound, whatever was merged before); `OutputInForce` (the output prevails although commands
are missed and others change the setting). One report and one command under way at a time: an
order between two reports is an order of their sending, since the session keeps it. `PlugCap` is
the number of plugs there are in this run, so a full list is never cut off; the theorem covers that.

## Fairness

Nothing is assumed of servers, clients, inverters or links (except where `Jackery` says so). What is
assumed is that the main loop keeps running and that time passes:

- `ModbusTcp`: `WF` of the steps of the main loop; `SF` of "the reply time-out is found
  expired" and of "the reconnection is due and accepted". `loop()` looks at each deadline in
  every round, and `millis()` grows; `connect()` is retried after each refusal.
- `ModbusController`: `WF` of the loop; `SF` that a request in flight ends (`RequestEnds`, checked
  on `ModbusTcp`) and that a device's loop, which finds the channel free and its throttle
  delay passed infinitely often, sends; `WF` of the poll timer.
- `Marstek`: the same, for the composed actions.
- `HmsRadio`: per instance, `SF` of a tick that ends a transmission, starts from idle or finds its
  deadline passed; the tick yields while another instance owns the radio. It includes that the
  chip takes a frame in the end: a ChannelChange refused for ever is retried for ever. That an
  exchange which has lost its lock ends is not claimed (`ExchangeEnds` leaves it out): another
  instance that polls again in the tick that ends its own exchange may keep it out.
- `MqttBroker`: `WF` of the loop and `SF` of `NextRound` (`read_` takes a bounded number of bytes
  per round; other components publish a bounded number of times); a session that is not
  heard any more is found expired.
- `ZenSdk`, `Indevolt`: `WF` of both tasks and of time; an HTTP request ends, because it has
  time-outs; `SF` of the poll timers and of the controllers that repeat their output, because
  they do not fire only at moments when the queue is full.
- `DualPid`, `DualPidPcm`: `WF` of `Update`, the grid sensor goes on publishing.
- `Jackery`: `WF` of `loop` with its housekeeping, of the poll timer, of messages the broker has
  received, of the output's control loop and of time; `SF` of "the battery answers a poll" and
  "the battery carries out a command": it does not ignore every one of them. Disconnections,
  missed commands and silence stay possible; the properties say under which of them they hold.

## Proofs

TLAPS checks these for every value of the constants, from the named assumptions of the
component modules. They state every invariant that a passing run checks, and the action
properties among what the runs check. Each theorem needs a stronger, inductive invariant.

- **`ModbusTcp_proofs`**: `TypeTheorem`, `WaitingTheorem`, `ConnectedTheorem`, and
  `NoStaleBytesTheorem`. The last is not inductive: that the buffers are clean once the reset has
  been honoured needs that nothing travels on a link that is not open and that what is
  inside `onData` on an open connection belongs to it (`OwnBytes`), which holds because a
  connection only opens when no callback is in progress and its opening requests a reset.
  Then `MatchTheorem` and `RefinementTheorem`. The invariant `Pairing` says
  that an id is the request's number modulo `TidMod`, that nothing under way is a full turn of the
  counter behind (from `FreshTid`), that the server holds only requests it has not answered, and
  that every part under way belongs to an answer it gave. Then equal ids mean equal
  requests (`ModInjective`), and each action maps to a step of `RequestReply` or to a stutter.
- **`ModbusController_proofs`**: `HeadTheorem` and `QueueTheorem`, for any number of devices,
  ranges and writes. `IInv` joins the two properties with the type of the queues; the lemmas
  `TailShape`, `AttemptedShape`, `QueuedShape` and `PolledShape` say what each queue operation
  preserves. `TypeTheorem` (the rest of the state, `RestOK`, whose steps need `IInv`: a reply moves
  the head of the queue of the device that the request names) and `OfflineTheorem`, the safety half
  of `OfflineAndBack`. On top of that the hub of `marstek`, `HubTheorem`: the hub takes
  the controller's steps, so `IInv` and `RestOK` go over to it, and `write_register` is the only
  step of its own; `Valued` adds that a command that writes carries a value.
- **`HmsRadio_proofs`**: `LockTheorem` and `ChannelTheorem`, for any number of instances, frames
  refused and resets at any time. The invariant `IInv` describes every instance (`InstanceOK`:
  whatever has happened, the two flags of a ChannelChange are set together, and set while its
  frame is on the air) and says of one outside `abandoned` that it is on its own channel and holds
  the lock exactly while it uses the radio; whoever holds it besides has the flag that gives it
  back. `ReassemblyTheorem`: its invariant `RInv` says that an instance holds fragments that bear
  its DTU serial only, knows the end of the reply once the last fragment is there, and asks again
  only for a fragment that exists. It assumes nothing of the serials: with distinct ones it says that
  nobody publishes another inverter's telemetry. `RecoverTheorem` needs `RInv` for its steps: an
  unreachable instance is not in an exchange whose reply would count.
- **`MqttBroker_proofs`**: `TypeTheorem` (with the bound on the backlog), `OneSessionTheorem`,
  `EndsAndWillsTheorem`. `Account` ties the record of an open session to its story and says that a
  removed session has announced its end, and its will where due, exactly once.
- **`ZenSdk_proofs`**: `InForceTheorem`. `SuppressedIsInForce` speaks of the moments when no power
  command is under way; `InForce` follows the last one on its way, from the queue to the worker, to
  the battery, and to the result that would say it failed.
- **`DualPid_proofs`**: `InterlockTheorem`. Levels are sent only when they differ from the cached
  ones, so `Rest` must say that a level cached as one at rest is not above rest in the device; and
  an update that activates the controller starts in IDLE without stopping anything, so
  `Activated` must say that a deactivated one is in IDLE. A level cached as NaN is sent again
  whatever it is followed by, except by a deactivation, which is what `stray` records.
- **`DualPidPcm_Indevolt_proofs`**, which serves two components that share nothing.
  `ConverterTheorem` and `SwapTheorem`: the parts of `ConverterOK` need each other, with `Activated` as
  above, `Sync` (every cached level is also sent) and `Belongs` (a level above zero belongs to
  the active mode). `IndevoltTheorem`: a poll job opens a cycle at batch 0, so
  "the worker asks only for batches there are" needs that poll jobs are only queued for lists
  that are not empty (`Asked`); the identification is followed from the queue to the worker to the
  result queue (`OneInfo`). `CyclesTheorem` does the same for the cycles of a list (`CycleOK`), which
  have one place more, results that wait to be posted: `OneCycle`, no list is polled twice at once and
  `poll_pending_` is set while it is polled. It holds under `WatchdogsInTime`, which is stated as
  a hypothesis because the code cannot ensure it: it depends on how long requests take.
- **`Jackery_proofs`**: `SlotsTheorem`. Two slots are apart because `plugs_` names no plug twice,
  whatever lists, merges and events built it up. A report is taken item by item with a recursive
  function, so the proof first shows that this function exists (a least counterexample, with
  `WFMin`) and then carries the invariant along its items. It assumes that no two slots are
  pinned to the same plug, which the YAML schema does not check.

Proved without a run of its own: `TypeTheorem` and `OfflineTheorem` of `ModbusController_proofs`, which
state parts of properties that runs check, and `CyclesTheorem`.

Only model-checked: everything under fairness, since liveness and `ENABLED` are outside what TLAPS
proves: `NeverStuck`, `Served`, the liveness half of `OfflineAndBack`, `SilenceNoticed`,
`ReadBackCorrects`, `ExchangeEnds`, `SilentIsRemoved`, `KickStarts`, `RequestInForce` and what entities
show in `zensdk`, `indevolt` and `jackery`, `PollingGoesOn`, `EmptyBatteryCharges`, `OutputInForce`.

## Disagreements between code and documents

Each has a run whose property states the document's sentence and is violated by the code.

| Run | Document | What happens |
|---|---|---|
| `controller_ack` | `modbustcp_controller.cpp:275-276` "update the payload of the queued command / replaces a previous command" | A write of a second value while the first is in flight changes the payload of the head; the reply to the first value removes it, and the second is never sent. |
| `jackery_last_word` | `jackerysv3_switch.cpp:24` "optimistic; the next report from the battery has the last word"; `jackerysv3/README.md:54` "shown optimistically and corrected by the next report" | `publish_states_` compares a report with the value it published last, not with the value shown. A command the battery misses leaves the switch (also a number or a select) wrong for as long as the battery's own value does not change. |

### Observations

Made while modelling, without a run of their own. The properties of `hms` and `dualpid` are stated
so that they hold of the code as it is; their exceptions are what follows here first.

- `hms.cpp:817`, `1072`: a ChannelChange that the chip refuses leaves the lock taken and the radio on
  the boot channel; the next ChannelChange then saves that channel as the one to go back to. A reset
  in the middle of a ChannelChange keeps `tx_release_lock_after_`: the next exchange of the
  instance gives its lock away after its first frame, and another instance transmits during its
  exchange. `hms/README.md:327` says "no concurrent exchanges are possible on a single chip", and
  `251-263` recommends a reset every 30 seconds just while an inverter is unreachable, which is when
  ChannelChanges are sent.
- `hms.cpp:892-894`, `963`: all instances share the DTU serial of the board by default, and the filter
  compares nothing else: a late reply of one inverter is published by the instance of another.
- `hms.cpp:1059`, `657`: an unreachable inverter is never polled again; only a reset of the radio makes
  it reachable. `hms/README.md:374-375` says "the reachability recovery is automatic".
- `mqtt_broker.cpp:656`: a QoS 2 message whose first transmission was lost is acknowledged when it
  comes with DUP, and delivered to nobody; `mqtt_broker.h:10` says "delivered once".
- `dualpid.cpp:189`: when the grid sensor has no value in DISCHARGE, NaN is sent and cached as the
  level; if the controller is deactivated then, NaN is not above the minimum, no stop is sent, rest is
  noted, and the inverter is not stopped until it is sent another level: a charge may start against it.
- `dualpid.cpp:66-74`: after a boot the inverter goes on at its old level, which is noted as rest,
  until it is sent another level.
- `marstek.cpp:58`: an exception sets the sensor of a battery that the controller counts as offline;
  when it falls silent again no callback runs, and the sensor stays ON (`SilenceNoticed` is stated
  for that reason); `marstek/README.md:289` says "OFF once it is declared offline".
- `marstek.cpp:67`: `rs485_enabled_` is set when the enabling write is queued; until the next
  read-back, command writes go out without it when that write was refused or lost.
- `indevolt.cpp:438`: when the result of the identification is dropped, `info_pending_` stays set and
  the identification is never tried again; the poll cycles have a watchdog, this has none.
- `indevolt.cpp:375`: when the watchdog runs out for a cycle that is still under way, two cycles of the
  list are; the end of the first clears `poll_pending_` for the second (`OneCycle` fails without
  `WatchdogsInTime`).
- `jackery_state.cpp:1350`: `number_bounds` returns true with one output unset when the battery
  reported only one limit; `publish_states_` reads both.
- `dualpid.cpp:189`: with a minimum discharge level above the inverter's own, deactivation leaves the
  inverter at that level instead of at rest.
- `dualpidpcm.cpp:616`: 0 stands for "timer not running" and is also a value of `millis()`: one
  update in 49.7 days restarts the confirmation.
- `modbustcp.cpp:111`: a reset requested by a connection that came up before the main loop
  honoured the previous one also forgets a request written on the new connection; it ends as
  lost, and is retried.
- `modbustcp_controller.h:378`: a command is sent `max_cmd_retries` + 1 times;
  `marstek/README.md:85` calls the number "Attempts before the battery is declared offline."
- `mqtt_broker.cpp:361`: a subscriber dropped for its backlog is counted as delivered to.
- `mqtt_broker.cpp:600`: a takeover skips a session that is already dead, so its will goes
  out after the new CONNECT.

## Not modelled

- Decoding and scaling of registers, frames, reports and topics into entities: no protocol state.
- The PID formulas, gains and stored preferences of the regulators: arithmetic on floating point.
- The bytes of HTTP and JSON in `zensdk` and `indevolt`; CT meters, derived values and text sensors
  of `jackerysv3`.
- `create_register_ranges_` (the ranges are a constant of `ModbusController`), the server mode of
  the controller, and `topic_matches` (the constant `Matched`): pure algorithms, in the plan.
- Changes of the limits and of `reverse` in `dualpid` and `dualpidpcm` at run time, and errors that
  are NaN in `dualpidpcm`.
- A Modbus server that answers a request twice; devices of one client with the same address.
- Wrap-around of `millis()` in deadlines: time is a choice in these modules.
- The CMT2300A register driver, the AsyncTCP library, ESPHome itself.
- The components listed as `not_modelled` in `PROJECT.json`, each with its reason.

Measured in lines, most of the repository is of the last kind and has no behaviour of its own to
model: generated protobuf code and its decoder (`meshtastic`, `hmsw`), tables of registers and
points (`sunspec_client`, `jk_rs485_bms`, `victron`), drivers of chips and displays, wrappers of
third-party libraries, and copies of ESPHome's own components. A share of the lines
comparable to that of a single program cannot be reached by faithful models; what the modules
cover is most of the code of the components they model.

## Plan

Done, in this order: `RequestReply` and `ModbusTcp` with its refinement; `ModbusController`;
`Marstek` on top of it; `HmsRadio`; `MqttBroker`; their theorems; `ZenSdk`, `Indevolt`, `DualPid`,
`DualPidPcm`, `Jackery`; theorems for every invariant that a run checks.

Next:

1. The theorems below.
2. Pure algorithms against reference definitions: `create_register_ranges_` (`RegisterRanges`)
   and `topic_matches` (`TopicMatch`), over bounded inputs.
3. `HmRadio` (`hm`, `nrf24l01`), with channel hopping, next to `HmsRadio`; an abstract
   specification of the shared radio that both implement.
4. `AtQueue` (`rylr998`, `ryuw122`), `Faikin`, `Hmsw`: request, time-out and retry on a serial line
   or a socket; `tsungen3` and `deyemi` next to `ZenSdk`.
5. `OffSr`, `ApiResync`, `VeCan` (address claim), `AnkerSolix` and `DeyeLvhy` (after `Marstek`).
6. A small clock module for deadlines under the wrap-around of `millis()`.

Theorems to add, besides those of the new modules: abstract specifications that `ZenSdk` and
`Indevolt` (a lossy request queue with one worker) and `HmsRadio` (a shared radio) implement; in
`Indevolt`, what a suppressed power command is worth, as in `ZenSdk`; that the slots of `Jackery` keep the order of the plugs.
