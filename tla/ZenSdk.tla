------------------------------- MODULE ZenSdk -------------------------------
(***************************************************************************)
(* zensdk: the hub of one Zendure SolarFlow battery.  Two threads share    *)
(* two bounded queues:                                                     *)
(*  - the main task (update, loop, the entities' control calls) queues     *)
(*    jobs and never waits: a job that does not fit is dropped;            *)
(*  - the worker (run_task_) takes one job at a time, performs a blocking  *)
(*    HTTP request and posts the result: a result that does not fit is     *)
(*    dropped.                                                             *)
(* A power command that repeats the last one is not sent again until       *)
(* POWER_REFRESH_MS has passed.  The battery (device, up) is external: it  *)
(* carries out the writes that reach it, answers while it is up, and may   *)
(* be changed from the vendor's app.  Powers are in an arbitrary unit.     *)
(***************************************************************************)
EXTENDS Integers, Sequences

CONSTANTS
  JobCap,           \* 6: length of job_queue_
  ResultCap,        \* 6: length of result_queue_
  MaxCharge,        \* max_charge_power_
  MaxDischarge,     \* max_discharge_power_
  KickPower,        \* KICKSTART_POWER_W
  KickBoost,        \* KICKSTART_BOOST_W
  Refresh,          \* POWER_REFRESH_MS, in ticks
  OfflineAfter,     \* OFFLINE_AFTER_FAILURES
  FailMax,          \* 255: where consecutive_failures_ saturates
  FlashOnStop,      \* write_flash_on_stop_
  OffGrid,          \* the battery feeds an off-grid load
  Restored,         \* the state the kick-start switch is restored to
  PropValues,       \* values of the properties other than power
  Changes           \* bound: how often the users, the app or the network change something

ASSUME ZenSdkAssumption ==
  /\ {JobCap, ResultCap, KickPower, KickBoost, OfflineAfter} \subseteq Nat \ {0}
  /\ {MaxCharge, MaxDischarge, Refresh, FailMax, Changes} \subseteq Nat
  /\ FailMax >= OfflineAfter
  /\ {FlashOnStop, OffGrid, Restored} \subseteq BOOLEAN
  /\ PropValues # {}

VARIABLES
  job_queue_, result_queue_,
  running,                  \* the job the worker is busy with, or NoJob
  draining,                 \* loop() has results left to process
  last_power_valid_, last_power_props_,
  age,                      \* millis() - last_power_ms_, up to Refresh
  reported,                 \* grid_off_power_, home_*_w_ and *_limit_w_
  consecutive_failures_,
  online,                   \* state of the online sensor
  shown,                    \* states of the number, select and switch entities
  request,                  \* charge_request_w_ and discharge_request_w_
  kickstart_,
  device, up,               \* the battery, and whether it can be reached
  changes,                  \* changes left
  surprise                  \* the device may have missed or lost the last power command

queueVars == <<job_queue_, result_queue_, running>>
powerVars == <<last_power_valid_, last_power_props_, age>>
viewVars == <<reported, consecutive_failures_, online, shown>>
zenVars == <<queueVars, draining, powerVars, viewVars, request, kickstart_,
             device, up, changes, surprise>>

Powers == -MaxCharge .. MaxDischarge

Lower(a, b) == IF a < b THEN a ELSE b
Upper(a, b) == IF a > b THEN a ELSE b

(***************************************************************************)
(* Commands, jobs and results                                              *)
(***************************************************************************)

\* smartMode, acMode, outputLimit and inputLimit: always sent together.
Commands == [smart : 0..1, ac : 1..2, out : 0..MaxDischarge, inp : 0..MaxCharge]

NoCommand == [smart |-> 1, ac |-> 2, out |-> 0, inp |-> 0]

NoJob == [type |-> "none"]
PollJob == [type |-> "poll"]
PowerJob(c) == [type |-> "power", cmd |-> c]
PropJob(v) == [type |-> "prop", val |-> v]

Jobs == {PollJob} \cup {PowerJob(c) : c \in Commands} \cup {PropJob(v) : v \in PropValues}

\* What the battery holds and reports.
Devices == [cmd : Commands, prop : PropValues, moving : BOOLEAN]

PollOk(d) == [type |-> "poll", ok |-> TRUE, report |-> d]
Failed(type) == [type |-> type, ok |-> FALSE]
Written(type) == [type |-> type, ok |-> TRUE]

Results == {PollOk(d) : d \in Devices} \cup {Failed(t) : t \in {"poll", "power", "prop"}}
             \cup {Written(t) : t \in {"power", "prop"}}

\* Type correctness: the queues keep within their lengths, commands and entities
\* within the configured limits, and the failure counter does not pass 255.
ZenTypeOK ==
  /\ job_queue_ \in Seq(Jobs) /\ Len(job_queue_) <= JobCap
  /\ result_queue_ \in Seq(Results) /\ Len(result_queue_) <= ResultCap
  /\ running \in Jobs \cup {NoJob}
  /\ {draining, last_power_valid_, kickstart_, up, surprise} \subseteq BOOLEAN
  /\ last_power_props_ \in Commands
  /\ age \in 0..Refresh
  /\ reported \in [offgrid : BOOLEAN, homeOut : BOOLEAN, homeIn : BOOLEAN,
                   outLim : 0..MaxDischarge, inLim : 0..MaxCharge]
  /\ consecutive_failures_ \in 0..FailMax
  /\ online \in {"unknown", "on", "off"}
  /\ shown \in [power : Powers, prop : PropValues]
  /\ request \in [charge : 0..MaxCharge, discharge : 0..MaxDischarge]
  /\ device \in Devices
  /\ changes \in 0..Changes

\* The signed power of a command: acMode 2 is output, acMode 1 is input.
Setpoint(c) == IF c.ac = 2 THEN c.out ELSE -c.inp

ZenInit ==
  /\ job_queue_ = <<>> /\ result_queue_ = <<>> /\ running = NoJob
  /\ draining = FALSE
  /\ last_power_valid_ = FALSE /\ last_power_props_ = NoCommand /\ age = 0
  /\ reported = [offgrid |-> FALSE, homeOut |-> FALSE, homeIn |-> FALSE, outLim |-> 0, inLim |-> 0]
  /\ consecutive_failures_ = 0 /\ online = "unknown"
  /\ request = [charge |-> 0, discharge |-> 0]
  /\ kickstart_ = Restored
  /\ device = [cmd |-> NoCommand, prop |-> CHOOSE v \in PropValues : TRUE, moving |-> FALSE]
  /\ shown = [power |-> 0, prop |-> device.prop]
  /\ up = TRUE
  /\ changes = Changes
  /\ surprise = FALSE

(***************************************************************************)
(* The main task: queueing                                                 *)
(***************************************************************************)

\* xQueueSend without waiting.
Fits == Len(job_queue_) < JobCap

\* update(): a poll that does not fit is skipped.
update ==
  /\ ~draining
  /\ Fits
  /\ job_queue_' = Append(job_queue_, PollJob)
  /\ UNCHANGED <<result_queue_, running, draining, powerVars, viewVars, request, kickstart_,
                 device, up, changes, surprise>>

\* A write that does not fit is dropped.
enqueue_write_(job) ==
  job_queue_' = IF Fits THEN Append(job_queue_, job) ELSE job_queue_

\* Mutant: only a limit above the threshold is raised.
MutKickedAbove(w) ==
  IF kickstart_ /\ w = KickPower /\ reported.outLim > KickPower /\ ~reported.homeOut
  THEN Lower(reported.outLim + KickBoost, 2 * KickPower)
  ELSE w

\* The kick-start: a request of exactly the start threshold that the device
\* holds a limit for and does not follow is raised a little.
Kicked(w) ==
  CASE kickstart_ /\ w = KickPower /\ reported.outLim >= KickPower /\ ~reported.homeOut
         -> Lower(reported.outLim + KickBoost, 2 * KickPower)
    [] kickstart_ /\ w = -KickPower /\ reported.inLim >= KickPower /\ ~reported.homeIn
         -> -Lower(reported.inLim + KickBoost, 2 * KickPower)
    [] OTHER -> w

Clamped(w) == Upper(-MaxCharge, Lower(w, MaxDischarge))

\* The command for a request of w: zero keeps the limits out of flash unless
\* write_flash_on_stop_ is set and the battery feeds no off-grid load.
Command(w) ==
  LET p == Clamped(Kicked(w))
  IN CASE p > 0 -> [smart |-> 1, ac |-> 2, out |-> p, inp |-> 0]
       [] p < 0 -> [smart |-> 1, ac |-> 1, out |-> 0, inp |-> -p]
       [] OTHER -> [smart |-> IF FlashOnStop /\ ~reported.offgrid THEN 0 ELSE 1,
                    ac |-> 2, out |-> 0, inp |-> 0]

\* Mutant: an identical command is never sent again.
MutSuppressedForEver(c) == last_power_valid_ /\ c = last_power_props_

\* An identical command is sent again only after the refresh delay.
Suppressed(c) == last_power_valid_ /\ c = last_power_props_ /\ age < Refresh

\* Mutant: the command counts as sent although it was dropped.
MutNotePowerAlways(c) ==
  /\ last_power_valid_' = TRUE
  /\ last_power_props_' = c
  /\ age' = 0
  /\ surprise' = FALSE

\* last_power_valid_ is whether the command was queued.
NotePower(c) ==
  /\ last_power_valid_' = Fits
  /\ last_power_props_' = IF Fits THEN c ELSE last_power_props_
  /\ age' = IF Fits THEN 0 ELSE age
  /\ surprise' = (surprise /\ ~Fits)

set_power(w) ==
  LET c == Command(w)
  IN \/ /\ Suppressed(c)
        /\ UNCHANGED <<job_queue_, powerVars, surprise>>
     \/ /\ ~Suppressed(c)
        /\ enqueue_write_(PowerJob(c))
        /\ NotePower(c)

\* A call on the main task that is a change by the user.
UserCall ==
  /\ ~draining
  /\ changes > 0
  /\ changes' = changes - 1
  /\ UNCHANGED <<result_queue_, running, draining, reported, consecutive_failures_, online,
                 device, up>>

\* set_charge_request and set_discharge_request: the controllers' outputs.
set_request(ch, dis) ==
  /\ request # [charge |-> ch, discharge |-> dis]
  /\ ch = request.charge \/ dis = request.discharge
  /\ UserCall
  /\ request' = [charge |-> ch, discharge |-> dis]
  /\ set_power(dis - ch)
  /\ UNCHANGED <<kickstart_, shown>>

\* A controller that repeats its output on every cycle.
repeat_request ==
  /\ ~draining
  /\ set_power(request.discharge - request.charge)
  /\ UNCHANGED <<result_queue_, running, draining, viewVars, request, kickstart_,
                 device, up, changes>>

\* The number entities for power (input limit, output limit and signed
\* setpoint, here one entity with a signed value) show the value at once.
write_number(w) ==
  /\ UserCall
  /\ set_power(w)
  /\ shown' = [shown EXCEPT !.power = w]
  /\ UNCHANGED <<request, kickstart_>>

\* Property writes of number, select and switch entities, shown at once.
write_property(v) ==
  /\ UserCall
  /\ enqueue_write_(PropJob(v))
  /\ shown' = [shown EXCEPT !.prop = v]
  /\ UNCHANGED <<powerVars, request, kickstart_, surprise>>

set_kickstart ==
  /\ UserCall
  /\ kickstart_' = ~kickstart_
  /\ UNCHANGED <<job_queue_, powerVars, request, shown, surprise>>

(***************************************************************************)
(* The worker task                                                         *)
(***************************************************************************)

TakeJob ==
  /\ running = NoJob
  /\ job_queue_ # <<>>
  /\ running' = Head(job_queue_)
  /\ job_queue_' = Tail(job_queue_)
  /\ UNCHANGED <<result_queue_, draining, powerVars, viewVars, request, kickstart_,
                 device, up, changes, surprise>>

\* The battery starts moving power above the threshold and then goes on in
\* the same direction until told otherwise (external).
Moves(d, c) ==
  \/ c.out > KickPower \/ c.inp > KickPower
  \/ d.moving /\ Setpoint(c) * Setpoint(d.cmd) > 0

\* The battery carries out a job (external).
Applied(d, job) ==
  CASE job.type = "power" -> [d EXCEPT !.cmd = job.cmd, !.moving = Moves(d, job.cmd)]
    [] job.type = "prop" -> [d EXCEPT !.prop = job.val]
    [] OTHER -> d

\* xQueueSend of the result: dropped when the queue is full.
Post(r) ==
  result_queue_' = IF Len(result_queue_) < ResultCap THEN Append(result_queue_, r) ELSE result_queue_

Lost(r) == r.type = "power" /\ ~r.ok /\ Len(result_queue_) >= ResultCap

\* http_request_ ends with an answer of status 2xx.
Answered ==
  /\ running # NoJob
  /\ up
  /\ device' = Applied(device, running)
  /\ Post(IF running.type = "poll" THEN PollOk(device) ELSE Written(running.type))
  /\ running' = NoJob
  /\ UNCHANGED <<job_queue_, draining, powerVars, viewVars, request, kickstart_,
                 up, changes, surprise>>

\* It fails (no connection, time-out, no valid response, another status); the
\* request may have been carried out all the same.
Unanswered ==
  /\ running # NoJob
  /\ ~up
  /\ device' \in {device, Applied(device, running)}
  /\ Post(Failed(running.type))
  /\ surprise' = (surprise \/ Lost(Failed(running.type)))
  /\ running' = NoJob
  /\ UNCHANGED <<job_queue_, draining, powerVars, viewVars, request, kickstart_, up, changes>>

(***************************************************************************)
(* The main task: results                                                  *)
(***************************************************************************)

\* A failed power command is sent again on the next request.
WriteResult(r) ==
  /\ last_power_valid_' = (last_power_valid_ /\ (r.ok \/ r.type # "power"))
  /\ UNCHANGED viewVars

\* Mutant: the power entity keeps its value while a command counts as sent.
MutReportKeepsPower(d) ==
  [power |-> IF last_power_valid_ THEN shown.power ELSE Setpoint(d.cmd), prop |-> d.prop]

\* Every entity is published from the report.
Published(d) == [power |-> Setpoint(d.cmd), prop |-> d.prop]

\* parse_report_: the values the control path needs, and every entity.
parse_report_(d) ==
  /\ reported' = [offgrid |-> OffGrid,
                  homeOut |-> d.moving /\ d.cmd.out > 0, homeIn |-> d.moving /\ d.cmd.inp > 0,
                  outLim |-> d.cmd.out, inLim |-> d.cmd.inp]
  /\ shown' = Published(d)

Failures == Lower(consecutive_failures_ + 1, FailMax)

PollResult(r) ==
  /\ \/ /\ r.ok
        /\ parse_report_(r.report)
        /\ consecutive_failures_' = 0
        /\ online' = "on"
     \/ /\ ~r.ok
        /\ consecutive_failures_' = Failures
        /\ online' = IF Failures >= OfflineAfter THEN "off" ELSE online
        /\ UNCHANGED <<reported, shown>>
  /\ UNCHANGED last_power_valid_

\* loop(): drains the queue; no other call of the main task comes in between.
process_result_ ==
  /\ result_queue_ # <<>>
  /\ result_queue_' = Tail(result_queue_)
  /\ draining' = (Len(result_queue_) > 1)
  /\ LET r == Head(result_queue_)
     IN IF r.type = "poll" THEN PollResult(r) ELSE WriteResult(r)
  /\ UNCHANGED <<job_queue_, running, last_power_props_, age, request, kickstart_,
                 device, up, changes, surprise>>

(***************************************************************************)
(* The environment                                                         *)
(***************************************************************************)

Tick ==
  /\ age < Refresh
  /\ age' = age + 1
  /\ UNCHANGED <<queueVars, draining, last_power_valid_, last_power_props_, viewVars, request,
                 kickstart_, device, up, changes, surprise>>

GoesDown ==
  /\ up
  /\ changes > 0
  /\ up' = FALSE
  /\ changes' = changes - 1
  /\ UNCHANGED <<queueVars, draining, powerVars, viewVars, request, kickstart_, device, surprise>>

ComesUp ==
  /\ ~up
  /\ up' = TRUE
  /\ UNCHANGED <<queueVars, draining, powerVars, viewVars, request, kickstart_,
                 device, changes, surprise>>

\* The vendor's app stops the battery.
AppStops ==
  /\ changes > 0
  /\ changes' = changes - 1
  /\ device' = Applied(device, PowerJob(NoCommand))
  /\ surprise' = TRUE
  /\ UNCHANGED <<queueVars, draining, powerVars, viewVars, request, kickstart_, up>>

UserCalls ==
  \/ \E ch \in 0..MaxCharge, dis \in 0..MaxDischarge : set_request(ch, dis)
  \/ \E w \in Powers : write_number(w)
  \/ \E v \in PropValues : write_property(v)
  \/ set_kickstart

ZenNext ==
  \/ update
  \/ repeat_request
  \/ UserCalls
  \/ TakeJob
  \/ Answered
  \/ Unanswered
  \/ process_result_
  \/ Tick
  \/ GoesDown
  \/ ComesUp
  \/ AppStops

ZenSpec == ZenInit /\ [][ZenNext]_zenVars

\* The worker and loop() run for ever and an HTTP request always ends (it has
\* time-outs); the poll timer and the controllers fire again and again, and
\* not only at moments when the queue is full (a request takes seconds, the
\* queue drains between two polls).
ZenFairness ==
  /\ WF_zenVars(TakeJob)
  /\ WF_zenVars(Answered \/ Unanswered)
  /\ WF_zenVars(process_result_)
  /\ WF_zenVars(Tick)
  /\ SF_zenVars(update)
  /\ SF_zenVars(repeat_request /\ Fits)

ZenFairSpec == ZenSpec /\ ZenFairness

\* From some time on loop() keeps up with the worker: no result is dropped.
\* It runs every few milliseconds unless another component blocks it.
LoopKeepsUp ==
  <>[][(running # NoJob /\ running' = NoJob) => Len(result_queue_) < ResultCap]_zenVars

(***************************************************************************)
(* Properties                                                              *)
(***************************************************************************)

PowerJobs(s) == {i \in DOMAIN s : s[i].type = "power"}

\* A request that set_power would suppress is in force: when the last command
\* counts as sent, no power command is under way and no failure is waiting to
\* be processed, the battery holds exactly that command, unless a failure was
\* dropped on a full result queue or the app changed the battery since.
SuppressedIsInForce ==
  (/\ last_power_valid_
   /\ ~surprise
   /\ PowerJobs(job_queue_) = {}
   /\ running.type # "power"
   /\ \A i \in PowerJobs(result_queue_) : result_queue_[i].ok)
  => device.cmd = last_power_props_

\* The state is well formed, and what is suppressed is in force.
ZenInv == ZenTypeOK /\ SuppressedIsInForce

\* The request of the controllers is in force in the end, whatever writes,
\* failures and results were lost before, once the battery can be reached.
RequestInForce ==
  <>[]up /\ LoopKeepsUp => <>[](device.cmd = Command(request.discharge - request.charge))

\* The entities show what the battery holds in the end, although they are
\* published before the write is sent and the write may be lost; and a battery
\* that stays reachable is shown online, one that stays away is not.
EntitiesAgree ==
  LoopKeepsUp
    => /\ <>[]up => <>[](shown = Published(device) /\ online = "on")
       /\ <>[]~up => <>[](online # "on")

\* With the kick-start enabled a lasting request of just the start threshold
\* sets the battery moving.
KickStarts ==
  <>[](up /\ kickstart_ /\ request.discharge - request.charge = KickPower) /\ LoopKeepsUp
    => <>[]device.moving
=============================================================================
