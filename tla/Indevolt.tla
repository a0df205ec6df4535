------------------------------ MODULE Indevolt ------------------------------
(***************************************************************************)
(* indevolt: the hub of one INDEVOLT battery.  As in zensdk a worker task  *)
(* performs the blocking HTTP requests and shares two bounded queues with  *)
(* the main task, but a poll is a cycle of several requests (batches) and  *)
(* there are several lists of points, each with a timer of its own:        *)
(*  - the worker serves queued jobs between two batches, then the next     *)
(*    batch of the fastest list in progress; a failed batch ends the       *)
(*    cycles of all lists;                                                 *)
(*  - the main task starts no new cycle of a list while poll_pending_,     *)
(*    unless a watchdog has run out;                                       *)
(*  - a power command is preceded by a switch to the real-time work mode   *)
(*    whenever the battery is not known to be in it.                       *)
(* The battery (device, up) is external: out of the real-time mode it does *)
(* not carry out power commands.                                           *)
(***************************************************************************)
EXTENDS Integers, Sequences

CONSTANTS
  JobCap,           \* 8: length of job_queue_
  ResultCap,        \* 16: length of result_queue_
  Configs,          \* the configurations: batch_count_ of each of the three lists
                    \* (the fastest first, 0 if empty), the entities there are, whether the
                    \* model starts before or after the identification, and a bound:
                    \* how often users, the app or the network change something
  MaxCharge,        \* max_charge_power_
  MaxDischarge,     \* max_discharge_power_
  MinPower,         \* min_power_
  AutoMode,         \* auto_realtime_mode_
  OfflineAfter,     \* OFFLINE_AFTER_FAILURES
  FailMax           \* 255: where consecutive_failures_ saturates

ASSUME IndevoltAssumption ==
  /\ {JobCap, ResultCap, OfflineAfter} \subseteq Nat \ {0}
  /\ \A c \in Configs : /\ c.lists \in [1..3 -> Nat]
                         /\ c.entities \subseteq {"outputs", "numbers", "select", "online"}
                         /\ c.identified \in BOOLEAN
                         /\ c.changes \in Nat
  /\ {MaxCharge, MaxDischarge, MinPower, FailMax} \subseteq Nat
  /\ FailMax >= OfflineAfter
  /\ AutoMode \in BOOLEAN

VARIABLES
  config,                   \* the configuration, fixed at the start
  main,                     \* what the main task is in the middle of
  job_queue_, result_queue_,
  polling, batch,           \* per list: cycle in progress on the worker, its next batch (0 if none)
  running,                  \* the job or batch the worker waits for, or NoJob
  outbox,                   \* results the worker still has to post
  poll_pending_, late,      \* per list; late: POLL_WATCHDOG_MS has passed since the start
  info_pending_, info_done_,
  work_mode_,
  last_power_valid_, last_power_command_,
  stale,                    \* POWER_REFRESH_MS has passed since last_power_ms_
  requested_w_,             \* also shown by the power numbers
  request,                  \* charge_request_w_ and discharge_request_w_
  consecutive_failures_,
  online,                   \* state of the online sensor
  device, up,               \* the battery, and whether it can be reached
  changes                   \* changes left

workVars == <<polling, batch, running, outbox>>
pollVars == <<poll_pending_, late>>
infoVars == <<info_pending_, info_done_>>
powerVars == <<last_power_valid_, last_power_command_, stale, requested_w_>>
onlineVars == <<consecutive_failures_, online>>
indVars == <<config, main, job_queue_, result_queue_, workVars, pollVars, infoVars, work_mode_,
             powerVars, request, onlineVars, device, up, changes>>

Batches == config.lists
Tiers == 1..3
Modes == {"realtime", "other"}
Powers == -MaxCharge .. MaxDischarge

(***************************************************************************)
(* Jobs and results                                                        *)
(***************************************************************************)

NoJob == [type |-> "none"]
InfoJob == [type |-> "info"]
PollJob(t) == [type |-> "poll", tier |-> t]
ModeJob(m) == [type |-> "mode", mode |-> m]
PowerJob(w) == [type |-> "power", power |-> w]
BatchOf(t) == [type |-> "batch", tier |-> t]

Writes == {ModeJob(m) : m \in Modes} \cup {PowerJob(w) : w \in Powers}
Jobs == {InfoJob} \cup {PollJob(t) : t \in Tiers} \cup Writes

\* The result of a write: all that counts is whether it is a power command
\* that failed or was refused.
WriteResult(resend) == [type |-> "write", resend |-> resend]
InfoResult(ok) == [type |-> "info", ok |-> ok]

\* A batch: whether it ended the cycle, and what it reports of the work mode
\* ("none": no answer or not readable, "absent": the point is not in it).
BatchResult(t, last, mode) == [type |-> "batch", tier |-> t, last |-> last, mode |-> mode]
AbortResult(t) == [type |-> "abort", tier |-> t]

Results ==
  {WriteResult(b) : b \in BOOLEAN} \cup {InfoResult(ok) : ok \in BOOLEAN}
    \cup {BatchResult(t, l, m) : t \in Tiers, l \in BOOLEAN, m \in Modes \cup {"none", "absent"}}
    \cup {AbortResult(t) : t \in Tiers}

\* Type correctness: the queues keep within their lengths, the worker asks only for
\* batches the list has, and the failure counter does not pass 255.
IndTypeOK ==
  /\ config \in Configs
  /\ main \in {"idle", "draining", "poll", "power"}
  /\ job_queue_ \in Seq(Jobs) /\ Len(job_queue_) <= JobCap
  /\ result_queue_ \in Seq(Results) /\ Len(result_queue_) <= ResultCap
  /\ polling \in [Tiers -> BOOLEAN]
  /\ batch \in [Tiers -> Nat] /\ \A t \in Tiers : polling[t] => batch[t] < Batches[t]
  /\ running \in Writes \cup {NoJob, InfoJob} \cup {BatchOf(t) : t \in Tiers}
  /\ outbox \in Seq(Results) /\ Len(outbox) <= 3
  /\ {poll_pending_, late} \subseteq [Tiers -> BOOLEAN]
  /\ {info_pending_, info_done_, last_power_valid_, stale, up} \subseteq BOOLEAN
  /\ work_mode_ \in Modes \cup {"unknown"}
  /\ {last_power_command_, requested_w_} \subseteq Powers
  /\ request \in [charge : 0..MaxCharge, discharge : 0..MaxDischarge]
  /\ consecutive_failures_ \in 0..FailMax
  /\ online \in {"unknown", "on", "off"}
  /\ device \in [mode : Modes, power : Powers]
  /\ changes \in 0..config.changes

IndInit ==
  /\ config \in Configs
  /\ main = "idle"
  /\ job_queue_ = <<>> /\ result_queue_ = <<>>
  /\ polling = [t \in Tiers |-> FALSE] /\ batch = [t \in Tiers |-> 0]
  /\ running = NoJob /\ outbox = <<>>
  /\ poll_pending_ = [t \in Tiers |-> FALSE] /\ late = [t \in Tiers |-> FALSE]
  /\ info_pending_ = FALSE /\ info_done_ = config.identified
  /\ work_mode_ = "unknown"
  /\ last_power_valid_ = FALSE /\ last_power_command_ = 0 /\ stale = FALSE
  /\ requested_w_ = 0
  /\ request = [charge |-> 0, discharge |-> 0]
  /\ consecutive_failures_ = 0 /\ online = "unknown"
  /\ device = [mode |-> "other", power |-> 0]
  /\ up = TRUE
  /\ changes = config.changes

(***************************************************************************)
(* The main task: polling                                                  *)
(***************************************************************************)

\* xQueueSend without waiting.
Fits == Len(job_queue_) < JobCap

Enqueue(job) == job_queue_' = IF Fits THEN Append(job_queue_, job) ELSE job_queue_

\* Mutant: no watchdog.
MutMayStartWaits(t) == ~poll_pending_[t]

\* A cycle that never reported back must not block polling for ever.
MayStart(t) == ~poll_pending_[t] \/ late[t]

\* A cycle of an empty list, one that may not start, or one that does not
\* fit is skipped.
start_poll_(t) ==
  IF Batches[t] > 0 /\ MayStart(t) /\ Fits
  THEN /\ Enqueue(PollJob(t))
       /\ poll_pending_' = [poll_pending_ EXCEPT ![t] = TRUE]
       /\ late' = [late EXCEPT ![t] = FALSE]
  ELSE UNCHANGED <<job_queue_, pollVars>>

\* Mutant: asks again while the identification is under way.
MutWantsInfoAgain == ~info_done_

\* The identification is asked for unless it is done or under way.
WantsInfo == ~info_done_ /\ ~info_pending_

\* update(), first half: the identification.
enqueue_info_ ==
  /\ main = "idle"
  /\ main' = "poll"
  /\ IF WantsInfo
     THEN Enqueue(InfoJob) /\ info_pending_' = Fits
     ELSE UNCHANGED <<job_queue_, info_pending_>>
  /\ UNCHANGED <<config, result_queue_, workVars, pollVars, info_done_, work_mode_, powerVars, request,
                 onlineVars, device, up, changes>>

\* Second half: the fastest list.
update ==
  /\ main = "poll"
  /\ main' = "idle"
  /\ start_poll_(1)
  /\ UNCHANGED <<config, result_queue_, workVars, infoVars, work_mode_, powerVars, request, onlineVars,
                 device, up, changes>>

\* The timers of the other lists.
Timer(t) ==
  /\ main = "idle"
  /\ start_poll_(t)
  /\ UNCHANGED <<config, main, result_queue_, workVars, infoVars, work_mode_, powerVars, request,
                 onlineVars, device, up, changes>>

(***************************************************************************)
(* The main task: control                                                  *)
(***************************************************************************)

Clamped(w) ==
  CASE w > MaxDischarge -> MaxDischarge
    [] w < -MaxCharge -> -MaxCharge
    [] OTHER -> w

\* The limits, and standby below the minimum.
Effective(w) ==
  LET c == Clamped(w) IN IF -MinPower < c /\ c < MinPower THEN 0 ELSE c

NeedMode == AutoMode /\ work_mode_ # "realtime"

Same(w) == last_power_valid_ /\ w = last_power_command_ /\ ~stale

\* The power command itself; it counts as sent when it was queued.
SendPower(w) ==
  /\ Enqueue(PowerJob(w))
  /\ last_power_valid_' = Fits
  /\ last_power_command_' = IF Fits THEN w ELSE last_power_command_
  /\ stale' = FALSE

\* set_power: the mode first (whether its write was queued is not looked at),
\* then the command, unless it would repeat the last one.
set_power(w) ==
  /\ requested_w_' = Effective(w)
  /\ \/ /\ NeedMode
        /\ Enqueue(ModeJob("realtime"))
        /\ work_mode_' = "realtime"
        /\ main' = "power"
        /\ UNCHANGED <<last_power_valid_, last_power_command_, stale>>
     \/ /\ ~NeedMode
        /\ ~Same(Effective(w))
        /\ SendPower(Effective(w))
        /\ UNCHANGED <<main, work_mode_>>
     \/ /\ ~NeedMode
        /\ Same(Effective(w))
        /\ UNCHANGED <<job_queue_, main, work_mode_, last_power_valid_, last_power_command_, stale>>

\* The rest of set_power after the mode.
power_after_mode ==
  /\ main = "power"
  /\ main' = "idle"
  /\ SendPower(requested_w_)
  /\ UNCHANGED <<config, result_queue_, workVars, pollVars, infoVars, work_mode_, requested_w_, request,
                 onlineVars, device, up, changes>>

\* A call on the main task by an entity.
Call(entity) ==
  /\ main = "idle"
  /\ entity \in config.entities
  /\ UNCHANGED <<config, result_queue_, workVars, pollVars, infoVars, onlineVars, device, up>>

\* set_charge_request and set_discharge_request: the controllers' outputs.
set_request(ch, dis) ==
  /\ Call("outputs")
  /\ request # [charge |-> ch, discharge |-> dis]
  /\ ch = request.charge \/ dis = request.discharge
  /\ changes > 0 /\ changes' = changes - 1
  /\ request' = [charge |-> ch, discharge |-> dis]
  /\ set_power(dis - ch)

\* A controller that repeats its output on every cycle.
apply_output_requests_ ==
  /\ Call("outputs")
  /\ set_power(request.discharge - request.charge)
  /\ UNCHANGED <<request, changes>>

\* The charge and the discharge number: zero only stops the own direction.
Ignored(w, charging) == w = 0 /\ (IF charging THEN requested_w_ >= 0 ELSE requested_w_ <= 0)

\* The signed setpoint, the charge and the discharge number.
write_number(w, kind) ==
  /\ Call("numbers")
  /\ ~(kind = "charge" /\ (w > 0 \/ Ignored(w, TRUE)))
  /\ ~(kind = "discharge" /\ (w < 0 \/ Ignored(w, FALSE)))
  /\ changes > 0 /\ changes' = changes - 1
  /\ set_power(w)
  /\ UNCHANGED request

\* The select of the work mode: shown and believed at once.
note_work_mode(m) ==
  /\ Call("select")
  /\ changes > 0 /\ changes' = changes - 1
  /\ Enqueue(ModeJob(m))
  /\ work_mode_' = m
  /\ UNCHANGED <<main, powerVars, request>>

(***************************************************************************)
(* The worker task                                                         *)
(***************************************************************************)

Free == running = NoJob /\ outbox = <<>>

\* A queued job comes first: a poll job only opens a cycle.
TakeJob ==
  /\ Free
  /\ job_queue_ # <<>>
  /\ job_queue_' = Tail(job_queue_)
  /\ LET job == Head(job_queue_)
     IN IF job.type = "poll"
        THEN /\ polling' = [polling EXCEPT ![job.tier] = TRUE]
             /\ batch' = [batch EXCEPT ![job.tier] = 0]
             /\ UNCHANGED running
        ELSE running' = job /\ UNCHANGED <<polling, batch>>
  /\ UNCHANGED <<config, main, result_queue_, outbox, pollVars, infoVars, work_mode_, powerVars, request,
                 onlineVars, device, up, changes>>

\* Then the next batch of the fastest list in progress.
TakeBatch(t) ==
  /\ Free
  /\ job_queue_ = <<>>
  /\ polling[t] /\ \A s \in 1..(t - 1) : ~polling[s]
  /\ running' = BatchOf(t)
  /\ UNCHANGED <<config, main, job_queue_, result_queue_, polling, batch, outbox, pollVars, infoVars,
                 work_mode_, powerVars, request, onlineVars, device, up, changes>>

\* The battery carries out a write; it heeds power commands only in the
\* real-time mode (external).
Applied(d, job) ==
  CASE job.type = "mode" -> [d EXCEPT !.mode = job.mode]
    [] job.type = "power" /\ d.mode = "realtime" -> [d EXCEPT !.power = job.power]
    [] OTHER -> d

\* The result of a write or of the identification is dropped when it does
\* not fit: the worker does not wait.
Post(r) ==
  result_queue_' = IF Len(result_queue_) < ResultCap THEN Append(result_queue_, r) ELSE result_queue_

\* http_request_ ends with an answer.  A power command the battery did not
\* heed is refused in the answer, or not.
JobAnswered ==
  /\ running.type \in {"info", "mode", "power"}
  /\ up
  /\ device' = Applied(device, running)
  /\ \/ running = InfoJob /\ Post(InfoResult(TRUE))
     \/ running # InfoJob /\ Post(WriteResult(FALSE))
     \/ running.type = "power" /\ device.mode # "realtime" /\ Post(WriteResult(TRUE))
  /\ running' = NoJob
  /\ UNCHANGED <<config, main, job_queue_, polling, batch, outbox, pollVars, infoVars, work_mode_,
                 powerVars, request, onlineVars, up, changes>>

\* It fails; the request may have been carried out all the same.
JobUnanswered ==
  /\ running.type \in {"info", "mode", "power"}
  /\ ~up
  /\ device' \in {device, Applied(device, running)}
  /\ Post(IF running = InfoJob THEN InfoResult(FALSE) ELSE WriteResult(running.type = "power"))
  /\ running' = NoJob
  /\ UNCHANGED <<config, main, job_queue_, polling, batch, outbox, pollVars, infoVars, work_mode_,
                 powerVars, request, onlineVars, up, changes>>

\* The work mode is read with the first batch of the fast list.  setup() appends its
\* point last, so in the program it is the last batch of that list, or of the list the
\* yaml moves it to: which one makes no difference to what is done with it.
Reported(t) == IF t = 1 /\ batch[t] = 0 THEN device.mode ELSE "absent"

\* A batch is answered; `readable` is whether the body is (JSON, not cut off).
BatchEnds(readable) ==
  /\ running.type = "batch"
  /\ up
  /\ LET t == running.tier
         last == batch[t] + 1 >= Batches[t]
     IN /\ batch' = [batch EXCEPT ![t] = IF last THEN 0 ELSE @ + 1]
        /\ polling' = [polling EXCEPT ![t] = ~last]
        /\ outbox' = <<BatchResult(t, last, IF readable THEN Reported(t) ELSE "none")>>
  /\ running' = NoJob
  /\ UNCHANGED <<config, main, job_queue_, result_queue_, pollVars, infoVars, work_mode_, powerVars,
                 request, onlineVars, device, up>>

BatchAnswered == BatchEnds(TRUE) /\ UNCHANGED changes

BatchGarbled == BatchEnds(FALSE) /\ changes > 0 /\ changes' = changes - 1

\* The other lists a failed batch of list t aborts, fastest first.
Aborted(t, k) == IF k # t /\ polling[k] THEN <<AbortResult(k)>> ELSE <<>>

AbortResults(t) == Aborted(t, 1) \o Aborted(t, 2) \o Aborted(t, 3)

\* A batch fails: its own cycle ends and the others are aborted, their
\* results first.
BatchFails ==
  /\ running.type = "batch"
  /\ ~up
  /\ LET t == running.tier
     IN /\ polling' = [k \in Tiers |-> FALSE]
        /\ batch' = [k \in Tiers |-> 0]
        /\ outbox' = Append(AbortResults(t), BatchResult(t, TRUE, "none"))
  /\ running' = NoJob
  /\ UNCHANGED <<config, main, job_queue_, result_queue_, pollVars, infoVars, work_mode_, powerVars,
                 request, onlineVars, device, up, changes>>

\* Batch and abort results wait up to a second for room ...
PostBatch ==
  /\ outbox # <<>>
  /\ Len(result_queue_) < ResultCap
  /\ result_queue_' = Append(result_queue_, Head(outbox))
  /\ outbox' = Tail(outbox)
  /\ UNCHANGED <<config, main, job_queue_, polling, batch, running, pollVars, infoVars, work_mode_,
                 powerVars, request, onlineVars, device, up, changes>>

\* ... and are dropped then.
DropBatch ==
  /\ outbox # <<>>
  /\ Len(result_queue_) = ResultCap
  /\ outbox' = Tail(outbox)
  /\ UNCHANGED <<config, main, job_queue_, result_queue_, polling, batch, running, pollVars, infoVars,
                 work_mode_, powerVars, request, onlineVars, device, up, changes>>

(***************************************************************************)
(* The main task: results                                                  *)
(***************************************************************************)

Ended(t) ==
  /\ poll_pending_' = [poll_pending_ EXCEPT ![t] = FALSE]
  /\ late' = [late EXCEPT ![t] = FALSE]

\* A failed or refused power command is sent again on the next request.
WriteEnds(r) ==
  /\ last_power_valid_' = (last_power_valid_ /\ ~r.resend)
  /\ stale' = (stale /\ last_power_valid_')
  /\ UNCHANGED <<poll_pending_, late, infoVars, work_mode_, onlineVars>>

InfoEnds(r) ==
  /\ info_pending_' = FALSE
  /\ info_done_' = (info_done_ \/ r.ok)
  /\ UNCHANGED <<last_power_valid_, stale, poll_pending_, late, work_mode_, onlineVars>>

\* Mutant: an unreadable answer is not counted.
MutFailuresUncounted == consecutive_failures_

Failures == IF consecutive_failures_ < FailMax THEN consecutive_failures_ + 1 ELSE FailMax

\* Mutant: a report does not correct the optimistic mode.
MutParseOptimistic(mode) ==
  work_mode_' = IF mode \in Modes /\ work_mode_ = "unknown" THEN mode ELSE work_mode_

\* parse_batch_ corrects the work mode.
parse_batch_(mode) == work_mode_' = IF mode \in Modes THEN mode ELSE work_mode_

BatchProcessed(r) ==
  LET ok == r.mode # "none"
  IN /\ parse_batch_(r.mode)
     /\ consecutive_failures_' = IF ~ok THEN Failures
                                 ELSE IF r.last THEN 0 ELSE consecutive_failures_
     /\ online' = CASE "online" \in config.entities /\ r.last /\ ok -> "on"
                    [] "online" \in config.entities /\ r.last /\ ~ok /\ Failures >= OfflineAfter -> "off"
                    [] OTHER -> online
     /\ IF r.last THEN Ended(r.tier) ELSE UNCHANGED <<poll_pending_, late>>
     /\ UNCHANGED <<last_power_valid_, stale, infoVars>>

AbortProcessed(r) ==
  /\ Ended(r.tier)
  /\ UNCHANGED <<last_power_valid_, stale, infoVars, work_mode_, onlineVars>>

\* loop(): drains the queue; no other call of the main task comes in between.
process_result_ ==
  /\ main \in {"idle", "draining"}
  /\ result_queue_ # <<>>
  /\ result_queue_' = Tail(result_queue_)
  /\ main' = IF Len(result_queue_) > 1 THEN "draining" ELSE "idle"
  /\ LET r == Head(result_queue_)
     IN \/ r.type = "write" /\ WriteEnds(r)
        \/ r.type = "info" /\ InfoEnds(r)
        \/ r.type = "batch" /\ BatchProcessed(r)
        \/ r.type = "abort" /\ AbortProcessed(r)
  /\ UNCHANGED <<config, job_queue_, workVars, last_power_command_, requested_w_, request,
                 device, up, changes>>

(***************************************************************************)
(* Time and the environment                                                *)
(***************************************************************************)

\* POLL_WATCHDOG_MS passes.
WatchdogElapses(t) ==
  /\ poll_pending_[t] /\ ~late[t]
  /\ late' = [late EXCEPT ![t] = TRUE]
  /\ UNCHANGED <<config, main, job_queue_, result_queue_, workVars, poll_pending_, infoVars,
                 work_mode_, powerVars, request, onlineVars, device, up, changes>>

\* POWER_REFRESH_MS passes.
RefreshElapses ==
  /\ last_power_valid_ /\ ~stale
  /\ stale' = TRUE
  /\ UNCHANGED <<config, main, job_queue_, result_queue_, workVars, pollVars, infoVars, work_mode_,
                 last_power_valid_, last_power_command_, requested_w_, request, onlineVars,
                 device, up, changes>>

Environment ==
  /\ UNCHANGED <<config, main, job_queue_, result_queue_, workVars, pollVars, infoVars, work_mode_,
                 powerVars, request, onlineVars>>

GoesDown ==
  /\ up
  /\ up' = FALSE
  /\ changes > 0 /\ changes' = changes - 1
  /\ UNCHANGED device
  /\ Environment

ComesUp ==
  /\ ~up
  /\ up' = TRUE
  /\ UNCHANGED <<device, changes>>
  /\ Environment

\* The vendor's app takes the battery out of the real-time mode and stops it.
AppTakesOver ==
  /\ changes > 0 /\ changes' = changes - 1
  /\ device' = [mode |-> "other", power |-> 0]
  /\ UNCHANGED up
  /\ Environment

UserCalls ==
  \/ \E ch \in 0..MaxCharge, dis \in 0..MaxDischarge : set_request(ch, dis)
  \/ \E w \in Powers, kind \in {"setpoint", "charge", "discharge"} : write_number(w, kind)
  \/ \E m \in Modes : note_work_mode(m)

WorkerStep ==
  \/ TakeJob
  \/ \E t \in Tiers : TakeBatch(t)
  \/ JobAnswered
  \/ JobUnanswered
  \/ BatchAnswered
  \/ BatchGarbled
  \/ BatchFails
  \/ PostBatch
  \/ DropBatch

IndNext ==
  \/ enqueue_info_
  \/ update
  \/ \E t \in Tiers \ {1} : Timer(t)
  \/ apply_output_requests_
  \/ power_after_mode
  \/ UserCalls
  \/ WorkerStep
  \/ process_result_
  \/ \E t \in Tiers : WatchdogElapses(t)
  \/ RefreshElapses
  \/ GoesDown
  \/ ComesUp
  \/ AppTakesOver

IndSpec == IndInit /\ [][IndNext]_indVars

\* The worker and the main task run for ever and an HTTP request always ends
\* (it has time-outs).  The timers and the controllers fire again and again,
\* not only while the queue is full or loop() drains.
IndFairness ==
  /\ WF_indVars(WorkerStep)
  /\ WF_indVars(process_result_)
  /\ WF_indVars(enqueue_info_ \/ update \/ power_after_mode)
  /\ WF_indVars(RefreshElapses)
  /\ \A t \in Tiers : WF_indVars(WatchdogElapses(t))
  /\ \A t \in Tiers \ {1} : SF_indVars(Timer(t))
  /\ SF_indVars(apply_output_requests_)

IndFairSpec == IndSpec /\ IndFairness

(***************************************************************************)
(* Properties                                                              *)
(***************************************************************************)

\* Where s holds a message of kind S, marked with the name of the place.
Places(name, s, S) == {name} \X {i \in DOMAIN s : s[i] \in S}

\* Where the identification is under way: queued, asked for, or answered with the
\* answer not yet processed.
Infos ==
  Places("queued", job_queue_, {InfoJob})
    \cup Places("asked", <<running>>, {InfoJob})
    \cup Places("answered", result_queue_, {InfoResult(ok) : ok \in BOOLEAN})

\* The results that end a cycle of list t.
EndsOf(t) ==
  {AbortResult(t)} \cup {BatchResult(t, TRUE, m) : m \in Modes \cup {"none", "absent"}}

\* Where cycles of list t are under way: queued, in progress on the worker, or
\* ended with the end not yet processed.
Cycles(t) ==
  Places("queued", job_queue_, {PollJob(t)})
    \cup Places("polling", <<polling[t]>>, {TRUE})
    \cup Places("outbox", outbox, EndsOf(t))
    \cup Places("ended", result_queue_, EndsOf(t))

AtMostOne(S) == \A a, b \in S : a = b

\* The identification is never asked for twice: it is under way at most once, only
\* while info_pending_ says so, and no longer once it has succeeded.
OneIdentification ==
  /\ AtMostOne(Infos)
  /\ Infos # {} => info_pending_ /\ ~info_done_

\* The state is well formed and there is one identification.
IndInv == IndTypeOK /\ OneIdentification

\* A watchdog runs out only for a cycle whose end was lost.
WatchdogsInTime == \A t \in Tiers : late'[t] /\ ~late[t] => Cycles(t) = {}

\* No list is polled twice at once, and poll_pending_ is set during a cycle.
\* This holds as long as watchdogs are in time: a cycle that is still under way
\* when its list is started again clears the flag of the next one.
OneCycle ==
  \A t \in Tiers : AtMostOne(Cycles(t)) /\ (Cycles(t) # {} => poll_pending_[t])

\* A result is dropped.
Dropped ==
  /\ Len(result_queue_) = ResultCap
  /\ \/ running.type \in {"info", "mode", "power"} /\ running' = NoJob
     \/ outbox # <<>> /\ outbox' = Tail(outbox)

\* update() or set_power queues a job (or skips it).
Queueing == main' # main /\ "draining" \notin {main, main'}

\* From some time on the tasks keep up with each other: no result is dropped;
\* update() and set_power find room in the queue and the worker not just
\* between two batches (it goes on at once); and a watchdog runs out only for
\* a cycle whose end was lost.  The queues are 16 and 8 long and a cycle takes
\* less than POLL_WATCHDOG_MS, unless another component blocks loop().
KeepUp ==
  <>[][/\ ~Dropped
       /\ Queueing => Fits /\ ~(Free /\ \E t \in Tiers : polling[t])
       /\ WatchdogsInTime]_indVars

\* Every list goes on being polled, and its cycles go on ending, whatever
\* results were lost before and whether the battery answers or not.
CyclesGoOn ==
  KeepUp
    => \A t \in Tiers : /\ []<>(Batches[t] > 0 => poll_pending_[t])
                        /\ []<>~poll_pending_[t]

\* The request of the controllers is in force in the end, in the real-time
\* mode, once the battery can be reached: whatever mode or power writes were
\* lost, and although the mode is believed to be set before it is.
RequestInForce ==
  <>[](up /\ "outputs" \in config.entities) /\ KeepUp
    => <>[](device = [mode |-> "realtime",
                      power |-> Effective(request.discharge - request.charge)])

\* A battery that stays reachable is shown online, one that stays away is not.
OnlineFollows ==
  KeepUp
    => /\ <>[](up /\ "online" \in config.entities) => <>[](online = "on")
       /\ <>[]~up => <>[](online # "on")

\* update() retries the identification on every cycle until it succeeds once, as long
\* as none of its results is lost (a lost one leaves info_pending_ set for ever).
IdentifiedInTheEnd ==
  <>[]up /\ KeepUp /\ [](info_pending_ => Infos # {}) => <>info_done_

\* Polling goes on: the cycles of every list, and the identification until it succeeds.
PollingGoesOn == CyclesGoOn /\ IdentifiedInTheEnd
=============================================================================
