---------------------------- MODULE ZenSdk_proofs ----------------------------
(***************************************************************************)
(* What zensdk suppresses is in force, for all queue lengths, powers and   *)
(* thresholds and any number of changes.                                   *)
(*                                                                         *)
(* SuppressedIsInForce speaks of the moments when no power command is      *)
(* under way.  It is made inductive by following the last command on its   *)
(* way (InForce): it is the last power job in the queue, or else the one   *)
(* the worker is busy with, or else it is what the battery holds, unless   *)
(* the result that says otherwise is waiting in the result queue.          *)
(***************************************************************************)
EXTENDS ZenSdk, TLAPS

\* The last power job in s has command c.
LastIs(s, c) ==
  \E i \in PowerJobs(s) : s[i].cmd = c /\ \A j \in PowerJobs(s) : j <= i

\* No result in s says that a power command failed.
AllOk(s) == \A i \in PowerJobs(s) : s[i].ok

InForce ==
  last_power_valid_ /\ ~surprise =>
    \/ LastIs(job_queue_, last_power_props_)
    \/ /\ PowerJobs(job_queue_) = {}
       /\ IF running.type = "power"
          THEN running.cmd = last_power_props_
          ELSE AllOk(result_queue_) => device.cmd = last_power_props_

-----------------------------------------------------------------------------
(* Jobs, results and queues                                                *)

LEMMA JobShape ==
  /\ \A c \in Commands : PowerJob(c) \in Jobs /\ PowerJob(c).type = "power" /\ PowerJob(c).cmd = c
  /\ \A v \in PropValues : PropJob(v) \in Jobs /\ PropJob(v).type = "prop"
  /\ PollJob \in Jobs /\ PollJob.type = "poll" /\ NoJob.type = "none"
  /\ \A j \in Jobs : /\ j.type \in {"poll", "power", "prop"}
                     /\ j.type = "power" => j.cmd \in Commands
                     /\ j.type = "prop" => j.val \in PropValues
  <1>1. \A c \in Commands : PowerJob(c) \in Jobs
    BY DEF Jobs
  <1>2. \A v \in PropValues : PropJob(v) \in Jobs
    BY DEF Jobs
  <1>3. PollJob \in Jobs
    BY DEF Jobs
  <1>4. /\ \A c : PowerJob(c).type = "power" /\ PowerJob(c).cmd = c
        /\ \A v : PropJob(v).type = "prop" /\ PropJob(v).val = v
        /\ PollJob.type = "poll" /\ NoJob.type = "none"
    BY DEF PowerJob, PropJob, PollJob, NoJob
  <1>5. ASSUME NEW j \in Jobs
        PROVE  /\ j.type \in {"poll", "power", "prop"}
               /\ j.type = "power" => j.cmd \in Commands
               /\ j.type = "prop" => j.val \in PropValues
    <2>1. \/ j = PollJob
          \/ \E c \in Commands : j = PowerJob(c)
          \/ \E v \in PropValues : j = PropJob(v)
      BY <1>5 DEF Jobs
    <2> QED BY <1>4, <2>1
  <1> QED BY <1>1, <1>2, <1>3, <1>4, <1>5

LEMMA ResultShape ==
  /\ \A d \in Devices : PollOk(d) \in Results /\ PollOk(d).type = "poll"
  /\ \A t \in {"poll", "power", "prop"} : Failed(t) \in Results /\ Failed(t).type = t /\ ~Failed(t).ok
  /\ \A t \in {"power", "prop"} : Written(t) \in Results /\ Written(t).type = t
  /\ \A r \in Results : /\ r.type \in {"poll", "power", "prop"} /\ r.ok \in BOOLEAN
                        /\ r.type = "poll" /\ r.ok => r.report \in Devices
  <1>1. \A d \in Devices : PollOk(d) \in Results
    BY DEF Results
  <1>2. \A t \in {"poll", "power", "prop"} : Failed(t) \in Results
    BY DEF Results
  <1>3. \A t \in {"power", "prop"} : Written(t) \in Results
    BY DEF Results
  <1>4. /\ \A d : PollOk(d).type = "poll" /\ PollOk(d).ok = TRUE /\ PollOk(d).report = d
        /\ \A t : Failed(t).type = t /\ Failed(t).ok = FALSE
        /\ \A t : Written(t).type = t /\ Written(t).ok = TRUE
    BY DEF PollOk, Failed, Written
  <1>5. ASSUME NEW r \in Results
        PROVE  /\ r.type \in {"poll", "power", "prop"} /\ r.ok \in BOOLEAN
               /\ r.type = "poll" /\ r.ok => r.report \in Devices
    <2>1. \/ \E d \in Devices : r = PollOk(d)
          \/ \E t \in {"poll", "power", "prop"} : r = Failed(t)
          \/ \E t \in {"power", "prop"} : r = Written(t)
      BY <1>5 DEF Results
    <2> QED BY <1>4, <2>1
  <1> QED BY <1>1, <1>2, <1>3, <1>4, <1>5

\* A job at the end of the queue: a power job is the last one, any other leaves
\* the last one where it is.
LEMMA AppendJob ==
  ASSUME NEW s \in Seq(Jobs), NEW j \in Jobs
  PROVE  /\ j.type = "power" => LastIs(Append(s, j), j.cmd)
         /\ j.type # "power" => /\ PowerJobs(Append(s, j)) = PowerJobs(s)
                                /\ \A c : LastIs(s, c) => LastIs(Append(s, j), c)
  <1> DEFINE t == Append(s, j)
  <1>1. /\ Len(s) \in Nat /\ DOMAIN t = 1..(Len(s) + 1) /\ DOMAIN s = 1..Len(s)
        /\ t[Len(s) + 1] = j /\ \A i \in 1..Len(s) : t[i] = s[i]
    OBVIOUS
  <1> HIDE DEF t
  <1>2. ASSUME j.type = "power" PROVE LastIs(t, j.cmd)
    BY <1>1, <1>2 DEF LastIs, PowerJobs
  <1>3. ASSUME j.type # "power" PROVE PowerJobs(t) = PowerJobs(s)
    BY <1>1, <1>3 DEF PowerJobs
  <1>4. ASSUME j.type # "power", NEW c, LastIs(s, c) PROVE LastIs(t, c)
    BY <1>1, <1>3, <1>4 DEF LastIs, PowerJobs
  <1> QED BY <1>2, <1>3, <1>4 DEF t

\* The job at the head of the queue is taken.
LEMMA TakeHead ==
  ASSUME NEW s \in Seq(Jobs), s # <<>>, NEW c
  PROVE  /\ LastIs(s, c) => \/ LastIs(Tail(s), c)
                            \/ /\ PowerJobs(Tail(s)) = {}
                               /\ Head(s).type = "power" /\ Head(s).cmd = c
         /\ PowerJobs(s) = {} => PowerJobs(Tail(s)) = {} /\ Head(s).type # "power"
  <1> DEFINE t == Tail(s)
  <1>1. /\ Len(s) \in Nat /\ Len(s) > 0 /\ DOMAIN s = 1..Len(s)
        /\ DOMAIN t = 1..(Len(s) - 1) /\ Head(s) = s[1]
        /\ \A i \in 1..(Len(s) - 1) : t[i] = s[i + 1]
    OBVIOUS
  <1> HIDE DEF t
  <1>2. ASSUME PowerJobs(s) = {} PROVE PowerJobs(t) = {} /\ s[1].type # "power"
    <2>1. \A i \in 1..Len(s) : s[i].type # "power"
      BY <1>1, <1>2 DEF PowerJobs
    <2>2. ASSUME NEW i \in PowerJobs(t) PROVE FALSE
      <3>1. i \in 1..(Len(s) - 1) /\ t[i].type = "power"
        BY <1>1 DEF PowerJobs
      <3>2. i + 1 \in 1..Len(s) /\ s[i + 1].type = "power"
        BY <1>1, <3>1
      <3> QED BY <2>1, <3>2
    <2>3. 1 \in 1..Len(s)
      BY <1>1
    <2> QED BY <2>1, <2>2, <2>3
  <1>3. ASSUME LastIs(s, c)
        PROVE  LastIs(t, c) \/ (PowerJobs(t) = {} /\ s[1].type = "power" /\ s[1].cmd = c)
    <2>1. PICK i \in PowerJobs(s) : s[i].cmd = c /\ \A k \in PowerJobs(s) : k <= i
      BY <1>3 DEF LastIs
    <2>2. i \in 1..Len(s) /\ s[i].type = "power"
      BY <1>1, <2>1 DEF PowerJobs
    <2>3. \A k \in PowerJobs(t) : k \in Nat /\ k >= 1 /\ k + 1 \in PowerJobs(s)
      BY <1>1 DEF PowerJobs
    <2>4. CASE i = 1
      <3>1. ASSUME NEW k \in PowerJobs(t) PROVE FALSE
        <4>1. k + 1 <= 1 /\ k \in Nat /\ k >= 1
          BY <2>1, <2>3, <2>4
        <4> QED BY <4>1
      <3> QED BY <2>1, <2>2, <2>4, <3>1
    <2>5. CASE i # 1
      <3>1. i - 1 \in PowerJobs(t) /\ t[i - 1].cmd = c
        BY <1>1, <2>1, <2>2, <2>5 DEF PowerJobs
      <3>2. \A k \in PowerJobs(t) : k <= i - 1
        BY <2>1, <2>2, <2>3
      <3> QED BY <3>1, <3>2 DEF LastIs
    <2> QED BY <2>4, <2>5
  <1> QED BY <1>1, <1>2, <1>3 DEF t

\* A result comes in and goes out.
LEMMA AppendResult ==
  ASSUME NEW s \in Seq(Results), NEW r \in Results, AllOk(Append(s, r))
  PROVE  AllOk(s) /\ (r.type = "power" => r.ok)
  <1> DEFINE t == Append(s, r)
  <1>1. /\ Len(s) \in Nat /\ DOMAIN t = 1..(Len(s) + 1) /\ DOMAIN s = 1..Len(s)
        /\ t[Len(s) + 1] = r /\ \A i \in 1..Len(s) : t[i] = s[i]
    OBVIOUS
  <1> HIDE DEF t
  <1>2. AllOk(t)
    BY DEF t
  <1> QED BY <1>1, <1>2 DEF AllOk, PowerJobs

LEMMA TakeResult ==
  ASSUME NEW s \in Seq(Results), s # <<>>, AllOk(Tail(s)), Head(s).ok \/ Head(s).type # "power"
  PROVE  AllOk(s)
  <1> DEFINE t == Tail(s)
  <1>1. /\ Len(s) \in Nat /\ Len(s) > 0 /\ DOMAIN s = 1..Len(s)
        /\ DOMAIN t = 1..(Len(s) - 1) /\ Head(s) = s[1]
        /\ \A i \in 1..(Len(s) - 1) : t[i] = s[i + 1]
    OBVIOUS
  <1> HIDE DEF t
  <1>2. AllOk(t)
    BY DEF t
  <1>3. ASSUME NEW i \in PowerJobs(s) PROVE s[i].ok
    <2>1. CASE i = 1
      BY <1>1, <2>1 DEF PowerJobs
    <2>2. CASE i # 1
      <3>1. i - 1 \in PowerJobs(t) /\ t[i - 1] = s[i]
        BY <1>1, <2>2 DEF PowerJobs
      <3> QED BY <1>2, <3>1 DEF AllOk
    <2> QED BY <2>1, <2>2
  <1> QED BY <1>3 DEF AllOk

-----------------------------------------------------------------------------
(* The type invariant in parts                                             *)

QueuesOK ==
  /\ job_queue_ \in Seq(Jobs) /\ Len(job_queue_) <= JobCap
  /\ result_queue_ \in Seq(Results) /\ Len(result_queue_) <= ResultCap
  /\ running \in Jobs \cup {NoJob}

PowerOK ==
  /\ last_power_valid_ \in BOOLEAN /\ surprise \in BOOLEAN
  /\ last_power_props_ \in Commands
  /\ age \in 0..Refresh

ReportedOK ==
  reported \in [offgrid : BOOLEAN, homeOut : BOOLEAN, homeIn : BOOLEAN,
                outLim : 0..MaxDischarge, inLim : 0..MaxCharge]

ViewOK ==
  /\ ReportedOK
  /\ consecutive_failures_ \in 0..FailMax
  /\ online \in {"unknown", "on", "off"}
  /\ shown \in [power : Powers, prop : PropValues]

RestOK ==
  /\ draining \in BOOLEAN /\ kickstart_ \in BOOLEAN /\ up \in BOOLEAN
  /\ request \in [charge : 0..MaxCharge, discharge : 0..MaxDischarge]
  /\ device \in Devices
  /\ changes \in 0..Changes

IInv == QueuesOK /\ PowerOK /\ ViewOK /\ RestOK /\ InForce

LEMMA TypeParts == ZenTypeOK <=> QueuesOK /\ PowerOK /\ ViewOK /\ RestOK
  <1>1. {draining, last_power_valid_, kickstart_, up, surprise} \subseteq BOOLEAN
          <=> /\ draining \in BOOLEAN /\ kickstart_ \in BOOLEAN /\ up \in BOOLEAN
              /\ last_power_valid_ \in BOOLEAN /\ surprise \in BOOLEAN
    OBVIOUS
  <1> QED BY <1>1, Zenon DEF ZenTypeOK, QueuesOK, PowerOK, ReportedOK, ViewOK, RestOK

LEMMA Constants ==
  /\ JobCap \in Nat /\ JobCap > 0 /\ ResultCap \in Nat /\ ResultCap > 0
  /\ KickPower \in Nat /\ KickBoost \in Nat /\ OfflineAfter \in Nat
  /\ MaxCharge \in Nat /\ MaxDischarge \in Nat /\ Refresh \in Nat /\ FailMax \in Nat
  /\ Changes \in Nat /\ OffGrid \in BOOLEAN /\ Restored \in BOOLEAN
  BY ZenSdkAssumption

\* Whatever is asked for, the command is within the configured limits.
LEMMA CommandWithinLimits ==
  ASSUME ReportedOK, NEW w \in Int
  PROVE  Command(w) \in Commands
  <1>1. reported.outLim \in Int /\ reported.inLim \in Int
    BY Constants DEF ReportedOK
  <1>2. Kicked(w) \in Int
    BY <1>1, Constants DEF Kicked, Lower
  <1> DEFINE p == Clamped(Kicked(w))
  <1>3. p \in Int /\ -MaxCharge <= p /\ p <= MaxDischarge
    BY <1>2, Constants DEF Clamped, Lower, Upper
  <1>4. Command(w) = CASE p > 0 -> [smart |-> 1, ac |-> 2, out |-> p, inp |-> 0]
                       [] p < 0 -> [smart |-> 1, ac |-> 1, out |-> 0, inp |-> -p]
                       [] OTHER -> [smart |-> IF FlashOnStop /\ ~reported.offgrid THEN 0 ELSE 1,
                                    ac |-> 2, out |-> 0, inp |-> 0]
    BY DEF Command
  <1> HIDE DEF p
  <1>5. CASE p > 0
    <2>1. Command(w) = [smart |-> 1, ac |-> 2, out |-> p, inp |-> 0]
      BY <1>3, <1>4, <1>5
    <2> QED BY <1>3, <1>5, <2>1, Constants DEF Commands
  <1>6. CASE p < 0
    <2>1. Command(w) = [smart |-> 1, ac |-> 1, out |-> 0, inp |-> -p]
      BY <1>3, <1>4, <1>6
    <2>2. -p \in 0..MaxCharge
      BY <1>3, <1>6, Constants
    <2> QED BY <2>1, <2>2, Constants DEF Commands
  <1>7. CASE p = 0
    <2> DEFINE q == IF FlashOnStop /\ ~reported.offgrid THEN 0 ELSE 1
    <2>1. Command(w) = [smart |-> q, ac |-> 2, out |-> 0, inp |-> 0]
      BY <1>4, <1>7
    <2>2. q \in 0..1
      OBVIOUS
    <2> HIDE DEF q
    <2> QED BY <2>1, <2>2, Constants DEF Commands
  <1> QED BY <1>3, <1>5, <1>6, <1>7

-----------------------------------------------------------------------------
(* Queueing                                                                *)

\* A job that is no power command, queued or dropped.
LEMMA QueuedOther ==
  ASSUME QueuesOK, InForce, NEW j \in Jobs, j.type # "power", enqueue_write_(j),
         UNCHANGED <<result_queue_, running, powerVars, device, surprise>>
  PROVE  QueuesOK' /\ InForce'
  <1>1. job_queue_' \in Seq(Jobs) /\ Len(job_queue_') <= JobCap
    BY Constants DEF enqueue_write_, Fits, QueuesOK
  <1>2. /\ \A c : LastIs(job_queue_, c) => LastIs(job_queue_', c)
        /\ PowerJobs(job_queue_') = PowerJobs(job_queue_)
    BY AppendJob DEF enqueue_write_, QueuesOK
  <1>3. QueuesOK'
    BY <1>1 DEF QueuesOK
  <1>4. /\ last_power_valid_' = last_power_valid_ /\ last_power_props_' = last_power_props_
        /\ surprise' = surprise /\ running' = running /\ device' = device
        /\ result_queue_' = result_queue_
    BY DEF powerVars
  <1> QED BY <1>2, <1>3, <1>4 DEF InForce

\* A power command: suppressed, queued as the last one, or dropped.
LEMMA SetPower ==
  ASSUME QueuesOK, PowerOK, ReportedOK, InForce, NEW w \in Int, set_power(w),
         UNCHANGED <<result_queue_, running, device>>
  PROVE  QueuesOK' /\ PowerOK' /\ InForce'
  <1> DEFINE c == Command(w)
  <1>1. c \in Commands
    BY CommandWithinLimits
  <1>2. \/ UNCHANGED <<job_queue_, powerVars, surprise>>
        \/ enqueue_write_(PowerJob(c)) /\ NotePower(c)
    BY DEF set_power
  <1> HIDE DEF c
  <1>3. CASE UNCHANGED <<job_queue_, powerVars, surprise>>
    BY <1>3 DEF QueuesOK, PowerOK, InForce, powerVars
  <1>4. CASE enqueue_write_(PowerJob(c)) /\ NotePower(c)
    <2>1. PowerJob(c) \in Jobs /\ PowerJob(c).type = "power" /\ PowerJob(c).cmd = c
      BY <1>1, JobShape
    <2>2. job_queue_' \in Seq(Jobs) /\ Len(job_queue_') <= JobCap
      BY <1>4, <2>1, Constants DEF enqueue_write_, Fits, QueuesOK
    <2>3. QueuesOK'
      BY <2>2 DEF QueuesOK
    <2>4. PowerOK'
      BY <1>1, <1>4, Constants DEF NotePower, PowerOK, Fits
    <2>5. CASE Fits
      <3>1. last_power_props_' = c
        BY <1>4, <2>5 DEF NotePower
      <3>2. LastIs(job_queue_', c)
        BY <1>4, <2>1, <2>5, AppendJob DEF enqueue_write_, QueuesOK
      <3> QED BY <2>3, <2>4, <3>1, <3>2 DEF InForce
    <2>6. CASE ~Fits
      BY <1>4, <2>3, <2>4, <2>6 DEF NotePower, InForce
    <2> QED BY <2>5, <2>6
  <1> QED BY <1>2, <1>3, <1>4

\* The worker takes a job.
LEMMA TakeJobInv ==
  ASSUME QueuesOK, InForce, TakeJob
  PROVE  QueuesOK' /\ InForce'
  <1>1. /\ running = NoJob /\ job_queue_ # <<>>
        /\ running' = Head(job_queue_) /\ job_queue_' = Tail(job_queue_)
        /\ UNCHANGED <<result_queue_, last_power_valid_, last_power_props_, surprise, device>>
    BY DEF TakeJob, powerVars
  <1>2. job_queue_' \in Seq(Jobs) /\ Len(job_queue_') <= JobCap /\ running' \in Jobs
    BY <1>1, Constants DEF QueuesOK
  <1>3. QueuesOK'
    BY <1>1, <1>2 DEF QueuesOK
  <1>4. /\ \A c : LastIs(job_queue_, c) => \/ LastIs(job_queue_', c)
                                           \/ /\ PowerJobs(job_queue_') = {}
                                              /\ running'.type = "power" /\ running'.cmd = c
        /\ PowerJobs(job_queue_) = {} => PowerJobs(job_queue_') = {} /\ running'.type # "power"
    BY <1>1, TakeHead DEF QueuesOK
  <1>5. running.type # "power"
    BY <1>1, JobShape
  <1> QED BY <1>1, <1>3, <1>4, <1>5 DEF InForce

-----------------------------------------------------------------------------
(* Results                                                                 *)

\* What the battery makes of a job.
LEMMA AppliedJob ==
  ASSUME NEW d \in Devices, NEW j \in Jobs
  PROVE  /\ Applied(d, j) \in Devices
         /\ j.type = "power" => Applied(d, j).cmd = j.cmd
         /\ j.type # "power" => Applied(d, j).cmd = d.cmd
  <1> DEFINE mv == Moves(d, j.cmd)
  <1>1. mv \in BOOLEAN
    BY DEF Moves
  <1> HIDE DEF mv
  <1>2. CASE j.type = "power"
    <2>1. Applied(d, j) = [d EXCEPT !.cmd = j.cmd, !.moving = mv]
      BY <1>2 DEF Applied, mv
    <2> QED BY <1>1, <1>2, <2>1, JobShape DEF Devices
  <1>3. CASE j.type = "prop"
    <2>1. Applied(d, j) = [d EXCEPT !.prop = j.val]
      BY <1>3 DEF Applied
    <2> QED BY <1>3, <2>1, JobShape DEF Devices
  <1>4. CASE j.type # "power" /\ j.type # "prop"
    <2>1. Applied(d, j) = d
      BY <1>4 DEF Applied
    <2> QED BY <1>4, <2>1
  <1> QED BY <1>2, <1>3, <1>4

LEMMA Posted ==
  ASSUME QueuesOK, NEW r \in Results, Post(r)
  PROVE  /\ result_queue_' \in Seq(Results) /\ Len(result_queue_') <= ResultCap
         /\ AllOk(result_queue_') =>
              /\ AllOk(result_queue_)
              /\ Len(result_queue_) < ResultCap => (r.type = "power" => r.ok)
  <1>1. CASE Len(result_queue_) < ResultCap
    <2>1. result_queue_' = Append(result_queue_, r)
      BY <1>1 DEF Post
    <2> QED BY <1>1, <2>1, AppendResult, Constants DEF QueuesOK
  <1>2. CASE ~(Len(result_queue_) < ResultCap)
    BY <1>2 DEF Post, QueuesOK
  <1> QED BY <1>1, <1>2

LEMMA AnsweredInv ==
  ASSUME QueuesOK, device \in Devices, InForce, Answered
  PROVE  QueuesOK' /\ device' \in Devices /\ InForce'
  <1> DEFINE r == IF running.type = "poll" THEN PollOk(device) ELSE Written(running.type)
  <1>1. /\ running # NoJob /\ device' = Applied(device, running) /\ Post(r) /\ running' = NoJob
        /\ UNCHANGED <<job_queue_, last_power_valid_, last_power_props_, surprise>>
    BY DEF Answered, powerVars
  <1>2. running \in Jobs /\ running.type \in {"poll", "power", "prop"}
    BY <1>1, JobShape DEF QueuesOK
  <1>3. r \in Results
    BY <1>2, ResultShape
  <1> HIDE DEF r
  <1>4. /\ result_queue_' \in Seq(Results) /\ Len(result_queue_') <= ResultCap
        /\ AllOk(result_queue_') => AllOk(result_queue_)
    BY <1>1, <1>3, Posted
  <1>5. QueuesOK'
    BY <1>1, <1>4 DEF QueuesOK
  <1>6. /\ device' \in Devices
        /\ running.type = "power" => device'.cmd = running.cmd
        /\ running.type # "power" => device'.cmd = device.cmd
    BY <1>1, <1>2, AppliedJob
  <1>7. running'.type # "power"
    BY <1>1, JobShape
  <1> QED BY <1>1, <1>4, <1>5, <1>6, <1>7 DEF InForce

LEMMA UnansweredInv ==
  ASSUME QueuesOK, device \in Devices, surprise \in BOOLEAN, InForce, Unanswered
  PROVE  QueuesOK' /\ device' \in Devices /\ surprise' \in BOOLEAN /\ InForce'
  <1> DEFINE r == Failed(running.type)
  <1>1. /\ running # NoJob /\ device' \in {device, Applied(device, running)}
        /\ Post(r) /\ running' = NoJob
        /\ surprise' = (surprise \/ Lost(r))
        /\ UNCHANGED <<job_queue_, last_power_valid_, last_power_props_>>
    BY DEF Unanswered, powerVars
  <1>2. running \in Jobs /\ running.type \in {"poll", "power", "prop"}
    BY <1>1, JobShape DEF QueuesOK
  <1>3. r \in Results /\ r.type = running.type /\ ~r.ok
    BY <1>2, ResultShape
  <1> HIDE DEF r
  <1>4. /\ result_queue_' \in Seq(Results) /\ Len(result_queue_') <= ResultCap
        /\ AllOk(result_queue_') => /\ AllOk(result_queue_)
                                    /\ Len(result_queue_) < ResultCap => running.type # "power"
    BY <1>1, <1>3, Posted
  <1>5. QueuesOK'
    BY <1>1, <1>4 DEF QueuesOK
  <1>6. device' \in Devices /\ (running.type # "power" => device'.cmd = device.cmd)
    BY <1>1, <1>2, AppliedJob
  <1>7. running'.type # "power"
    BY <1>1, JobShape
  <1>8. surprise' \in BOOLEAN
    BY <1>1 DEF Lost
  <1>9. ~surprise' => /\ ~surprise
                      /\ running.type = "power" => Len(result_queue_) < ResultCap
    <2>1. ~surprise' => ~surprise /\ ~Lost(r)
      BY <1>1, Zenon
    <2>2. ~Lost(r) => (running.type = "power" => Len(result_queue_) < ResultCap)
      BY <1>3, Constants DEF Lost, QueuesOK
    <2> QED BY <2>1, <2>2
  <1> QED BY <1>1, <1>4, <1>5, <1>6, <1>7, <1>8, <1>9 DEF InForce

\* What the control path and the entities are given by a report.
LEMMA Parsed ==
  ASSUME NEW d \in Devices, parse_report_(d)
  PROVE  ReportedOK' /\ shown' \in [power : Powers, prop : PropValues]
  <1> DEFINE ho == d.moving /\ d.cmd.out > 0
             hi == d.moving /\ d.cmd.inp > 0
  <1>1. /\ reported' = [offgrid |-> OffGrid, homeOut |-> ho, homeIn |-> hi,
                        outLim |-> d.cmd.out, inLim |-> d.cmd.inp]
        /\ shown' = [power |-> Setpoint(d.cmd), prop |-> d.prop]
    BY DEF parse_report_, Published
  <1>2. ho \in BOOLEAN /\ hi \in BOOLEAN
    OBVIOUS
  <1> HIDE DEF ho, hi
  <1>3. d.cmd.out \in 0..MaxDischarge /\ d.cmd.inp \in 0..MaxCharge /\ d.prop \in PropValues
    BY DEF Devices, Commands
  <1>4. Setpoint(d.cmd) \in Powers
    BY <1>3, Constants DEF Setpoint, Powers
  <1>5. ReportedOK'
    BY <1>1, <1>2, <1>3, Constants DEF ReportedOK
  <1> QED BY <1>1, <1>3, <1>4, <1>5

LEMMA PollResultOK ==
  ASSUME ViewOK, NEW r \in Results, r.type = "poll", PollResult(r)
  PROVE  ViewOK'
  <1>1. r.ok \in BOOLEAN /\ (r.ok => r.report \in Devices)
    BY ResultShape
  <1>2. consecutive_failures_ \in 0..FailMax /\ Failures \in 0..FailMax /\ 0 \in 0..FailMax
    BY Constants DEF ViewOK, Failures, Lower
  <1>3. CASE r.ok
    <2>1. parse_report_(r.report) /\ consecutive_failures_' = 0 /\ online' = "on"
      BY <1>3 DEF PollResult
    <2> QED BY <1>1, <1>2, <1>3, <2>1, Parsed DEF ViewOK
  <1>4. CASE ~r.ok
    <2>1. /\ consecutive_failures_' = Failures
          /\ online' = IF Failures >= OfflineAfter THEN "off" ELSE online
          /\ reported' = reported /\ shown' = shown
      BY <1>4 DEF PollResult
    <2>2. ReportedOK' /\ online' \in {"unknown", "on", "off"}
      BY <2>1 DEF ViewOK, ReportedOK
    <2> QED BY <1>2, <2>1, <2>2 DEF ViewOK
  <1> QED BY <1>3, <1>4

\* loop() processes a result.
LEMMA ProcessInv == IInv /\ process_result_ => IInv'
  <1> SUFFICES ASSUME IInv, process_result_ PROVE IInv'
    OBVIOUS
  <1> USE DEF IInv
  <1> DEFINE r == Head(result_queue_)
  <1>1. /\ result_queue_ # <<>> /\ result_queue_' = Tail(result_queue_)
        /\ draining' \in BOOLEAN
        /\ IF r.type = "poll" THEN PollResult(r) ELSE WriteResult(r)
        /\ UNCHANGED <<job_queue_, running, last_power_props_, age, request, kickstart_,
                       device, up, changes, surprise>>
    BY DEF process_result_
  <1>2. /\ r \in Results /\ result_queue_' \in Seq(Results)
        /\ Len(result_queue_') <= ResultCap
    BY <1>1, Constants DEF QueuesOK
  <1>3. r.type \in {"poll", "power", "prop"} /\ r.ok \in BOOLEAN
    BY <1>2, ResultShape
  <1>4. r.ok \/ r.type # "power" => (AllOk(result_queue_') => AllOk(result_queue_))
    BY <1>1, TakeResult DEF QueuesOK
  <1> HIDE DEF r
  <1>5. QueuesOK' /\ RestOK'
    BY <1>1, <1>2 DEF QueuesOK, RestOK
  <1>6. ViewOK' /\ (last_power_valid_' <=> last_power_valid_ /\ (r.ok \/ r.type # "power"))
        /\ last_power_valid_' \in BOOLEAN
    <2>1. CASE r.type = "poll"
      <3>1. PollResult(r) /\ last_power_valid_' = last_power_valid_
        BY <1>1, <2>1 DEF PollResult
      <3> QED BY <1>2, <2>1, <3>1, PollResultOK DEF PowerOK
    <2>2. CASE r.type # "poll"
      <3>1. /\ last_power_valid_' = (last_power_valid_ /\ (r.ok \/ r.type # "power"))
            /\ UNCHANGED viewVars
        BY <1>1, <2>2 DEF WriteResult
      <3>2. ViewOK'
        BY <3>1 DEF viewVars, ViewOK, ReportedOK
      <3> QED BY <3>1, <3>2, Zenon
    <2> QED BY <2>1, <2>2
  <1>7. PowerOK'
    BY <1>1, <1>6 DEF PowerOK
  <1>8. InForce'
    BY <1>1, <1>4, <1>6 DEF InForce
  <1> QED BY <1>5, <1>6, <1>7, <1>8

-----------------------------------------------------------------------------
(* All steps                                                               *)

\* The calls on the main task.
LEMMA CallsInv ==
  ASSUME IInv, update \/ repeat_request \/ UserCalls
  PROVE  IInv'
  <1> USE DEF IInv
  <1>0. request.charge \in 0..MaxCharge /\ request.discharge \in 0..MaxDischarge
    BY DEF RestOK
  <1>1. ASSUME UserCall
        PROVE  /\ changes' \in 0..Changes
               /\ UNCHANGED <<result_queue_, running, draining, reported, consecutive_failures_,
                              online, device, up>>
    BY <1>1, Constants DEF UserCall, RestOK
  <1>2. ASSUME UNCHANGED <<reported, consecutive_failures_, online>>,
               shown' \in [power : Powers, prop : PropValues]
        PROVE  ViewOK'
    BY <1>2 DEF ViewOK, ReportedOK
  <1>3. shown \in [power : Powers, prop : PropValues] /\ ReportedOK
    BY DEF ViewOK
  <1>4. CASE update
    <2>1. enqueue_write_(PollJob)
          /\ UNCHANGED <<result_queue_, running, powerVars, device, surprise>>
          /\ UNCHANGED <<draining, viewVars, request, kickstart_, up, changes>>
      BY <1>4 DEF update, enqueue_write_
    <2>2. QueuesOK' /\ InForce'
      BY <2>1, JobShape, QueuedOther
    <2> QED BY <2>1, <2>2 DEF PowerOK, ViewOK, ReportedOK, RestOK, powerVars, viewVars
  <1>5. CASE repeat_request
    <2>1. /\ set_power(request.discharge - request.charge)
          /\ UNCHANGED <<result_queue_, running, device>>
          /\ UNCHANGED <<draining, viewVars, request, kickstart_, up, changes>>
      BY <1>5 DEF repeat_request
    <2>2. request.discharge - request.charge \in Int
      BY <1>0, Constants
    <2>3. QueuesOK' /\ PowerOK' /\ InForce'
      BY <1>3, <2>1, <2>2, SetPower
    <2> QED BY <2>1, <2>3 DEF ViewOK, ReportedOK, RestOK, viewVars
  <1>6. ASSUME NEW ch \in 0..MaxCharge, NEW dis \in 0..MaxDischarge, set_request(ch, dis)
        PROVE  IInv'
    <2>1. /\ UserCall /\ set_power(dis - ch) /\ request' = [charge |-> ch, discharge |-> dis]
          /\ UNCHANGED <<kickstart_, shown>>
      BY <1>6 DEF set_request
    <2>2. dis - ch \in Int
      BY Constants
    <2>3. QueuesOK' /\ PowerOK' /\ InForce'
      BY <1>1, <1>3, <2>1, <2>2, SetPower
    <2>4. ViewOK' /\ RestOK'
      BY <1>1, <1>2, <1>3, <2>1 DEF RestOK
    <2> QED BY <2>3, <2>4
  <1>7. ASSUME NEW w \in Powers, write_number(w)
        PROVE  IInv'
    <2>1. UserCall /\ set_power(w) /\ shown' = [shown EXCEPT !.power = w]
          /\ UNCHANGED <<request, kickstart_>>
      BY <1>7 DEF write_number
    <2>2. w \in Int
      BY Constants DEF Powers
    <2>3. QueuesOK' /\ PowerOK' /\ InForce'
      BY <1>1, <1>3, <2>1, <2>2, SetPower
    <2>4. shown' \in [power : Powers, prop : PropValues]
      BY <1>3, <2>1
    <2>5. ViewOK' /\ RestOK'
      BY <1>1, <1>2, <2>1, <2>4 DEF RestOK
    <2> QED BY <2>3, <2>5
  <1>8. ASSUME NEW v \in PropValues, write_property(v)
        PROVE  IInv'
    <2>1. /\ UserCall /\ enqueue_write_(PropJob(v)) /\ shown' = [shown EXCEPT !.prop = v]
          /\ UNCHANGED <<powerVars, request, kickstart_, surprise>>
      BY <1>8 DEF write_property
    <2>2. QueuesOK' /\ InForce'
      BY <1>1, <2>1, JobShape, QueuedOther
    <2>3. shown' \in [power : Powers, prop : PropValues]
      BY <1>3, <2>1
    <2>4. PowerOK' /\ ViewOK' /\ RestOK'
      BY <1>1, <1>2, <2>1, <2>3 DEF RestOK, PowerOK, powerVars
    <2> QED BY <2>2, <2>4
  <1>9. CASE set_kickstart
    <2>1. UserCall /\ kickstart_' = ~kickstart_
          /\ UNCHANGED <<job_queue_, powerVars, request, shown, surprise>>
      BY <1>9 DEF set_kickstart
    <2> QED BY <1>1, <1>2, <1>3, <2>1 DEF QueuesOK, PowerOK, InForce, RestOK, powerVars
  <1> QED BY <1>4, <1>5, <1>6, <1>7, <1>8, <1>9 DEF UserCalls

\* The worker.
LEMMA WorkerInv ==
  ASSUME IInv, TakeJob \/ Answered \/ Unanswered
  PROVE  IInv'
  <1> USE DEF IInv
  <1>0. device \in Devices /\ surprise \in BOOLEAN
    BY DEF RestOK, PowerOK
  <1>1. CASE TakeJob
    <2>1. QueuesOK' /\ InForce'
      BY <1>1, TakeJobInv
    <2> QED BY <1>1, <2>1 DEF TakeJob, PowerOK, ViewOK, ReportedOK, RestOK, powerVars, viewVars
  <1>2. CASE Answered
    <2>1. QueuesOK' /\ device' \in Devices /\ InForce'
      BY <1>0, <1>2, AnsweredInv
    <2>2. UNCHANGED <<draining, powerVars, viewVars, request, kickstart_, up, changes, surprise>>
      BY <1>2 DEF Answered
    <2> QED BY <2>1, <2>2 DEF PowerOK, ViewOK, ReportedOK, RestOK, powerVars, viewVars
  <1>3. CASE Unanswered
    <2>1. QueuesOK' /\ device' \in Devices /\ surprise' \in BOOLEAN /\ InForce'
      BY <1>0, <1>3, UnansweredInv
    <2>2. UNCHANGED <<draining, powerVars, viewVars, request, kickstart_, up, changes>>
      BY <1>3 DEF Unanswered
    <2> QED BY <2>1, <2>2 DEF PowerOK, ViewOK, ReportedOK, RestOK, powerVars, viewVars
  <1> QED BY <1>1, <1>2, <1>3

\* Time, the network and the app.
LEMMA EnvironmentInv ==
  ASSUME IInv, Tick \/ GoesDown \/ ComesUp \/ AppStops \/ UNCHANGED zenVars
  PROVE  IInv'
  <1> USE DEF IInv, queueVars, powerVars, viewVars
  <1>1. CASE Tick
    <2>1. age' \in 0..Refresh
      BY <1>1, Constants DEF Tick, PowerOK
    <2> QED BY <1>1, <2>1 DEF Tick, QueuesOK, PowerOK, ViewOK, ReportedOK, RestOK, InForce
  <1>2. CASE GoesDown
    <2>1. changes' \in 0..Changes
      BY <1>2, Constants DEF GoesDown, RestOK
    <2> QED BY <1>2, <2>1 DEF GoesDown, QueuesOK, PowerOK, ViewOK, ReportedOK, RestOK, InForce
  <1>3. CASE ComesUp
    BY <1>3 DEF ComesUp, QueuesOK, PowerOK, ViewOK, ReportedOK, RestOK, InForce
  <1>4. CASE AppStops
    <2>1. changes' \in 0..Changes /\ surprise' = TRUE
      BY <1>4, Constants DEF AppStops, RestOK
    <2>2. NoCommand \in Commands
      BY Constants DEF NoCommand, Commands
    <2>3. device' \in Devices
      BY <1>4, <2>2, AppliedJob, JobShape DEF AppStops, RestOK
    <2>4. UNCHANGED <<queueVars, draining, powerVars, viewVars, request, kickstart_, up>>
      BY <1>4 DEF AppStops
    <2>5. QueuesOK' /\ PowerOK' /\ InForce'
      BY <2>1, <2>4 DEF QueuesOK, PowerOK, InForce
    <2>6. ViewOK' /\ RestOK'
      BY <2>1, <2>3, <2>4 DEF ViewOK, ReportedOK, RestOK
    <2> QED BY <2>5, <2>6
  <1>5. CASE UNCHANGED zenVars
    BY <1>5 DEF zenVars, QueuesOK, PowerOK, ViewOK, ReportedOK, RestOK, InForce
  <1> QED BY <1>1, <1>2, <1>3, <1>4, <1>5

LEMMA InitInv == ZenInit => IInv
  <1> SUFFICES ASSUME ZenInit PROVE IInv
    OBVIOUS
  <1> USE DEF ZenInit
  <1>1. NoCommand \in Commands
    BY Constants DEF NoCommand, Commands
  <1>2. device \in Devices
    <2>1. \E v : v \in PropValues
      BY ZenSdkAssumption
    <2>2. (CHOOSE v \in PropValues : TRUE) \in PropValues
      BY <2>1
    <2> QED BY <1>1, <2>2 DEF Devices
  <1>3. QueuesOK
    BY Constants DEF QueuesOK
  <1>4. PowerOK /\ InForce
    <2>1. age \in 0..Refresh /\ ~last_power_valid_ /\ last_power_props_ \in Commands
      BY <1>1, Constants
    <2>2. last_power_valid_ \in BOOLEAN /\ surprise \in BOOLEAN
      OBVIOUS
    <2> QED BY <2>1, <2>2, Zenon DEF PowerOK, InForce
  <1>5. ViewOK
    <2>1. device.prop \in PropValues /\ 0 \in Powers
      BY <1>2, Constants DEF Devices, Powers
    <2> QED BY <2>1, Constants DEF ViewOK, ReportedOK
  <1>6. RestOK
    <2>1. draining \in BOOLEAN /\ kickstart_ \in BOOLEAN /\ up \in BOOLEAN
      BY Constants, Zenon
    <2>2. changes \in 0..Changes
          /\ request \in [charge : 0..MaxCharge, discharge : 0..MaxDischarge]
      BY Constants
    <2> QED BY <1>2, <2>1, <2>2, Zenon DEF RestOK
  <1> QED BY <1>3, <1>4, <1>5, <1>6 DEF IInv

LEMMA NextInv == IInv /\ [ZenNext]_zenVars => IInv'
  <1> SUFFICES ASSUME IInv, [ZenNext]_zenVars PROVE IInv'
    OBVIOUS
  <1>1. CASE update \/ repeat_request \/ UserCalls
    BY <1>1, CallsInv
  <1>2. CASE TakeJob \/ Answered \/ Unanswered
    BY <1>2, WorkerInv
  <1>3. CASE process_result_
    BY <1>3, ProcessInv
  <1>4. CASE Tick \/ GoesDown \/ ComesUp \/ AppStops \/ UNCHANGED zenVars
    BY <1>4, EnvironmentInv
  <1> QED BY <1>1, <1>2, <1>3, <1>4 DEF ZenNext

\* When nothing is on its way any more, the command is in force.
LEMMA InForceIsEnough == InForce => SuppressedIsInForce
  BY DEF InForce, SuppressedIsInForce, LastIs, AllOk

\* A request that set_power suppresses is one the battery holds, in every order of
\* calls, jobs, answers, failures and results, for any queue lengths and limits; the
\* commands are always within the limits and the queues within their lengths.
THEOREM InForceTheorem == ZenSpec => []ZenInv
  <1>1. ZenSpec => []IInv
    BY InitInv, NextInv, PTL DEF ZenSpec
  <1>2. IInv => ZenInv
    BY TypeParts, InForceIsEnough DEF IInv, ZenInv
  <1> QED BY <1>1, <1>2, PTL
=============================================================================
