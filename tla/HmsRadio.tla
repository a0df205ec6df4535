------------------------------ MODULE HmsRadio ------------------------------
(***************************************************************************)
(* hms: several HMSComponent instances, one per inverter, that share one   *)
(* CMT2300A radio through its cooperative lock.                            *)
(*                                                                         *)
(* All instances run on the main task; a step is one loop() tick of one    *)
(* instance, a press of its reset button or a new power limit.  st[i] is   *)
(* the state of instance i:                                                *)
(*   op, cmd, sends        op_state_, pending_cmd_, send_count_            *)
(*   got, last, max, redo  rx_fragments_ (who sent the fragment, for what  *)
(*                         command), rx_fragment_last_id_, _max_id_ and    *)
(*                         rx_retransmit_count_                            *)
(*   tx, ask               tx_sending_: what is on the air, or "no"; the   *)
(*                         fragment a "redo" asks for                      *)
(*   restore, release      tx_restore_channel_(value_), tx_release_lock_.. *)
(*   work, fails, limit    work_channel_, rx_failure_count_ (saturated),   *)
(*                         power_limit_pending_                            *)
(* Timers are choices.  The air holds the reply fragments under way: they  *)
(* may be received late, in any order or never.  The chip may refuse every *)
(* frame, and the reset button may be pressed at any time.                 *)
(***************************************************************************)
EXTENDS Naturals, FiniteSets

CONSTANTS
  Invs,              \* the inverters, and their hms: instances
  None,              \* nobody
  Limited,           \* the instances with an entity that sets their power limit
  Buttons,           \* the instances with a reset button
  BoardDtu,          \* the DTU serial derived from the board's MAC
  Configs,           \* settings c of dtu_serial: c[i] = None is the default
  Frags,             \* number of fragments of a telemetry reply
  MaxResend,         \* MAX_RESEND_COUNT
  MaxRetransmit,     \* MAX_RETRANSMIT_COUNT
  Threshold,         \* REACHABLE_THRESHOLD
  MaxAir             \* bound: reply fragments under way at a time

ASSUME HmsAssumption ==
  /\ None \notin Invs
  /\ Limited \subseteq Invs /\ Buttons \subseteq Invs
  /\ {Frags, MaxResend, MaxRetransmit, Threshold, MaxAir} \subseteq Nat /\ Frags > 0

VARIABLES
  dtu,         \* dtu_serial_ of each instance, fixed by setup()
  lock,        \* external_lock_owner_
  chan,        \* REG_CUS_FREQ_CHNL: "work", "boot", or "none" after a failed reset
  st,
  air,         \* reply fragments under way, [inv, cmd, id, last]
  \* What has happened so far, for the properties only:
  published,   \* inverter whose telemetry instance i published last
  ended,       \* the instance whose exchange the last step has ended, or None
  abandoned    \* instances with an abandoned ChannelChange to recover from

vars == <<dtu, lock, chan, st, air, published, ended, abandoned>>

Ids == 1..Frags
Fragment == [inv : Invs, cmd : {"data", "limit"}]
ASSUME NoneAssumption == None \notin Fragment
Frame == [inv : Invs, cmd : {"data", "limit"}, id : Ids, last : BOOLEAN]
InstanceState ==
  [op : {"idle", "wait"}, cmd : {"none", "data", "limit"}, sends : Nat,
   got : [Ids -> Fragment \cup {None}], last : 0..Frags, max : 0..Frags, redo : Nat,
   tx : {"no", "data", "limit", "change", "redo"}, ask : 0..Frags,
   restore : {"no", "work", "boot"}, release : BOOLEAN,
   work : {"work", "boot"}, fails : 0..(Threshold + 1), limit : BOOLEAN]

\* Type correctness: the fragment asked for again is one of the reply, and the
\* counters keep within their limits.
TypeOK ==
  /\ lock \in Invs \cup {None}
  /\ chan \in {"work", "boot", "none"}
  /\ st \in [Invs -> InstanceState]
  /\ air \subseteq Frame
  /\ published \in [Invs -> Invs \cup {None}]
  /\ ended \in Invs \cup {None}
  /\ abandoned \subseteq Invs

NoFragments == [k \in Ids |-> None]

\* setup(): an instance without a DTU serial of its own takes the board's.
Init ==
  /\ \E c \in Configs : dtu = [i \in Invs |-> IF c[i] = None THEN BoardDtu ELSE c[i]]
  /\ lock = None
  /\ chan = "work"
  /\ st = [i \in Invs |->
       [op |-> "idle", cmd |-> "none", sends |-> 0,
        got |-> NoFragments, last |-> 0, max |-> 0, redo |-> 0,
        tx |-> "no", ask |-> 0, restore |-> "no", release |-> FALSE,
        work |-> "work", fails |-> 0, limit |-> FALSE]]
  /\ air = {}
  /\ published = [i \in Invs |-> None]
  /\ ended = None
  /\ abandoned = {}

-----------------------------------------------------------------------------
(* The lock of cmt2300a, and transmission.                                 *)

\* is_owned_by_other, try_lock_external, unlock_external
OwnedByOther(i) == lock # None /\ lock # i
CanLock(i, owner) == owner = None \/ owner = i
Unlocked(i, owner) == IF owner = i THEN None ELSE owner

\* cmt_start_tx_: nothing is on the air when the FIFO stays empty or the chip
\* refuses the state change (ok = FALSE).
StartTx(s, what, ok) == IF ok THEN [s EXCEPT !.tx = what] ELSE s

\* Mutant: an attempt is not counted.
MutSendCurrentUncounted(s, ok) ==
  StartTx([s EXCEPT !.got = NoFragments, !.last = 0, !.max = 0, !.redo = 0], s.cmd, ok)

\* send_current_command_ and start_command_
SendCurrent(s, ok) ==
  StartTx([s EXCEPT !.sends = @ + 1, !.got = NoFragments, !.last = 0,
                    !.max = 0, !.redo = 0], s.cmd, ok)
StartCommand(s, cmd, ok) ==
  SendCurrent([s EXCEPT !.op = "wait", !.cmd = cmd, !.sends = 0], ok)

\* What inverter i answers to a transmission: a whole reply, the fragment it
\* was asked to repeat, or nothing (a channel change is not answered).
Answers(i, s) ==
  LET frame(cmd, k, n) == [inv |-> i, cmd |-> cmd, id |-> k, last |-> k = n]
  IN CASE s.tx = "data"  -> {frame("data", k, Frags) : k \in Ids}
       [] s.tx = "limit" -> {frame("limit", 1, 1)}
       [] s.tx = "redo"  -> {frame("data", s.ask, Frags)}
       [] OTHER          -> {}

\* Mutant: the channel of the chip is restored, work_channel_ is not.
MutAfterTxKeepsBoot(s) ==
  [s EXCEPT !.tx = "no", !.restore = "no", !.release = FALSE]

\* An abandoned ChannelChange has been recovered from: nothing of it is left.
Clean(s) == s.tx = "no" /\ s.op = "idle" /\ ~s.release /\ s.work = "work"
Note(i, s, event) ==
  abandoned' = IF Clean(s) THEN abandoned \ {i}
               ELSE IF event THEN abandoned \cup {i} ELSE abandoned

\* process_tx_, once TX_DONE is seen or after 95 ms: restore the channel and
\* release the lock when the flags of a ChannelChange say so, whatever frame it
\* was.
AfterTx(s) ==
  [s EXCEPT !.tx = "no", !.work = IF s.restore # "no" THEN s.restore ELSE @,
            !.restore = "no", !.release = FALSE]

process_tx_(i) ==
  /\ ~OwnedByOther(i)
  /\ st[i].tx # "no"
  /\ st' = [st EXCEPT ![i] = AfterTx(@)]
  /\ Note(i, AfterTx(st[i]), FALSE)
  /\ chan' = IF st[i].restore # "no" THEN st[i].restore ELSE chan
  /\ lock' = IF st[i].release THEN Unlocked(i, lock) ELSE lock
  /\ \E heard \in SUBSET Answers(i, st[i]) :
       /\ Cardinality(air \cup heard) <= MaxAir
       /\ air' = air \cup heard
  /\ ended' = None
  /\ UNCHANGED <<dtu, published>>

-----------------------------------------------------------------------------
(* Reassembly.                                                             *)

Complete(s) == s.max # 0 /\ \A k \in 1..s.max : s.got[k] # None

\* Mutant: packets are not filtered at all.
MutAcceptsAny(i, f) == TRUE

\* A packet is kept when it bears the instance's own DTU serial.
Accepts(i, f) == dtu[f.inv] = dtu[i]

\* add_rx_fragment_
WithFragment(s, f) ==
  [s EXCEPT !.got[f.id] = [inv |-> f.inv, cmd |-> f.cmd],
            !.last = IF f.id > @ THEN f.id ELSE @,
            !.max = IF f.last THEN f.id ELSE @]

\* The first fragment to ask for again (0: none is known to be missing).
Missing(s) ==
  LET holes == {k \in 1..(s.max - 1) : s.got[k] = None}
  IN IF s.max = 0 THEN s.last + 1
     ELSE IF holes = {} THEN 0
     ELSE CHOOSE k \in holes : \A h \in holes : k <= h

\* handle_realtime_response_: every fragment answers a telemetry request and
\* the CRC over all of them holds, so that they make up one whole reply.
DataFrom(s, j) == s.max = Frags /\ \A k \in Ids : s.got[k] = [inv |-> j, cmd |-> "data"]
Handled(s, crc) ==
  IF s.cmd = "data" THEN crc /\ \E j \in Invs : DataFrom(s, j)
                    ELSE \A k \in 1..s.max : s.got[k].cmd = "limit"

\* verify_all_fragments_
Verdict(s, crc) ==
  CASE s.last = 0 -> IF s.sends <= MaxResend THEN "resend" ELSE "failed"
    [] s.last # 0 /\ Missing(s) # 0 ->
         IF s.redo < MaxRetransmit THEN "retransmit" ELSE "failed"
    [] OTHER -> IF Handled(s, crc) THEN "ok" ELSE "failed"

\* Mutant: any reply makes the inverter reachable, as one would expect.
MutEndClearsFailures(s, verdict) ==
  [s EXCEPT !.op = "idle", !.cmd = "none",
            !.fails = IF verdict = "failed" THEN IF @ > Threshold THEN @ ELSE @ + 1 ELSE 0]

\* The exchange is over; the caller unlocks the radio.
EndExchange(s, verdict) ==
  [s EXCEPT !.op = "idle", !.cmd = "none",
            !.fails = IF verdict = "failed"
                      THEN IF @ > Threshold THEN @ ELSE @ + 1
                      ELSE IF s.cmd = "data" THEN 0 ELSE @]

-----------------------------------------------------------------------------
(* The idle part of a tick: a pending power limit goes first, then the     *)
(* poll, when it is due; an unreachable inverter gets a ChannelChange.     *)

Outcome(s, owner, ch) == [s |-> s, lock |-> owner, chan |-> ch, refused |-> FALSE]

\* Mutant: the power limit goes out without taking the lock.
MutStartLimitUnlocked(i, s, owner, ch) ==
  {Outcome(StartCommand([s EXCEPT !.limit = FALSE], "limit", ok), owner, ch) : ok \in BOOLEAN}

StartLimit(i, s, owner, ch) ==
  {Outcome(StartCommand([s EXCEPT !.limit = FALSE], "limit", ok), i, ch) : ok \in BOOLEAN}

\* A refused ChannelChange leaves the radio on the boot channel, the lock taken
\* and the flags set.
StartPoll(i, s, owner, ch) ==
  IF s.fails > Threshold
  THEN {[Outcome(StartTx([s EXCEPT !.restore = s.work, !.release = TRUE, !.work = "boot"],
                         "change", ok), i, "boot") EXCEPT !.refused = ~ok] : ok \in BOOLEAN}
  ELSE {Outcome(StartCommand(s, "data", ok), i, ch) : ok \in BOOLEAN}

WhenIdle(i, s, owner, ch) ==
  IF s.limit
  THEN IF CanLock(i, owner) THEN StartLimit(i, s, owner, ch) ELSE {Outcome(s, owner, ch)}
  ELSE {Outcome(s, owner, ch)} \cup
       IF CanLock(i, owner) THEN StartPoll(i, s, owner, ch) ELSE {}

Apply(i, o) ==
  /\ st' = [st EXCEPT ![i] = o.s]
  /\ lock' = o.lock
  /\ chan' = o.chan
  /\ Note(i, o.s, o.refused)
  /\ UNCHANGED dtu

-----------------------------------------------------------------------------
(* loop(), when another instance does not own the radio.                   *)

IdleTick(i) ==
  /\ ~OwnedByOther(i)
  /\ st[i].tx = "no" /\ st[i].op = "idle"
  /\ \E o \in WhenIdle(i, st[i], lock, chan) : Apply(i, o)
  /\ ended' = None
  /\ UNCHANGED <<air, published>>

\* An exchange is under way: receive at most one fragment; once the reply is
\* complete, or the deadline has passed, decide how to go on.  An exchange
\* that ends unlocks the radio, and the tick goes on as an idle one.
WaitTick(i, rx, due, crc) ==
  /\ ~OwnedByOther(i)
  /\ st[i].tx = "no" /\ st[i].op = "wait"
  /\ rx \subseteq air /\ Cardinality(rx) <= 1
  /\ air' = air \ rx
  /\ LET kept == {f \in rx : Accepts(i, f)}
         s == IF kept = {} THEN st[i]
                           ELSE WithFragment(st[i], CHOOSE f \in kept : TRUE)
         verdict == Verdict(s, crc)
     IN IF ~due /\ (kept = {} \/ ~Complete(s))
        THEN /\ Apply(i, Outcome(s, lock, chan))
             /\ ended' = None
             /\ UNCHANGED published
        ELSE \/ /\ verdict = "resend"
                /\ \E ok \in BOOLEAN : Apply(i, Outcome(SendCurrent(s, ok), lock, chan))
                /\ ended' = None
                /\ UNCHANGED published
             \/ /\ verdict = "retransmit"
                /\ \E ok \in BOOLEAN :
                     Apply(i, Outcome(StartTx([s EXCEPT !.redo = @ + 1, !.ask = Missing(s)],
                                              "redo", ok), lock, chan))
                /\ ended' = None
                /\ UNCHANGED published
             \/ /\ verdict \in {"ok", "failed"}
                /\ \E o \in WhenIdle(i, EndExchange(s, verdict), Unlocked(i, lock), chan) :
                     Apply(i, o)
                /\ published' = IF verdict = "ok" /\ s.cmd = "data"
                                THEN [published EXCEPT ![i] = s.got[1].inv]
                                ELSE published
                /\ ended' = i

-----------------------------------------------------------------------------
(* Calls from entities.                                                    *)

set_power_limit(i) ==
  /\ st' = [st EXCEPT ![i].limit = TRUE]
  /\ ended' = None
  /\ UNCHANGED <<dtu, lock, chan, air, published, abandoned>>

\* The exchange or frame under way is abandoned; the flags of a ChannelChange
\* are kept.
AfterReset(s, outcome) ==
  LET r == [s EXCEPT !.tx = "no", !.op = "idle", !.cmd = "none"]
  IN IF outcome = "ok" THEN [r EXCEPT !.work = "work", !.fails = 0] ELSE r

\* reset_radio: deferred while another instance owns the radio.  The chip may
\* not respond ("silent"), or not take its configuration again ("unconfigured").
reset_radio(i, outcome) ==
  /\ ~OwnedByOther(i)
  /\ st' = [st EXCEPT ![i] = AfterReset(@, outcome)]
  /\ Note(i, AfterReset(st[i], outcome), st[i].tx = "change")
  /\ chan' = CASE outcome = "ok"           -> "work"
               [] outcome = "unconfigured" -> "none"
               [] outcome = "silent"       -> chan
  /\ lock' = None
  /\ ended' = IF st[i].op = "wait" THEN i ELSE None
  /\ UNCHANGED <<dtu, air, published>>

Next ==
  \/ \E i \in Invs : process_tx_(i)
  \/ \E i \in Invs : IdleTick(i)
  \/ \E i \in Invs : \E rx \in SUBSET air, due, crc \in BOOLEAN : WaitTick(i, rx, due, crc)
  \/ \E i \in Limited : set_power_limit(i)
  \/ \E i \in Buttons : \E outcome \in {"ok", "unconfigured", "silent"} :
       reset_radio(i, outcome)

Spec == Init /\ [][Next]_vars

\* The main loop keeps calling loop() of every instance: a transmission ends
\* within 95 ms, a deadline that is looked at again and again has passed in the
\* end, and so has the poll interval.  The chip takes a frame in the end: an
\* instance that retries a refused ChannelChange for ever changes nothing.
FairSpec ==
  /\ Spec
  /\ \A i \in Invs :
       SF_vars(\/ process_tx_(i)
               \/ IdleTick(i)
               \/ \E rx \in SUBSET air, crc \in BOOLEAN : WaitTick(i, rx, TRUE, crc))

-----------------------------------------------------------------------------
(* Properties.                                                             *)

Active(i) == st[i].op = "wait" \/ st[i].tx # "no"
Unreachable(i) == st[i].fails > Threshold

\* An instance holds the lock for the whole of an exchange (Tx, response wait,
\* retransmissions), and for no longer, through resends, refused frames and
\* resets.  Two things only upset it, for the instance they happen to and until
\* it is idle without traces of them: a refused ChannelChange and a reset that
\* abandons one (hms.cpp:1072, 817).  And whoever holds the lock while idle will
\* give it back after its next frame.
LockIffActive ==
  \A i \in Invs :
    /\ i \notin abandoned => (lock = i <=> Active(i))
    /\ lock = i /\ ~Active(i) => st[i].release

\* The radio leaves the working channel only for the time of a ChannelChange
\* frame, unless such a frame has been abandoned; and no instance takes the boot
\* channel for its working channel unless its own has.
ChannelRestored ==
  /\ chan = "boot" => \E i \in Invs : st[i].tx = "change" \/ i \in abandoned
  /\ \A i \in Invs \ abandoned : st[i].tx # "change" => st[i].work = "work"

\* An instance publishes telemetry of its own inverter, or of one that answers to
\* the same DTU serial (late fragments of which pass the only filter there is).
OwnTelemetry == \A i \in Invs : published[i] # None => dtu[published[i]] = dtu[i]

\* An exchange keeps within its attempts.
WithinAttempts ==
  \A i \in Invs : st[i].op = "wait" =>
    st[i].sends \in 1..(MaxResend + 1) /\ st[i].redo <= MaxRetransmit

\* Reassembly keeps within the fragments of a reply and within its attempts, and
\* never takes in an inverter of another DTU.
ReassemblyOK == TypeOK /\ OwnTelemetry /\ WithinAttempts

OnlyByReset ==
  \A i \in Invs : Unreachable(i) /\ ~Unreachable(i)' => reset_radio(i, "ok")

\* An inverter that has become unreachable is reachable again only once the reset
\* button has reconfigured the chip: the polls send it nothing but ChannelChanges,
\* and the answer to a power limit does not count (hms.cpp:1059, 657).
ResetRecovers == [][OnlyByReset]_vars

\* Every exchange ends: resends and retransmissions run out.  (One that has lost
\* its lock may be kept out for ever by an instance that polls again in the tick
\* that ends its own.)
ExchangeEnds ==
  \A i \in Invs : st[i].op = "wait" /\ i \notin abandoned ~> ended = i
=============================================================================
