--------------------------- MODULE HmsRadio_proofs ---------------------------
(* Theorems about HmsRadio, for any inverters, DTU serials, reply lengths   *)
(* and retry limits, whatever the chip refuses and whenever the reset       *)
(* button is pressed.                                                       *)
EXTENDS HmsRadio, WellFoundedInduction, TLAPS

\* The record of an instance, whatever it holds.
Fields == {"op", "cmd", "sends", "got", "last", "max", "redo", "tx", "ask",
           "restore", "release", "work", "fails", "limit"}
IsRecord(s) == DOMAIN s = Fields /\ s = [f \in Fields |-> s[f]]

\* What always holds of an instance: a ChannelChange is sent outside any exchange
\* and with its flags set, every other frame belongs to an exchange.
InstanceOK(s) ==
  /\ IsRecord(s)
  /\ s.op \in {"idle", "wait"}
  /\ s.op = "wait" => s.cmd \in {"data", "limit"}
  /\ s.tx \in {"no", "data", "limit", "change", "redo"}
  /\ s.tx = "change" => s.op = "idle" /\ s.release
  /\ s.tx \notin {"no", "change"} => s.op = "wait"
  /\ s.work \in {"work", "boot"} /\ s.restore \in {"no", "work", "boot"}
  /\ s.release = (s.restore # "no")

\* An instance without an abandoned ChannelChange: the flags are set, and the boot
\* channel is its channel, exactly while the frame is on the air.
Normal(s) ==
  /\ s.release = (s.tx = "change")
  /\ s.restore = IF s.tx = "change" THEN "work" ELSE "no"
  /\ s.work = IF s.tx = "change" THEN "boot" ELSE "work"

InUse(s) == s.op = "wait" \/ s.tx # "no"

\* The inductive invariant.  The channel of the chip is the boot channel only
\* where some instance takes it for its own.
IInv ==
  /\ st = [i \in Invs |-> st[i]]
  /\ \A i \in Invs : InstanceOK(st[i])
  /\ lock \in Invs \cup {None}
  /\ \A i \in Invs \ abandoned : Normal(st[i]) /\ (lock = i <=> InUse(st[i]))
  /\ \A i \in Invs : lock = i => InUse(st[i]) \/ st[i].release
  /\ chan = "boot" => \E i \in Invs : st[i].work = "boot"

\* A step of the instance that may use the radio.
LEMMA OneInstance ==
  ASSUME IInv, NEW i \in Invs, ~OwnedByOther(i), NEW s, InstanceOK(s), NEW event,
         st' = [st EXCEPT ![i] = s],
         lock' \in {i, None},
         lock' = i => InUse(s) \/ s.release,
         Note(i, s, event),
         ~event /\ i \notin abandoned => Normal(s) /\ (lock' = i <=> InUse(s)),
         chan' = "boot" => s.work = "boot" \/ (chan = "boot" /\ s.work = st[i].work)
  PROVE  IInv'
<1> USE HmsAssumption
<1>1. lock = None \/ lock = i
  BY DEF OwnedByOther
<1>2. DOMAIN st = Invs
  BY DEF IInv
<1>3. st'[i] = s /\ \A j \in Invs \ {i} : st'[j] = st[j]
  BY <1>2
<1>4. st' = [j \in Invs |-> st'[j]]
  BY <1>2
<1>5. \A j \in Invs : InstanceOK(st'[j])
  BY <1>3 DEF IInv
<1>6. lock' \in Invs \cup {None}
  OBVIOUS
<1>7. \A j \in Invs \ {i} : j \in abandoned' <=> j \in abandoned
  BY DEF Note
<1>8. ASSUME NEW j \in Invs, j \notin abandoned'
      PROVE  Normal(st'[j]) /\ (lock' = j <=> InUse(st'[j]))
  <2>1. CASE j # i
    <3>1. Normal(st[j]) /\ ~InUse(st[j])
      BY <1>1, <1>7, <1>8, <2>1 DEF IInv
    <3> QED
      BY <1>3, <2>1, <3>1
  <2>2. CASE j = i /\ Clean(s)
    <3>1. Normal(s) /\ ~InUse(s) /\ ~s.release
      BY <2>2 DEF Clean, InstanceOK, Normal, InUse
    <3> QED
      BY <1>3, <2>2, <3>1
  <2>3. CASE j = i /\ ~Clean(s)
    <3>1. ~event /\ i \notin abandoned
      BY <1>8, <2>3 DEF Note
    <3> QED
      BY <1>3, <2>3, <3>1
  <2> QED
    BY <2>1, <2>2, <2>3
<1>9. \A j \in Invs : lock' = j => InUse(st'[j]) \/ st'[j].release
  BY <1>3
<1>10. chan' = "boot" => \E j \in Invs : st'[j].work = "boot"
  <2> SUFFICES ASSUME chan' = "boot"
               PROVE  \E j \in Invs : st'[j].work = "boot"
    OBVIOUS
  <2>1. CASE s.work = "boot"
    BY <1>3, <2>1
  <2>2. CASE chan = "boot" /\ s.work = st[i].work
    <3>1. PICK j \in Invs : st[j].work = "boot"
      BY <2>2 DEF IInv
    <3> QED
      BY <1>3, <2>2, <3>1
  <2> QED
    BY <2>1, <2>2
<1> QED
  BY <1>4, <1>5, <1>6, <1>8, <1>9, <1>10 DEF IInv, InstanceOK, IsRecord, Normal, InUse

\* The radio while instance i may use it.
LEMMA Radio ==
  ASSUME IInv, NEW i \in Invs, ~OwnedByOther(i)
  PROVE  /\ InstanceOK(st[i])
         /\ lock \in {i, None}
         /\ lock = i => InUse(st[i]) \/ st[i].release
         /\ i \notin abandoned => Normal(st[i]) /\ (lock = i <=> InUse(st[i]))
  BY DEF IInv, OwnedByOther

\* Two records of an instance that differ in nothing the lock and the channel
\* depend on, but for what is on the air.
SameControl(s, t) ==
  /\ IsRecord(t)
  /\ t.op = s.op /\ t.cmd = s.cmd
  /\ t.release = s.release /\ t.restore = s.restore /\ t.work = s.work

\* Starting to send: the frame is on the air, or the chip has refused it.
LEMMA StartTxOK ==
  ASSUME NEW s, IsRecord(s), NEW what, NEW ok \in BOOLEAN
  PROVE  /\ SameControl(s, StartTx(s, what, ok))
         /\ StartTx(s, what, ok).tx = IF ok THEN what ELSE s.tx
<1> DEFINE t == [s EXCEPT !.tx = what]
<1>1. SameControl(s, t) /\ t.tx = what
  BY DEF SameControl, IsRecord, Fields
<1> HIDE DEF t
<1>2. StartTx(s, what, ok) = IF ok THEN t ELSE s
  BY DEF StartTx, t
<1> QED
  BY <1>1, <1>2 DEF SameControl

LEMMA SendOK ==
  ASSUME NEW s, InstanceOK(s), s.op = "wait", s.tx = "no", NEW ok \in BOOLEAN
  PROVE  /\ InstanceOK(SendCurrent(s, ok)) /\ SendCurrent(s, ok).op = "wait"
         /\ SendCurrent(s, ok).work = s.work
         /\ Normal(s) => Normal(SendCurrent(s, ok))
<1> DEFINE t == [s EXCEPT !.sends = @ + 1, !.got = NoFragments, !.last = 0,
                          !.max = 0, !.redo = 0]
           u == StartTx(t, s.cmd, ok)
<1>1. SendCurrent(s, ok) = u
  BY DEF SendCurrent
<1>2. SameControl(s, t) /\ t.tx = s.tx
  BY DEF SameControl, InstanceOK, IsRecord, Fields
<1> HIDE DEF t
<1>3. SameControl(t, u) /\ u.tx = IF ok THEN s.cmd ELSE t.tx
  BY <1>2, StartTxOK DEF SameControl
<1> HIDE DEF u
<1> QED
  BY <1>1, <1>2, <1>3 DEF InstanceOK, Normal, SameControl

LEMMA StartOK ==
  ASSUME NEW s, InstanceOK(s), ~InUse(s), NEW cmd \in {"data", "limit"}, NEW ok \in BOOLEAN
  PROVE  /\ InstanceOK(StartCommand(s, cmd, ok)) /\ StartCommand(s, cmd, ok).op = "wait"
         /\ StartCommand(s, cmd, ok).work = s.work
         /\ Normal(s) => Normal(StartCommand(s, cmd, ok))
<1> DEFINE t == [s EXCEPT !.op = "wait", !.cmd = cmd, !.sends = 0]
<1>1. StartCommand(s, cmd, ok) = SendCurrent(t, ok)
  BY DEF StartCommand
<1>2. IsRecord(t) /\ t.op = "wait" /\ t.cmd = cmd /\ t.tx = s.tx /\ t.release = s.release
      /\ t.restore = s.restore /\ t.work = s.work
  BY DEF InstanceOK, IsRecord, Fields
<1> HIDE DEF t
<1>3. InstanceOK(t) /\ t.tx = "no" /\ (Normal(s) => Normal(t))
  BY <1>2 DEF InstanceOK, InUse, Normal
<1> QED
  BY <1>1, <1>2, <1>3, SendOK

\* What the idle part of a tick may come to.
IdleResult(i, s, owner, ch, o) ==
  /\ InstanceOK(o.s)
  /\ o.lock \in {i, None}
  /\ o.lock = i => InUse(o.s) \/ o.s.release
  /\ o.refused \in BOOLEAN
  /\ ~o.refused /\ Normal(s) /\ owner = None => Normal(o.s) /\ (o.lock = i <=> InUse(o.s))
  /\ o.chan = "boot" => o.s.work = "boot" \/ (ch = "boot" /\ o.s.work = s.work)

\* The idle part of a tick takes the lock when it starts to send.
LEMMA IdleOK ==
  ASSUME NEW i \in Invs, NEW s, InstanceOK(s), ~InUse(s), NEW owner \in {i, None},
         owner = i => s.release, NEW ch, NEW o \in WhenIdle(i, s, owner, ch)
  PROVE  IdleResult(i, s, owner, ch, o)
<1> USE HmsAssumption
<1>1. CASE o = Outcome(s, owner, ch)
  <2>1. o.s = s /\ o.lock = owner /\ o.chan = ch /\ o.refused = FALSE
    BY <1>1 DEF Outcome
  <2> QED
    BY <2>1 DEF IdleResult
<1>2. CASE o \in StartLimit(i, s, owner, ch)
  <2> DEFINE t == [s EXCEPT !.limit = FALSE]
  <2>1. PICK ok \in BOOLEAN : o = Outcome(StartCommand(t, "limit", ok), i, ch)
    BY <1>2 DEF StartLimit
  <2>2. SameControl(s, t) /\ t.tx = s.tx
    BY DEF SameControl, InstanceOK, IsRecord, Fields
  <2> HIDE DEF t
  <2>3. InstanceOK(t) /\ ~InUse(t) /\ (Normal(s) => Normal(t)) /\ t.work = s.work
    BY <2>2 DEF InstanceOK, InUse, Normal, SameControl
  <2> DEFINE u == StartCommand(t, "limit", ok)
  <2>4. o.s = u /\ o.lock = i /\ o.chan = ch /\ o.refused = FALSE
    BY <2>1 DEF Outcome
  <2>5. InstanceOK(u) /\ u.op = "wait" /\ u.work = s.work /\ (Normal(s) => Normal(u))
    BY <2>3, StartOK
  <2> HIDE DEF u
  <2> QED
    BY <2>4, <2>5 DEF IdleResult, InUse
<1>3. CASE o \in StartPoll(i, s, owner, ch)
  <2>1. CASE s.fails > Threshold
    <3> DEFINE t == [s EXCEPT !.restore = s.work, !.release = TRUE, !.work = "boot"]
    <3>1. PICK ok \in BOOLEAN :
             o = [Outcome(StartTx(t, "change", ok), i, "boot") EXCEPT !.refused = ~ok]
      BY <1>3, <2>1 DEF StartPoll
    <3>2. IsRecord(t) /\ t.op = s.op /\ t.cmd = s.cmd /\ t.tx = s.tx /\ t.release = TRUE
          /\ t.restore = s.work /\ t.work = "boot"
      BY DEF InstanceOK, IsRecord, Fields
    <3> HIDE DEF t
    <3> DEFINE u == StartTx(t, "change", ok)
    <3>3. SameControl(t, u) /\ u.tx = IF ok THEN "change" ELSE t.tx
      BY <3>2, StartTxOK
    <3>4. o.s = u /\ o.lock = i /\ o.chan = "boot" /\ o.refused = ~ok
      BY <3>1 DEF Outcome
    <3> HIDE DEF u
    <3>5. InstanceOK(u) /\ u.release /\ u.work = "boot"
      BY <3>2, <3>3 DEF InstanceOK, InUse, SameControl
    <3>6. ok /\ Normal(s) => Normal(u) /\ InUse(u)
      BY <3>2, <3>3 DEF InstanceOK, InUse, SameControl, Normal
    <3> QED
      BY <3>4, <3>5, <3>6 DEF IdleResult
  <2>2. CASE ~(s.fails > Threshold)
    <3>1. PICK ok \in BOOLEAN : o = Outcome(StartCommand(s, "data", ok), i, ch)
      BY <1>3, <2>2 DEF StartPoll
    <3> DEFINE u == StartCommand(s, "data", ok)
    <3>2. o.s = u /\ o.lock = i /\ o.chan = ch /\ o.refused = FALSE
      BY <3>1 DEF Outcome
    <3>3. InstanceOK(u) /\ u.op = "wait" /\ u.work = s.work /\ (Normal(s) => Normal(u))
      BY StartOK
    <3> HIDE DEF u
    <3> QED
      BY <3>2, <3>3 DEF IdleResult, InUse
  <2> QED
    BY <2>1, <2>2
<1> QED
  BY <1>1, <1>2, <1>3 DEF WhenIdle

\* Reassembly does not touch what the lock depends on.
LEMMA FragmentOK ==
  ASSUME NEW s, InstanceOK(s), NEW f
  PROVE  /\ InstanceOK(WithFragment(s, f)) /\ WithFragment(s, f).op = s.op
         /\ WithFragment(s, f).tx = s.tx /\ WithFragment(s, f).release = s.release
         /\ WithFragment(s, f).work = s.work
         /\ Normal(s) => Normal(WithFragment(s, f))
<1> DEFINE t == WithFragment(s, f)
<1>1. SameControl(s, t) /\ t.tx = s.tx
  BY DEF WithFragment, SameControl, InstanceOK, IsRecord, Fields
<1> HIDE DEF t
<1>2. /\ InstanceOK(t) /\ t.op = s.op /\ t.tx = s.tx /\ t.release = s.release
      /\ t.work = s.work /\ (Normal(s) => Normal(t))
  BY <1>1 DEF InstanceOK, SameControl, Normal
<1> QED
  BY <1>2 DEF t

LEMMA EndOK ==
  ASSUME NEW s, InstanceOK(s), s.tx = "no", NEW verdict
  PROVE  /\ InstanceOK(EndExchange(s, verdict)) /\ ~InUse(EndExchange(s, verdict))
         /\ EndExchange(s, verdict).work = s.work
         /\ Normal(s) => Normal(EndExchange(s, verdict))
<1> DEFINE t == EndExchange(s, verdict)
<1>1. IsRecord(t) /\ t.op = "idle" /\ t.tx = s.tx /\ t.release = s.release
      /\ t.restore = s.restore /\ t.work = s.work
  BY DEF EndExchange, InstanceOK, IsRecord, Fields
<1> HIDE DEF t
<1>2. /\ InstanceOK(t) /\ ~InUse(t) /\ t.work = s.work /\ (Normal(s) => Normal(t))
  BY <1>1 DEF InstanceOK, InUse, Normal
<1> QED
  BY <1>2 DEF t

LEMMA RedoOK ==
  ASSUME NEW s, InstanceOK(s), s.op = "wait", s.tx = "no", NEW ask, NEW ok \in BOOLEAN
  PROVE  LET t == StartTx([s EXCEPT !.redo = @ + 1, !.ask = ask], "redo", ok)
         IN  InstanceOK(t) /\ t.op = "wait" /\ t.work = s.work /\ (Normal(s) => Normal(t))
<1> DEFINE r == [s EXCEPT !.redo = @ + 1, !.ask = ask]
           t == StartTx(r, "redo", ok)
<1>1. SameControl(s, r) /\ r.tx = s.tx
  BY DEF SameControl, InstanceOK, IsRecord, Fields
<1> HIDE DEF r
<1>2. SameControl(r, t) /\ t.tx = IF ok THEN "redo" ELSE r.tx
  BY <1>1, StartTxOK DEF SameControl
<1> HIDE DEF t
<1>3. InstanceOK(t) /\ t.op = "wait" /\ t.work = s.work /\ (Normal(s) => Normal(t))
  BY <1>1, <1>2 DEF InstanceOK, SameControl, Normal
<1> QED
  BY <1>3 DEF t, r

\* A tick of an exchange: it goes on, or it ends and the radio is unlocked.
LEMMA WaitStep ==
  ASSUME IInv, NEW i \in Invs, NEW rx \in SUBSET air,
         NEW due \in BOOLEAN, NEW crc \in BOOLEAN, WaitTick(i, rx, due, crc)
  PROVE  IInv'
<1> USE HmsAssumption
<1> DEFINE kept == {f \in rx : Accepts(i, f)}
           s == IF kept = {} THEN st[i] ELSE WithFragment(st[i], CHOOSE f \in kept : TRUE)
           verdict == Verdict(s, crc)
<1>1. ~OwnedByOther(i) /\ st[i].tx = "no" /\ st[i].op = "wait"
  BY DEF WaitTick
<1>2. /\ InstanceOK(st[i]) /\ lock \in {i, None}
      /\ i \notin abandoned => Normal(st[i]) /\ lock = i
  BY <1>1, Radio DEF InUse
<1>3. /\ InstanceOK(s) /\ s.op = "wait" /\ s.tx = "no" /\ s.work = st[i].work
      /\ i \notin abandoned => Normal(s)
  BY <1>1, <1>2, FragmentOK
<1>4. \/ Apply(i, Outcome(s, lock, chan))
      \/ \E ok \in BOOLEAN : Apply(i, Outcome(SendCurrent(s, ok), lock, chan))
      \/ \E ok \in BOOLEAN :
           Apply(i, Outcome(StartTx([s EXCEPT !.redo = @ + 1, !.ask = Missing(s)],
                                    "redo", ok), lock, chan))
      \/ \E o \in WhenIdle(i, EndExchange(s, verdict), Unlocked(i, lock), chan) : Apply(i, o)
  BY DEF WaitTick
<1> HIDE DEF s, verdict
\* The exchange goes on.
<1>5. ASSUME NEW t, InstanceOK(t), t.op = "wait", t.work = st[i].work,
             i \notin abandoned => Normal(t), Apply(i, Outcome(t, lock, chan))
      PROVE  IInv'
  <2>1. /\ st' = [st EXCEPT ![i] = t] /\ lock' = lock /\ chan' = chan
        /\ Note(i, t, FALSE)
    BY <1>5 DEF Apply, Outcome
  <2>2. InUse(t)
    BY <1>5 DEF InUse
  <2> QED
    BY <1>1, <1>2, <1>5, <2>1, <2>2, OneInstance
<1>6. CASE Apply(i, Outcome(s, lock, chan))
  BY <1>3, <1>5, <1>6
<1>7. CASE \E ok \in BOOLEAN : Apply(i, Outcome(SendCurrent(s, ok), lock, chan))
  <2>1. PICK ok \in BOOLEAN : Apply(i, Outcome(SendCurrent(s, ok), lock, chan))
    BY <1>7
  <2> DEFINE t == SendCurrent(s, ok)
  <2>2. /\ InstanceOK(t) /\ t.op = "wait" /\ t.work = s.work /\ (Normal(s) => Normal(t))
        /\ Apply(i, Outcome(t, lock, chan))
    BY <1>3, <2>1, SendOK
  <2> HIDE DEF t
  <2> QED
    BY <1>3, <1>5, <2>2
<1>8. CASE \E ok \in BOOLEAN :
             Apply(i, Outcome(StartTx([s EXCEPT !.redo = @ + 1, !.ask = Missing(s)],
                                      "redo", ok), lock, chan))
  <2> DEFINE t(ok) == StartTx([s EXCEPT !.redo = @ + 1, !.ask = Missing(s)], "redo", ok)
  <2>1. PICK ok \in BOOLEAN : Apply(i, Outcome(t(ok), lock, chan))
    BY <1>8
  <2>2. InstanceOK(t(ok)) /\ t(ok).op = "wait" /\ t(ok).work = s.work
        /\ (Normal(s) => Normal(t(ok)))
    BY <1>3, RedoOK
  <2> HIDE DEF t
  <2> QED
    BY <1>3, <1>5, <2>1, <2>2
<1>9. CASE \E o \in WhenIdle(i, EndExchange(s, verdict), Unlocked(i, lock), chan) : Apply(i, o)
  <2>1. Unlocked(i, lock) = None
    BY <1>2 DEF Unlocked
  <2> DEFINE e == EndExchange(s, verdict)
  <2>2. InstanceOK(e) /\ ~InUse(e) /\ e.work = s.work /\ (Normal(s) => Normal(e))
    BY <1>3, EndOK
  <2>3. PICK o \in WhenIdle(i, e, None, chan) : Apply(i, o)
    BY <1>9, <2>1
  <2> HIDE DEF e
  <2>4. IdleResult(i, e, None, chan, o)
    BY <2>2, IdleOK
  <2>5. /\ st' = [st EXCEPT ![i] = o.s] /\ lock' = o.lock /\ chan' = o.chan
        /\ Note(i, o.s, o.refused)
    BY <2>3 DEF Apply
  <2>6. /\ ~o.refused /\ i \notin abandoned => Normal(o.s) /\ (lock' = i <=> InUse(o.s))
        /\ InstanceOK(o.s) /\ lock' \in {i, None}
        /\ lock' = i => InUse(o.s) \/ o.s.release
        /\ chan' = "boot" => o.s.work = "boot" \/ (chan = "boot" /\ o.s.work = st[i].work)
    BY <1>3, <2>2, <2>4, <2>5 DEF IdleResult
  <2> QED
    BY <1>1, <2>5, <2>6, OneInstance
<1> QED
  BY <1>4, <1>6, <1>7, <1>8, <1>9

LEMMA IInvStep ==
  ASSUME IInv, [Next]_vars
  PROVE  IInv'
<1> USE HmsAssumption
<1>1. ASSUME NEW i \in Invs, process_tx_(i)
      PROVE  IInv'
  <2> DEFINE s == AfterTx(st[i])
  <2>1. ~OwnedByOther(i) /\ st[i].tx # "no"
    BY <1>1 DEF process_tx_
  <2>2. /\ InstanceOK(st[i]) /\ lock \in {i, None}
        /\ i \notin abandoned => Normal(st[i]) /\ lock = i
    BY <2>1, Radio DEF InUse
  <2>3. IsRecord(s) /\ s.op = st[i].op /\ s.cmd = st[i].cmd /\ s.tx = "no" /\ s.release = FALSE
        /\ s.restore = "no"
        /\ s.work = IF st[i].restore # "no" THEN st[i].restore ELSE st[i].work
    BY <2>2 DEF AfterTx, InstanceOK, IsRecord, Fields
  <2>4. st' = [st EXCEPT ![i] = s] /\ Note(i, s, FALSE)
    BY <1>1 DEF process_tx_
  <2> HIDE DEF s
  <2>5. InstanceOK(s)
    BY <2>2, <2>3 DEF InstanceOK
  <2>6. lock' = IF st[i].release THEN None ELSE lock
    BY <1>1, <2>2 DEF process_tx_, Unlocked
  <2>7. lock' = i => InUse(s)
    BY <2>1, <2>2, <2>3, <2>6 DEF InstanceOK, InUse
  <2>8. i \notin abandoned => Normal(s) /\ (lock' = i <=> InUse(s))
    BY <2>1, <2>2, <2>3, <2>6 DEF InstanceOK, InUse, Normal
  <2>9. chan' = "boot" => s.work = "boot" \/ (chan = "boot" /\ s.work = st[i].work)
    BY <1>1, <2>3 DEF process_tx_
  <2> QED
    BY <2>1, <2>2, <2>4, <2>5, <2>6, <2>7, <2>8, <2>9, OneInstance
<1>2. ASSUME NEW i \in Invs, IdleTick(i)
      PROVE  IInv'
  <2>1. ~OwnedByOther(i) /\ ~InUse(st[i])
    BY <1>2 DEF IdleTick, InUse
  <2>2. /\ InstanceOK(st[i]) /\ lock \in {i, None} /\ (lock = i => st[i].release)
        /\ i \notin abandoned => Normal(st[i]) /\ lock = None
    BY <2>1, Radio
  <2>3. PICK o \in WhenIdle(i, st[i], lock, chan) : Apply(i, o)
    BY <1>2 DEF IdleTick
  <2>4. IdleResult(i, st[i], lock, chan, o)
    BY <2>1, <2>2, IdleOK
  <2>5. /\ st' = [st EXCEPT ![i] = o.s] /\ lock' = o.lock /\ chan' = o.chan
        /\ Note(i, o.s, o.refused)
    BY <2>3 DEF Apply
  <2>6. /\ ~o.refused /\ i \notin abandoned => Normal(o.s) /\ (lock' = i <=> InUse(o.s))
        /\ InstanceOK(o.s) /\ lock' \in {i, None}
        /\ lock' = i => InUse(o.s) \/ o.s.release
        /\ chan' = "boot" => o.s.work = "boot" \/ (chan = "boot" /\ o.s.work = st[i].work)
    BY <2>2, <2>4, <2>5 DEF IdleResult
  <2> QED
    BY <2>1, <2>5, <2>6, OneInstance
<1>3. ASSUME NEW i \in Invs, NEW rx \in SUBSET air, NEW due \in BOOLEAN,
             NEW crc \in BOOLEAN, WaitTick(i, rx, due, crc)
      PROVE  IInv'
  BY <1>3, WaitStep
<1>4. ASSUME NEW i \in Invs, set_power_limit(i)
      PROVE  IInv'
  <2> DEFINE s == [st[i] EXCEPT !.limit = TRUE]
  <2>1. DOMAIN st = Invs /\ InstanceOK(st[i])
    BY DEF IInv
  <2>2. SameControl(st[i], s) /\ s.tx = st[i].tx
    BY <2>1 DEF SameControl, InstanceOK, IsRecord, Fields
  <2>3. st' = [st EXCEPT ![i] = s] /\ lock' = lock /\ chan' = chan /\ abandoned' = abandoned
    BY <1>4 DEF set_power_limit
  <2> HIDE DEF s
  <2>4. InstanceOK(s) /\ (InUse(s) <=> InUse(st[i])) /\ (Normal(s) <=> Normal(st[i]))
        /\ s.release = st[i].release /\ s.work = st[i].work
    BY <2>1, <2>2 DEF InstanceOK, InUse, Normal, SameControl
  <2>5. st'[i] = s /\ \A j \in Invs \ {i} : st'[j] = st[j]
    BY <2>1, <2>3
  <2>6. /\ st' = [j \in Invs |-> st'[j]]
        /\ \A j \in Invs : InstanceOK(st'[j])
        /\ \A j \in Invs : InUse(st'[j]) <=> InUse(st[j])
        /\ \A j \in Invs : Normal(st'[j]) <=> Normal(st[j])
        /\ \A j \in Invs : st'[j].release = st[j].release /\ st'[j].work = st[j].work
    BY <2>1, <2>3, <2>4, <2>5 DEF IInv
  <2>7. /\ \A j \in Invs \ abandoned' : Normal(st'[j]) /\ (lock' = j <=> InUse(st'[j]))
        /\ \A j \in Invs : lock' = j => InUse(st'[j]) \/ st'[j].release
        /\ chan' = "boot" => \E j \in Invs : st'[j].work = "boot"
        /\ lock' \in Invs \cup {None}
    BY <2>3, <2>6 DEF IInv
  <2>8. st' = [j \in Invs |-> st'[j]] /\ \A j \in Invs : InstanceOK(st'[j])
    BY <2>6
  <2> QED
    BY ONLY <2>7, <2>8 DEF IInv, InstanceOK, IsRecord, InUse, Normal
<1>5. ASSUME NEW i \in Invs, NEW outcome \in {"ok", "unconfigured", "silent"},
             reset_radio(i, outcome)
      PROVE  IInv'
  <2> DEFINE s == AfterReset(st[i], outcome)
  <2>1. /\ ~OwnedByOther(i) /\ st' = [st EXCEPT ![i] = s] /\ lock' = None
        /\ Note(i, s, st[i].tx = "change")
        /\ chan' = CASE outcome = "ok" -> "work" [] outcome = "unconfigured" -> "none"
                     [] outcome = "silent" -> chan
    BY <1>5 DEF reset_radio
  <2>2. InstanceOK(st[i]) /\ (i \notin abandoned => Normal(st[i]))
    BY <2>1, Radio
  <2>3. /\ IsRecord(s) /\ s.op = "idle" /\ s.tx = "no" /\ s.release = st[i].release
        /\ s.restore = st[i].restore /\ s.work = IF outcome = "ok" THEN "work" ELSE st[i].work
    BY <2>2 DEF AfterReset, InstanceOK, IsRecord, Fields
  <2> HIDE DEF s
  <2>4. InstanceOK(s) /\ ~InUse(s)
    BY <2>2, <2>3 DEF InstanceOK, InUse
  <2>5. i \notin abandoned /\ st[i].tx # "change" => Normal(s)
    BY <2>2, <2>3 DEF Normal
  <2>6. chan' = "boot" => chan = "boot" /\ s.work = st[i].work
    BY <2>1, <2>3
  <2> QED
    BY <2>1, <2>4, <2>5, <2>6, OneInstance
<1>6. CASE UNCHANGED vars
  BY <1>6 DEF vars, IInv, InstanceOK, IsRecord, InUse, Normal
<1> QED
  BY <1>1, <1>2, <1>3, <1>4, <1>5, <1>6 DEF Next

LEMMA IInvInit == Init => IInv
<1> SUFFICES ASSUME Init
             PROVE  IInv
  OBVIOUS
<1> USE HmsAssumption
<1>1. \A i \in Invs : InstanceOK(st[i]) /\ Normal(st[i]) /\ ~InUse(st[i])
  BY DEF Init, InstanceOK, Normal, IsRecord, Fields, InUse
<1>2. st = [i \in Invs |-> st[i]] /\ lock = None /\ chan = "work"
  BY DEF Init
<1> QED
  BY <1>1, <1>2 DEF IInv

\* An instance holds the lock of the radio exactly while it sends or waits for
\* a reply, but for the instances that have a ChannelChange to recover from; and
\* an idle owner is about to give it back.
THEOREM LockTheorem == Spec => []LockIffActive
<1>1. IInv => LockIffActive
  BY DEF IInv, LockIffActive, Active, InUse
<1>2. IInv /\ [Next]_vars => IInv'
  BY IInvStep
<1> QED
  BY <1>1, <1>2, IInvInit, PTL DEF Spec

\* The radio is off its working channel only while a ChannelChange frame is on
\* the air or an abandoned one has not been recovered from.
THEOREM ChannelTheorem == Spec => []ChannelRestored
<1>1. IInv => ChannelRestored
  BY DEF IInv, Normal, ChannelRestored
<1>2. IInv /\ [Next]_vars => IInv'
  BY IInvStep
<1> QED
  BY <1>1, <1>2, IInvInit, PTL DEF Spec

-----------------------------------------------------------------------------
(* Reassembly, and the way back from an unreachable inverter.               *)

\* Fragments that bear the DTU serial of instance i.
Own(i) == {f \in Fragment : dtu[f.inv] = dtu[i]}

\* What instance i holds: fragments for its own DTU, a known end of the reply
\* once its last fragment is there, and the fragment a "redo" asks for.
Held(i, s) ==
  /\ s \in InstanceState
  /\ \A k \in Ids : s.got[k] \in {None} \cup Own(i)
  /\ s.last = Frags => s.max # 0
  /\ s.tx = "redo" => s.ask # 0
  /\ s.op = "wait" => s.cmd # "none"

\* And how far its exchange may be: within its attempts, and after telemetry only
\* while the inverter counts as reachable.
StateOK(i, s) ==
  /\ Held(i, s)
  /\ s.op = "wait" => s.sends \in 1..(MaxResend + 1) /\ s.redo <= MaxRetransmit
  /\ s.op = "wait" /\ s.cmd = "data" => ~(s.fails > Threshold)

\* The inductive invariant of the reassembly.
RInv ==
  /\ TypeOK
  /\ OwnTelemetry
  /\ \A f \in air : f.id = Frags => f.last
  /\ \A i \in Invs : StateOK(i, st[i])

LEMMA NothingYet == NoFragments \in [Ids -> Fragment \cup {None}]
                    /\ \A k \in Ids : NoFragments[k] = None
  BY DEF NoFragments

LEMMA StartTxState ==
  ASSUME NEW i \in Invs, NEW s, StateOK(i, s), NEW ok \in BOOLEAN,
         NEW what \in {"data", "limit", "change"}
  PROVE  StateOK(i, StartTx(s, what, ok)) /\ StartTx(s, what, ok).fails = s.fails
<1>1. CASE ok
  <2> DEFINE t == [s EXCEPT !.tx = what]
  <2>1. /\ t \in InstanceState /\ t.got = s.got /\ t.last = s.last /\ t.max = s.max
        /\ t.tx = what /\ t.op = s.op /\ t.cmd = s.cmd
        /\ t.sends = s.sends /\ t.redo = s.redo /\ t.fails = s.fails
    BY DEF StateOK, Held, InstanceState
  <2> HIDE DEF t
  <2>2. StateOK(i, t)
    BY <2>1 DEF StateOK, Held
  <2> QED
    BY <1>1, <2>1, <2>2 DEF StartTx, t
<1>2. CASE ~ok
  BY <1>2 DEF StartTx
<1> QED
  BY <1>1, <1>2

LEMMA SendState ==
  ASSUME NEW i \in Invs, NEW s, Held(i, s), s.cmd # "none", s.sends <= MaxResend,
         s.cmd = "data" => ~(s.fails > Threshold), NEW ok \in BOOLEAN
  PROVE  StateOK(i, SendCurrent(s, ok)) /\ SendCurrent(s, ok).fails = s.fails
<1> DEFINE n == s.sends + 1
           t == [s EXCEPT !.sends = n, !.got = NoFragments, !.last = 0,
                          !.max = 0, !.redo = 0]
<1>a. n \in 1..(MaxResend + 1) /\ n \in Nat /\ 0 \in 0..Frags /\ 0 <= MaxRetransmit
  BY HmsAssumption DEF StateOK, Held, InstanceState
<1>2. SendCurrent(s, ok) = StartTx(t, s.cmd, ok)
  BY DEF SendCurrent
<1> HIDE DEF n
<1>1. /\ t \in InstanceState /\ t.got = NoFragments /\ t.last = 0
      /\ t.tx = s.tx /\ t.ask = s.ask /\ t.op = s.op /\ t.cmd = s.cmd
      /\ t.sends = n /\ t.redo = 0 /\ t.fails = s.fails
  BY <1>a, NothingYet DEF StateOK, Held, InstanceState
<1> HIDE DEF t
<1>3. StateOK(i, t)
  BY <1>a, <1>1, HmsAssumption, NothingYet DEF StateOK, Held
<1>4. s.cmd \in {"data", "limit"}
  BY DEF StateOK, Held, InstanceState
<1> QED
  BY <1>1, <1>2, <1>3, <1>4, StartTxState

LEMMA StartState ==
  ASSUME NEW i \in Invs, NEW s, StateOK(i, s), NEW cmd \in {"data", "limit"},
         cmd = "data" => ~(s.fails > Threshold), NEW ok \in BOOLEAN
  PROVE  StateOK(i, StartCommand(s, cmd, ok)) /\ StartCommand(s, cmd, ok).fails = s.fails
<1> DEFINE t == [s EXCEPT !.op = "wait", !.cmd = cmd, !.sends = 0]
<1>1. /\ t \in InstanceState /\ t.got = s.got /\ t.last = s.last /\ t.max = s.max
      /\ t.tx = s.tx /\ t.ask = s.ask /\ t.cmd = cmd /\ t.sends = 0 /\ t.fails = s.fails
  BY DEF StateOK, Held, InstanceState
<1>2. StartCommand(s, cmd, ok) = SendCurrent(t, ok)
  BY DEF StartCommand
<1> HIDE DEF t
<1>3. Held(i, t)
  BY <1>1 DEF StateOK, Held
<1> QED
  BY <1>1, <1>2, <1>3, HmsAssumption, SendState

\* The idle part of a tick: whatever starts, the radio is unlocked or locked
\* for this instance.
LEMMA IdleState ==
  ASSUME NEW i \in Invs, NEW s, StateOK(i, s), NEW owner, NEW ch,
         NEW o \in WhenIdle(i, s, owner, ch)
  PROVE  /\ StateOK(i, o.s) /\ o.lock \in {i, owner} /\ o.chan \in {ch, "boot"}
         /\ o.s.fails = s.fails
<1> USE DEF Outcome
<1>1. CASE o = Outcome(s, owner, ch)
  BY <1>1
<1>2. CASE o \in StartLimit(i, s, owner, ch)
  <2> DEFINE t == [s EXCEPT !.limit = FALSE]
  <2>1. PICK ok \in BOOLEAN : o = Outcome(StartCommand(t, "limit", ok), i, ch)
    BY <1>2 DEF StartLimit
  <2>2. /\ t \in InstanceState /\ t.got = s.got /\ t.last = s.last /\ t.max = s.max
        /\ t.tx = s.tx /\ t.ask = s.ask /\ t.op = s.op /\ t.cmd = s.cmd
        /\ t.sends = s.sends /\ t.redo = s.redo /\ t.fails = s.fails
    BY DEF StateOK, Held, InstanceState
  <2> HIDE DEF t
  <2>3. StateOK(i, t)
    BY <2>2 DEF StateOK, Held
  <2>4. StateOK(i, StartCommand(t, "limit", ok)) /\ StartCommand(t, "limit", ok).fails = t.fails
    BY <2>3, StartState
  <2> QED
    BY <2>1, <2>2, <2>4
<1>3. CASE o \in StartPoll(i, s, owner, ch)
  <2> DEFINE t == [s EXCEPT !.restore = s.work, !.release = TRUE, !.work = "boot"]
  <2>1. CASE \E ok \in BOOLEAN :
               o = [Outcome(StartTx(t, "change", ok), i, "boot") EXCEPT !.refused = ~ok]
    <3>1. PICK ok \in BOOLEAN :
             o = [Outcome(StartTx(t, "change", ok), i, "boot") EXCEPT !.refused = ~ok]
      BY <2>1
    <3>2. /\ t \in InstanceState /\ t.got = s.got /\ t.last = s.last /\ t.max = s.max
          /\ t.tx = s.tx /\ t.ask = s.ask /\ t.op = s.op /\ t.cmd = s.cmd
          /\ t.sends = s.sends /\ t.redo = s.redo /\ t.fails = s.fails
      BY DEF StateOK, Held, InstanceState
    <3> HIDE DEF t
    <3>3. StateOK(i, t)
      BY <3>2 DEF StateOK, Held
    <3>4. StateOK(i, StartTx(t, "change", ok)) /\ StartTx(t, "change", ok).fails = t.fails
      BY <3>3, StartTxState
    <3> QED
      BY <3>1, <3>2, <3>4
  <2>2. CASE /\ ~(s.fails > Threshold)
             /\ \E ok \in BOOLEAN : o = Outcome(StartCommand(s, "data", ok), i, ch)
    <3>1. PICK ok \in BOOLEAN : o = Outcome(StartCommand(s, "data", ok), i, ch)
      BY <2>2
    <3>2. StateOK(i, StartCommand(s, "data", ok)) /\ StartCommand(s, "data", ok).fails = s.fails
      BY <2>2, StartState
    <3> QED
      BY <3>1, <3>2
  <2> QED
    BY <1>3, <2>1, <2>2 DEF StartPoll
<1> QED
  BY <1>1, <1>2, <1>3 DEF WhenIdle

\* A fragment for the own DTU.
LEMMA FragmentState ==
  ASSUME NEW i \in Invs, NEW s, StateOK(i, s), NEW f \in Frame, dtu[f.inv] = dtu[i],
         f.id = Frags => f.last
  PROVE  /\ StateOK(i, WithFragment(s, f)) /\ WithFragment(s, f).op = s.op
         /\ WithFragment(s, f).cmd = s.cmd /\ WithFragment(s, f).fails = s.fails
<1> DEFINE g == [inv |-> f.inv, cmd |-> f.cmd]
           t == WithFragment(s, f)
<1>1. g \in Fragment /\ g \in Own(i) /\ f.id \in Ids
  BY DEF Frame, Fragment, Own
<1>2. s.got \in [Ids -> Fragment \cup {None}] /\ s.last \in 0..Frags /\ s.max \in 0..Frags
  BY DEF StateOK, Held, InstanceState
<1>3. /\ t.got = [s.got EXCEPT ![f.id] = g]
      /\ t.last = IF f.id > s.last THEN f.id ELSE s.last
      /\ t.max = IF f.last THEN f.id ELSE s.max
      /\ t.tx = s.tx /\ t.ask = s.ask /\ t.op = s.op /\ t.cmd = s.cmd
      /\ t.sends = s.sends /\ t.redo = s.redo /\ t.fails = s.fails
  BY DEF WithFragment, StateOK, InstanceState
<1>4. /\ t.got \in [Ids -> Fragment \cup {None}]
      /\ t.last \in 0..Frags /\ t.max \in 0..Frags
  <2> HIDE DEF g, t
  <2>1. t.last \in 0..Frags /\ t.max \in 0..Frags
    BY <1>1, <1>2, <1>3, HmsAssumption DEF Ids
  <2> QED
    BY <1>1, <1>2, <1>3, <2>1
<1>5. t \in InstanceState
  <2>1. t = [s EXCEPT !.got = t.got, !.last = t.last, !.max = t.max]
    BY <1>3 DEF WithFragment, StateOK, InstanceState
  <2> HIDE DEF t
  <2> QED
    BY <1>4, <2>1 DEF StateOK, Held, InstanceState
<1>6. \A k \in Ids : t.got[k] \in {None} \cup Own(i)
  <2> HIDE DEF g, t
  <2> QED
    BY <1>1, <1>2, <1>3 DEF StateOK, Held
<1>7. t.last = Frags => t.max # 0
  <2> HIDE DEF g, t
  <2>1. s.last = Frags => s.max # 0
    BY DEF StateOK, Held
  <2> QED
    BY <1>1, <1>2, <1>3, <2>1, HmsAssumption DEF Ids
<1> HIDE DEF t
<1>8. StateOK(i, t)
  BY <1>3, <1>5, <1>6, <1>7 DEF StateOK, Held
<1> QED
  BY <1>3, <1>8 DEF t

\* The fragment to ask for is one of the reply.
LEMMA MissingRange ==
  ASSUME NEW i \in Invs, NEW s, StateOK(i, s)
  PROVE  Missing(s) \in 0..Frags
<1> DEFINE holes == {k \in 1..(s.max - 1) : s.got[k] = None}
<1>1. s.last \in 0..Frags /\ s.max \in 0..Frags /\ Frags \in Nat
  BY HmsAssumption DEF StateOK, Held, InstanceState
<1>2. CASE s.max = 0
  <2>1. Missing(s) = s.last + 1
    BY <1>2 DEF Missing
  <2>2. s.last # Frags
    BY <1>2 DEF StateOK, Held
  <2> QED
    BY <1>1, <2>1, <2>2
<1>3. CASE s.max # 0 /\ holes = {}
  BY <1>1, <1>3 DEF Missing
<1>4. CASE s.max # 0 /\ holes # {}
  <2>1. holes \subseteq Nat
    BY <1>1
  <2>2. PICK k \in holes : \A h \in holes : <<h, k>> \notin OpToRel(<, Nat)
    BY <1>4, <2>1, NatLessThanWellFounded, WFMin
  <2>3. \A h \in holes : k <= h
    <3> HIDE DEF holes
    <3>1. SUFFICES ASSUME NEW h \in holes
                   PROVE  k <= h
      OBVIOUS
    <3>2. h \in Nat /\ k \in Nat
      BY <2>1, <2>2
    <3>3. <<h, k>> \notin OpToRel(<, Nat)
      BY <2>2
    <3>4. ~(h < k)
      BY <3>2, <3>3 DEF OpToRel
    <3> QED
      BY <3>2, <3>4
  <2>4. Missing(s) = CHOOSE m \in holes : \A h \in holes : m <= h
    BY <1>4 DEF Missing
  <2>5. Missing(s) \in holes
    BY <2>2, <2>3, <2>4
  <2> QED
    BY <1>1, <2>5
<1> QED
  BY <1>2, <1>3, <1>4

LEMMA RedoState ==
  ASSUME NEW i \in Invs, NEW s, StateOK(i, s), Missing(s) # 0, s.redo < MaxRetransmit,
         NEW ok \in BOOLEAN
  PROVE  LET u == StartTx([s EXCEPT !.redo = @ + 1, !.ask = Missing(s)], "redo", ok)
         IN  StateOK(i, u) /\ u.fails = s.fails
<1> DEFINE m == Missing(s)
           n == s.redo + 1
           r == [s EXCEPT !.redo = n, !.ask = m]
           t == [r EXCEPT !.tx = "redo"]
<1>1. m \in 0..Frags /\ m # 0 /\ n \in Nat /\ n <= MaxRetransmit
  BY MissingRange, HmsAssumption DEF StateOK, Held, InstanceState
<1> HIDE DEF m, n
<1>2. /\ r \in InstanceState /\ r.got = s.got /\ r.last = s.last /\ r.max = s.max
      /\ r.ask = m /\ r.op = s.op /\ r.cmd = s.cmd
      /\ r.sends = s.sends /\ r.redo = n /\ r.fails = s.fails
  BY <1>1 DEF StateOK, Held, InstanceState
<1> HIDE DEF r
<1>3. /\ t \in InstanceState /\ t.got = r.got /\ t.last = r.last /\ t.max = r.max
      /\ t.ask = r.ask /\ t.op = r.op /\ t.cmd = r.cmd
      /\ t.sends = r.sends /\ t.redo = r.redo /\ t.fails = r.fails
  BY <1>2 DEF InstanceState
<1> HIDE DEF t
<1>4. StateOK(i, t) /\ StateOK(i, r)
  BY <1>1, <1>2, <1>3 DEF StateOK, Held
<1> QED
  BY <1>2, <1>3, <1>4 DEF StartTx, t, r, m, n

LEMMA EndState ==
  ASSUME NEW i \in Invs, NEW s, StateOK(i, s), NEW verdict
  PROVE  /\ StateOK(i, EndExchange(s, verdict))
         /\ s.op = "wait" /\ s.fails > Threshold => EndExchange(s, verdict).fails > Threshold
<1> DEFINE n == IF verdict = "failed"
                THEN IF s.fails > Threshold THEN s.fails ELSE s.fails + 1
                ELSE IF s.cmd = "data" THEN 0 ELSE s.fails
           t == [s EXCEPT !.op = "idle", !.cmd = "none", !.fails = n]
<1>1. n \in 0..(Threshold + 1) /\ (s.op = "wait" /\ s.fails > Threshold => n > Threshold)
  BY HmsAssumption DEF StateOK, Held, InstanceState
<1>2. EndExchange(s, verdict) = t
  BY DEF EndExchange, StateOK, InstanceState
<1> HIDE DEF n
<1>3. /\ t \in InstanceState /\ t.got = s.got /\ t.last = s.last /\ t.max = s.max
      /\ t.tx = s.tx /\ t.ask = s.ask /\ t.op = "idle" /\ t.fails = n
  BY <1>1 DEF StateOK, Held, InstanceState
<1> HIDE DEF t
<1> QED
  BY <1>1, <1>2, <1>3 DEF StateOK, Held

LEMMA AfterTxState ==
  ASSUME NEW i \in Invs, NEW s, StateOK(i, s)
  PROVE  StateOK(i, AfterTx(s)) /\ AfterTx(s).fails = s.fails
<1> DEFINE w == IF s.restore # "no" THEN s.restore ELSE s.work
           t == [s EXCEPT !.tx = "no", !.work = w, !.restore = "no", !.release = FALSE]
<1>1. AfterTx(s) = t
  BY DEF AfterTx, StateOK, InstanceState
<1>2. w \in {"work", "boot"}
  BY DEF StateOK, Held, InstanceState
<1> HIDE DEF w
<1>3. /\ t \in InstanceState /\ t.got = s.got /\ t.last = s.last
      /\ t.max = s.max /\ t.tx = "no" /\ t.op = s.op /\ t.cmd = s.cmd
      /\ t.sends = s.sends /\ t.redo = s.redo /\ t.fails = s.fails
  BY <1>2 DEF StateOK, Held, InstanceState
<1> HIDE DEF t
<1> QED
  BY <1>1, <1>3 DEF StateOK, Held

LEMMA LimitState ==
  ASSUME NEW i \in Invs, NEW s, StateOK(i, s)
  PROVE  StateOK(i, [s EXCEPT !.limit = TRUE]) /\ [s EXCEPT !.limit = TRUE].fails = s.fails
<1> DEFINE t == [s EXCEPT !.limit = TRUE]
<1>1. /\ t \in InstanceState /\ t.got = s.got /\ t.last = s.last /\ t.max = s.max
      /\ t.tx = s.tx /\ t.ask = s.ask /\ t.op = s.op /\ t.cmd = s.cmd
      /\ t.sends = s.sends /\ t.redo = s.redo /\ t.fails = s.fails
  BY DEF StateOK, Held, InstanceState
<1> HIDE DEF t
<1>2. StateOK(i, t)
  BY <1>1 DEF StateOK, Held
<1> QED
  BY <1>1, <1>2 DEF t

LEMMA ResetState ==
  ASSUME NEW i \in Invs, NEW s, StateOK(i, s), NEW outcome
  PROVE  /\ StateOK(i, AfterReset(s, outcome))
         /\ outcome # "ok" => AfterReset(s, outcome).fails = s.fails
<1> DEFINE r == [s EXCEPT !.tx = "no", !.op = "idle", !.cmd = "none"]
           t == [r EXCEPT !.work = "work", !.fails = 0]
<1>1. /\ r \in InstanceState /\ r.got = s.got /\ r.last = s.last
      /\ r.max = s.max /\ r.tx = "no" /\ r.op = "idle" /\ r.fails = s.fails
  BY DEF StateOK, Held, InstanceState
<1> HIDE DEF r
<1>2. 0 \in 0..(Threshold + 1)
  BY HmsAssumption
<1>3. /\ t \in InstanceState /\ t.got = r.got /\ t.last = r.last
      /\ t.max = r.max /\ t.tx = r.tx /\ t.op = r.op
  BY <1>1, <1>2 DEF InstanceState
<1> HIDE DEF t
<1>4. StateOK(i, r) /\ StateOK(i, t)
  BY <1>1, <1>3 DEF StateOK, Held
<1> QED
  BY <1>1, <1>4 DEF r, t, AfterReset

\* What a verdict says.
LEMMA VerdictMeans ==
  ASSUME NEW s, NEW crc \in BOOLEAN
  PROVE  /\ Verdict(s, crc) = "resend" => s.sends <= MaxResend
         /\ Verdict(s, crc) = "retransmit" => Missing(s) # 0 /\ s.redo < MaxRetransmit
         /\ Verdict(s, crc) = "ok" /\ s.cmd = "data" => \E j \in Invs : DataFrom(s, j)
  BY DEF Verdict, Handled

\* Everything but what the instance holds.
Rest(i, s) ==
  /\ st' = [st EXCEPT ![i] = s]
  /\ dtu' = dtu
  /\ lock' \in Invs \cup {None}
  /\ chan' \in {"work", "boot", "none"}
  /\ air' \subseteq Frame
  /\ \A f \in air' : f.id = Frags => f.last
  /\ ended' \in Invs \cup {None}
  /\ abandoned' \subseteq Invs
  /\ \/ published' = published
     \/ \E j \in Invs : dtu[j] = dtu[i] /\ published' = [published EXCEPT ![i] = j]

\* No inverter becomes reachable.
StillUnreachable == \A j \in Invs : Unreachable(j) => Unreachable(j)'

\* A step of one instance that keeps its state in order.
LEMMA OneState ==
  ASSUME RInv, NEW i \in Invs, NEW s, StateOK(i, s), Rest(i, s)
  PROVE  /\ RInv'
         /\ (st[i].fails > Threshold => s.fails > Threshold) => StillUnreachable
<1> USE HmsAssumption
<1>1. st \in [Invs -> InstanceState] /\ s \in InstanceState
  BY DEF RInv, TypeOK, StateOK, Held
<1>2. /\ st' \in [Invs -> InstanceState] /\ \A j \in Invs : StateOK(j, st'[j])
      /\ st'[i] = s /\ \A j \in Invs \ {i} : st'[j] = st[j]
  BY <1>1 DEF RInv, Rest
<1>3. /\ published' \in [Invs -> Invs \cup {None}]
      /\ \A j \in Invs : published'[j] # None => dtu[published'[j]] = dtu[j]
  BY DEF RInv, TypeOK, OwnTelemetry, Rest
<1>4. TypeOK' /\ OwnTelemetry'
  BY <1>2, <1>3 DEF TypeOK, OwnTelemetry, Rest
<1>5. \A j \in Invs : StateOK(j, st[j])'
  BY <1>2 DEF StateOK, Held, Own, Rest
<1>6. (st[i].fails > Threshold => s.fails > Threshold) => StillUnreachable
  BY <1>2 DEF StillUnreachable, Unreachable
<1> QED
  BY <1>4, <1>5, <1>6 DEF RInv, Rest

LEMMA NoteOK ==
  ASSUME NEW i \in Invs, abandoned \subseteq Invs, NEW s, NEW event, Note(i, s, event)
  PROVE  abandoned' \subseteq Invs
  BY DEF Note

\* What comes on the air is made of whole frames.
LEMMA AnswersOK ==
  ASSUME NEW i \in Invs, NEW s, StateOK(i, s), NEW f \in Answers(i, s)
  PROVE  f \in Frame /\ (f.id = Frags => f.last)
<1> USE HmsAssumption
<1> DEFINE frame(cmd, k, n) == [inv |-> i, cmd |-> cmd, id |-> k, last |-> k = n]
<1>1. ASSUME NEW cmd \in {"data", "limit"}, NEW k \in Ids, NEW n \in Ids, n \in {k, Frags},
             f = frame(cmd, k, n)
      PROVE  f \in Frame /\ (f.id = Frags => f.last)
  <2> DEFINE b == k = n
  <2>1. b \in BOOLEAN /\ (k = Frags => b)
    BY <1>1
  <2>2. f = [inv |-> i, cmd |-> cmd, id |-> k, last |-> b]
    BY <1>1
  <2> HIDE DEF b
  <2> QED
    BY <2>1, <2>2 DEF Frame
<1>2. 1 \in Ids /\ Frags \in Ids
  BY DEF Ids
<1>3. CASE s.tx = "data"
  <2>1. Answers(i, s) = {frame("data", k, Frags) : k \in Ids}
    BY <1>3 DEF Answers
  <2> QED
    BY <1>1, <1>2, <2>1
<1>4. CASE s.tx = "limit"
  <2>1. Answers(i, s) = {frame("limit", 1, 1)}
    BY <1>4 DEF Answers
  <2> QED
    BY <1>1, <1>2, <2>1
<1>5. CASE s.tx = "redo"
  <2>1. s.ask \in Ids
    BY <1>5 DEF StateOK, Held, InstanceState, Ids
  <2>2. Answers(i, s) = {frame("data", s.ask, Frags)}
    BY <1>5 DEF Answers
  <2> QED
    BY <1>1, <1>2, <2>1, <2>2
<1>6. CASE s.tx \notin {"data", "limit", "redo"}
  BY <1>6 DEF Answers
<1> QED
  BY <1>3, <1>4, <1>5, <1>6

\* The tick of an exchange.
LEMMA WaitState ==
  ASSUME RInv, NEW i \in Invs, NEW rx \in SUBSET air, NEW due \in BOOLEAN,
         NEW crc \in BOOLEAN, WaitTick(i, rx, due, crc)
  PROVE  RInv' /\ StillUnreachable
<1> USE HmsAssumption
<1> DEFINE kept == {f \in rx : Accepts(i, f)}
           s == IF kept = {} THEN st[i] ELSE WithFragment(st[i], CHOOSE f \in kept : TRUE)
           verdict == Verdict(s, crc)
<1>1. /\ StateOK(i, st[i]) /\ st[i].op = "wait"
      /\ lock \in Invs \cup {None} /\ chan \in {"work", "boot", "none"}
      /\ air \subseteq Frame /\ abandoned \subseteq Invs
  BY DEF RInv, TypeOK, WaitTick
<1>2. StateOK(i, s) /\ s.op = "wait" /\ s.fails = st[i].fails
  <2>1. CASE kept = {}
    BY <1>1, <2>1
  <2>2. CASE kept # {}
    <3>1. PICK f \in kept : s = WithFragment(st[i], f)
      BY <2>2
    <3>2. f \in Frame /\ f \in air /\ dtu[f.inv] = dtu[i]
      BY <1>1 DEF Accepts
    <3>3. f.id = Frags => f.last
      BY <3>2 DEF RInv
    <3> QED
      BY <1>1, <3>1, <3>2, <3>3, FragmentState
  <2> QED
    BY <2>1, <2>2
<1>3. air' \subseteq Frame /\ \A f \in air' : f.id = Frags => f.last
  BY <1>1 DEF WaitTick, RInv
<1>4. ASSUME NEW o, Apply(i, o), StateOK(i, o.s), o.lock \in Invs \cup {None},
             o.chan \in {"work", "boot", "none"}, ended' \in {i, None},
             published' = published
             \/ \E j \in Invs : dtu[j] = dtu[i] /\ published' = [published EXCEPT ![i] = j],
             st[i].fails > Threshold => o.s.fails > Threshold
      PROVE  RInv' /\ StillUnreachable
  <2>1. abandoned' \subseteq Invs
    BY <1>1, <1>4, NoteOK DEF Apply
  <2>2. Rest(i, o.s)
    BY <1>3, <1>4, <2>1 DEF Apply, Rest
  <2> QED
    BY <1>4, <2>2, OneState
<1>5. \/ Apply(i, Outcome(s, lock, chan)) /\ ended' = None /\ UNCHANGED published
      \/ /\ verdict = "resend"
         /\ \E ok \in BOOLEAN : Apply(i, Outcome(SendCurrent(s, ok), lock, chan))
         /\ ended' = None /\ UNCHANGED published
      \/ /\ verdict = "retransmit"
         /\ \E ok \in BOOLEAN :
              Apply(i, Outcome(StartTx([s EXCEPT !.redo = @ + 1, !.ask = Missing(s)],
                                       "redo", ok), lock, chan))
         /\ ended' = None /\ UNCHANGED published
      \/ /\ \E o \in WhenIdle(i, EndExchange(s, verdict), Unlocked(i, lock), chan) : Apply(i, o)
         /\ published' = IF verdict = "ok" /\ s.cmd = "data"
                         THEN [published EXCEPT ![i] = s.got[1].inv] ELSE published
         /\ ended' = i
  BY DEF WaitTick
<1> HIDE DEF s
<1>6. CASE Apply(i, Outcome(s, lock, chan)) /\ ended' = None /\ UNCHANGED published
  BY <1>1, <1>2, <1>4, <1>6 DEF Outcome
<1>7. CASE /\ verdict = "resend"
           /\ \E ok \in BOOLEAN : Apply(i, Outcome(SendCurrent(s, ok), lock, chan))
           /\ ended' = None /\ UNCHANGED published
  <2>1. PICK ok \in BOOLEAN : Apply(i, Outcome(SendCurrent(s, ok), lock, chan))
    BY <1>7
  <2>2. s.sends <= MaxResend /\ s.cmd # "none" /\ (s.cmd = "data" => ~(s.fails > Threshold))
        /\ Held(i, s)
    BY <1>2, <1>7, VerdictMeans DEF StateOK, Held
  <2>3. StateOK(i, SendCurrent(s, ok)) /\ SendCurrent(s, ok).fails = s.fails
    BY <2>2, SendState
  <2> QED
    BY <1>1, <1>2, <1>4, <1>7, <2>1, <2>3 DEF Outcome
<1>8. CASE /\ verdict = "retransmit"
           /\ \E ok \in BOOLEAN :
                Apply(i, Outcome(StartTx([s EXCEPT !.redo = @ + 1, !.ask = Missing(s)],
                                         "redo", ok), lock, chan))
           /\ ended' = None /\ UNCHANGED published
  <2> DEFINE t(ok) == StartTx([s EXCEPT !.redo = @ + 1, !.ask = Missing(s)], "redo", ok)
  <2>1. PICK ok \in BOOLEAN : Apply(i, Outcome(t(ok), lock, chan))
    BY <1>8
  <2>2. StateOK(i, t(ok)) /\ t(ok).fails = s.fails
    BY <1>2, <1>8, VerdictMeans, RedoState
  <2> HIDE DEF t
  <2> QED
    BY <1>1, <1>2, <1>4, <1>8, <2>1, <2>2 DEF Outcome
<1>9. CASE /\ \E o \in WhenIdle(i, EndExchange(s, verdict), Unlocked(i, lock), chan) : Apply(i, o)
           /\ published' = IF verdict = "ok" /\ s.cmd = "data"
                           THEN [published EXCEPT ![i] = s.got[1].inv] ELSE published
           /\ ended' = i
  <2> DEFINE owner == Unlocked(i, lock)
             e == EndExchange(s, verdict)
  <2>1. owner \in Invs \cup {None}
    BY <1>1 DEF Unlocked
  <2>2. PICK o \in WhenIdle(i, e, owner, chan) : Apply(i, o)
    BY <1>9
  <2>3. StateOK(i, e) /\ (s.fails > Threshold => e.fails > Threshold)
    BY <1>2, EndState
  <2> HIDE DEF owner, e
  <2>4. /\ StateOK(i, o.s) /\ o.lock \in {i, owner} /\ o.chan \in {chan, "boot"}
        /\ o.s.fails = e.fails
    BY <2>3, IdleState
  <2>5. published' = published
        \/ \E j \in Invs : dtu[j] = dtu[i] /\ published' = [published EXCEPT ![i] = j]
    <3>1. CASE verdict = "ok" /\ s.cmd = "data"
      <4>1. PICK j \in Invs : DataFrom(s, j)
        BY <3>1, VerdictMeans
      <4>2. 1 \in Ids
        BY HmsAssumption DEF Ids
      <4>3. s.got[1] = [inv |-> j, cmd |-> "data"]
        BY <4>1, <4>2 DEF DataFrom
      <4>4. s.got[1] \in Fragment
        BY <4>3 DEF Fragment
      <4>5. s.got[1] \in Own(i)
        BY <1>2, <4>2, <4>4, NoneAssumption DEF StateOK, Held
      <4>6. dtu[j] = dtu[i] /\ s.got[1].inv = j
        BY <4>3, <4>5 DEF Own
      <4> QED
        BY <1>9, <3>1, <4>6
    <3> QED
      BY <1>9, <3>1
  <2> QED
    BY <1>1, <1>2, <1>4, <1>9, <2>1, <2>2, <2>3, <2>4, <2>5
<1> QED
  BY <1>5, <1>6, <1>7, <1>8, <1>9

LEMMA RInvInit == Init => RInv
<1> SUFFICES ASSUME Init
             PROVE  RInv
  OBVIOUS
<1> USE HmsAssumption
<1>1. \A i \in Invs : st[i] \in InstanceState
  BY NothingYet DEF Init, InstanceState
<1>2. ASSUME NEW i \in Invs
      PROVE  StateOK(i, st[i])
  <2>1. /\ st[i].got = NoFragments /\ st[i].last = 0 /\ st[i].tx = "no"
        /\ st[i].op = "idle"
    BY DEF Init
  <2> QED
    BY <1>1, <2>1, NothingYet DEF StateOK, Held
<1> QED
  BY <1>1, <1>2 DEF RInv, Init, TypeOK, OwnTelemetry

\* A step of instance i other than a reset that succeeds.
Other(i) ==
  \/ process_tx_(i) \/ IdleTick(i) \/ set_power_limit(i)
  \/ \E rx \in SUBSET air, due, crc \in BOOLEAN : WaitTick(i, rx, due, crc)
  \/ \E outcome \in {"unconfigured", "silent"} : reset_radio(i, outcome)

LEMMA OtherState ==
  ASSUME RInv, NEW i \in Invs, Other(i)
  PROVE  RInv' /\ StillUnreachable
<1>0. /\ \A j \in Invs : StateOK(j, st[j])
      /\ lock \in Invs \cup {None} /\ chan \in {"work", "boot", "none"}
      /\ air \subseteq Frame /\ abandoned \subseteq Invs
      /\ \A f \in air : f.id = Frags => f.last
  BY DEF RInv, TypeOK
<1>1. CASE process_tx_(i)
  <2> DEFINE s == AfterTx(st[i])
  <2>1. st[i].restore \in {"no", "work", "boot"}
    BY <1>0 DEF StateOK, Held, InstanceState
  <2>2. StateOK(i, s) /\ s.fails = st[i].fails
    BY <1>0, AfterTxState
  <2>3. Note(i, s, FALSE)
    BY <1>1 DEF process_tx_
  <2> HIDE DEF s
  <2>4. PICK heard \in SUBSET Answers(i, st[i]) : air' = air \cup heard
    BY <1>1 DEF process_tx_
  <2>5. air' \subseteq Frame /\ \A f \in air' : f.id = Frags => f.last
    BY <1>0, <2>4, AnswersOK
  <2>6. abandoned' \subseteq Invs
    BY <1>0, <2>3, NoteOK
  <2>7. Rest(i, s)
    BY <1>0, <1>1, <2>1, <2>5, <2>6 DEF process_tx_, Rest, Unlocked, s
  <2> QED
    BY <2>2, <2>7, OneState
<1>2. CASE IdleTick(i)
  <2>1. PICK o \in WhenIdle(i, st[i], lock, chan) : Apply(i, o)
    BY <1>2 DEF IdleTick
  <2>2. /\ StateOK(i, o.s) /\ o.lock \in {i, lock} /\ o.chan \in {chan, "boot"}
        /\ o.s.fails = st[i].fails
    BY <1>0, IdleState
  <2>3. abandoned' \subseteq Invs
    BY <1>0, <2>1, NoteOK DEF Apply
  <2>4. Rest(i, o.s)
    BY <1>0, <1>2, <2>1, <2>2, <2>3 DEF IdleTick, Apply, Rest
  <2> QED
    BY <2>2, <2>4, OneState
<1>3. CASE \E rx \in SUBSET air, due, crc \in BOOLEAN : WaitTick(i, rx, due, crc)
  BY <1>3, WaitState
<1>4. CASE set_power_limit(i)
  <2> DEFINE s == [st[i] EXCEPT !.limit = TRUE]
  <2>1. StateOK(i, s) /\ s.fails = st[i].fails
    BY <1>0, LimitState
  <2>2. Rest(i, s)
    BY <1>0, <1>4 DEF set_power_limit, Rest
  <2> QED
    BY <2>1, <2>2, OneState
<1>5. CASE \E outcome \in {"unconfigured", "silent"} : reset_radio(i, outcome)
  <2>1. PICK outcome \in {"unconfigured", "silent"} : reset_radio(i, outcome)
    BY <1>5
  <2> DEFINE s == AfterReset(st[i], outcome)
  <2>2. StateOK(i, s) /\ s.fails = st[i].fails
    BY <1>0, ResetState
  <2>3. abandoned' \subseteq Invs
    BY <1>0, <2>1, NoteOK DEF reset_radio
  <2>4. Rest(i, s)
    BY <1>0, <2>1, <2>3 DEF reset_radio, Rest
  <2> QED
    BY <2>2, <2>4, OneState
<1> QED
  BY <1>1, <1>2, <1>3, <1>4, <1>5 DEF Other

\* A reset that succeeds makes the inverter of its own instance reachable only.
LEMMA ResetStep ==
  ASSUME RInv, NEW i \in Invs, reset_radio(i, "ok")
  PROVE  RInv' /\ \A j \in Invs \ {i} : Unreachable(j) => Unreachable(j)'
<1> DEFINE s == AfterReset(st[i], "ok")
<1>1. StateOK(i, st[i]) /\ abandoned \subseteq Invs /\ st \in [Invs -> InstanceState]
      /\ air \subseteq Frame /\ \A f \in air : f.id = Frags => f.last
  BY DEF RInv, TypeOK
<1>2. StateOK(i, s)
  BY <1>1, ResetState
<1>3. abandoned' \subseteq Invs
  BY <1>1, NoteOK DEF reset_radio
<1>4. Rest(i, s)
  BY <1>1, <1>3 DEF reset_radio, Rest
<1>5. \A j \in Invs \ {i} : st'[j] = st[j]
  BY <1>1 DEF reset_radio
<1> QED
  BY <1>2, <1>4, <1>5, OneState DEF Unreachable

LEMMA RInvStep ==
  ASSUME RInv, [Next]_vars
  PROVE  /\ RInv'
         /\ \A j \in Invs : Unreachable(j) /\ ~Unreachable(j)' => reset_radio(j, "ok")
<1> USE HmsAssumption
<1>1. CASE \E i \in Invs : Other(i)
  BY <1>1, OtherState DEF StillUnreachable
<1>2. CASE \E i \in Buttons : reset_radio(i, "ok")
  BY <1>2, ResetStep
<1>3. CASE UNCHANGED vars
  BY <1>3 DEF vars, RInv, TypeOK, OwnTelemetry, StateOK, Held, Own, Unreachable
<1> QED
  BY <1>1, <1>2, <1>3 DEF Next, Other

\* An instance publishes only telemetry that bears its own DTU serial, whatever is
\* received late or in another order, and reassembly keeps within the fragments of
\* a reply and within its attempts, even where the chip refuses a frame or the
\* radio is reset in mid-exchange.
THEOREM ReassemblyTheorem == Spec => []ReassemblyOK
<1>1. RInv => ReassemblyOK
  BY DEF RInv, ReassemblyOK, WithinAttempts, StateOK
<1>2. RInv /\ [Next]_vars => RInv'
  BY RInvStep
<1> QED
  BY <1>1, <1>2, RInvInit, PTL DEF Spec

\* An unreachable inverter is reachable again only once a reset has succeeded.
THEOREM RecoverTheorem == Spec => ResetRecovers
<1>1. RInv /\ [Next]_vars => RInv'
  BY RInvStep
<1>2. RInv /\ [Next]_vars => [OnlyByReset]_vars
  BY RInvStep DEF OnlyByReset
<1> QED
  BY <1>1, <1>2, RInvInit, PTL DEF Spec, ResetRecovers
=============================================================================
