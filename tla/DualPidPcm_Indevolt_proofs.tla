------------------------ MODULE DualPidPcm_Indevolt_proofs ------------------------
(***************************************************************************)
(* Two components in one module, a controller of charging and discharging  *)
(* power and a hub of the kind such controllers write to.  They share no   *)
(* definition and no state.                                                *)
(*                                                                         *)
(* The converter of dualpidpcm, for all limits, thresholds and errors.     *)
(* The parts of ConverterOK need each other, and three facts more.  Every  *)
(* level that is cached is also sent, since a level above zero is only     *)
(* computed in an update that switches the converter on (Sync).  A level   *)
(* above zero belongs to the active mode (Belongs).  And an update that    *)
(* activates the controller starts in IDLE without stopping anything,      *)
(* which is safe because a deactivated controller is in IDLE (Activated).  *)
(*                                                                         *)
(* The hub of indevolt, for all lengths of its queues and lists, all       *)
(* limits and all configurations. That the worker asks only for batches a  *)
(* list has is not inductive: a poll job opens a cycle at batch 0, so a    *)
(* list whose poll job is queued must have a batch (Asked).                *)
(*                                                                         *)
(* That the identification, and every cycle, is under way at most once is  *)
(* shown by following it: it is queued, or with the worker, or its end     *)
(* waits to be posted or to be processed, and in none of these places when *)
(* it may be started (OneInfo, CycleOK). For the cycles this takes         *)
(* watchdogs that are in time.                                             *)
(***************************************************************************)
EXTENDS DualPidPcm, Indevolt, SequenceTheorems, TLAPS

(***************************************************************************)
(* dualpidpcm                                                              *)
(***************************************************************************)

Flags ==
  {previous_activation_, undervoltage_lockout_, in_startup, warm, onoff, charging, activation,
   manual_override, allow_charging, allow_discharging, byHand, sunny}

Data ==
  /\ mode \in {IDLE, CHARGE, DISCHARGE}
  /\ deadband_timer \in {"off", "running", "over"}
  /\ chg \in Side /\ dis \in Side
  /\ voltage \in {"nan", "low", "mid", "high"}

Activated == ~previous_activation_ => mode = IDLE

\* What is cached is what the converter holds.
InSync(s) == s.prev = s.cur /\ s.dev = s.cur
Sync == ~byHand => InSync(chg) /\ InSync(dis)

\* A level above zero is one of the active mode.
Belongs == ~byHand => /\ chg.dev > 0 => mode = CHARGE
                      /\ dis.dev > 0 => mode = DISCHARGE

NoDischarge == undervoltage_lockout_ => mode # DISCHARGE

IInv ==
  /\ Flags \subseteq BOOLEAN
  /\ Data
  /\ Activated
  /\ Sync
  /\ Belongs
  /\ NoDischarge
  /\ DirectionMatches
  /\ OnIffActive

-----------------------------------------------------------------------------
(* Levels                                                                  *)

\* Rounding to a step keeps a level within the range, and zero where it is.
LEMMA QuantizedLevel ==
  ASSUME NEW l \in Levels
  PROVE  Quantized(l) \in Levels /\ (l = 0 => Quantized(l) = 0)
  <1> DEFINE h == (l + 1) \div 2
  <1>1. LevelMax \in Nat /\ l \in Nat /\ l <= LevelMax /\ LevelMax % 2 = 0
    BY PcmAssumption DEF Levels
  <1>2. h \in Nat /\ 2 * h <= l + 1 /\ (l = 0 => h = 0)
    BY <1>1
  <1> DEFINE k == LevelMax \div 2
  <1>3. LevelMax = 2 * k /\ k \in Nat
    BY <1>1
  <1> HIDE DEF k, h
  <1>4. 2 * h <= LevelMax
    BY <1>1, <1>2, <1>3
  <1>5. Quantized(l) = 2 * h
    BY DEF Quantized, h
  <1> QED BY <1>2, <1>4, <1>5 DEF Levels

\* The limits of the outputs are levels, and clamping stays between them.
LEMMA Limits == {0, StartLevel, MinC, MaxC, MinD, MaxD, LevelMax} \subseteq Levels
  BY PcmAssumption DEF Levels

LEMMA ClampLevel ==
  ASSUME NEW l \in Levels, NEW lo \in Levels, NEW hi \in Levels
  PROVE  Clamp(l, lo, hi) \in Levels
  BY DEF Clamp

\* What set_level leaves behind: a level that may be sent is held afterwards, if
\* the cached one was held before.
LEMMA SetLevel ==
  ASSUME NEW s \in Side, NEW l \in Levels, NEW on \in BOOLEAN
  PROVE  LET r == set_level(s, l, on) IN
         /\ r \in Side
         /\ InSync(s) /\ (l = 0 \/ on) => InSync(r)
         /\ l = 0 => r.cur = 0
  <1> DEFINE q == Quantized(l)
             d == IF q # s.prev /\ (q = 0 \/ on) THEN q ELSE s.dev
             r == [cur |-> q, prev |-> q, dev |-> d]
  <1>1. q \in Levels /\ (l = 0 => q = 0)
    BY QuantizedLevel
  <1>2. set_level(s, l, on) = r
    BY DEF set_level
  <1> HIDE DEF q
  <1>3. s.dev \in Levels /\ s.prev \in Levels
    BY DEF Side
  <1>4. d \in Levels /\ (s.prev = s.dev /\ (q = 0 \/ on) => d = q)
    BY <1>1, <1>3
  <1> HIDE DEF d
  <1>5. r \in Side /\ r.cur = q /\ r.prev = q /\ r.dev = d
    BY <1>1, <1>4 DEF Side
  <1> HIDE DEF r
  <1> QED BY <1>1, <1>2, <1>4, <1>5 DEF InSync

-----------------------------------------------------------------------------
(* The steps of pid_update                                                 *)

\* An update of an activated controller goes on in the mode it was in.
LEMMA ModeInIsMode == Data /\ Activated /\ Flags \subseteq BOOLEAN => ModeIn = mode
  BY DEF ModeIn, Activated, Data, Flags

\* What all updates do with the flags.
LEMMA PrologueFlags ==
  ASSUME Flags \subseteq BOOLEAN, Prologue,
         {onoff', charging', in_startup', warm'} \subseteq BOOLEAN
  PROVE  (Flags \subseteq BOOLEAN)'
  <1>1. undervoltage_lockout_' \in BOOLEAN /\ previous_activation_' \in BOOLEAN
    BY DEF Prologue, LockoutNow, Flags
  <1>2. UNCHANGED <<activation, manual_override, allow_charging, allow_discharging, byHand, sunny>>
    BY DEF Prologue, switches
  <1> QED BY <1>1, <1>2 DEF Flags

\* An update that ends with the converter off.
LEMMA OffInv ==
  ASSUME IInv, Prologue, Off, warm' \in BOOLEAN
  PROVE  IInv'
  <1>1. chg \in Side /\ dis \in Side /\ onoff \in BOOLEAN /\ 0 \in Levels
    BY Limits DEF IInv, Data, Flags
  <1>2. /\ mode' = IDLE /\ onoff' = FALSE /\ deadband_timer' = "off"
        /\ chg' = set_level(chg, 0, onoff) /\ dis' = set_level(dis, 0, onoff)
        /\ UNCHANGED <<in_startup, charging>>
    BY DEF Off, LevelsZero
  <1>3. UNCHANGED <<voltage, byHand>>
    BY DEF Prologue
  <1>4. (Flags \subseteq BOOLEAN)'
    BY <1>2, PrologueFlags DEF IInv, Flags
  <1>5. /\ chg' \in Side /\ dis' \in Side
        /\ ~byHand => InSync(chg)' /\ InSync(dis)' /\ chg'.cur = 0 /\ dis'.cur = 0
    BY <1>1, <1>2, SetLevel DEF IInv, Sync, InSync
  <1>6. ~byHand => chg'.dev = 0 /\ dis'.dev = 0
    BY <1>5 DEF InSync
  <1>7. Data' /\ Activated' /\ Sync' /\ NoDischarge'
    BY <1>2, <1>3, <1>5 DEF IInv, Data, Activated, Sync, NoDischarge, IDLE, DISCHARGE
  <1>8. Belongs' /\ DirectionMatches' /\ OnIffActive'
    BY <1>2, <1>3, <1>6 DEF Belongs, DirectionMatches, OnIffActive
  <1> QED BY <1>4, <1>7, <1>8 DEF IInv

\* The mode an update goes on with or begins.
LEMMA NextModeIs ==
  ASSUME IInv, NEW epsi
  PROVE  /\ NextMode(epsi) \in {IDLE, CHARGE, DISCHARGE}
         /\ NextMode(epsi) = DISCHARGE => ~LockoutNow
         /\ mode = CHARGE /\ NextMode(epsi) = DISCHARGE => LowC
         /\ mode = DISCHARGE /\ NextMode(epsi) = CHARGE => LowD
  <1>1. ModeIn = mode /\ mode \in {IDLE, CHARGE, DISCHARGE}
    BY ModeInIsMode DEF IInv, Data
  <1> QED BY <1>1 DEF NextMode, Need, discharge_gate, IDLE, CHARGE, DISCHARGE

\* The levels of a mode.
LEMMA DriveLevels ==
  ASSUME NEW epsi, NEW m, NEW l \in Levels
  PROVE  /\ Sent(epsi, LevelC(m, l)) \in Levels /\ Sent(epsi, LevelD(m, l)) \in Levels
         /\ m # CHARGE \/ Deadband(epsi) => Sent(epsi, LevelC(m, l)) = 0
         /\ m # DISCHARGE \/ Deadband(epsi) => Sent(epsi, LevelD(m, l)) = 0
  <1> DEFINE h == IF Held(m) THEN StartLevel ELSE l
  <1>1. {0, h, MinC, MaxC, MinD, MaxD} \subseteq Levels
    BY Limits
  <1> HIDE DEF h
  <1>2. Clamp(h, MinC, MaxC) \in Levels /\ Clamp(h, MinD, MaxD) \in Levels
    BY <1>1, ClampLevel
  <1> QED BY <1>1, <1>2 DEF LevelC, LevelD, Sent, h

LEMMA DriveInv ==
  ASSUME IInv, NEW epsi, NEW l \in Levels, Drive(epsi, l)
  PROVE  IInv'
  <1> DEFINE m == NextMode(epsi)
             x == Sent(epsi, LevelC(m, l))
             y == Sent(epsi, LevelD(m, l))
  <1>1. /\ Prologue /\ mode' = m /\ onoff' = (m # IDLE) /\ charging' = Direction(epsi, m)
        /\ chg' = set_level(chg, x, onoff') /\ dis' = set_level(dis, y, onoff')
    BY DEF Drive
  <1>2. /\ in_startup' = (in_startup \/ (Starts(m) /\ ~warm))
        /\ warm' = (warm /\ m = ModeIn)
        /\ deadband_timer' = IF ~Confirming(epsi) THEN IF ModeIn = IDLE THEN deadband_timer ELSE "off"
                             ELSE IF deadband_timer = "off" THEN "running" ELSE deadband_timer
    BY DEF Drive
  <1>3. /\ activation /\ previous_activation_' /\ undervoltage_lockout_' = LockoutNow
        /\ UNCHANGED <<voltage, byHand>>
    BY DEF Drive, Prologue
  <1>4. m \in {IDLE, CHARGE, DISCHARGE} /\ (m = DISCHARGE => ~LockoutNow)
    BY NextModeIs
  <1>5. /\ x \in Levels /\ y \in Levels
        /\ x # 0 => m = CHARGE /\ ~Deadband(epsi)
        /\ y # 0 => m = DISCHARGE /\ ~Deadband(epsi)
    BY DriveLevels
  <1>6. chg \in Side /\ dis \in Side /\ charging \in BOOLEAN
    BY DEF IInv, Data, Flags
  <1> HIDE DEF m, x, y
  <1>7. onoff' \in BOOLEAN /\ charging' \in BOOLEAN
    BY <1>1, <1>6 DEF Direction
  <1>0. CHARGE # IDLE /\ DISCHARGE # IDLE /\ CHARGE # DISCHARGE
    BY DEF IDLE, CHARGE, DISCHARGE
  <1>8. (x = 0 \/ onoff') /\ (y = 0 \/ onoff')
    BY <1>1, <1>5, <1>0, Zenon
  <1>9. /\ chg' \in Side /\ dis' \in Side
        /\ ~byHand => InSync(chg') /\ InSync(dis')
        /\ x = 0 => chg'.cur = 0
        /\ y = 0 => dis'.cur = 0
    BY <1>1, <1>5, <1>6, <1>7, <1>8, SetLevel DEF IInv, Sync
  <1>10. /\ ~byHand /\ chg'.dev > 0 => m = CHARGE /\ ~Deadband(epsi)
         /\ ~byHand /\ dis'.dev > 0 => m = DISCHARGE /\ ~Deadband(epsi)
    BY <1>5, <1>9 DEF InSync
  <1>11. (Flags \subseteq BOOLEAN)'
    BY <1>1, <1>2, <1>7, PrologueFlags DEF IInv, Flags
  <1>12. Data'
    BY <1>1, <1>2, <1>3, <1>4, <1>9 DEF IInv, Data
  <1>13. Activated' /\ Sync' /\ NoDischarge'
    BY <1>1, <1>3, <1>4, <1>9 DEF Activated, Sync, NoDischarge, InSync
  <1>14. Belongs' /\ OnIffActive'
    BY <1>1, <1>3, <1>10 DEF Belongs, OnIffActive
  <1>15. DirectionMatches'
    <2>1. ~byHand /\ chg'.dev > 0 => onoff' /\ charging'
      BY <1>1, <1>10, <1>0, Zenon DEF Direction
    <2>2. ~byHand /\ dis'.dev > 0 => onoff' /\ ~charging'
      BY <1>1, <1>10, <1>0, Zenon DEF Direction
    <2> QED BY <1>3, <2>1, <2>2 DEF DirectionMatches
  <1> QED BY <1>11, <1>12, <1>13, <1>14, <1>15 DEF IInv

-----------------------------------------------------------------------------
(* All steps                                                               *)

LEMMA UpdateInv ==
  ASSUME IInv, NEW epsi, pid_update(epsi)
  PROVE  IInv'
  <1>1. warm \in BOOLEAN
    BY DEF IInv, Flags
  <1>2. CASE Deactivated
    BY <1>2, OffInv DEF Deactivated
  <1>3. CASE StayIdle(epsi)
    BY <1>1, <1>3, OffInv DEF StayIdle
  <1>4. CASE GoIdle(epsi)
    BY <1>4, OffInv DEF GoIdle
  <1>5. CASE \E l \in Levels : Drive(epsi, l)
    BY <1>5, DriveInv
  <1> QED BY <1>2, <1>3, <1>4, <1>5 DEF pid_update

\* The steps that are not updates.
LEMMA OthersInv ==
  ASSUME IInv, TooSoon \/ TimerEnds \/ Toggle \/ Sensor \/ ByHand \/ SunComesOut \/ UNCHANGED pcmVars
  PROVE  IInv'
  <1> USE DEF timers, converter, switches
  <1>0. Flags \subseteq BOOLEAN /\ Data
    BY DEF IInv
  <1>1. CASE TooSoon
    <2>1. /\ chg' = [chg EXCEPT !.prev = chg.cur] /\ dis' = [dis EXCEPT !.prev = dis.cur]
          /\ UNCHANGED <<mode, previous_activation_, undervoltage_lockout_, timers, onoff, charging,
                         switches, voltage, byHand, sunny>>
      BY <1>1 DEF TooSoon
    <2>2. /\ chg' \in Side /\ chg'.dev = chg.dev /\ (InSync(chg) => InSync(chg'))
          /\ dis' \in Side /\ dis'.dev = dis.dev /\ (InSync(dis) => InSync(dis'))
      BY <1>0, <2>1 DEF Data, Side, InSync
    <2>3. (Flags \subseteq BOOLEAN)' /\ Data'
      BY <1>0, <2>1, <2>2 DEF Flags, Data
    <2>4. Activated' /\ Sync' /\ Belongs' /\ NoDischarge'
      BY <2>1, <2>2 DEF IInv, Activated, Sync, Belongs, NoDischarge, InSync
    <2>5. DirectionMatches' /\ OnIffActive'
      BY <2>1, <2>2 DEF IInv, DirectionMatches, OnIffActive
    <2> QED BY <2>3, <2>4, <2>5 DEF IInv
  <1>2. CASE ByHand
    <2>1. /\ byHand' = TRUE
          /\ UNCHANGED <<mode, previous_activation_, undervoltage_lockout_, timers, switches,
                         voltage, sunny>>
      BY <1>2 DEF ByHand
    <2>2. chg' \in Side /\ dis' \in Side /\ onoff' \in BOOLEAN /\ charging' \in BOOLEAN
      BY <1>0, <1>2, Limits DEF ByHand, Data, Side, Flags
    <2>3. (Flags \subseteq BOOLEAN)' /\ Data'
      BY <1>0, <2>1, <2>2 DEF Flags, Data
    <2> QED BY <2>1, <2>3 DEF IInv, Activated, Sync, Belongs, NoDischarge, DirectionMatches,
                              OnIffActive
  <1>3. ASSUME UNCHANGED <<mode, previous_activation_, undervoltage_lockout_, chg, dis, onoff,
                           charging, byHand>>,
               (Flags \subseteq BOOLEAN)', voltage' \in {"nan", "low", "mid", "high"},
               deadband_timer' \in {"off", "running", "over"}
        PROVE  IInv'
    BY <1>3 DEF IInv, Data, Activated, Sync, Belongs, NoDischarge, DirectionMatches, OnIffActive,
                InSync
  <1>4. CASE TimerEnds
    BY <1>0, <1>3, <1>4 DEF TimerEnds, Flags, Data
  <1>5. CASE Toggle
    BY <1>0, <1>3, <1>5 DEF Toggle, Flags, Data
  <1>6. CASE Sensor
    BY <1>0, <1>3, <1>6 DEF Sensor, Flags, Data
  <1>7. CASE SunComesOut
    BY <1>0, <1>3, <1>7 DEF SunComesOut, Flags, Data
  <1>8. CASE UNCHANGED pcmVars
    BY <1>0, <1>3, <1>8 DEF pcmVars, Flags, Data
  <1> QED BY <1>1, <1>2, <1>4, <1>5, <1>6, <1>7, <1>8

LEMMA InitInv == PcmInit => IInv
  <1> SUFFICES ASSUME PcmInit PROVE IInv
    OBVIOUS
  <1> USE DEF PcmInit
  <1>1. Flags \subseteq BOOLEAN
    BY DEF Flags
  <1>2. PICK c \in Levels, d \in Levels :
          /\ chg = [cur |-> 0, prev |-> 0, dev |-> c] /\ dis = [cur |-> 0, prev |-> 0, dev |-> d]
          /\ byHand = (c # 0 \/ d # 0)
    OBVIOUS
  <1>3. Data
    BY <1>2, Limits DEF Data, Side
  <1>4. ~byHand => chg.dev = 0 /\ dis.dev = 0
    BY <1>2
  <1> QED BY <1>1, <1>2, <1>3, <1>4 DEF IInv, Activated, Sync, Belongs, NoDischarge,
                            DirectionMatches, OnIffActive, InSync, IDLE, DISCHARGE

LEMMA NextInv == IInv /\ [PcmNext]_pcmVars => IInv'
  <1> SUFFICES ASSUME IInv, [PcmNext]_pcmVars PROVE IInv'
    OBVIOUS
  <1>1. CASE Update
    BY <1>1, UpdateInv DEF Update
  <1>2. CASE TooSoon \/ TimerEnds \/ Toggle \/ Sensor \/ ByHand \/ SunComesOut \/ UNCHANGED pcmVars
    BY <1>2, OthersInv
  <1> QED BY <1>1, <1>2 DEF PcmNext

\* While the lock-out is set the mode is not DISCHARGE, and the converter holds no
\* level to discharge with.
LEMMA InvImpliesOK == IInv => ConverterOK
  <1> SUFFICES ASSUME IInv PROVE ConverterOK
    OBVIOUS
  <1>1. PcmTypeOK
    BY DEF IInv, PcmTypeOK, Flags, Data
  <1>2. dis.dev \in Nat
    BY DEF IInv, Data, Side, Levels
  <1>3. LockedOut
    BY <1>2 DEF IInv, NoDischarge, Belongs, LockedOut
  <1> QED BY <1>1, <1>3 DEF IInv, ConverterOK

\* Levels, direction, on/off and mode of the converter agree in every reachable
\* state, for any limits and thresholds: through pid_update's starts, direct swaps,
\* deadbands and stops.
THEOREM ConverterTheorem == PcmSpec => []ConverterOK
  <1>1. PcmSpec => []IInv
    BY InitInv, NextInv, PTL DEF PcmSpec
  <1> QED BY <1>1, InvImpliesOK, PTL

-----------------------------------------------------------------------------
(* The direction switch                                                    *)

\* The converter is driven in a mode: its direction changes at the start, at a
\* swap from a level close to the minimum, or where a start in the deadband
\* left it to a later update, with no level yet.
LEMMA DriveSwaps ==
  ASSUME IInv, NEW epsi, NEW l \in Levels, Drive(epsi, l), charging # charging', ~byHand
  PROVE  chg.dev <= MinC + Slack /\ dis.dev <= MinD + Slack
  <1> DEFINE m == NextMode(epsi)
  <1>1. charging' = Direction(epsi, m)
    BY DEF Drive
  <1>2. /\ m \in {IDLE, CHARGE, DISCHARGE}
        /\ mode = CHARGE /\ m = DISCHARGE => LowC
        /\ mode = DISCHARGE /\ m = CHARGE => LowD
    BY NextModeIs
  <1> HIDE DEF m
  <1>3. m # IDLE /\ charging' = (m = CHARGE) /\ charging \in BOOLEAN
    BY <1>1, <1>2 DEF Direction, IInv, Flags
  <1>4. mode \in {IDLE, CHARGE, DISCHARGE} /\ {MinC, MinD, Slack} \subseteq Nat
        /\ chg.dev \in Nat /\ dis.dev \in Nat
    BY PcmAssumption DEF IInv, Data, Side, Levels
  <1>5. /\ chg.dev > 0 => mode = CHARGE /\ charging
        /\ dis.dev > 0 => mode = DISCHARGE /\ ~charging
        /\ chg.dev = chg.cur /\ dis.dev = dis.cur
    BY DEF IInv, Belongs, DirectionMatches, Sync, InSync
  <1>6. chg.dev > 0 => chg.dev <= MinC + Slack
    BY <1>2, <1>3, <1>5 DEF LowC, IDLE, CHARGE, DISCHARGE
  <1>7. dis.dev > 0 => dis.dev <= MinD + Slack
    BY <1>2, <1>3, <1>5 DEF LowD, IDLE, CHARGE, DISCHARGE
  <1> QED BY <1>4, <1>6, <1>7

\* The direction of the converter is never switched under load, in any step: only
\* in updates that find both levels at or close to their minimum.
THEOREM SwapTheorem == PcmSpec => SwapsAtMinimum
  <1> DEFINE Low == charging # charging' /\ ~byHand' =>
                      chg.dev <= MinC + Slack /\ dis.dev <= MinD + Slack
  <1>1. ASSUME IInv, PcmNext, charging # charging', ~byHand'
        PROVE  chg.dev <= MinC + Slack /\ dis.dev <= MinD + Slack
    <2> USE DEF timers, converter, switches
    <2>1. ~(TooSoon \/ TimerEnds \/ Toggle \/ Sensor \/ ByHand \/ SunComesOut)
      BY <1>1 DEF TooSoon, TimerEnds, Toggle, Sensor, ByHand, SunComesOut
    <2>2. PICK epsi \in Inputs : pid_update(epsi)
      BY <1>1, <2>1 DEF PcmNext, Update
    <2>3. PICK l \in Levels : Drive(epsi, l)
      BY <1>1, <2>2 DEF pid_update, Deactivated, StayIdle, GoIdle, Off
    <2>4. ~byHand
      BY <1>1, <2>3 DEF Drive, Prologue
    <2> QED BY <1>1, <2>3, <2>4, DriveSwaps
  <1>2. PcmSpec => []IInv
    BY InitInv, NextInv, PTL DEF PcmSpec
  <1>3. IInv /\ [PcmNext]_pcmVars => [Low]_pcmVars
    BY <1>1
  <1> QED BY <1>2, <1>3, PTL DEF PcmSpec, SwapsAtMinimum, Low

(***************************************************************************)
(* indevolt                                                                *)
(***************************************************************************)

\* The jobs that may be queued: polls are for lists that are not empty.
Asked == {InfoJob} \cup {PollJob(t) : t \in {u \in Tiers : Batches[u] > 0}} \cup Writes

\* The results that wait to be posted.
CycleResults ==
  {BatchResult(t, l, m) : t \in Tiers, l \in BOOLEAN, m \in Modes \cup {"none", "absent"}}
    \cup {AbortResult(t) : t \in Tiers}

JobsOK == job_queue_ \in Seq(Asked) /\ Len(job_queue_) <= JobCap
ResultsOK == result_queue_ \in Seq(Results) /\ Len(result_queue_) <= ResultCap
WorkerOK ==
  /\ polling \in [Tiers -> BOOLEAN]
  /\ batch \in [Tiers -> Nat] /\ \A t \in Tiers : polling[t] => batch[t] < Batches[t]
  /\ running \in Writes \cup {NoJob, InfoJob} \cup {BatchOf(t) : t \in Tiers}
  /\ outbox \in Seq(CycleResults) /\ Len(outbox) <= 3
PollOK == poll_pending_ \in [Tiers -> BOOLEAN] /\ late \in [Tiers -> BOOLEAN]
InfoOK == info_pending_ \in BOOLEAN /\ info_done_ \in BOOLEAN
PowerOK ==
  /\ last_power_valid_ \in BOOLEAN /\ stale \in BOOLEAN
  /\ last_power_command_ \in Powers /\ requested_w_ \in Powers
OnlineOK == consecutive_failures_ \in 0..FailMax /\ online \in {"unknown", "on", "off"}
OutsideOK ==
  /\ device \in [mode : Modes, power : Powers] /\ up \in BOOLEAN
  /\ changes \in 0..config.changes

\* The inductive invariant.
HubInv ==
  /\ config \in Configs
  /\ main \in {"idle", "draining", "poll", "power"}
  /\ JobsOK /\ ResultsOK /\ WorkerOK /\ PollOK /\ InfoOK
  /\ work_mode_ \in Modes \cup {"unknown"}
  /\ PowerOK
  /\ request \in [charge : 0..MaxCharge, discharge : 0..MaxDischarge]
  /\ OnlineOK /\ OutsideOK

LEMMA Bounds ==
  /\ JobCap \in Nat /\ JobCap > 0 /\ ResultCap \in Nat /\ ResultCap > 0
  /\ MaxCharge \in Nat /\ MaxDischarge \in Nat /\ MinPower \in Nat /\ FailMax \in Nat
  /\ \A c \in Configs : c.lists \in [1..3 -> Nat] /\ c.changes \in Nat
  /\ Powers \subseteq Int /\ 0 \in Powers
  BY IndevoltAssumption DEF Powers

LEMMA AskedIsJob == config \in Configs => Asked \subseteq Jobs
  BY DEF Asked, Jobs

LEMMA CycleResultsAre == CycleResults \subseteq Results
  BY DEF CycleResults, Results

LEMMA InvEnough == HubInv => IndTypeOK
<1> SUFFICES ASSUME HubInv
             PROVE  IndTypeOK
  OBVIOUS
<1>1. job_queue_ \in Seq(Jobs) /\ Len(job_queue_) <= JobCap
  <2>1. \A i \in 1..Len(job_queue_) : job_queue_[i] \in Jobs
    BY AskedIsJob, ElementOfSeq DEF HubInv, JobsOK
  <2>2. job_queue_ \in Seq(Jobs)
    BY <2>1, LenProperties DEF HubInv, JobsOK
  <2> QED
    BY <2>2 DEF HubInv, JobsOK
<1>2. outbox \in Seq(Results) /\ Len(outbox) <= 3
  <2>1. \A i \in 1..Len(outbox) : outbox[i] \in Results
    BY CycleResultsAre, ElementOfSeq DEF HubInv, WorkerOK
  <2>2. outbox \in Seq(Results)
    BY <2>1, LenProperties DEF HubInv, WorkerOK
  <2> QED
    BY <2>2 DEF HubInv, WorkerOK
<1> QED
  BY <1>1, <1>2 DEF IndTypeOK, HubInv, ResultsOK, WorkerOK, PollOK, InfoOK, PowerOK, OnlineOK, OutsideOK

-----------------------------------------------------------------------------
(* The queues.                                                             *)

LEMMA QueueProperties ==
  ASSUME NEW S, NEW s \in Seq(S), NEW cap \in Nat, Len(s) <= cap
  PROVE  /\ s # <<>> => Head(s) \in S /\ Tail(s) \in Seq(S) /\ Len(Tail(s)) <= cap
         /\ \A x \in S : Append(s, x) \in Seq(S)
                         /\ (Len(s) < cap => Len(Append(s, x)) <= cap)
<1>1. Len(s) \in Nat
  BY LenProperties
<1>2. s # <<>> => Head(s) \in S /\ Tail(s) \in Seq(S) /\ Len(Tail(s)) <= cap
  BY <1>1, HeadTailProperties
<1>3. \A x \in S : Append(s, x) \in Seq(S) /\ Len(Append(s, x)) = Len(s) + 1
  BY AppendProperties
<1> QED
  BY <1>1, <1>2, <1>3

LEMMA EnqueueOK ==
  ASSUME HubInv, NEW job \in Asked, Enqueue(job), UNCHANGED config
  PROVE  JobsOK'
<1>1. Asked' = Asked
  BY DEF Asked, Batches
<1> QED
  BY <1>1, QueueProperties, Bounds DEF HubInv, JobsOK, Enqueue, Fits

LEMMA JobsStay ==
  ASSUME HubInv, UNCHANGED <<config, job_queue_>>
  PROVE  JobsOK'
<1>1. Asked' = Asked
  BY DEF Asked, Batches
<1> QED
  BY <1>1 DEF HubInv, JobsOK

LEMMA WorkerStays ==
  ASSUME HubInv, UNCHANGED <<config, workVars>>
  PROVE  WorkerOK'
  BY DEF HubInv, WorkerOK, workVars, Batches

LEMMA PostOK ==
  ASSUME HubInv, NEW r \in Results, Post(r)
  PROVE  ResultsOK'
  BY QueueProperties, Bounds DEF HubInv, ResultsOK, Post

LEMMA WritesAsked == /\ InfoJob \in Asked
                     /\ \A m \in Modes : ModeJob(m) \in Asked
                     /\ \A w \in Powers : PowerJob(w) \in Asked
                     /\ \A t \in Tiers : Batches[t] > 0 => PollJob(t) \in Asked
  BY DEF Asked, Writes

\* What the parts say of a state of which nothing changed but some parts.
LEMMA StepParts ==
  ASSUME HubInv, UNCHANGED config, main' \in {"idle", "draining", "poll", "power"},
         JobsOK', ResultsOK', WorkerOK', PollOK', InfoOK', work_mode_' \in Modes \cup {"unknown"},
         PowerOK', request' \in [charge : 0..MaxCharge, discharge : 0..MaxDischarge],
         OnlineOK', OutsideOK'
  PROVE  HubInv'
  BY DEF HubInv

-----------------------------------------------------------------------------
(* The main task.                                                          *)

LEMMA StartPollOK ==
  ASSUME HubInv, NEW t \in Tiers, start_poll_(t), UNCHANGED config
  PROVE  JobsOK' /\ PollOK'
<1>1. CASE Batches[t] > 0 /\ MayStart(t) /\ Fits
  <2>1. JobsOK'
    BY <1>1, WritesAsked, EnqueueOK DEF start_poll_
  <2>2. PollOK'
    BY <1>1 DEF start_poll_, HubInv, PollOK
  <2> QED
    BY <2>1, <2>2
<1>2. CASE ~(Batches[t] > 0 /\ MayStart(t) /\ Fits)
  BY <1>2, JobsStay DEF start_poll_, HubInv, PollOK, pollVars
<1> QED
  BY <1>1, <1>2

LEMMA EffectivePower ==
  ASSUME NEW w \in Int
  PROVE  Effective(w) \in Powers
<1>1. Clamped(w) \in Powers
  BY Bounds DEF Clamped, Powers
<1> QED
  BY <1>1, Bounds DEF Effective

LEMMA SendPowerOK ==
  ASSUME HubInv, NEW w \in Powers, SendPower(w), UNCHANGED config, requested_w_' \in Powers
  PROVE  JobsOK' /\ PowerOK'
<1>1. JobsOK'
  BY WritesAsked, EnqueueOK DEF SendPower
<1>2. PowerOK'
  <2>1. last_power_valid_' \in BOOLEAN /\ stale' \in BOOLEAN
    <3>1. Fits \in BOOLEAN
      BY DEF Fits
    <3>2. last_power_valid_' = Fits /\ stale' = FALSE
      BY DEF SendPower
    <3> QED
      BY <3>1, <3>2, Zenon
  <2>2. last_power_command_' \in Powers
    BY DEF SendPower, HubInv, PowerOK
  <2> QED
    BY <2>1, <2>2 DEF PowerOK
<1> QED
  BY <1>1, <1>2

\* The three outcomes of set_power.
LEMMA SetPowerOK ==
  ASSUME HubInv, NEW w \in Int, set_power(w), UNCHANGED config
  PROVE  /\ JobsOK' /\ PowerOK' /\ main' \in {"idle", "draining", "poll", "power"}
         /\ work_mode_' \in Modes \cup {"unknown"}
<1>1. Effective(w) \in Powers /\ requested_w_' = Effective(w)
  BY EffectivePower DEF set_power
<1>2. CASE /\ Enqueue(ModeJob("realtime"))
           /\ work_mode_' = "realtime"
           /\ main' = "power"
           /\ UNCHANGED <<last_power_valid_, last_power_command_, stale>>
  <2>1. JobsOK'
    BY <1>2, WritesAsked, EnqueueOK DEF Modes
  <2> QED
    BY <1>1, <1>2, <2>1 DEF HubInv, PowerOK, Modes
<1>3. CASE SendPower(Effective(w)) /\ UNCHANGED <<main, work_mode_>>
  BY <1>1, <1>3, SendPowerOK DEF HubInv
<1>4. CASE UNCHANGED <<job_queue_, main, work_mode_, last_power_valid_, last_power_command_, stale>>
  BY <1>1, <1>4, JobsStay DEF HubInv, PowerOK
<1> QED
  BY <1>2, <1>3, <1>4 DEF set_power

LEMMA ChangeOK ==
  ASSUME HubInv, UNCHANGED <<config, device, up>>,
         changes' = changes \/ (changes > 0 /\ changes' = changes - 1)
  PROVE  OutsideOK'
<1>1. config.changes \in Nat /\ changes \in 0..config.changes
  BY Bounds DEF HubInv, OutsideOK
<1> QED
  BY <1>1 DEF HubInv, OutsideOK

\* A call on the main task.
LEMMA CallOK ==
  ASSUME HubInv, NEW entity, Call(entity)
  PROVE  /\ ResultsOK' /\ WorkerOK' /\ PollOK' /\ InfoOK' /\ OnlineOK'
         /\ UNCHANGED <<config, device, up>>
<1>1. UNCHANGED <<config, result_queue_, workVars, pollVars, infoVars, onlineVars, device, up>>
  BY DEF Call
<1>2. WorkerOK'
  BY <1>1, WorkerStays
<1> QED
  BY <1>1, <1>2 DEF HubInv, ResultsOK, PollOK, InfoOK, OnlineOK, pollVars, infoVars, onlineVars

LEMMA MainStep ==
  ASSUME HubInv,
         \/ enqueue_info_ \/ update \/ power_after_mode
         \/ \E t \in Tiers \ {1} : Timer(t)
  PROVE  HubInv'
<1> USE DEF pollVars, infoVars, powerVars, onlineVars
<1>1. ASSUME enqueue_info_
      PROVE  HubInv'
  <2>1. WorkerOK'
    BY <1>1, WorkerStays DEF enqueue_info_
  <2>2. JobsOK' /\ InfoOK'
    <3>1. CASE WantsInfo
      BY <1>1, <3>1, WritesAsked, EnqueueOK DEF enqueue_info_, HubInv, InfoOK, Fits
    <3>2. CASE ~WantsInfo
      BY <1>1, <3>2, JobsStay DEF enqueue_info_, HubInv, InfoOK
    <3> QED
      BY <3>1, <3>2
  <2> QED
    BY <1>1, <2>1, <2>2 DEF enqueue_info_, HubInv, ResultsOK, PollOK, PowerOK, OnlineOK, OutsideOK
<1>2. ASSUME update
      PROVE  HubInv'
  <2>1. JobsOK' /\ PollOK' /\ WorkerOK'
    BY <1>2, StartPollOK, WorkerStays DEF update, Tiers
  <2> QED
    BY <1>2, <2>1 DEF update, HubInv, ResultsOK, InfoOK, PowerOK, OnlineOK, OutsideOK
<1>3. ASSUME power_after_mode
      PROVE  HubInv'
  <2>1. JobsOK' /\ PowerOK' /\ WorkerOK'
    BY <1>3, SendPowerOK, WorkerStays DEF power_after_mode, HubInv, PowerOK
  <2> QED
    BY <1>3, <2>1 DEF power_after_mode, HubInv, ResultsOK, PollOK, InfoOK, OnlineOK, OutsideOK
<1>4. ASSUME NEW t \in Tiers, Timer(t)
      PROVE  HubInv'
  <2>1. JobsOK' /\ PollOK' /\ WorkerOK'
    BY <1>4, StartPollOK, WorkerStays DEF Timer
  <2> QED
    BY <1>4, <2>1 DEF Timer, HubInv, ResultsOK, InfoOK, PowerOK, OnlineOK, OutsideOK
<1> QED
  BY <1>1, <1>2, <1>3, <1>4

LEMMA CallStep ==
  ASSUME HubInv, apply_output_requests_ \/ UserCalls
  PROVE  HubInv'
<1>1. ASSUME apply_output_requests_
      PROVE  HubInv'
  <2>1. request.discharge - request.charge \in Int
    BY Bounds DEF HubInv
  <2>2. /\ ResultsOK' /\ WorkerOK' /\ PollOK' /\ InfoOK' /\ OnlineOK'
        /\ UNCHANGED <<config, device, up>>
    BY <1>1, CallOK DEF apply_output_requests_
  <2>3. /\ JobsOK' /\ PowerOK' /\ main' \in {"idle", "draining", "poll", "power"}
        /\ work_mode_' \in Modes \cup {"unknown"}
    BY <1>1, <2>1, <2>2, SetPowerOK DEF apply_output_requests_
  <2>4. OutsideOK' /\ UNCHANGED request
    BY <1>1, <2>2, ChangeOK DEF apply_output_requests_
  <2> QED
    BY <2>2, <2>3, <2>4, StepParts DEF HubInv
<1>2. ASSUME NEW charge \in 0..MaxCharge, NEW discharge \in 0..MaxDischarge, set_request(charge, discharge)
      PROVE  HubInv'
  <2>1. discharge - charge \in Int
    BY Bounds
  <2>2. /\ ResultsOK' /\ WorkerOK' /\ PollOK' /\ InfoOK' /\ OnlineOK'
        /\ UNCHANGED <<config, device, up>>
    BY <1>2, CallOK DEF set_request
  <2>3. /\ JobsOK' /\ PowerOK' /\ main' \in {"idle", "draining", "poll", "power"}
        /\ work_mode_' \in Modes \cup {"unknown"}
    BY <1>2, <2>1, <2>2, SetPowerOK DEF set_request
  <2>4. OutsideOK' /\ request' = [charge |-> charge, discharge |-> discharge]
    BY <1>2, <2>2, ChangeOK DEF set_request
  <2> QED
    BY <2>2, <2>3, <2>4, StepParts
<1>3. ASSUME NEW w \in Powers, NEW kind, write_number(w, kind)
      PROVE  HubInv'
  <2>1. w \in Int
    BY Bounds
  <2>2. /\ ResultsOK' /\ WorkerOK' /\ PollOK' /\ InfoOK' /\ OnlineOK'
        /\ UNCHANGED <<config, device, up>>
    BY <1>3, CallOK DEF write_number
  <2>3. /\ JobsOK' /\ PowerOK' /\ main' \in {"idle", "draining", "poll", "power"}
        /\ work_mode_' \in Modes \cup {"unknown"}
    BY <1>3, <2>1, <2>2, SetPowerOK DEF write_number
  <2>4. OutsideOK' /\ UNCHANGED request
    BY <1>3, <2>2, ChangeOK DEF write_number
  <2> QED
    BY <2>2, <2>3, <2>4, StepParts DEF HubInv
<1>4. ASSUME NEW m \in Modes, note_work_mode(m)
      PROVE  HubInv'
  <2>1. /\ ResultsOK' /\ WorkerOK' /\ PollOK' /\ InfoOK' /\ OnlineOK'
        /\ UNCHANGED <<config, device, up>>
    BY <1>4, CallOK DEF note_work_mode
  <2>2. JobsOK'
    BY <1>4, <2>1, WritesAsked, EnqueueOK DEF note_work_mode
  <2>3. OutsideOK'
    BY <1>4, <2>1, ChangeOK DEF note_work_mode
  <2>4. PowerOK' /\ UNCHANGED <<main, request>> /\ work_mode_' = m
    BY <1>4 DEF note_work_mode, HubInv, PowerOK, powerVars
  <2> QED
    BY <2>1, <2>2, <2>3, <2>4, StepParts DEF HubInv
<1> QED
  BY <1>1, <1>2, <1>3, <1>4 DEF UserCalls

-----------------------------------------------------------------------------
(* The worker task.                                                        *)

\* The parts the worker leaves alone.
LEMMA WorkerParts ==
  ASSUME HubInv, UNCHANGED <<config, main, pollVars, infoVars, work_mode_, powerVars, request,
                             onlineVars, up>>,
         JobsOK', ResultsOK', WorkerOK', OutsideOK'
  PROVE  HubInv'
  BY DEF HubInv, PollOK, InfoOK, PowerOK, OnlineOK, pollVars, infoVars, powerVars, onlineVars

LEMMA TakeJobStep ==
  ASSUME HubInv, TakeJob
  PROVE  HubInv'
<1> DEFINE job == Head(job_queue_)
<1>1. job \in Asked /\ Tail(job_queue_) \in Seq(Asked) /\ Len(Tail(job_queue_)) <= JobCap
  BY QueueProperties, Bounds DEF HubInv, JobsOK, TakeJob
<1>2. Asked' = Asked /\ Batches' = Batches
  BY DEF TakeJob, Asked, Batches
<1>3. JobsOK'
  BY <1>1, <1>2 DEF TakeJob, JobsOK
<1> HIDE DEF job
<1>4. WorkerOK'
  <2>1. CASE job.type = "poll"
    <3>1. PICK t \in Tiers : job = PollJob(t) /\ Batches[t] > 0
      BY <1>1, <2>1 DEF Asked, Writes, InfoJob, ModeJob, PowerJob
    <3>2. /\ polling' = [polling EXCEPT ![t] = TRUE] /\ batch' = [batch EXCEPT ![t] = 0]
          /\ UNCHANGED <<running, outbox>>
      BY <2>1, <3>1 DEF TakeJob, PollJob, job
    <3>3. polling' \in [Tiers -> BOOLEAN] /\ batch' \in [Tiers -> Nat]
      BY <3>2 DEF HubInv, WorkerOK
    <3>4. ASSUME NEW u \in Tiers, polling'[u]
          PROVE  batch'[u] < Batches[u]
      BY <3>1, <3>2, <3>4 DEF HubInv, WorkerOK
    <3> QED
      BY <1>2, <3>2, <3>3, <3>4 DEF HubInv, WorkerOK
  <2>2. CASE job.type # "poll"
    <3>1. job \in Writes \cup {InfoJob}
      BY <1>1, <2>2 DEF Asked, PollJob
    <3>2. running' = job /\ UNCHANGED <<polling, batch, outbox>>
      BY <2>2 DEF TakeJob, job
    <3> QED
      BY <1>2, <3>1, <3>2 DEF HubInv, WorkerOK
  <2> QED
    BY <2>1, <2>2
<1>5. ResultsOK' /\ OutsideOK'
  BY DEF TakeJob, HubInv, ResultsOK, OutsideOK
<1> QED
  BY <1>3, <1>4, <1>5, WorkerParts DEF TakeJob

LEMMA TakeBatchStep ==
  ASSUME HubInv, NEW t \in Tiers, TakeBatch(t)
  PROVE  HubInv'
<1>1. WorkerOK'
  BY DEF TakeBatch, HubInv, WorkerOK, Batches
<1>2. JobsOK' /\ ResultsOK' /\ OutsideOK'
  BY JobsStay DEF TakeBatch, HubInv, ResultsOK, OutsideOK
<1> QED
  BY <1>1, <1>2, WorkerParts DEF TakeBatch

LEMMA AppliedOK ==
  ASSUME NEW d \in [mode : Modes, power : Powers], NEW job \in Writes \cup {InfoJob}
  PROVE  Applied(d, job) \in [mode : Modes, power : Powers]
<1>1. CASE \E m \in Modes : job = ModeJob(m)
  <2>1. PICK m \in Modes : job = ModeJob(m)
    BY <1>1
  <2>2. Applied(d, job) = [d EXCEPT !.mode = m]
    BY <2>1 DEF Applied, ModeJob
  <2> QED
    BY <2>2
<1>2. CASE \E w \in Powers : job = PowerJob(w)
  <2>1. PICK w \in Powers : job = PowerJob(w)
    BY <1>2
  <2>2. Applied(d, job) \in {d, [d EXCEPT !.power = w]}
    BY <2>1 DEF Applied, PowerJob
  <2> QED
    BY <2>2
<1>3. CASE job = InfoJob
  BY <1>3 DEF Applied, InfoJob
<1> QED
  BY <1>1, <1>2, <1>3 DEF Writes

LEMMA JobStep ==
  ASSUME HubInv, JobAnswered \/ JobUnanswered
  PROVE  HubInv'
<1>1. running \in Writes \cup {InfoJob}
  <2>1. running.type \in {"info", "mode", "power"}
    BY DEF JobAnswered, JobUnanswered
  <2>2. running # NoJob /\ \A t \in Tiers : running # BatchOf(t)
    BY <2>1 DEF NoJob, BatchOf
  <2> QED
    BY <2>2 DEF HubInv, WorkerOK
<1>2. device' \in [mode : Modes, power : Powers]
  BY <1>1, AppliedOK DEF JobAnswered, JobUnanswered, HubInv, OutsideOK
<1>3. \A b \in BOOLEAN : WriteResult(b) \in Results /\ InfoResult(b) \in Results
  BY DEF Results
<1>4. \E r \in Results : Post(r)
  <2>1. CASE JobAnswered
    BY <1>3, <2>1 DEF JobAnswered
  <2>2. CASE JobUnanswered
    BY <1>3, <2>2 DEF JobUnanswered
  <2> QED
    BY <2>1, <2>2
<1>5. ResultsOK'
  BY <1>4, PostOK
<1>6. JobsOK'
  BY JobsStay DEF JobAnswered, JobUnanswered
<1>7. WorkerOK'
  BY DEF JobAnswered, JobUnanswered, HubInv, WorkerOK, Batches
<1>8. OutsideOK'
  BY <1>2 DEF JobAnswered, JobUnanswered, HubInv, OutsideOK
<1> QED
  BY <1>5, <1>6, <1>7, <1>8, WorkerParts DEF JobAnswered, JobUnanswered

LEMMA BatchResults ==
  /\ \A t \in Tiers, last \in BOOLEAN, m \in Modes \cup {"none", "absent"} :
       BatchResult(t, last, m) \in CycleResults
  /\ \A t \in Tiers : AbortResult(t) \in CycleResults
  BY DEF CycleResults

LEMMA BatchEndsStep ==
  ASSUME HubInv, NEW readable \in BOOLEAN, BatchEnds(readable),
         changes' = changes \/ (changes > 0 /\ changes' = changes - 1)
  PROVE  HubInv'
<1>1. PICK t \in Tiers : running = BatchOf(t)
  BY DEF BatchEnds, HubInv, WorkerOK, Writes, ModeJob, PowerJob, NoJob, InfoJob
<1>2. running.tier = t
  BY <1>1 DEF BatchOf
<1> DEFINE last == batch[t] + 1 >= Batches[t]
           told == IF readable THEN Reported(t) ELSE "none"
<1>3. /\ batch' = [batch EXCEPT ![t] = IF last THEN 0 ELSE batch[t] + 1]
      /\ polling' = [polling EXCEPT ![t] = ~last]
      /\ outbox' = <<BatchResult(t, last, told)>>
      /\ running' = NoJob
      /\ UNCHANGED <<config, job_queue_, result_queue_, device, up>>
  BY <1>2 DEF BatchEnds
<1>4. batch \in [Tiers -> Nat] /\ Batches \in [Tiers -> Nat] /\ Batches' = Batches
  BY <1>3, Bounds DEF HubInv, WorkerOK, Batches, Tiers
<1>5. told \in Modes \cup {"none", "absent"} /\ last \in BOOLEAN
  BY DEF Reported, HubInv, OutsideOK
<1>6. ~last => batch[t] + 1 < Batches[t]
  BY <1>4
<1> HIDE DEF last, told
<1>7. outbox' \in Seq(CycleResults) /\ Len(outbox') <= 3
  <2> DEFINE r == BatchResult(t, last, told)
  <2>1. r \in CycleResults
    BY <1>5, BatchResults
  <2> HIDE DEF r
  <2>2. <<r>> \in Seq(CycleResults) /\ Len(<<r>>) = 1
    BY <2>1
  <2> QED
    BY <1>3, <2>2 DEF r
<1>8. polling' \in [Tiers -> BOOLEAN] /\ batch' \in [Tiers -> Nat]
  BY <1>3, <1>4, <1>5 DEF HubInv, WorkerOK
<1>9. ASSUME NEW u \in Tiers, polling'[u]
      PROVE  batch'[u] < Batches[u]
  BY <1>3, <1>4, <1>6, <1>9 DEF HubInv, WorkerOK
<1>10. WorkerOK'
  BY <1>3, <1>4, <1>7, <1>8, <1>9 DEF WorkerOK
<1>11. JobsOK' /\ ResultsOK' /\ OutsideOK'
  BY <1>3, JobsStay, ChangeOK DEF HubInv, ResultsOK
<1> QED
  BY <1>10, <1>11, WorkerParts DEF BatchEnds

\* At most two other lists are aborted.
LEMMA AbortsOK ==
  ASSUME HubInv, NEW t \in Tiers
  PROVE  AbortResults(t) \in Seq(CycleResults) /\ Len(AbortResults(t)) <= 2
<1>1. \A k \in Tiers : Aborted(t, k) \in Seq(CycleResults) /\ Len(Aborted(t, k)) \in {0, 1}
  <2> TAKE k \in Tiers
  <2> DEFINE r == AbortResult(k)
  <2>1. r \in CycleResults
    BY BatchResults
  <2> HIDE DEF r
  <2>2. <<r>> \in Seq(CycleResults) /\ Len(<<r>>) = 1
    BY <2>1
  <2>3. <<>> \in Seq(CycleResults) /\ Len(<<>>) = 0
    BY EmptySeq
  <2>4. Aborted(t, k) \in {<<r>>, <<>>}
    BY DEF Aborted, r
  <2> QED
    BY <2>2, <2>3, <2>4
<1>2. Len(Aborted(t, t)) = 0
  BY EmptySeq DEF Aborted
<1> DEFINE a == Aborted(t, 1)
           b == Aborted(t, 2)
           c == Aborted(t, 3)
<1>3. /\ a \in Seq(CycleResults) /\ b \in Seq(CycleResults) /\ c \in Seq(CycleResults)
      /\ Len(a) \in {0, 1} /\ Len(b) \in {0, 1} /\ Len(c) \in {0, 1}
      /\ Len(a) = 0 \/ Len(b) = 0 \/ Len(c) = 0
  BY <1>1, <1>2 DEF Tiers
<1>4. AbortResults(t) = (a \o b) \o c
  BY DEF AbortResults
<1> HIDE DEF a, b, c
<1>5. a \o b \in Seq(CycleResults) /\ Len(a \o b) = Len(a) + Len(b)
  BY <1>3, ConcatProperties
<1>6. (a \o b) \o c \in Seq(CycleResults) /\ Len((a \o b) \o c) = Len(a \o b) + Len(c)
  BY <1>3, <1>5, ConcatProperties
<1> QED
  BY <1>3, <1>4, <1>5, <1>6

LEMMA BatchFailsStep ==
  ASSUME HubInv, BatchFails
  PROVE  HubInv'
<1>1. PICK t \in Tiers : running = BatchOf(t)
  BY DEF BatchFails, HubInv, WorkerOK, Writes, ModeJob, PowerJob, NoJob, InfoJob
<1>2. running.tier = t
  BY <1>1 DEF BatchOf
<1> DEFINE r == BatchResult(t, TRUE, "none")
<1>3. /\ polling' = [k \in Tiers |-> FALSE] /\ batch' = [k \in Tiers |-> 0]
      /\ outbox' = Append(AbortResults(t), r)
      /\ running' = NoJob /\ UNCHANGED <<config, job_queue_, result_queue_, device, up, changes>>
  BY <1>2 DEF BatchFails
<1>4. r \in CycleResults
  BY BatchResults
<1> HIDE DEF r
<1>5. outbox' \in Seq(CycleResults) /\ Len(outbox') <= 3
  BY <1>3, <1>4, AbortsOK, LenProperties, AppendProperties
<1>6. WorkerOK'
  BY <1>3, <1>5 DEF WorkerOK
<1>7. JobsOK' /\ ResultsOK' /\ OutsideOK'
  BY <1>3, JobsStay, ChangeOK DEF HubInv, ResultsOK
<1> QED
  BY <1>6, <1>7, WorkerParts DEF BatchFails

LEMMA OutboxStep ==
  ASSUME HubInv, PostBatch \/ DropBatch
  PROVE  HubInv'
<1>1. /\ Head(outbox) \in Results /\ Tail(outbox) \in Seq(CycleResults)
      /\ Len(Tail(outbox)) <= 3
  BY QueueProperties, CycleResultsAre DEF HubInv, WorkerOK, PostBatch, DropBatch
<1>2. WorkerOK'
  BY <1>1 DEF PostBatch, DropBatch, HubInv, WorkerOK, Batches
<1>3. ResultsOK'
  <2>1. CASE PostBatch
    BY <1>1, <2>1, QueueProperties, Bounds DEF PostBatch, HubInv, ResultsOK
  <2>2. CASE DropBatch
    BY <2>2 DEF DropBatch, HubInv, ResultsOK
  <2> QED
    BY <2>1, <2>2
<1>4. JobsOK' /\ OutsideOK'
  BY JobsStay DEF PostBatch, DropBatch, HubInv, OutsideOK
<1> QED
  BY <1>2, <1>3, <1>4, WorkerParts DEF PostBatch, DropBatch

LEMMA WorkerSteps == HubInv /\ WorkerStep => HubInv'
  BY TakeJobStep, TakeBatchStep, JobStep, BatchEndsStep, BatchFailsStep, OutboxStep
     DEF WorkerStep, BatchAnswered, BatchGarbled

-----------------------------------------------------------------------------
(* Results, time and the environment.                                      *)

LEMMA EndedOK ==
  ASSUME HubInv, NEW t \in Tiers, Ended(t)
  PROVE  PollOK'
  BY DEF HubInv, PollOK, Ended

LEMMA FailuresOK == HubInv => Failures \in 0..FailMax
  BY Bounds DEF HubInv, OnlineOK, Failures

LEMMA ResultStep ==
  ASSUME HubInv, process_result_
  PROVE  HubInv'
<1> DEFINE r == Head(result_queue_)
<1>1. r \in Results /\ Tail(result_queue_) \in Seq(Results) /\ Len(Tail(result_queue_)) <= ResultCap
  BY QueueProperties, Bounds DEF HubInv, ResultsOK, process_result_
<1>2. ResultsOK' /\ main' \in {"idle", "draining", "poll", "power"}
  BY <1>1 DEF process_result_, ResultsOK
<1>3. JobsOK' /\ WorkerOK' /\ OutsideOK' /\ UNCHANGED <<config, request>>
  BY JobsStay, WorkerStays DEF process_result_, HubInv, OutsideOK
<1>4. UNCHANGED <<last_power_command_, requested_w_>>
  BY DEF process_result_
<1>5. \/ r.type = "write" /\ WriteEnds(r)
      \/ r.type = "info" /\ InfoEnds(r)
      \/ r.type = "batch" /\ BatchProcessed(r)
      \/ r.type = "abort" /\ AbortProcessed(r)
  BY DEF process_result_
<1> HIDE DEF r
<1>6. PollOK' /\ InfoOK' /\ PowerOK' /\ OnlineOK' /\ work_mode_' \in Modes \cup {"unknown"}
  <2> USE DEF infoVars, onlineVars
  <2>1. CASE r.type = "write" /\ WriteEnds(r)
    BY <1>4, <2>1 DEF WriteEnds, HubInv, PollOK, InfoOK, PowerOK, OnlineOK
  <2>2. CASE r.type = "info" /\ InfoEnds(r)
    <3>1. r.ok \in BOOLEAN
      BY <1>1, <2>2 DEF Results, WriteResult, InfoResult, BatchResult, AbortResult
    <3> QED
      BY <1>4, <2>2, <3>1 DEF InfoEnds, HubInv, PollOK, InfoOK, PowerOK, OnlineOK
  <2>3. CASE r.type = "batch" /\ BatchProcessed(r)
    <3>1. r.tier \in Tiers
      BY <1>1, <2>3 DEF Results, WriteResult, InfoResult, BatchResult, AbortResult
    <3>2. PollOK'
      BY <2>3, <3>1, EndedOK DEF BatchProcessed, HubInv, PollOK
    <3>3. consecutive_failures_' \in 0..FailMax
      BY <2>3, FailuresOK, Bounds DEF BatchProcessed, HubInv, OnlineOK
    <3>4. online' \in {"unknown", "on", "off"}
      BY <2>3 DEF BatchProcessed, HubInv, OnlineOK
    <3>5. work_mode_' \in Modes \cup {"unknown"}
      BY <2>3 DEF BatchProcessed, parse_batch_, HubInv
    <3>6. InfoOK' /\ PowerOK'
      BY <1>4, <2>3 DEF BatchProcessed, HubInv, InfoOK, PowerOK
    <3> QED
      BY <3>2, <3>3, <3>4, <3>5, <3>6 DEF OnlineOK
  <2>4. CASE r.type = "abort" /\ AbortProcessed(r)
    <3>1. r.tier \in Tiers
      BY <1>1, <2>4 DEF Results, WriteResult, InfoResult, BatchResult, AbortResult
    <3>2. PollOK'
      BY <2>4, <3>1, EndedOK DEF AbortProcessed
    <3> QED
      BY <1>4, <2>4, <3>2 DEF AbortProcessed, HubInv, InfoOK, PowerOK, OnlineOK
  <2> QED
    BY <1>5, <2>1, <2>2, <2>3, <2>4
<1> QED
  BY <1>2, <1>3, <1>6, StepParts DEF HubInv

LEMMA OutsideStep ==
  ASSUME HubInv,
         \/ \E t \in Tiers : WatchdogElapses(t)
         \/ RefreshElapses \/ GoesDown \/ ComesUp \/ AppTakesOver
  PROVE  HubInv'
<1> USE DEF pollVars, infoVars, powerVars, onlineVars
<1>1. UNCHANGED <<config, main, job_queue_, result_queue_, workVars, work_mode_, request>>
  BY DEF WatchdogElapses, RefreshElapses, GoesDown, ComesUp, AppTakesOver, Environment
<1>2. JobsOK' /\ WorkerOK' /\ ResultsOK'
  BY <1>1, JobsStay, WorkerStays DEF HubInv, ResultsOK
<1>3. InfoOK' /\ OnlineOK'
  BY DEF WatchdogElapses, RefreshElapses, GoesDown, ComesUp, AppTakesOver, Environment,
         HubInv, InfoOK, OnlineOK
<1>4. PollOK'
  BY DEF WatchdogElapses, RefreshElapses, GoesDown, ComesUp, AppTakesOver, Environment,
         HubInv, PollOK
<1>5. PowerOK'
  BY DEF WatchdogElapses, RefreshElapses, GoesDown, ComesUp, AppTakesOver, Environment,
         HubInv, PowerOK
<1>6. OutsideOK'
  <2>1. config.changes \in Nat /\ changes \in 0..config.changes /\ config' = config
    BY <1>1, Bounds DEF HubInv, OutsideOK
  <2>2. changes' \in 0..config.changes
    BY <2>1 DEF WatchdogElapses, RefreshElapses, GoesDown, ComesUp, AppTakesOver
  <2>3. device' \in [mode : Modes, power : Powers]
    <3>1. [mode |-> "other", power |-> 0] \in [mode : Modes, power : Powers]
      BY Bounds DEF Modes
    <3> QED
      BY <3>1 DEF WatchdogElapses, RefreshElapses, GoesDown, ComesUp, AppTakesOver, HubInv,
                  OutsideOK
  <2>4. up' \in BOOLEAN
    BY DEF WatchdogElapses, RefreshElapses, GoesDown, ComesUp, AppTakesOver, HubInv, OutsideOK
  <2> QED
    BY <2>1, <2>2, <2>3, <2>4 DEF OutsideOK
<1> QED
  BY <1>1, <1>2, <1>3, <1>4, <1>5, <1>6, StepParts DEF HubInv

LEMMA HubInit == IndInit => HubInv
<1> SUFFICES ASSUME IndInit
             PROVE  HubInv
  OBVIOUS
<1> USE DEF IndInit
<1>1. config \in Configs /\ config.changes \in Nat
  BY Bounds
<1>2. JobsOK /\ ResultsOK
  <2>1. <<>> \in Seq(Asked) /\ <<>> \in Seq(Results) /\ Len(<<>>) = 0
    BY EmptySeq
  <2> QED
    BY <2>1, Bounds DEF JobsOK, ResultsOK
<1>3. WorkerOK
  <2>1. <<>> \in Seq(CycleResults) /\ Len(<<>>) = 0
    BY EmptySeq
  <2> QED
    BY <2>1 DEF WorkerOK
<1>4. PollOK /\ PowerOK /\ OnlineOK
  <2>1. PollOK
    BY DEF PollOK
  <2>2. PowerOK
    BY Bounds DEF PowerOK
  <2>3. OnlineOK
    BY Bounds DEF OnlineOK
  <2> QED
    BY <2>1, <2>2, <2>3
<1>5. InfoOK
  BY <1>1, IndevoltAssumption DEF InfoOK
<1>6. OutsideOK
  BY <1>1, Bounds DEF OutsideOK, Modes
<1>7. request \in [charge : 0..MaxCharge, discharge : 0..MaxDischarge]
  BY Bounds
<1> QED
  BY <1>1, <1>2, <1>3, <1>4, <1>5, <1>6, <1>7 DEF HubInv

LEMMA HubNext == HubInv /\ [IndNext]_indVars => HubInv'
<1> SUFFICES ASSUME HubInv, [IndNext]_indVars
             PROVE  HubInv'
  OBVIOUS
<1>1. CASE IndNext
  BY <1>1, MainStep, CallStep, WorkerSteps, ResultStep, OutsideStep DEF IndNext
<1>2. CASE UNCHANGED indVars
  <2>1. JobsOK' /\ WorkerOK'
    BY <1>2, JobsStay, WorkerStays DEF indVars
  <2> QED
    BY <1>2, <2>1 DEF indVars, pollVars, infoVars, powerVars, onlineVars, HubInv, ResultsOK,
       PollOK, InfoOK, PowerOK, OnlineOK, OutsideOK
<1> QED
  BY <1>1, <1>2

-----------------------------------------------------------------------------
(* What is under way.  Messages of kind S in s: none, or at most one; and   *)
(* a step from s to r that brings none.                                     *)

Never(s, S) == \A i \in DOMAIN s : s[i] \notin S
Once(s, S) == \A i, j \in DOMAIN s : s[i] \in S /\ s[j] \in S => i = j
Kept(s, r, S) == (Never(s, S) => Never(r, S)) /\ (Once(s, S) => Once(r, S))

LEMMA NeverOnce == ASSUME NEW s, NEW S, Never(s, S) PROVE Once(s, S)
  BY DEF Never, Once

LEMMA EmptyNever == ASSUME NEW S PROVE Never(<<>>, S)
  BY DEF Never

LEMMA OneMessage == ASSUME NEW x, NEW S PROVE Once(<<x>>, S) /\ (x \notin S => Never(<<x>>, S))
  BY DEF Never, Once

LEMMA AppendOne ==
  ASSUME NEW T, NEW s \in Seq(T), NEW x \in T, NEW S
  PROVE  /\ Never(s, S) => Once(Append(s, x), S)
         /\ x \notin S => Kept(s, Append(s, x), S)
<1> DEFINE r == Append(s, x)
<1>1. Len(s) \in Nat /\ DOMAIN s = 1..Len(s)
  BY LenProperties
<1>2. r \in Seq(T) /\ Len(r) = Len(s) + 1 /\ r[Len(s) + 1] = x
      /\ \A i \in 1..Len(s) : r[i] = s[i]
  BY AppendProperties
<1>3. DOMAIN r = 1..(Len(s) + 1)
  BY <1>2, LenProperties
<1>4. \A i \in DOMAIN r : i = Len(s) + 1 \/ i \in DOMAIN s
  BY <1>1, <1>3
<1> HIDE DEF r
<1>5. \A i \in DOMAIN r : IF i = Len(s) + 1 THEN r[i] = x ELSE i \in DOMAIN s /\ r[i] = s[i]
  BY <1>1, <1>2, <1>4
<1>6. Never(s, S) => Once(r, S)
  BY <1>5 DEF Never, Once
<1>7. x \notin S => Kept(s, r, S)
  BY <1>5 DEF Never, Once, Kept
<1> QED
  BY <1>6, <1>7 DEF r

LEMMA TailOne ==
  ASSUME NEW T, NEW s \in Seq(T), s # <<>>, NEW S
  PROVE  /\ Kept(s, Tail(s), S)
         /\ Head(s) \in S => ~Never(s, S)
         /\ Head(s) \in S /\ Once(s, S) => Never(Tail(s), S)
<1> DEFINE r == Tail(s)
<1>1. Len(s) \in Nat /\ Len(s) > 0 /\ DOMAIN s = 1..Len(s)
  BY LenProperties, EmptySeq
<1>2. r \in Seq(T) /\ Len(r) = Len(s) - 1 /\ Head(s) = s[1]
      /\ \A i \in 1..Len(r) : r[i] = s[i + 1]
  BY HeadTailProperties
<1>3. DOMAIN r = 1..(Len(s) - 1)
  BY <1>2, LenProperties
<1> HIDE DEF r
<1>4. \A i \in DOMAIN r : i \in Nat /\ i # 0 /\ i + 1 \in DOMAIN s /\ r[i] = s[i + 1]
  BY <1>1, <1>2, <1>3
<1>5. 1 \in DOMAIN s
  BY <1>1
<1>6. Never(s, S) => Never(r, S)
  BY <1>4 DEF Never
<1>7. Once(s, S) => Once(r, S)
  BY <1>4 DEF Once
<1>8. Head(s) \in S => ~Never(s, S)
  BY <1>2, <1>5 DEF Never
<1>9. Head(s) \in S /\ Once(s, S) => Never(r, S)
  <2> SUFFICES ASSUME s[1] \in S, Once(s, S), NEW i \in DOMAIN r, r[i] \in S
               PROVE  FALSE
    BY <1>2 DEF Never
  <2>1. i + 1 = 1
    BY <1>4, <1>5 DEF Once
  <2> QED
    BY <2>1, <1>4
<1> QED
  BY <1>6, <1>7, <1>8, <1>9 DEF Kept, r

LEMMA Unchanging == ASSUME NEW s, NEW S PROVE Kept(s, s, S)
  BY DEF Kept

LEMMA EnqueueKeeps ==
  ASSUME NEW T, job_queue_ \in Seq(T), NEW job \in T, NEW S, job \notin S, Enqueue(job)
  PROVE  Kept(job_queue_, job_queue_', S)
  BY AppendOne, Unchanging DEF Enqueue

LEMMA PostKeeps ==
  ASSUME NEW T, result_queue_ \in Seq(T), NEW r \in T, NEW S, r \notin S, Post(r)
  PROVE  Kept(result_queue_, result_queue_', S)
  BY AppendOne, Unchanging DEF Post

-----------------------------------------------------------------------------
(* The identification.                                                     *)

InfoAnswers == {InfoResult(ok) : ok \in BOOLEAN}

NoInfo ==
  /\ Never(job_queue_, {InfoJob})
  /\ running # InfoJob
  /\ Never(result_queue_, InfoAnswers)

OneInfo ==
  /\ Once(job_queue_, {InfoJob}) /\ Once(result_queue_, InfoAnswers)
  /\ \/ Never(job_queue_, {InfoJob})
     \/ running # InfoJob /\ Never(result_queue_, InfoAnswers)
  /\ running # InfoJob \/ Never(result_queue_, InfoAnswers)
  /\ ~info_pending_ \/ info_done_ => NoInfo

LEMMA OneInfoMeans == OneInfo => OneIdentification
<1> DEFINE Q == Places("queued", job_queue_, {InfoJob})
           W == Places("asked", <<running>>, {InfoJob})
           A == Places("answered", result_queue_, {InfoResult(ok) : ok \in BOOLEAN})
<1> SUFFICES ASSUME OneInfo PROVE OneIdentification
  OBVIOUS
<1>1. /\ Never(job_queue_, {InfoJob}) => Q = {}
      /\ running # InfoJob => W = {}
      /\ Never(result_queue_, InfoAnswers) => A = {}
  BY DEF Places, Never, InfoAnswers
<1>2. AtMostOne(Q) /\ AtMostOne(A)
  BY DEF OneInfo, Once, AtMostOne, Places, InfoAnswers
<1>3. AtMostOne(W)
  BY DEF AtMostOne, Places
<1>4. Infos = Q \cup W \cup A
  BY DEF Infos
<1> HIDE DEF Q, W, A
<1>5. AtMostOne(Infos)
  BY <1>1, <1>2, <1>3, <1>4 DEF AtMostOne, OneInfo
<1>6. Infos # {} => info_pending_ /\ ~info_done_
  BY <1>1, <1>4 DEF OneInfo, NoInfo
<1> QED
  BY <1>5, <1>6 DEF OneIdentification

\* A step that neither asks for the identification nor moves it.
LEMMA InfoKept ==
  ASSUME OneInfo, Kept(job_queue_, job_queue_', {InfoJob}),
         Kept(result_queue_, result_queue_', InfoAnswers),
         running' = InfoJob => running = InfoJob, UNCHANGED infoVars
  PROVE  OneInfo'
<1> USE DEF infoVars
<1>1. /\ Never(job_queue_, {InfoJob}) => Never(job_queue_, {InfoJob})'
      /\ Once(job_queue_, {InfoJob}) => Once(job_queue_, {InfoJob})'
      /\ Never(result_queue_, InfoAnswers) => Never(result_queue_, InfoAnswers)'
      /\ Once(result_queue_, InfoAnswers) => Once(result_queue_, InfoAnswers)'
  BY DEF Kept, InfoAnswers
<1>2. NoInfo => NoInfo'
  BY <1>1 DEF NoInfo
<1> QED
  BY <1>1, <1>2 DEF OneInfo

\* What the kinds of messages are not.
LEMMA Kinds ==
  /\ \A t \in Tiers : PollJob(t) # InfoJob
  /\ \A job \in Writes : job # InfoJob /\ \A t \in Tiers : job # PollJob(t)
  /\ NoJob # InfoJob
  /\ \A b \in BOOLEAN : WriteResult(b) \notin InfoAnswers
  /\ \A r \in Results : r.type # "info" => r \notin InfoAnswers
  /\ \A r \in Results : r.type = "info" => r \in InfoAnswers
<1>1. InfoJob.type = "info" /\ NoJob.type = "none"
      /\ \A t \in Tiers : PollJob(t).type = "poll"
  BY DEF PollJob, InfoJob, NoJob
<1>2. \A job \in Writes : job.type \in {"mode", "power"}
  BY DEF Writes, ModeJob, PowerJob
<1>3. \A r \in InfoAnswers : r.type = "info"
  BY DEF InfoAnswers, InfoResult
<1>4. \A b \in BOOLEAN : WriteResult(b).type = "write"
  BY DEF WriteResult
<1>5. \A t, l, m : BatchResult(t, l, m).type = "batch" /\ AbortResult(t).type = "abort"
  BY DEF BatchResult, AbortResult
<1>6. \A r \in Results : r.type = "info" => r \in InfoAnswers
  BY <1>4, <1>5 DEF Results, InfoAnswers
<1> QED
  BY <1>1, <1>2, <1>3, <1>4, <1>6

LEMMA InfoAsked ==
  ASSUME HubInv, OneInfo, enqueue_info_
  PROVE  OneInfo'
<1>1. CASE WantsInfo
  <2>1. NoInfo
    BY <1>1 DEF WantsInfo, OneInfo
  <2>2. Enqueue(InfoJob) /\ info_pending_' = Fits
        /\ UNCHANGED <<running, result_queue_, info_done_>> /\ ~info_done_
    BY <1>1 DEF enqueue_info_, WantsInfo, workVars
  <2>3. job_queue_ \in Seq(Asked) /\ InfoJob \in Asked
    BY WritesAsked DEF HubInv, JobsOK
  <2>4. Once(job_queue_, {InfoJob})' /\ (~Fits => Never(job_queue_, {InfoJob})')
    BY <2>1, <2>2, <2>3, AppendOne, NeverOnce DEF Enqueue, NoInfo
  <2>5. Never(result_queue_, InfoAnswers)' /\ running' # InfoJob
    BY <2>1, <2>2 DEF NoInfo, InfoAnswers
  <2> QED
    BY <2>2, <2>4, <2>5, NeverOnce DEF OneInfo, NoInfo
<1>2. CASE ~WantsInfo
  BY <1>2, InfoKept, Unchanging DEF enqueue_info_, workVars, infoVars
<1> QED
  BY <1>1, <1>2

\* Calls that control the battery queue a write, or nothing.
LEMMA ControlCalls ==
  ASSUME HubInv, apply_output_requests_ \/ UserCalls \/ power_after_mode
  PROVE  /\ (\E job \in Writes : Enqueue(job)) \/ UNCHANGED job_queue_
         /\ UNCHANGED <<result_queue_, workVars, pollVars, infoVars>>
<1>1. ASSUME NEW w \in Int, set_power(w)
      PROVE  (\E job \in Writes : Enqueue(job)) \/ UNCHANGED job_queue_
  <2>1. ModeJob("realtime") \in Writes /\ PowerJob(Effective(w)) \in Writes
    BY EffectivePower DEF Writes, Modes
  <2> QED
    BY <1>1, <2>1 DEF set_power, SendPower
<1>2. CASE apply_output_requests_
  <2>1. request.discharge - request.charge \in Int
    BY Bounds DEF HubInv
  <2> QED
    BY <1>1, <1>2, <2>1 DEF apply_output_requests_, Call
<1>3. CASE \E ch \in 0..MaxCharge, dis2 \in 0..MaxDischarge : set_request(ch, dis2)
  BY <1>1, <1>3, Bounds DEF set_request, Call
<1>4. CASE \E w \in Powers, kind \in {"setpoint", "charge", "discharge"} : write_number(w, kind)
  BY <1>1, <1>4, Bounds DEF write_number, Call
<1>5. CASE \E m \in Modes : note_work_mode(m)
  BY <1>5 DEF note_work_mode, Call, Writes
<1>6. CASE power_after_mode
  <2>1. PowerJob(requested_w_) \in Writes
    BY DEF Writes, HubInv, PowerOK
  <2> QED
    BY <1>6, <2>1 DEF power_after_mode, SendPower
<1> QED
  BY <1>2, <1>3, <1>4, <1>5, <1>6 DEF UserCalls

\* start_poll_ queues a cycle of its list, or nothing.
LEMMA PollStarts ==
  ASSUME HubInv, NEW t \in Tiers, start_poll_(t)
  PROVE  \/ /\ PollJob(t) \in Asked /\ MayStart(t) /\ Fits /\ Enqueue(PollJob(t))
            /\ poll_pending_' = [poll_pending_ EXCEPT ![t] = TRUE]
            /\ late' = [late EXCEPT ![t] = FALSE]
         \/ UNCHANGED <<job_queue_, pollVars>>
  BY WritesAsked DEF start_poll_

\* What the worker asked for and how it posts the answer.
LEMMA Answers ==
  ASSUME HubInv, JobAnswered \/ JobUnanswered
  PROVE  /\ running' = NoJob
         /\ UNCHANGED <<job_queue_, polling, outbox, pollVars, infoVars>>
         /\ \/ running = InfoJob /\ \E ok \in BOOLEAN : Post(InfoResult(ok))
            \/ running # InfoJob /\ \E b \in BOOLEAN : Post(WriteResult(b))
<1>1. running' = NoJob /\ UNCHANGED <<job_queue_, polling, outbox, pollVars, infoVars>>
  BY DEF JobAnswered, JobUnanswered
<1>2. CASE JobAnswered
  <2>1. \/ running = InfoJob /\ Post(InfoResult(TRUE))
        \/ running # InfoJob /\ (Post(WriteResult(FALSE)) \/ Post(WriteResult(TRUE)))
    <3>1. running.type = "power" => running # InfoJob
      BY DEF InfoJob
    <3> QED
      BY <1>2, <3>1, Zenon DEF JobAnswered
  <2> QED
    BY <1>1, <2>1, Zenon
<1>3. CASE JobUnanswered
  <2>1. (running.type = "power") \in BOOLEAN
    OBVIOUS
  <2> QED
    BY <1>3, <2>1 DEF JobUnanswered
<1> QED
  BY <1>1, <1>2, <1>3

\* The worker takes, asks for and answers the identification.
LEMMA InfoWorker ==
  ASSUME HubInv, OneInfo, WorkerStep
  PROVE  OneInfo'
<1> USE DEF infoVars
<1>1. CASE TakeJob
  <2> DEFINE job == Head(job_queue_)
  <2>1. /\ job_queue_ # <<>> /\ job_queue_' = Tail(job_queue_) /\ running = NoJob
        /\ running' = IF job.type = "poll" THEN running ELSE job
        /\ UNCHANGED <<result_queue_, infoVars>>
    BY <1>1 DEF TakeJob, Free
  <2>2. /\ Kept(job_queue_, job_queue_', {InfoJob})
        /\ job = InfoJob => ~Never(job_queue_, {InfoJob})
        /\ job = InfoJob => Never(job_queue_', {InfoJob})
    BY <2>1, TailOne DEF HubInv, JobsOK, OneInfo
  <2>3. CASE job = InfoJob
    <3>1. Never(result_queue_, InfoAnswers)' /\ info_pending_ /\ ~info_done_
      BY <2>1, <2>2, <2>3 DEF OneInfo, NoInfo, InfoAnswers
    <3> QED
      BY <2>1, <2>2, <2>3, <3>1, NeverOnce DEF OneInfo
  <2>4. CASE job # InfoJob
    BY <2>1, <2>2, <2>4, InfoKept, Unchanging, Kinds
  <2> QED
    BY <2>3, <2>4
<1>2. CASE JobAnswered \/ JobUnanswered
  <2>1. CASE running = InfoJob
    <3>1. PICK ok \in BOOLEAN : Post(InfoResult(ok))
      BY <1>2, <2>1, Answers
    <3>2. running' = NoJob /\ UNCHANGED <<job_queue_, infoVars>>
      BY <1>2, Answers
    <3>3. Never(job_queue_, {InfoJob})' /\ Never(result_queue_, InfoAnswers)
          /\ info_pending_ /\ ~info_done_
      BY <2>1, <3>2 DEF OneInfo, NoInfo
    <3>4. Once(result_queue_, InfoAnswers)'
      <4>1. InfoResult(ok) \in Results /\ result_queue_ \in Seq(Results)
        BY DEF Results, HubInv, ResultsOK
      <4> QED
        BY <3>1, <3>3, <4>1, AppendOne, NeverOnce DEF Post, InfoAnswers
    <3> QED
      BY <3>2, <3>3, <3>4, NeverOnce, Kinds DEF OneInfo
  <2>2. CASE running # InfoJob
    <3>1. PICK b \in BOOLEAN : Post(WriteResult(b))
      BY <1>2, <2>2, Answers
    <3>2. WriteResult(b) \in Results /\ result_queue_ \in Seq(Results)
      BY DEF Results, HubInv, ResultsOK
    <3>3. Kept(result_queue_, result_queue_', InfoAnswers)
      BY <3>1, <3>2, PostKeeps, Kinds
    <3> QED
      BY <1>2, <3>3, Answers, InfoKept, Unchanging, Kinds
  <2> QED
    BY <2>1, <2>2
<1>3. CASE PostBatch
  <2>1. /\ outbox # <<>> /\ result_queue_' = Append(result_queue_, Head(outbox))
        /\ UNCHANGED <<job_queue_, running, infoVars>>
    BY <1>3 DEF PostBatch
  <2>2. Head(outbox) \in Results /\ Head(outbox).type # "info" /\ result_queue_ \in Seq(Results)
    <3>1. Head(outbox) \in CycleResults
      BY <2>1, HeadTailProperties DEF HubInv, WorkerOK
    <3> QED
      BY <3>1, CycleResultsAre DEF CycleResults, BatchResult, AbortResult, HubInv, ResultsOK
  <2> QED
    BY <2>1, <2>2, AppendOne, InfoKept, Unchanging, Kinds
<1>4. CASE (\E t \in Tiers : TakeBatch(t)) \/ BatchAnswered \/ BatchGarbled \/ BatchFails \/ DropBatch
  <2>1. running' = InfoJob => running = InfoJob
    <3>1. \A t \in Tiers : BatchOf(t) # InfoJob
      BY DEF BatchOf, InfoJob
    <3>2. (\E t \in Tiers : running' = BatchOf(t)) \/ running' \in {NoJob, running}
      BY <1>4 DEF TakeBatch, BatchAnswered, BatchGarbled, BatchEnds, BatchFails, DropBatch
    <3> QED
      BY <3>1, <3>2, Kinds
  <2>2. UNCHANGED <<job_queue_, result_queue_, infoVars>>
    BY <1>4 DEF TakeBatch, BatchAnswered, BatchGarbled, BatchEnds, BatchFails, DropBatch
  <2> QED
    BY <2>1, <2>2, InfoKept, Unchanging
<1> QED
  BY <1>1, <1>2, <1>3, <1>4 DEF WorkerStep

\* The main task processes a result.
LEMMA InfoProcessed ==
  ASSUME HubInv, OneInfo, process_result_
  PROVE  OneInfo'
<1> DEFINE r == Head(result_queue_)
<1>1. /\ result_queue_ # <<>> /\ result_queue_' = Tail(result_queue_)
      /\ UNCHANGED <<job_queue_, running>>
  BY DEF process_result_, workVars
<1>2. /\ r \in Results
      /\ Kept(result_queue_, result_queue_', InfoAnswers)
      /\ r \in InfoAnswers => Never(result_queue_', InfoAnswers)
      /\ r \in InfoAnswers => ~Never(result_queue_, InfoAnswers)
  BY <1>1, TailOne, HeadTailProperties DEF HubInv, ResultsOK, OneInfo
<1>3. CASE r.type = "info"
  <2>1. InfoEnds(r)
    BY <1>3 DEF process_result_
  <2>2. r \in InfoAnswers
    BY <1>2, <1>3, Kinds
  <2>3. Never(job_queue_, {InfoJob})' /\ running' # InfoJob /\ Never(result_queue_, InfoAnswers)'
    BY <1>1, <1>2, <2>2 DEF OneInfo, InfoAnswers
  <2> QED
    BY <2>1, <2>3, NeverOnce DEF OneInfo, NoInfo
<1>4. CASE r.type # "info"
  <2>1. UNCHANGED infoVars
    BY <1>4 DEF process_result_, WriteEnds, BatchProcessed, AbortProcessed, infoVars
  <2> QED
    BY <1>1, <1>2, <2>1, InfoKept, Unchanging
<1> QED
  BY <1>3, <1>4

LEMMA InfoNext ==
  ASSUME HubInv, OneInfo, [IndNext]_indVars
  PROVE  OneInfo'
<1>1. CASE enqueue_info_
  BY <1>1, InfoAsked
<1>2. CASE update \/ \E t \in Tiers \ {1} : Timer(t)
  <2>1. PICK t \in Tiers : start_poll_(t) /\ UNCHANGED <<result_queue_, workVars, infoVars>>
    BY <1>2 DEF update, Timer, Tiers
  <2>2. Kept(job_queue_, job_queue_', {InfoJob})
    <3>1. CASE PollJob(t) \in Asked /\ Enqueue(PollJob(t))
      BY <3>1, EnqueueKeeps, Kinds DEF HubInv, JobsOK
    <3> QED
      BY <2>1, <3>1, PollStarts, Unchanging
  <2> QED
    BY <2>1, <2>2, InfoKept, Unchanging DEF workVars
<1>3. CASE apply_output_requests_ \/ UserCalls \/ power_after_mode
  <2>1. Kept(job_queue_, job_queue_', {InfoJob})
    <3>1. ASSUME NEW job \in Writes, Enqueue(job)
          PROVE  Kept(job_queue_, job_queue_', {InfoJob})
      BY <3>1, EnqueueKeeps, Kinds DEF HubInv, JobsOK, Asked
    <3> QED
      BY <1>3, <3>1, ControlCalls, Unchanging
  <2> QED
    BY <1>3, <2>1, ControlCalls, InfoKept, Unchanging DEF workVars
<1>4. CASE WorkerStep
  BY <1>4, InfoWorker
<1>5. CASE process_result_
  BY <1>5, InfoProcessed
<1>6. CASE \/ \E t \in Tiers : WatchdogElapses(t)
           \/ RefreshElapses \/ GoesDown \/ ComesUp \/ AppTakesOver
           \/ UNCHANGED indVars
  <2>1. UNCHANGED <<job_queue_, result_queue_, workVars, infoVars>>
    BY <1>6 DEF WatchdogElapses, RefreshElapses, GoesDown, ComesUp, AppTakesOver, Environment, indVars
  <2> QED
    BY <2>1, InfoKept, Unchanging DEF workVars
<1> QED
  BY <1>1, <1>2, <1>3, <1>4, <1>5, <1>6 DEF IndNext

LEMMA InfoInit == IndInit => OneInfo
  BY EmptyNever, NeverOnce, Kinds DEF IndInit, OneInfo, NoInfo

-----------------------------------------------------------------------------
(* The cycles of list t, under watchdogs that are in time.                 *)

Idle(t) ==
  /\ Never(job_queue_, {PollJob(t)})
  /\ ~polling[t]
  /\ Never(outbox, EndsOf(t))
  /\ Never(result_queue_, EndsOf(t))

\* A cycle is in one place at a time, and the list is idle when a new one may start.
CycleOK(t) ==
  /\ Once(job_queue_, {PollJob(t)}) /\ Once(outbox, EndsOf(t)) /\ Once(result_queue_, EndsOf(t))
  /\ ~Never(job_queue_, {PollJob(t)})
       => ~polling[t] /\ Never(outbox, EndsOf(t)) /\ Never(result_queue_, EndsOf(t))
  /\ polling[t] => Never(outbox, EndsOf(t)) /\ Never(result_queue_, EndsOf(t))
  /\ Never(outbox, EndsOf(t)) \/ Never(result_queue_, EndsOf(t))
  /\ MayStart(t) => Idle(t)

\* The worker asks for a batch of a list whose cycle is in progress, when everything
\* else is posted.
Asking == \A t \in Tiers : running = BatchOf(t) => polling[t] /\ outbox = <<>>

CyclesOK == Asking /\ \A t \in Tiers : CycleOK(t)

LEMMA NoPlaces ==
  ASSUME NEW name, NEW s, NEW S
  PROVE  Places(name, s, S) = {} <=> Never(s, S)
<1>1. Never(s, S) => Places(name, s, S) = {}
  BY DEF Never, Places
<1>2. \A i \in DOMAIN s : s[i] \in S => <<name, i>> \in Places(name, s, S)
  BY DEF Places
<1> QED
  BY <1>1, <1>2 DEF Never

LEMMA NotPolling ==
  ASSUME HubInv, NEW t \in Tiers
  PROVE  Never(<<polling[t]>>, {TRUE}) <=> ~polling[t]
<1>1. polling[t] \in BOOLEAN
  BY DEF HubInv, WorkerOK
<1>2. ~Never(<<TRUE>>, {TRUE})
  <2>1. 1 \in DOMAIN <<TRUE>> /\ <<TRUE>>[1] = TRUE
    OBVIOUS
  <2> QED
    BY <2>1 DEF Never
<1>3. Never(<<FALSE>>, {TRUE})
  <2>1. FALSE \notin {TRUE}
    OBVIOUS
  <2> QED
    BY <2>1, OneMessage
<1>4. CASE polling[t] = TRUE
  BY <1>2, <1>4
<1>5. CASE polling[t] = FALSE
  BY <1>3, <1>5
<1> QED
  BY <1>1, <1>4, <1>5

LEMMA CyclesMean == HubInv /\ CyclesOK => OneCycle
<1> SUFFICES ASSUME HubInv, CyclesOK, NEW t \in Tiers
             PROVE  AtMostOne(Cycles(t)) /\ (Cycles(t) # {} => poll_pending_[t])
  BY DEF OneCycle
<1> DEFINE Q == Places("queued", job_queue_, {PollJob(t)})
           W == Places("polling", <<polling[t]>>, {TRUE})
           O == Places("outbox", outbox, EndsOf(t))
           R == Places("ended", result_queue_, EndsOf(t))
<1>1. CycleOK(t)
  BY DEF CyclesOK
<1>2. /\ Never(job_queue_, {PollJob(t)}) => Q = {}
      /\ ~polling[t] => W = {}
      /\ Never(outbox, EndsOf(t)) => O = {}
      /\ Never(result_queue_, EndsOf(t)) => R = {}
  BY NoPlaces, NotPolling
<1>3. AtMostOne(Q) /\ AtMostOne(O) /\ AtMostOne(R)
  BY <1>1 DEF CycleOK, Once, AtMostOne, Places
<1>4. AtMostOne(W)
  BY DEF AtMostOne, Places
<1>5. Cycles(t) = Q \cup W \cup O \cup R
  BY DEF Cycles
<1> HIDE DEF Q, W, O, R
<1>6. AtMostOne(Cycles(t))
  BY <1>1, <1>2, <1>3, <1>4, <1>5 DEF AtMostOne, CycleOK
<1>7. Cycles(t) # {} => ~Idle(t)
  BY <1>2, <1>5 DEF Idle
<1> QED
  BY <1>1, <1>6, <1>7 DEF CycleOK, MayStart

LEMMA NoCycle == ASSUME HubInv, NEW t \in Tiers, Cycles(t) = {} PROVE Idle(t)
  BY NoPlaces, NotPolling DEF Cycles, Idle

\* A step that leaves the cycles of list t where they are.
LEMMA CycleKept ==
  ASSUME NEW t \in Tiers, CycleOK(t), Kept(job_queue_, job_queue_', {PollJob(t)}),
         Kept(outbox, outbox', EndsOf(t)), Kept(result_queue_, result_queue_', EndsOf(t)),
         polling'[t] = polling[t],
         (poll_pending_'[t] = poll_pending_[t] /\ late'[t] = late[t]) \/ Idle(t)
  PROVE  CycleOK(t)'
<1>1. /\ Never(job_queue_, {PollJob(t)}) => Never(job_queue_, {PollJob(t)})'
      /\ Once(job_queue_, {PollJob(t)}) => Once(job_queue_, {PollJob(t)})'
      /\ Never(outbox, EndsOf(t)) => Never(outbox, EndsOf(t))'
      /\ Once(outbox, EndsOf(t)) => Once(outbox, EndsOf(t))'
      /\ Never(result_queue_, EndsOf(t)) => Never(result_queue_, EndsOf(t))'
      /\ Once(result_queue_, EndsOf(t)) => Once(result_queue_, EndsOf(t))'
  BY DEF Kept, PollJob, EndsOf
<1>2. Idle(t) => Idle(t)'
  BY <1>1 DEF Idle
<1>3. MayStart(t)' => MayStart(t) \/ Idle(t)
  BY DEF MayStart
<1> QED
  BY <1>1, <1>2, <1>3 DEF CycleOK

\* The results that end a cycle of list t.
LEMMA EndIs ==
  ASSUME NEW r \in Results, NEW t \in Tiers
  PROVE  r \in EndsOf(t) <=> r.type \in {"abort", "batch"} /\ r.tier = t /\ (r.type = "batch" => r.last)
  BY DEF Results, WriteResult, InfoResult, BatchResult, AbortResult, EndsOf

\* start_poll_ starts a cycle of an idle list only.
LEMMA PollCycle ==
  ASSUME HubInv, CyclesOK, NEW u \in Tiers, start_poll_(u), UNCHANGED <<result_queue_, workVars>>
  PROVE  CyclesOK'
<1> USE DEF workVars
<1>1. Asking'
  BY DEF CyclesOK, Asking, BatchOf
<1>2. ASSUME NEW t \in Tiers
      PROVE  CycleOK(t)'
  <2>1. CASE UNCHANGED <<job_queue_, pollVars>>
    BY <2>1, CycleKept, Unchanging DEF CyclesOK, pollVars
  <2>2. CASE /\ PollJob(u) \in Asked /\ MayStart(u) /\ Fits /\ Enqueue(PollJob(u))
             /\ poll_pending_' = [poll_pending_ EXCEPT ![u] = TRUE]
             /\ late' = [late EXCEPT ![u] = FALSE]
    <3>1. job_queue_' = Append(job_queue_, PollJob(u)) /\ job_queue_ \in Seq(Asked)
      BY <2>2 DEF Enqueue, HubInv, JobsOK
    <3>2. CASE u = t
      <4>1. Idle(t)
        BY <2>2, <3>2 DEF CyclesOK, CycleOK
      <4>2. Once(job_queue_, {PollJob(t)})'
        BY <2>2, <3>1, <4>1, AppendOne DEF Idle, PollJob
      <4>3. ~polling'[t] /\ Never(outbox, EndsOf(t))' /\ Never(result_queue_, EndsOf(t))'
        BY <4>1 DEF Idle, EndsOf
      <4>4. ~MayStart(t)'
        BY <2>2, <3>2 DEF MayStart, HubInv, PollOK
      <4> QED
        BY <4>2, <4>3, <4>4, NeverOnce DEF CycleOK
    <3>3. CASE u # t
      <4>1. Kept(job_queue_, job_queue_', {PollJob(t)})
        BY <2>2, <3>1, <3>3, AppendOne DEF PollJob
      <4>2. poll_pending_'[t] = poll_pending_[t] /\ late'[t] = late[t]
        BY <2>2, <3>3 DEF HubInv, PollOK
      <4> QED
        BY <4>1, <4>2, CycleKept, Unchanging DEF CyclesOK
    <3> QED
      BY <3>2, <3>3
  <2> QED
    BY <2>1, <2>2, PollStarts
<1> QED
  BY <1>1, <1>2 DEF CyclesOK

LEMMA EndKinds ==
  ASSUME NEW t \in Tiers
  PROVE  /\ \A b \in BOOLEAN : WriteResult(b) \notin EndsOf(t) /\ InfoResult(b) \notin EndsOf(t)
         /\ \A u \in Tiers \ {t}, l \in BOOLEAN, m \in Modes \cup {"none", "absent"} :
              BatchResult(u, l, m) \notin EndsOf(t) /\ AbortResult(u) \notin EndsOf(t)
         /\ \A m \in Modes \cup {"none", "absent"} : BatchResult(t, FALSE, m) \notin EndsOf(t)
<1>1. \A b \in BOOLEAN : WriteResult(b) \notin EndsOf(t) /\ InfoResult(b) \notin EndsOf(t)
  BY DEF WriteResult, InfoResult, AbortResult, BatchResult, EndsOf
<1>2. ASSUME NEW u \in Tiers \ {t}, NEW l \in BOOLEAN, NEW m \in Modes \cup {"none", "absent"}
      PROVE  BatchResult(u, l, m) \notin EndsOf(t) /\ AbortResult(u) \notin EndsOf(t)
  BY DEF AbortResult, BatchResult, EndsOf
<1>3. ASSUME NEW m \in Modes \cup {"none", "absent"}
      PROVE  BatchResult(t, FALSE, m) \notin EndsOf(t)
  BY DEF AbortResult, BatchResult, EndsOf
<1> QED
  BY <1>1, <1>2, <1>3

\* The worker opens the cycle of the list whose poll job it takes.
LEMMA TakeJobCycle ==
  ASSUME HubInv, CyclesOK, TakeJob
  PROVE  CyclesOK'
<1> DEFINE job == Head(job_queue_)
<1>1. /\ job_queue_ # <<>> /\ job_queue_' = Tail(job_queue_) /\ running = NoJob
      /\ UNCHANGED <<outbox, result_queue_, poll_pending_, late>>
      /\ IF job.type = "poll"
         THEN polling' = [polling EXCEPT ![job.tier] = TRUE] /\ running' = running
         ELSE running' = job /\ UNCHANGED polling
  BY DEF TakeJob, Free, pollVars
<1>2. job \in Asked /\ job_queue_ \in Seq(Asked)
  BY <1>1, HeadTailProperties DEF HubInv, JobsOK
<1>3. \A t \in Tiers : PollJob(t).type = "poll" /\ PollJob(t).tier = t
  BY DEF PollJob
<1>4. job.type = "poll" => \E u \in Tiers : job = PollJob(u)
  BY <1>2 DEF Asked, InfoJob, Writes, ModeJob, PowerJob
<1>5. Asking'
  <2>1. \A t \in Tiers : running' # BatchOf(t)
    BY <1>1, <1>2 DEF BatchOf, NoJob, Asked, InfoJob, Writes, ModeJob, PowerJob, PollJob
  <2> QED
    BY <2>1 DEF Asking, BatchOf
<1> HIDE DEF job
<1>6. ASSUME NEW t \in Tiers
      PROVE  CycleOK(t)'
  <2>1. /\ Kept(job_queue_, job_queue_', {PollJob(t)})
        /\ job = PollJob(t) => ~Never(job_queue_, {PollJob(t)})
        /\ job = PollJob(t) => Never(job_queue_, {PollJob(t)})'
    BY <1>1, <1>2, TailOne DEF job, CyclesOK, CycleOK, PollJob
  <2>2. CASE job = PollJob(t)
    <3>1. Never(job_queue_, {PollJob(t)})' /\ polling'[t]
      BY <1>1, <1>3, <2>1, <2>2 DEF HubInv, WorkerOK
    <3>2. Never(outbox, EndsOf(t))' /\ Never(result_queue_, EndsOf(t))'
      BY <1>1, <2>1, <2>2 DEF CyclesOK, CycleOK, EndsOf
    <3>3. ~MayStart(t)'
      BY <1>1, <2>1, <2>2 DEF CyclesOK, CycleOK, Idle, MayStart
    <3> QED
      BY <3>1, <3>2, <3>3, NeverOnce DEF CycleOK
  <2>3. CASE job # PollJob(t)
    <3>1. polling'[t] = polling[t]
      BY <1>1, <1>3, <1>4, <2>3 DEF HubInv, WorkerOK
    <3> QED
      BY <1>1, <2>1, <3>1, CycleKept, Unchanging DEF CyclesOK
  <2> QED
    BY <2>2, <2>3
<1> QED
  BY <1>5, <1>6 DEF CyclesOK

\* The end of one of list t's batches, or of another list's.
LEMMA BatchCycle ==
  ASSUME HubInv, CyclesOK, NEW readable \in BOOLEAN, BatchEnds(readable)
  PROVE  CyclesOK'
<1>1. PICK u \in Tiers : running = BatchOf(u)
  BY DEF BatchEnds, HubInv, WorkerOK, Writes, ModeJob, PowerJob, NoJob, InfoJob
<1>2. running.tier = u
  BY <1>1 DEF BatchOf
<1> DEFINE last == batch[u] + 1 >= Batches[u]
           told == IF readable THEN Reported(u) ELSE "none"
<1>3. /\ polling' = [polling EXCEPT ![u] = ~last]
      /\ outbox' = <<BatchResult(u, last, told)>>
      /\ running' = NoJob
      /\ UNCHANGED <<job_queue_, result_queue_, poll_pending_, late>>
  BY <1>2 DEF BatchEnds, pollVars
<1>4. told \in Modes \cup {"none", "absent"} /\ last \in BOOLEAN
  BY DEF Reported, HubInv, OutsideOK
<1> HIDE DEF last, told
<1>5. Asking'
  BY <1>3 DEF Asking, NoJob, BatchOf
<1>6. polling[u] /\ outbox = <<>>
  BY <1>1 DEF CyclesOK, Asking
<1>7. CycleOK(u)'
  <2>1. /\ Never(job_queue_, {PollJob(u)})' /\ Never(result_queue_, EndsOf(u))'
        /\ ~MayStart(u)'
    BY <1>3, <1>6 DEF CyclesOK, CycleOK, Idle, MayStart, PollJob, EndsOf
  <2>2. Once(outbox, EndsOf(u))'
    BY <1>3, OneMessage DEF EndsOf
  <2>3. polling'[u] => Never(outbox, EndsOf(u))'
    <3>1. ASSUME ~last
          PROVE  Never(outbox, EndsOf(u))'
      <4>1. BatchResult(u, last, told) \notin EndsOf(u)
        <5>1. last = FALSE
          BY <1>4, <3>1
        <5> QED
          BY <1>4, <5>1, EndKinds
      <4> QED
        BY <1>3, <4>1, OneMessage DEF EndsOf
    <3>2. polling'[u] => ~last
      BY <1>3 DEF HubInv, WorkerOK
    <3> QED
      BY <3>1, <3>2
  <2> QED
    BY <2>1, <2>2, <2>3, NeverOnce DEF CycleOK
<1>8. ASSUME NEW t \in Tiers \ {u}
      PROVE  CycleOK(t)'
  <2>1. BatchResult(u, last, told) \notin EndsOf(t)
    BY <1>4, EndKinds
  <2>2. Kept(outbox, outbox', EndsOf(t))
    BY <1>3, <2>1, OneMessage DEF Kept
  <2>3. polling'[t] = polling[t]
    BY <1>3 DEF HubInv, WorkerOK
  <2> QED
    BY <1>3, <2>2, <2>3, CycleKept, Unchanging DEF CyclesOK
<1> QED
  BY <1>5, <1>7, <1>8 DEF CyclesOK

LEMMA ConcatOne ==
  ASSUME NEW T, NEW s \in Seq(T), NEW r \in Seq(T), NEW S
  PROVE  /\ Never(s, S) /\ Never(r, S) => Never(s \o r, S)
         /\ Once(s, S) /\ Never(r, S) => Once(s \o r, S)
         /\ Never(s, S) /\ Once(r, S) => Once(s \o r, S)
<1> DEFINE c == s \o r
           m == Len(s)
           n == Len(r)
<1>1. m \in Nat /\ DOMAIN s = 1..m /\ n \in Nat /\ DOMAIN r = 1..n
  BY LenProperties
<1>2. c \in Seq(T) /\ Len(c) = m + n
      /\ \A i \in 1..(m + n) : c[i] = IF i <= m THEN s[i] ELSE r[i - m]
  BY ConcatProperties
<1>3. DOMAIN c = 1..(m + n)
  BY <1>2, LenProperties
<1> HIDE DEF c, m, n
<1>4. \A i \in DOMAIN c : /\ i \in Nat
                          /\ i <= m => i \in DOMAIN s /\ c[i] = s[i]
                          /\ ~(i <= m) => i - m \in DOMAIN r /\ c[i] = r[i - m]
  BY <1>1, <1>2, <1>3
<1>5. Never(s, S) /\ Never(r, S) => Never(c, S)
  BY <1>4 DEF Never
<1>6. Once(s, S) /\ Never(r, S) => Once(c, S)
  BY <1>4 DEF Never, Once
<1>7. Never(s, S) /\ Once(r, S) => Once(c, S)
  BY <1>1, <1>4 DEF Never, Once
<1> QED
  BY <1>5, <1>6, <1>7 DEF c

\* The batch of list u that fails aborts every other cycle in progress, once.
LEMMA AbortsOnce ==
  ASSUME HubInv, NEW u \in Tiers, NEW t \in Tiers
  PROVE  /\ Once(AbortResults(u), EndsOf(t))
         /\ ~polling[t] \/ t = u => Never(AbortResults(u), EndsOf(t))
<1> DEFINE S == EndsOf(t)
<1>1. \A k \in Tiers : /\ Aborted(u, k) \in Seq(CycleResults)
                       /\ Once(Aborted(u, k), S)
                       /\ k # t \/ ~polling[t] \/ t = u => Never(Aborted(u, k), S)
  <2> TAKE k \in Tiers
  <2> DEFINE r == AbortResult(k)
  <2>1. r \in CycleResults
    BY BatchResults
  <2>2. k # t => r \notin S
    BY EndKinds
  <2>3. Aborted(u, k) = IF k # u /\ polling[k] THEN <<r>> ELSE <<>>
    BY DEF Aborted
  <2> HIDE DEF r, S
  <2>4. <<r>> \in Seq(CycleResults) /\ <<>> \in Seq(CycleResults)
    BY <2>1, EmptySeq
  <2>5. Once(<<r>>, S) /\ Once(<<>>, S) /\ Never(<<>>, S)
    BY OneMessage, EmptyNever, NeverOnce
  <2>6. k # t => Never(<<r>>, S)
    BY <2>2, OneMessage
  <2> QED
    BY <2>3, <2>4, <2>5, <2>6
<1> DEFINE a == Aborted(u, 1)
           b == Aborted(u, 2)
           c == Aborted(u, 3)
<1>2. /\ a \in Seq(CycleResults) /\ b \in Seq(CycleResults) /\ c \in Seq(CycleResults)
      /\ Once(a, S) /\ Once(b, S) /\ Once(c, S)
      /\ t # 1 \/ ~polling[t] \/ t = u => Never(a, S)
      /\ t # 2 \/ ~polling[t] \/ t = u => Never(b, S)
      /\ t # 3 \/ ~polling[t] \/ t = u => Never(c, S)
  BY <1>1 DEF Tiers
<1>3. AbortResults(u) = (a \o b) \o c
  BY DEF AbortResults
<1> HIDE DEF a, b, c, S
<1>4. /\ a \o b \in Seq(CycleResults)
      /\ Never(a, S) /\ Never(b, S) => Never(a \o b, S)
      /\ Never(a, S) \/ Never(b, S) => Once(a \o b, S)
  BY <1>2, ConcatProperties, ConcatOne
<1>5. /\ Never(a \o b, S) /\ Never(c, S) => Never((a \o b) \o c, S)
      /\ Once(a \o b, S) /\ Never(c, S) => Once((a \o b) \o c, S)
      /\ Never(a \o b, S) => Once((a \o b) \o c, S)
  BY <1>2, <1>4, ConcatOne
<1>6. Once(AbortResults(u), S) /\ (~polling[t] \/ t = u => Never(AbortResults(u), S))
  BY <1>2, <1>3, <1>4, <1>5
<1> QED
  BY <1>6 DEF S

\* A batch that fails ends every cycle in progress.
LEMMA FailedCycle ==
  ASSUME HubInv, CyclesOK, BatchFails
  PROVE  CyclesOK'
<1>1. PICK u \in Tiers : running = BatchOf(u)
  BY DEF BatchFails, HubInv, WorkerOK, Writes, ModeJob, PowerJob, NoJob, InfoJob
<1>2. running.tier = u
  BY <1>1 DEF BatchOf
<1> DEFINE r == BatchResult(u, TRUE, "none")
           q == AbortResults(u)
<1>3. /\ polling' = [k \in Tiers |-> FALSE]
      /\ outbox' = Append(q, r)
      /\ running' = NoJob
      /\ UNCHANGED <<job_queue_, result_queue_, poll_pending_, late>>
  BY <1>2 DEF BatchFails, pollVars
<1>4. r \in CycleResults /\ q \in Seq(CycleResults)
  BY BatchResults, AbortsOK
<1>5. polling[u] /\ outbox = <<>>
  BY <1>1 DEF CyclesOK, Asking
<1>6. Asking'
  BY <1>3 DEF Asking, NoJob, BatchOf
<1>7. ASSUME NEW t \in Tiers
      PROVE  CycleOK(t)'
  <2>1. /\ Once(q, EndsOf(t)) /\ (~polling[t] \/ t = u => Never(q, EndsOf(t)))
        /\ t # u => r \notin EndsOf(t)
    BY AbortsOnce, EndKinds
  <2> HIDE DEF q, r
  <2>2. Once(outbox, EndsOf(t))' /\ (~polling[t] => Never(outbox, EndsOf(t))')
    BY <1>3, <1>4, <1>5, <2>1, AppendOne DEF EndsOf, Kept
  <2>3. CASE polling[t]
    <3>1. /\ Never(job_queue_, {PollJob(t)})' /\ Never(result_queue_, EndsOf(t))'
          /\ ~MayStart(t)' /\ ~polling'[t]
      BY <1>3, <2>3 DEF CyclesOK, CycleOK, Idle, MayStart, PollJob, EndsOf
    <3> QED
      BY <2>2, <3>1, NeverOnce DEF CycleOK
  <2>4. CASE ~polling[t]
    <3>1. Kept(outbox, outbox', EndsOf(t))
      BY <2>2, <2>4 DEF Kept, EndsOf
    <3>2. polling'[t] = polling[t]
      BY <1>3, <2>4 DEF HubInv, WorkerOK
    <3> QED
      BY <1>3, <3>1, <3>2, CycleKept, Unchanging DEF CyclesOK
  <2> QED
    BY <2>3, <2>4
<1> QED
  BY <1>6, <1>7 DEF CyclesOK

\* The end of a cycle is posted, or dropped.
LEMMA PostedCycle ==
  ASSUME HubInv, CyclesOK, PostBatch \/ DropBatch
  PROVE  CyclesOK'
<1> DEFINE r == Head(outbox)
<1>1. /\ outbox # <<>> /\ outbox' = Tail(outbox)
      /\ result_queue_' \in {result_queue_, Append(result_queue_, r)}
      /\ UNCHANGED <<job_queue_, polling, running, poll_pending_, late>>
  BY DEF PostBatch, DropBatch, pollVars
<1>2. /\ r \in Results /\ result_queue_ \in Seq(Results) /\ outbox \in Seq(CycleResults)
  BY <1>1, HeadTailProperties, CycleResultsAre DEF HubInv, WorkerOK, ResultsOK
<1> HIDE DEF r
<1>3. Asking'
  BY <1>1 DEF CyclesOK, Asking, BatchOf
<1>4. ASSUME NEW t \in Tiers
      PROVE  CycleOK(t)'
  <2> DEFINE S == EndsOf(t)
  <2>1. /\ Kept(outbox, outbox', S)
        /\ r \in S => ~Never(outbox, S)
        /\ r \in S => Never(outbox', S)
    BY <1>1, <1>2, TailOne DEF r, CyclesOK, CycleOK
  <2>2. CASE r \in S
    <3>1. /\ Never(job_queue_, {PollJob(t)}) /\ ~polling[t] /\ Never(result_queue_, S)
          /\ ~MayStart(t)
      BY <2>1, <2>2 DEF CyclesOK, CycleOK, Idle
    <3>2. Once(result_queue_', S)
      BY <1>1, <1>2, <3>1, AppendOne, NeverOnce
    <3>3. /\ Never(job_queue_, {PollJob(t)})' /\ ~polling'[t] /\ ~MayStart(t)'
          /\ Never(outbox, EndsOf(t))' /\ Once(result_queue_, EndsOf(t))'
      BY <1>1, <2>1, <2>2, <3>1, <3>2 DEF MayStart, PollJob, EndsOf
    <3> QED
      BY <3>3, NeverOnce DEF CycleOK
  <2>3. CASE r \notin S
    <3>1. Kept(result_queue_, result_queue_', S)
      BY <1>1, <1>2, <2>3, AppendOne, Unchanging
    <3> QED
      BY <1>1, <2>1, <3>1, CycleKept, Unchanging DEF CyclesOK
  <2> QED
    BY <2>2, <2>3
<1> QED
  BY <1>3, <1>4 DEF CyclesOK

\* The worker's other steps.
LEMMA WorkerCycle ==
  ASSUME HubInv, CyclesOK, WorkerStep
  PROVE  CyclesOK'
<1>1. CASE \E t \in Tiers : TakeBatch(t)
  <2>1. PICK u \in Tiers : TakeBatch(u)
    BY <1>1
  <2>2. /\ polling[u] /\ outbox = <<>> /\ running' = BatchOf(u)
        /\ UNCHANGED <<job_queue_, result_queue_, polling, outbox, poll_pending_, late>>
    BY <2>1 DEF TakeBatch, Free, pollVars
  <2>3. Asking'
    BY <2>2 DEF Asking, BatchOf
  <2> QED
    BY <2>2, <2>3, CycleKept, Unchanging DEF CyclesOK
<1>2. CASE JobAnswered \/ JobUnanswered
  <2>1. /\ running' = NoJob
        /\ UNCHANGED <<job_queue_, polling, outbox, poll_pending_, late>>
        /\ \E r \in {InfoResult(b) : b \in BOOLEAN} \cup {WriteResult(b) : b \in BOOLEAN} : Post(r)
    BY <1>2, Answers DEF pollVars
  <2>2. Asking'
    BY <2>1 DEF Asking, NoJob, BatchOf
  <2>3. \A t \in Tiers : Kept(result_queue_, result_queue_', EndsOf(t))
    <3>1. PICK r \in {InfoResult(b) : b \in BOOLEAN} \cup {WriteResult(b) : b \in BOOLEAN} : Post(r)
      BY <2>1
    <3>2. r \in Results /\ result_queue_ \in Seq(Results)
      BY DEF Results, HubInv, ResultsOK
    <3>3. \A t \in Tiers : r \notin EndsOf(t)
      BY EndKinds
    <3> QED
      BY <3>1, <3>2, <3>3, PostKeeps
  <2> QED
    BY <2>1, <2>2, <2>3, CycleKept, Unchanging DEF CyclesOK
<1> QED
  BY <1>1, <1>2, TakeJobCycle, BatchCycle, FailedCycle, PostedCycle
     DEF WorkerStep, BatchAnswered, BatchGarbled

\* The end of a cycle is processed: the list is idle.
LEMMA ProcessedCycle ==
  ASSUME HubInv, CyclesOK, process_result_
  PROVE  CyclesOK'
<1> DEFINE r == Head(result_queue_)
<1>1. /\ result_queue_ # <<>> /\ result_queue_' = Tail(result_queue_)
      /\ UNCHANGED <<job_queue_, polling, outbox, running>>
      /\ \/ r.type = "write" /\ WriteEnds(r)
         \/ r.type = "info" /\ InfoEnds(r)
         \/ r.type = "batch" /\ BatchProcessed(r)
         \/ r.type = "abort" /\ AbortProcessed(r)
  BY DEF process_result_, workVars
<1>2. r \in Results /\ result_queue_ \in Seq(Results)
  BY <1>1, HeadTailProperties DEF HubInv, ResultsOK
<1> HIDE DEF r
<1>3. Asking'
  BY <1>1 DEF CyclesOK, Asking, BatchOf
<1>4. ASSUME NEW t \in Tiers
      PROVE  CycleOK(t)'
  <2> DEFINE S == EndsOf(t)
  <2>1. /\ Kept(result_queue_, result_queue_', S)
        /\ r \in S => ~Never(result_queue_, S)
        /\ r \in S => Never(result_queue_', S)
    BY <1>1, <1>2, TailOne DEF r, CyclesOK, CycleOK
  <2>2. CASE r \in S
    <3>1. Never(job_queue_, {PollJob(t)}) /\ ~polling[t] /\ Never(outbox, S)
      BY <2>1, <2>2 DEF CyclesOK, CycleOK
    <3>2. Idle(t)'
      BY <1>1, <2>1, <2>2, <3>1 DEF Idle, PollJob, EndsOf
    <3> QED
      BY <3>2, NeverOnce DEF CycleOK, Idle
  <2>3. CASE r \notin S
    <3>1. poll_pending_'[t] = poll_pending_[t] /\ late'[t] = late[t]
      <4>1. ~(r.type \in {"abort", "batch"} /\ r.tier = t /\ (r.type = "batch" => r.last))
        BY <1>2, <2>3, EndIs
      <4> QED
        BY <1>1, <4>1 DEF WriteEnds, InfoEnds, BatchProcessed, AbortProcessed, Ended, HubInv, PollOK
    <3> QED
      BY <1>1, <2>1, <3>1, CycleKept, Unchanging DEF CyclesOK
  <2> QED
    BY <2>2, <2>3
<1> QED
  BY <1>3, <1>4 DEF CyclesOK

LEMMA CyclesNext ==
  ASSUME HubInv, CyclesOK, [IndNext]_indVars, [WatchdogsInTime]_indVars
  PROVE  CyclesOK'
<1>1. CASE update \/ \E t \in Tiers \ {1} : Timer(t)
  <2>1. PICK t \in Tiers : start_poll_(t) /\ UNCHANGED <<result_queue_, workVars>>
    BY <1>1 DEF update, Timer, Tiers
  <2> QED
    BY <2>1, PollCycle
<1>2. CASE \E u \in Tiers : WatchdogElapses(u)
  <2>1. PICK u \in Tiers : WatchdogElapses(u)
    BY <1>2
  <2>2. /\ ~late[u] /\ late' = [late EXCEPT ![u] = TRUE]
        /\ UNCHANGED <<job_queue_, result_queue_, polling, outbox, running, poll_pending_>>
    BY <2>1 DEF WatchdogElapses, workVars
  <2>3. late'[u] /\ indVars' # indVars
    BY <2>2 DEF HubInv, PollOK, indVars, pollVars
  <2>4. Idle(u)
    BY <2>2, <2>3, NoCycle DEF WatchdogsInTime
  <2>5. Asking'
    BY <2>2 DEF CyclesOK, Asking, BatchOf
  <2>6. ASSUME NEW t \in Tiers
        PROVE  CycleOK(t)'
    <3>1. late'[t] = late[t] \/ Idle(t)
      BY <2>2, <2>4 DEF HubInv, PollOK
    <3> QED
      BY <2>2, <3>1, CycleKept, Unchanging DEF CyclesOK
  <2> QED
    BY <2>5, <2>6 DEF CyclesOK
<1>3. CASE apply_output_requests_ \/ UserCalls \/ power_after_mode \/ enqueue_info_
  <2>1. /\ (\E job \in Writes \cup {InfoJob} : Enqueue(job)) \/ UNCHANGED job_queue_
        /\ UNCHANGED <<result_queue_, polling, outbox, running, poll_pending_, late>>
    BY <1>3, ControlCalls DEF enqueue_info_, workVars, pollVars
  <2>2. \A t \in Tiers : Kept(job_queue_, job_queue_', {PollJob(t)})
    <3>1. ASSUME NEW job \in Writes \cup {InfoJob}, Enqueue(job), NEW t \in Tiers
          PROVE  Kept(job_queue_, job_queue_', {PollJob(t)})
      BY <3>1, EnqueueKeeps, Kinds DEF HubInv, JobsOK, Asked
    <3> QED
      BY <2>1, <3>1, Unchanging
  <2>3. Asking'
    BY <2>1 DEF CyclesOK, Asking, BatchOf
  <2> QED
    BY <2>1, <2>2, <2>3, CycleKept, Unchanging DEF CyclesOK
<1>4. CASE WorkerStep
  BY <1>4, WorkerCycle
<1>5. CASE process_result_
  BY <1>5, ProcessedCycle
<1>6. CASE RefreshElapses \/ GoesDown \/ ComesUp \/ AppTakesOver \/ UNCHANGED indVars
  <2>1. UNCHANGED <<job_queue_, result_queue_, polling, outbox, running, poll_pending_, late>>
    BY <1>6 DEF RefreshElapses, GoesDown, ComesUp, AppTakesOver, Environment, indVars, workVars, pollVars
  <2>2. Asking'
    BY <2>1 DEF CyclesOK, Asking, BatchOf
  <2> QED
    BY <2>1, <2>2, CycleKept, Unchanging DEF CyclesOK
<1> QED
  BY <1>1, <1>2, <1>3, <1>4, <1>5, <1>6 DEF IndNext

LEMMA CyclesInit == IndInit => CyclesOK
<1> SUFFICES ASSUME IndInit
             PROVE  CyclesOK
  OBVIOUS
<1>1. job_queue_ = <<>> /\ outbox = <<>> /\ result_queue_ = <<>> /\ running = NoJob
      /\ \A t \in Tiers : ~polling[t]
  BY DEF IndInit
<1>2. Asking
  BY <1>1 DEF Asking, NoJob, BatchOf
<1> QED
  BY <1>1, <1>2, EmptyNever, NeverOnce DEF CyclesOK, CycleOK, Idle

\* The queues keep within their lengths, the worker asks only for batches a list has,
\* at most three results wait to be posted, no power beyond the limits is asked for or
\* noted as sent, and the identification is under way at most once, only while
\* info_pending_ is set, for all lists, limits and lengths and every interleaving of the
\* two tasks.
THEOREM IndevoltTheorem == IndSpec => []IndInv
<1>1. HubInv /\ OneInfo => IndInv
  BY InvEnough, OneInfoMeans DEF IndInv
<1>2. IndInit => HubInv /\ OneInfo
  BY HubInit, InfoInit
<1>3. HubInv /\ OneInfo /\ [IndNext]_indVars => (HubInv /\ OneInfo)'
  BY HubNext, InfoNext
<1> QED
  BY <1>1, <1>2, <1>3, PTL DEF IndSpec

\* As long as a watchdog runs out only for a cycle whose end was lost, no list is
\* polled twice at once and poll_pending_ is set while it is polled, wherever jobs and
\* results are queued, dropped or aborted.
THEOREM CyclesTheorem == IndSpec /\ [][WatchdogsInTime]_indVars => []OneCycle
<1>1. HubInv /\ CyclesOK => OneCycle
  BY CyclesMean
<1>2. IndInit => HubInv /\ CyclesOK
  BY HubInit, CyclesInit
<1>3. HubInv /\ CyclesOK /\ [IndNext]_indVars /\ [WatchdogsInTime]_indVars => (HubInv /\ CyclesOK)'
  BY HubNext, CyclesNext
<1> QED
  BY <1>1, <1>2, <1>3, PTL DEF IndSpec
=============================================================================
