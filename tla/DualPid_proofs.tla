--------------------------- MODULE DualPid_proofs ---------------------------
(***************************************************************************)
(* The interlock of dualpid, for all limits and thresholds that are        *)
(* configured as fractions, and for all errors, NaN among them.            *)
(*                                                                         *)
(* Interlocked is not inductive.  A level is sent only when it differs     *)
(* from the cached one, so the inverter is brought to rest only if a       *)
(* cached level at rest is one that it holds (Rest); and an update that    *)
(* activates the controller starts in IDLE without stopping anything,      *)
(* which is safe because a deactivated controller is in IDLE (Activated).  *)
(***************************************************************************)
EXTENDS DualPid, TLAPS

Flags ==
  {previous_activation_, undervoltage_lockout_, in_startup, errorWasNaN, r48, activation,
   manual_override, allow_charging, allow_discharging, producing, byHand, sunny}

Data ==
  /\ mode \in {IDLE, CHARGE, DISCHARGE}
  /\ chg \in Side /\ dis \in Inverter
  /\ voltage \in {"nan", "low", "mid", "high"}

Activated == ~previous_activation_ => mode = IDLE

Low(x) == AtMost(x, HmsMin)

\* A level cached as one at rest is one that the inverter holds.
Honest(s) == Low(s.prev) => Low(s.dev)

\* In DISCHARGE the levels are honest; otherwise the inverter rests.
Rest ==
  MinD <= HmsMin /\ ~dis.stray =>
    IF mode = DISCHARGE
    THEN Honest(dis) /\ (Low(dis.cur) => Low(dis.dev))
    ELSE Low(dis.dev)

NoDischarge == undervoltage_lockout_ => mode # DISCHARGE

IInv == Flags \subseteq BOOLEAN /\ Data /\ Activated /\ Rest /\ ChargerOff /\ NoDischarge

-----------------------------------------------------------------------------
(* Levels                                                                  *)

LEMMA NaNs == NaN \notin Levels /\ HmsMin \in Nat /\ Low(HmsMin) /\ ~Low(NaN)
  BY DualPidAssumption DEF Levels, Low, AtMost

\* Rounding to a step keeps a level within the range, the level at rest where
\* it is, and a level that is not above rest there; NaN stays NaN.
LEMMA QuantizedLevel ==
  ASSUME NEW l \in Values
  PROVE  /\ Quantized(l) \in Values
         /\ Low(l) => Low(Quantized(l))
  <1>1. CASE l = NaN
    BY <1>1 DEF Quantized, Values, Low, AtMost
  <1>2. CASE l # NaN
    <2> DEFINE h == (l + 1) \div 2
    <2>1. /\ LevelMax \in Nat /\ HmsMin \in Nat /\ l \in Nat /\ l <= LevelMax
          /\ LevelMax % 2 = 0 /\ HmsMin % 2 = 0
      BY <1>2, DualPidAssumption DEF Levels, Values
    <2>2. h \in Nat /\ 2 * h <= l + 1
      BY <2>1
    <2>3. \A m \in Nat : m % 2 = 0 => m = 2 * (m \div 2) /\ m \div 2 \in Nat
      OBVIOUS
    <2>4. ASSUME NEW m \in Nat, m % 2 = 0, l <= m PROVE 2 * h <= m
      <3> DEFINE k == m \div 2
      <3>1. m = 2 * k /\ k \in Nat
        BY <2>3, <2>4
      <3> HIDE DEF k, h
      <3> QED BY <2>1, <2>2, <2>4, <3>1
    <2> HIDE DEF h
    <2>5. Quantized(l) = 2 * h
      BY <1>2 DEF Quantized, h
    <2>6. Quantized(l) \in Levels /\ (l <= HmsMin => Quantized(l) <= HmsMin)
      BY <2>1, <2>2, <2>4, <2>5 DEF Levels
    <2> QED BY <1>2, <2>6, NaNs DEF Values, Low, AtMost
  <1> QED BY <1>1, <1>2

\* The limits of the outputs are levels.
LEMMA Limits ==
  /\ {0, HmsMin, MinC, MaxC, MinD, MaxD} \subseteq Levels
  /\ MinC <= MaxC /\ MinD <= MaxD
  BY DualPidAssumption DEF Levels

LEMMA ClampLevel ==
  ASSUME NEW l \in Values, NEW lo \in Levels, NEW hi \in Levels
  PROVE  Clamp(l, lo, hi) \in Values
  BY DEF Clamp, Values

\* What set_charging_level and set_discharging_level leave behind.
LEMMA SetC ==
  ASSUME NEW s \in Side, NEW l \in Values
  PROVE  set_charging_level(s, l) \in Side
  <1> DEFINE d == IF Differ(l, s.prev) THEN l ELSE s.dev
  <1>1. d \in Values
    BY DEF Side
  <1>2. set_charging_level(s, l) = [s EXCEPT !.dev = d, !.cur = l, !.prev = l]
    BY DEF set_charging_level, Side
  <1> HIDE DEF d
  <1> QED BY <1>1, <1>2 DEF Side

\* What is sent to the inverter replaces a level that the controller does not know.
LEMMA SetD ==
  ASSUME NEW s \in Inverter, NEW l \in Values
  PROVE  LET r == set_discharging_level(s, l) IN
         /\ r \in Inverter
         /\ r.cur = r.prev
         /\ (s.stray \/ Honest(s)) => (r.stray \/ Honest(r))
         /\ (s.stray \/ Honest(s)) /\ Low(l) => (r.stray \/ Low(r.dev))
  <1> DEFINE q == Quantized(l)
             sent == Differ(q, s.prev) /\ (AtMost(q, HmsMin) \/ producing)
             d == IF sent THEN q ELSE s.dev
             y == s.stray /\ ~sent
             r == [s EXCEPT !.dev = d, !.stray = y, !.cur = q, !.prev = q]
  <1>1. q \in Values /\ (Low(l) => Low(q))
    BY QuantizedLevel
  <1>2. set_discharging_level(s, l) = r
    BY DEF set_discharging_level, Inverter
  <1>3. d \in Values /\ y \in BOOLEAN /\ s.prev \in Values /\ s.dev \in Values
    BY <1>1 DEF Inverter
  <1>4. ASSUME s.stray \/ Honest(s), Low(q) PROVE y \/ Low(d)
    <2>1. CASE sent
      BY <1>4, <2>1
    <2>2. CASE ~sent
      <3>1. q = s.prev
        BY <1>4, <2>2 DEF Differ, Low
      <3> QED BY <1>4, <2>2, <3>1 DEF Honest
    <2> QED BY <2>1, <2>2
  <1> HIDE DEF q, d, y, sent
  <1>5. r \in Inverter /\ r.cur = q /\ r.prev = q /\ r.dev = d /\ r.stray = y
    BY <1>1, <1>3 DEF Inverter
  <1> HIDE DEF r
  <1> QED BY <1>1, <1>2, <1>4, <1>5 DEF Honest

LEMMA NotedSide ==
  ASSUME NEW s \in Side
  PROVE  Noted(s, 0) \in Side /\ Cached(s, 0) \in Side
  BY Limits DEF Noted, Cached, Side, Values

LEMMA NotedInverter ==
  ASSUME NEW s \in Inverter
  PROVE  /\ Noted(s, HmsMin) \in Inverter /\ Cached(s, HmsMin) \in Inverter
         /\ Noted(s, HmsMin).dev = s.dev /\ Noted(s, HmsMin).stray = s.stray
         /\ Cached(s, HmsMin).dev = s.dev /\ Cached(s, HmsMin).stray = s.stray
  BY Limits DEF Noted, Cached, Inverter, Values

\* Both directions stopped.
LEMMA Stopped ==
  ASSUME chg \in Side, dis \in Inverter
  PROVE  /\ StoppedC(chg) \in Side /\ StoppedD(dis) \in Inverter
         /\ dis.stray \/ Honest(dis) => StoppedD(dis).stray \/ Low(StoppedD(dis).dev)
  <1>1. 0 \in Values /\ HmsMin \in Values /\ Low(HmsMin)
    BY Limits, NaNs DEF Values
  <1>2. StoppedC(chg) \in Side
    BY <1>1, SetC, NotedSide DEF StoppedC
  <1> DEFINE r == set_discharging_level(dis, HmsMin)
  <1>3. r \in Inverter /\ (dis.stray \/ Honest(dis) => r.stray \/ Low(r.dev))
    BY <1>1, SetD
  <1>4. StoppedD(dis) = Noted(r, HmsMin)
    BY DEF StoppedD
  <1> HIDE DEF r
  <1>5. Noted(r, HmsMin) \in Inverter /\ Noted(r, HmsMin).dev = r.dev
        /\ Noted(r, HmsMin).stray = r.stray
    BY <1>3, NotedInverter
  <1> QED BY <1>2, <1>3, <1>4, <1>5

\* The invariant makes the cached levels honest in every mode.
LEMMA RestHonest ==
  ASSUME IInv, MinD <= HmsMin
  PROVE  dis.stray \/ Honest(dis)
  BY DEF IInv, Rest, Honest

-----------------------------------------------------------------------------
(* The steps of pid_update                                                 *)

\* An update of an activated controller goes on in the mode it was in.
LEMMA ModeInIsMode == Data /\ Activated /\ Flags \subseteq BOOLEAN => ModeIn = mode
  BY DEF ModeIn, Activated, Data, Flags

\* What all updates do with the flags.
LEMMA PrologueFlags ==
  ASSUME Flags \subseteq BOOLEAN, Prologue, r48' \in BOOLEAN, in_startup' \in BOOLEAN,
         errorWasNaN' \in BOOLEAN
  PROVE  (Flags \subseteq BOOLEAN)'
  <1>1. undervoltage_lockout_' \in BOOLEAN /\ previous_activation_' \in BOOLEAN
    BY DEF Prologue, LockoutNow, Flags
  <1>2. UNCHANGED <<activation, manual_override, allow_charging, allow_discharging, producing,
                    byHand, sunny>>
    BY DEF Prologue, switches
  <1> QED BY <1>1, <1>2 DEF Flags

\* An update that ends in IDLE with the charger off and the inverter at rest.
LEMMA EndsIdle ==
  ASSUME IInv, Prologue, mode' = IDLE, r48' = FALSE, in_startup' \in BOOLEAN,
         errorWasNaN' \in BOOLEAN, chg' \in Side, dis' \in Inverter,
         MinD <= HmsMin => dis'.stray \/ Low(dis'.dev)
  PROVE  IInv'
  <1>1. (Flags \subseteq BOOLEAN)'
    BY PrologueFlags DEF IInv
  <1>2. UNCHANGED <<voltage, byHand>>
    BY DEF Prologue
  <1>3. Data'
    BY <1>2 DEF IInv, Data
  <1>4. Rest'
    BY DEF Rest, Low, IDLE, DISCHARGE
  <1> QED BY <1>1, <1>2, <1>3, <1>4 DEF IInv, Activated, ChargerOff, NoDischarge, IDLE, DISCHARGE

LEMMA DeactivatedInv == IInv /\ Deactivated => IInv'
  <1> SUFFICES ASSUME IInv, Deactivated PROVE IInv'
    OBVIOUS
  <1>1. /\ chg \in Side /\ dis \in Inverter /\ 0 \in Values /\ HmsMin \in Values
        /\ MinD \in Nat /\ HmsMin \in Nat /\ Low(HmsMin)
    BY Limits, NaNs, DualPidAssumption DEF IInv, Data, Values
  <1>2. in_startup' \in BOOLEAN /\ errorWasNaN' \in BOOLEAN
    BY DEF Deactivated, IInv, Flags
  <1> DEFINE f == Forgotten(dis)
             w == set_discharging_level(dis, HmsMin)
             r == IF Above(dis.cur, MinD) THEN w ELSE f
             c == IF Above(chg.cur, MinC) THEN set_charging_level(chg, 0) ELSE chg
  <1>3. f \in Inverter /\ f.dev = dis.dev /\ f.stray = (dis.stray \/ dis.cur = NaN)
    BY <1>1 DEF Forgotten, Inverter
  <1>4. w \in Inverter /\ c \in Side
    BY <1>1, SetC, SetD
  <1>5. dis' = Noted(r, HmsMin) /\ chg' = Noted(c, 0) /\ Prologue /\ mode' = IDLE /\ r48' = FALSE
    BY DEF Deactivated
  <1>6. ASSUME MinD <= HmsMin PROVE r.stray \/ Low(r.dev)
    <2>1. CASE Above(dis.cur, MinD)
      BY <1>1, <1>6, <2>1, SetD, RestHonest
    <2>2. CASE ~Above(dis.cur, MinD) /\ dis.cur = NaN
      BY <1>3, <2>2
    <2>3. CASE ~Above(dis.cur, MinD) /\ dis.cur # NaN
      <3>1. Low(dis.cur)
        BY <1>1, <1>6, <2>3 DEF Inverter, Values, Levels, Above, Low, AtMost
      <3> QED BY <1>3, <1>6, <2>3, <3>1 DEF IInv, Rest
    <2> QED BY <2>1, <2>2, <2>3
  <1>7. r \in Inverter
    BY <1>3, <1>4
  <1> HIDE DEF r, c
  <1>8. chg' \in Side /\ dis' \in Inverter /\ dis'.dev = r.dev /\ dis'.stray = r.stray
    BY <1>4, <1>5, <1>7, NotedSide, NotedInverter
  <1> QED BY <1>2, <1>5, <1>6, <1>8, EndsIdle

LEMMA StayIdleInv ==
  ASSUME IInv, NEW epsi, StayIdle(epsi)
  PROVE  IInv'
  <1>1. chg \in Side /\ dis \in Inverter
    BY DEF IInv, Data
  <1>2. mode = IDLE
    BY ModeInIsMode DEF StayIdle, IInv
  <1>3. chg' = Cached(chg, 0) /\ dis' = Cached(dis, HmsMin) /\ Prologue /\ mode' = IDLE
        /\ UNCHANGED <<r48, in_startup>> /\ errorWasNaN' \in BOOLEAN
    BY DEF StayIdle
  <1>4. chg' \in Side /\ dis' \in Inverter /\ dis'.dev = dis.dev /\ dis'.stray = dis.stray
    BY <1>1, <1>3, NotedSide, NotedInverter
  <1>5. UNCHANGED <<voltage, byHand>>
    BY <1>3 DEF Prologue
  <1>6. (Flags \subseteq BOOLEAN)'
    BY <1>3, PrologueFlags DEF IInv, Flags
  <1>7. Data' /\ Activated' /\ NoDischarge'
    BY <1>3, <1>4, <1>5 DEF IInv, Data, Activated, NoDischarge, IDLE, DISCHARGE
  <1>8. Rest' /\ ChargerOff'
    BY <1>2, <1>3, <1>4, <1>5 DEF IInv, Rest, Low, ChargerOff, IDLE, DISCHARGE, CHARGE
  <1> QED BY <1>6, <1>7, <1>8 DEF IInv

\* The immediate stop.
LEMMA StopInv == IInv /\ Prologue /\ Stop /\ errorWasNaN' \in BOOLEAN => IInv'
  <1> SUFFICES ASSUME IInv, Prologue, Stop, errorWasNaN' \in BOOLEAN PROVE IInv'
    OBVIOUS
  <1>1. chg \in Side /\ dis \in Inverter
    BY DEF IInv, Data
  <1>2. /\ mode' = IDLE /\ chg' = StoppedC(chg) /\ dis' = StoppedD(dis) /\ r48' = FALSE
        /\ UNCHANGED in_startup
    BY DEF Stop, SwitchOff
  <1>3. in_startup' \in BOOLEAN
    BY <1>2 DEF IInv, Flags
  <1> QED BY <1>1, <1>2, <1>3, Stopped, RestHonest, EndsIdle

\* A mode begins, from IDLE.
LEMMA TransitionInv ==
  ASSUME IInv, NEW epsi, NEW high \in BOOLEAN, Transition(epsi, high)
  PROVE  IInv'
  <1> DEFINE m == NextMode(Error(epsi), high)
  <1>1. Prologue /\ activation /\ previous_activation_' /\ undervoltage_lockout_' = LockoutNow
        /\ UNCHANGED <<voltage, byHand>> /\ errorWasNaN' \in BOOLEAN
    BY DEF Transition, Prologue
  <1>2. chg \in Side /\ dis \in Inverter /\ ModeIn = mode
    BY ModeInIsMode DEF IInv, Data
  <1>3. ASSUME m # IDLE, ModeIn # m PROVE mode = IDLE /\ (m = DISCHARGE => ~LockoutNow)
    BY <1>2, <1>3 DEF NextMode, FromIdle, FromCharge, FromDischarge, IInv, Data, discharge_gate,
                      IDLE, CHARGE, DISCHARGE
  <1>4. \/ m = CHARGE /\ ModeIn # m /\ EnterCharge
        \/ m = DISCHARGE /\ ModeIn # m /\ EnterDischarge
        \/ m = IDLE /\ ModeIn # m /\ Stop
    BY DEF Transition
  <1> HIDE DEF m
  <1>5. CASE m = CHARGE /\ ModeIn # m /\ EnterCharge
    <2>1. mode = IDLE
      BY <1>3, <1>5 DEF CHARGE, IDLE
    <2>2. /\ mode' = CHARGE /\ r48' = TRUE /\ in_startup' = TRUE
          /\ chg' = StoppedC(chg) /\ dis' = Noted(dis, HmsMin)
      BY <1>5 DEF EnterCharge
    <2>3. chg' \in Side /\ dis' \in Inverter /\ dis'.dev = dis.dev /\ dis'.stray = dis.stray
      BY <1>2, <2>2, Stopped, NotedInverter
    <2>4. (Flags \subseteq BOOLEAN)'
      BY <1>1, <2>2, PrologueFlags DEF IInv
    <2>5. Data' /\ Activated' /\ NoDischarge'
      BY <1>1, <2>2, <2>3 DEF IInv, Data, Activated, NoDischarge, CHARGE, DISCHARGE
    <2>6. Rest' /\ ChargerOff'
      BY <1>1, <2>1, <2>2, <2>3 DEF IInv, Rest, Low, ChargerOff, IDLE, DISCHARGE, CHARGE
    <2> QED BY <2>4, <2>5, <2>6 DEF IInv
  <1>6. CASE m = DISCHARGE /\ ModeIn # m /\ EnterDischarge
    <2>1. mode = IDLE /\ ~LockoutNow
      BY <1>3, <1>6 DEF DISCHARGE, IDLE
    <2>2. /\ mode' = DISCHARGE /\ r48' = FALSE /\ in_startup' = TRUE
          /\ chg' = StoppedC(chg) /\ dis' = [dis EXCEPT !.prev = HmsMin]
      BY <1>6 DEF EnterDischarge
    <2>3. chg' \in Side /\ dis' \in Inverter /\ dis'.dev = dis.dev /\ dis'.stray = dis.stray
      BY <1>2, <2>2, Stopped, Limits DEF Inverter, Values
    <2>4. (Flags \subseteq BOOLEAN)'
      BY <1>1, <2>2, PrologueFlags DEF IInv
    <2>5. Data' /\ Activated' /\ NoDischarge'
      BY <1>1, <2>1, <2>2, <2>3 DEF IInv, Data, Activated, NoDischarge
    <2>6. Rest' /\ ChargerOff'
      BY <1>1, <2>1, <2>2, <2>3 DEF IInv, Rest, Honest, Low, ChargerOff, IDLE, DISCHARGE
    <2> QED BY <2>4, <2>5, <2>6 DEF IInv
  <1>7. CASE m = IDLE /\ ModeIn # m /\ Stop
    BY <1>1, <1>7, StopInv
  <1> QED BY <1>4, <1>5, <1>6, <1>7

\* The levels computed in a mode; outside DISCHARGE the inverter is to rest.
LEMMA RegulatedLevels ==
  ASSUME NEW l \in Values, IInv
  PROVE  /\ LevelC(l) \in Values /\ LevelD(l) \in Values
         /\ mode # DISCHARGE => Low(LevelD(l))
         /\ mode # CHARGE => ~Above(LevelC(l), MinC)
  <1>1. {0, HmsMin, MinC, MaxC, MinD, MaxD} \subseteq Levels /\ ModeIn = mode /\ Low(HmsMin)
    BY Limits, NaNs, ModeInIsMode DEF IInv
  <1>2. Clamp(IF in_startup THEN 0 ELSE l, MinC, MaxC) \in Values /\ Clamp(l, MinD, MaxD) \in Values
    <2>1. (IF in_startup THEN 0 ELSE l) \in Values
      BY <1>1 DEF Values
    <2> QED BY <1>1, <2>1, ClampLevel
  <1>3. ~Above(0, MinC)
    BY <1>1 DEF Above, Levels
  <1> QED BY <1>1, <1>2, <1>3 DEF LevelC, LevelD, Values

LEMMA RegulateInv ==
  ASSUME IInv, NEW epsi, NEW high \in BOOLEAN, NEW l \in Values, Regulate(epsi, high, l)
  PROVE  IInv'
  <1> DEFINE x == IF charge_gate THEN LevelC(l) ELSE 0
             y == IF discharge_gate THEN LevelD(l) ELSE HmsMin
             c == [chg EXCEPT !.out = LevelC(l)]
             d == [dis EXCEPT !.out = LevelD(l)]
  <1>1. Prologue /\ activation /\ previous_activation_' /\ undervoltage_lockout_' = LockoutNow
        /\ UNCHANGED <<voltage, byHand, in_startup>> /\ errorWasNaN' \in BOOLEAN
    BY DEF Regulate, Prologue
  <1>2. chg \in Side /\ dis \in Inverter /\ 0 \in Values /\ HmsMin \in Values /\ Low(HmsMin)
        /\ ModeIn = mode
    BY Limits, NaNs, ModeInIsMode DEF IInv, Data, Values
  <1>3. /\ x \in Values /\ y \in Values
        /\ mode # DISCHARGE => Low(y)
    BY <1>2, RegulatedLevels
  <1>4. /\ c \in Side /\ d \in Inverter
        /\ d.dev = dis.dev /\ d.prev = dis.prev /\ d.stray = dis.stray
    BY <1>2, RegulatedLevels DEF Side, Inverter
  <1>5. /\ chg' = set_charging_level(c, x) /\ dis' = set_discharging_level(d, y)
        /\ mode' = mode /\ r48' = R48Net(l)
    BY <1>2 DEF Regulate
  <1>6. mode = DISCHARGE => ~LockoutNow
    BY <1>2 DEF Regulate, NextMode, FromDischarge, discharge_gate, IDLE, CHARGE, DISCHARGE
  <1>7. r48' \in BOOLEAN /\ (mode # CHARGE => r48' = FALSE \/ r48' = r48)
    BY <1>2, <1>5, RegulatedLevels DEF R48Net, IInv, Flags
  <1> HIDE DEF x, y, c, d
  <1>8. chg' \in Side
    BY <1>3, <1>4, <1>5, SetC
  <1>9. /\ dis' \in Inverter /\ dis'.cur = dis'.prev
        /\ (d.stray \/ Honest(d)) => (dis'.stray \/ Honest(dis'))
        /\ (d.stray \/ Honest(d)) /\ Low(y) => (dis'.stray \/ Low(dis'.dev))
    BY <1>3, <1>4, <1>5, SetD
  <1>10. (Flags \subseteq BOOLEAN)'
    BY <1>1, <1>7, PrologueFlags DEF IInv, Flags
  <1>11. Data' /\ Activated' /\ NoDischarge'
    BY <1>1, <1>5, <1>6, <1>8, <1>9 DEF IInv, Data, Activated, NoDischarge
  <1>12. Rest'
    <2> SUFFICES ASSUME MinD <= HmsMin, ~dis'.stray
                 PROVE  IF mode = DISCHARGE
                        THEN Honest(dis') /\ (Low(dis'.cur) => Low(dis'.dev))
                        ELSE Low(dis'.dev)
      BY <1>5 DEF Rest, Low, Honest
    <2>1. d.stray \/ Honest(d)
      BY <1>4, RestHonest DEF Honest
    <2> QED BY <1>3, <1>9, <2>1 DEF Honest
  <1>13. ChargerOff'
    BY <1>1, <1>5, <1>7 DEF IInv, ChargerOff
  <1> QED BY <1>10, <1>11, <1>12, <1>13 DEF IInv

-----------------------------------------------------------------------------
\* The steps that are not updates.
LEMMA OthersInv ==
  ASSUME IInv,
         TooSoon \/ StartupOver \/ Toggle \/ Sensors \/ ByHand \/ SunComesOut \/ UNCHANGED dualVars
  PROVE  IInv'
  <1> USE DEF control, switches
  <1>0. Flags \subseteq BOOLEAN /\ Data
    BY DEF IInv
  <1>1. CASE TooSoon
    <2>1. /\ chg' = [chg EXCEPT !.prev = chg.cur] /\ dis' = [dis EXCEPT !.prev = dis.cur]
          /\ UNCHANGED <<control, r48, switches, producing, voltage, byHand, sunny>>
      BY <1>1 DEF TooSoon
    <2>2. chg' \in Side /\ dis' \in Inverter /\ dis'.dev = dis.dev /\ dis'.cur = dis.cur
          /\ dis'.prev = dis.cur /\ dis'.stray = dis.stray
      BY <1>0, <2>1 DEF Data, Side, Inverter
    <2>3. (Flags \subseteq BOOLEAN)' /\ Data'
      BY <1>0, <2>1, <2>2 DEF Flags, Data
    <2>4. Rest'
      BY <2>1, <2>2 DEF IInv, Rest, Honest, Low
    <2> QED BY <2>1, <2>2, <2>3, <2>4 DEF IInv, Activated, ChargerOff, NoDischarge
  <1>2. CASE ByHand
    <2>1. byHand' = TRUE /\ UNCHANGED <<control, switches, producing, voltage, sunny>>
      BY <1>2 DEF ByHand
    <2>2. {0, HmsMin, LevelMax} \subseteq Levels
      BY DualPidAssumption DEF Levels
    <2>3. chg' \in Side /\ r48' \in BOOLEAN
      BY <1>0, <1>2, <2>2 DEF ByHand, Data, Side, Values, Flags
    <2>4. \/ UNCHANGED dis
          \/ \E l \in {HmsMin, LevelMax} : dis' = [dis EXCEPT !.dev = l, !.stray = l > HmsMin]
      BY <1>2 DEF ByHand
    <2>5. dis' \in Inverter /\ Rest'
      <3>1. CASE UNCHANGED dis
        BY <1>0, <2>1, <3>1 DEF Data, IInv, Rest, Honest, Low
      <3>2. ASSUME NEW l \in {HmsMin, LevelMax}, dis' = [dis EXCEPT !.dev = l, !.stray = l > HmsMin]
            PROVE  dis' \in Inverter /\ Rest'
        <4>1. l \in Values /\ l \in Nat /\ l # NaN /\ (l > HmsMin) \in BOOLEAN
          BY <2>2, NaNs DEF Levels, Values
        <4>2. dis' \in Inverter /\ dis'.dev = l /\ dis'.stray = (l > HmsMin)
          BY <1>0, <3>2, <4>1 DEF Data, Inverter
        <4>3. ~(l > HmsMin) => Low(l)
          BY <4>1, NaNs DEF Low, AtMost
        <4>4. ~dis'.stray => Low(dis'.dev)
          BY <4>2, <4>3
        <4> QED BY <4>2, <4>4 DEF Rest, Honest, Low
      <3> QED BY <2>4, <3>1, <3>2
    <2>6. (Flags \subseteq BOOLEAN)' /\ Data'
      BY <1>0, <2>1, <2>3, <2>5 DEF Flags, Data
    <2> QED BY <2>1, <2>5, <2>6 DEF IInv, Activated, ChargerOff, NoDischarge
  <1>3. ASSUME UNCHANGED <<mode, previous_activation_, undervoltage_lockout_, chg, dis, r48, byHand>>,
               (Flags \subseteq BOOLEAN)', voltage' \in {"nan", "low", "mid", "high"}
        PROVE  IInv'
    BY <1>3 DEF IInv, Data, Activated, Rest, Honest, Low, ChargerOff, NoDischarge
  <1>4. CASE StartupOver
    <2>1. (Flags \subseteq BOOLEAN)' /\ voltage' \in {"nan", "low", "mid", "high"}
      BY <1>0, <1>4 DEF StartupOver, Flags, Data
    <2> QED BY <1>3, <1>4, <2>1 DEF StartupOver
  <1>5. CASE Toggle
    <2>1. (Flags \subseteq BOOLEAN)' /\ voltage' \in {"nan", "low", "mid", "high"}
      BY <1>0, <1>5 DEF Toggle, Flags, Data
    <2> QED BY <1>3, <1>5, <2>1 DEF Toggle
  <1>6. CASE Sensors
    <2>1. (Flags \subseteq BOOLEAN)' /\ voltage' \in {"nan", "low", "mid", "high"}
      BY <1>0, <1>6 DEF Sensors, Flags, Data
    <2> QED BY <1>3, <1>6, <2>1 DEF Sensors
  <1>7. CASE SunComesOut
    <2>1. (Flags \subseteq BOOLEAN)' /\ voltage' \in {"nan", "low", "mid", "high"}
      BY <1>0, <1>7 DEF SunComesOut, Flags, Data
    <2> QED BY <1>3, <1>7, <2>1 DEF SunComesOut
  <1>8. CASE UNCHANGED dualVars
    <2>1. (Flags \subseteq BOOLEAN)' /\ voltage' \in {"nan", "low", "mid", "high"}
      BY <1>0, <1>8 DEF dualVars, Flags, Data
    <2> QED BY <1>3, <1>8, <2>1 DEF dualVars
  <1> QED BY <1>1, <1>2, <1>4, <1>5, <1>6, <1>7, <1>8

LEMMA NextInv == IInv /\ [DualNext]_dualVars => IInv'
  <1> SUFFICES ASSUME IInv, [DualNext]_dualVars PROVE IInv'
    OBVIOUS
  <1>1. ASSUME NEW epsi \in Inputs, pid_update(epsi) PROVE IInv'
    <2>1. CASE Deactivated
      BY <2>1, DeactivatedInv
    <2>2. CASE StayIdle(epsi)
      BY <2>2, StayIdleInv
    <2>3. CASE StopInDeadband(epsi)
      BY <2>3, StopInv DEF StopInDeadband
    <2>0. MayBeHigh(epsi) \subseteq BOOLEAN /\ Computed(epsi) \subseteq Values
      BY DEF MayBeHigh, Computed, Values
    <2>4. CASE \E high \in MayBeHigh(epsi) : Transition(epsi, high)
      BY <2>0, <2>4, TransitionInv
    <2>5. CASE \E high \in MayBeHigh(epsi), l \in Computed(epsi) : Regulate(epsi, high, l)
      BY <2>0, <2>5, RegulateInv
    <2> QED BY <1>1, <2>1, <2>2, <2>3, <2>4, <2>5 DEF pid_update
  <1> QED BY <1>1, OthersInv DEF DualNext, Update

LEMMA InitInv == DualInit => IInv
  <1> SUFFICES ASSUME DualInit PROVE IInv
    OBVIOUS
  <1>1. 0 \in Levels /\ HmsMin \in Levels
    BY Limits
  <1>2. chg \in Side
    BY <1>1 DEF DualInit, Side, Values
  <1>3. PICK l \in Levels :
          dis = [out |-> 0, cur |-> 0, prev |-> HmsMin, dev |-> l, stray |-> l > HmsMin]
    BY DEF DualInit
  <1>4. dis \in Inverter /\ (~dis.stray => Low(dis.dev))
    <2>1. l \in Nat /\ l # NaN /\ (l > HmsMin) \in BOOLEAN
      BY NaNs DEF Levels
    <2>2. ~(l > HmsMin) => Low(l)
      BY <2>1, NaNs DEF Low, AtMost
    <2>3. dis \in Inverter
      BY <1>1, <1>3, <2>1 DEF Inverter, Values
    <2> QED BY <1>3, <2>2, <2>3
  <1>5. Flags \subseteq BOOLEAN /\ Data
    BY <1>2, <1>4 DEF DualInit, Flags, Data
  <1> QED BY <1>4, <1>5
         DEF DualInit, IInv, Activated, Rest, ChargerOff, NoDischarge, IDLE, DISCHARGE

\* Through every order of errors (NaN included), switches, voltages and early returns of
\* pid_update, and for all limits and thresholds in DualPidAssumption: outside CHARGE the
\* rectifier is off, nothing is discharged under the lock-out, and outside DISCHARGE the
\* inverter rests where the configured minimum is its level at rest (MinD <= HmsMin) and
\* it holds a level that the controller knows of.
THEOREM InterlockTheorem == DualSpec => []Interlocked
  <1>1. IInv => Interlocked
    BY DEF IInv, Interlocked, DualTypeOK, Flags, Data, DischargerRests, LockedOut, NoDischarge,
           Rest, Low
  <1> QED BY <1>1, InitInv, NextInv, PTL DEF DualSpec
=============================================================================
