------------------------------- MODULE DualPid -------------------------------
(***************************************************************************)
(* dualpid: one controller that drives a charger (an R48 rectifier behind  *)
(* a general switch) and a discharger (an HMS micro-inverter) from the     *)
(* grid power.  Every value of the input sensor runs pid_update; it keeps  *)
(* a mode (IDLE, CHARGE, DISCHARGE), the levels computed, the levels last  *)
(* sent (a level that equals the cached one is not sent again) and an      *)
(* undervoltage lock-out with hysteresis.                                  *)
(*                                                                         *)
(* The arithmetic of the PID is a choice: any level within the limits of   *)
(* the mode.  The error keeps its place between the thresholds, which are  *)
(* those of the code with DEADBAND_FACTOR included; it is NaN while the    *)
(* grid sensor has no value, and then so is the level computed, which      *)
(* std::min and std::max let through.  Levels are integers, two of them    *)
(* per step of the discharger's quantisation.                              *)
(***************************************************************************)
EXTENDS Integers

CONSTANTS
  LevelMax,             \* 1.0f
  HmsMin,               \* HMS_MIN_LEVEL: the discharger at rest
  MinC, MaxC,           \* output_min_charging, output_max_charging
  MinD, MaxD,           \* output_min_discharging, output_max_discharging
  Slack,                \* 0.01f: how close to the minimum counts as there
  PminCh, PminDis,      \* thresholds around zero that bound the deadband
  PstartCh,             \* threshold that starts charging
  Reverse,              \* the reverse switch
  NaN,                  \* not a number
  Errors                \* values of the error: one per class of the thresholds, and NaN

\* The limits, thresholds and the reverse switch are entities of the user, taken as
\* configured: as fractions (the limits of the header, 2 and 100, are not).
ASSUME DualPidAssumption ==
  /\ {LevelMax, HmsMin, MinC, MaxC, MinD, MaxD, Slack, PminCh, PminDis, PstartCh}
       \subseteq Nat
  /\ NaN \notin Int /\ Errors \subseteq Int \cup {NaN} /\ Reverse \in BOOLEAN
  /\ HmsMin % 2 = 0 /\ HmsMin <= LevelMax /\ LevelMax % 2 = 0
  /\ MinC <= MaxC /\ MaxC <= LevelMax
  /\ MinD <= MaxD /\ MaxD <= LevelMax
  /\ PminCh <= PstartCh

IDLE == 0
CHARGE == 1
DISCHARGE == 2

VARIABLES
  mode,                     \* previous_mode_, equal to current_mode_ between updates
  previous_activation_,
  undervoltage_lockout_,
  in_startup,               \* less than STARTUP_INHIBIT_MS since mode_start_time_
  errorWasNaN,              \* previous_error_ is NaN
  chg, dis,                 \* per direction: output_, current_output_ and
                            \* previous_output_, and the level the device holds
  r48,                      \* the general switch of the charger
  activation, manual_override, allow_charging, allow_discharging,
  producing,                \* the inverter's "producing" binary sensor
  voltage,                  \* battery voltage against the two thresholds
  byHand,                   \* a device has been set by hand during an override
  sunny                     \* from now on the sensor shows enough to charge

control == <<mode, previous_activation_, undervoltage_lockout_, in_startup, errorWasNaN>>
switches == <<activation, manual_override, allow_charging, allow_discharging>>
dualVars == <<control, chg, dis, r48, switches, producing, voltage, byHand, sunny>>

Levels == 0..LevelMax
Values == Levels \cup {NaN}
Side == [out : Values, cur : Values, prev : Values, dev : Values]

\* stray: the inverter holds a level that the controller does not know of.
Inverter == [out : Values, cur : Values, prev : Values, dev : Values, stray : BOOLEAN]

\* Comparisons with NaN are false.
Above(x, y) == x # NaN /\ x > y
Below(x, y) == x # NaN /\ x < y
AtMost(x, y) == x # NaN /\ x <= y

\* Type correctness: rounding and clamping keep every level the devices are given
\* within the range of the outputs, or it is NaN.
DualTypeOK ==
  /\ mode \in {IDLE, CHARGE, DISCHARGE}
  /\ {previous_activation_, undervoltage_lockout_, in_startup, errorWasNaN, r48, activation, manual_override,
      allow_charging, allow_discharging, producing, byHand, sunny} \subseteq BOOLEAN
  /\ chg \in Side /\ dis \in Inverter
  /\ voltage \in {"nan", "low", "mid", "high"}

\* setup(): the switches are restored from flash before; the R48 is switched off, but
\* no level is sent: the devices go on with the one they hold.
DualInit ==
  /\ mode = IDLE
  /\ previous_activation_ = FALSE
  /\ undervoltage_lockout_ = FALSE
  /\ in_startup = FALSE
  /\ errorWasNaN = FALSE
  /\ \E l \in Levels : chg = [out |-> 0, cur |-> 0, prev |-> 0, dev |-> l]
  /\ \E l \in Levels :
       dis = [out |-> 0, cur |-> 0, prev |-> HmsMin, dev |-> l, stray |-> l > HmsMin]
  /\ r48 = FALSE
  /\ activation \in BOOLEAN
  /\ manual_override = FALSE
  /\ allow_charging = TRUE /\ allow_discharging = TRUE
  /\ producing = TRUE
  /\ voltage \in {"nan", "mid"}
  /\ byHand = FALSE
  /\ sunny = FALSE

(***************************************************************************)
(* Sending levels                                                          *)
(***************************************************************************)

Clamp(l, lo, hi) == IF Below(l, lo) THEN lo ELSE IF Above(l, hi) THEN hi ELSE l

\* NaN differs from everything.
Differ(x, y) == x # y \/ x = NaN

\* Sent only when it differs from the cached level, cached in any case.
set_charging_level(s, level) ==
  [s EXCEPT !.dev = IF Differ(level, s.prev) THEN level ELSE @, !.cur = level, !.prev = level]

\* round(level * 200) / 200, half a step rounded up.
Quantized(level) == IF level = NaN THEN NaN ELSE 2 * ((level + 1) \div 2)

\* A level above the minimum is sent only while the inverter produces; it is
\* cached in any case.
set_discharging_level(s, level) ==
  LET q == Quantized(level)
      sent == Differ(q, s.prev) /\ (AtMost(q, HmsMin) \/ producing)
  IN [s EXCEPT !.dev = IF sent THEN q ELSE @, !.stray = @ /\ ~sent, !.cur = q, !.prev = q]

\* Ghost: a level that is no number is taken for one at rest.
Forgotten(s) == [s EXCEPT !.stray = @ \/ s.cur = NaN]

\* Levels noted without sending them.
Noted(s, level) == [s EXCEPT !.out = level, !.cur = level, !.prev = level]
Cached(s, level) == [s EXCEPT !.out = level, !.prev = level]

\* Mutant: the level to rest at is noted before it is compared.
MutStoppedDNoted(s) == set_discharging_level(Noted(s, HmsMin), HmsMin)

\* Both directions stopped: the levels are sent, then noted.
StoppedC(s) == Noted(set_charging_level(s, 0), 0)
StoppedD(s) == Noted(set_discharging_level(s, HmsMin), HmsMin)

(***************************************************************************)
(* pid_update                                                              *)
(***************************************************************************)

\* Activation off -> on starts in IDLE.
ModeIn == IF activation /\ ~previous_activation_ THEN IDLE ELSE mode

\* Latch with two thresholds; without a voltage the state is kept.
LockoutNow ==
  CASE voltage = "low" -> TRUE
    [] voltage = "high" -> FALSE
    [] OTHER -> undervoltage_lockout_

discharge_gate == allow_discharging /\ ~LockoutNow

\* Mutant: the lock-out inhibits charging too.
MutChargeGateLocked == allow_charging /\ ~LockoutNow

charge_gate == allow_charging

Error(epsi) == IF Reverse /\ epsi # NaN THEN -epsi ELSE epsi

\* The derivative takes in the previous error too, except on activation.
NoOutput(epsi) == epsi = NaN \/ (errorWasNaN /\ ~(activation /\ ~previous_activation_))

\* The levels that may be computed, and whether the output may reach the upper bound.
Computed(epsi) == IF NoOutput(epsi) THEN {NaN} ELSE Levels
MayBeHigh(epsi) == IF NoOutput(epsi) THEN {FALSE} ELSE BOOLEAN

\* Comparisons with a NaN voltage are false.
Known == voltage # "nan"

RawDeadband(epsi) == Known /\ Above(epsi, -PminCh) /\ Below(epsi, PminDis)

AtRest ==
  CASE ModeIn = CHARGE -> AtMost(chg.cur, MinC)
    [] ModeIn = DISCHARGE -> AtMost(dis.cur, MinD)
    [] OTHER -> TRUE

Deadband(epsi) == RawDeadband(epsi) /\ ~in_startup /\ AtRest

\* The state machine; high: the output has reached the upper bound in IDLE.
FromIdle(e, high) ==
  CASE Known /\ Below(e, -PstartCh) /\ charge_gate -> CHARGE
    [] OTHER -> IF high /\ discharge_gate THEN DISCHARGE ELSE IDLE

FromCharge(e) ==
  IF ~allow_charging \/ (~in_startup /\ AtMost(chg.out, MinC + Slack) /\ Known /\ Above(e, PminCh))
  THEN IDLE ELSE CHARGE

FromDischarge(e) ==
  IF ~discharge_gate \/ (~in_startup /\ AtMost(dis.out, MinD + Slack) /\ Known /\ Below(e, -PminCh))
  THEN IDLE ELSE DISCHARGE

NextMode(e, high) ==
  CASE ModeIn = IDLE -> FromIdle(e, high)
    [] ModeIn = CHARGE -> FromCharge(e)
    [] OTHER -> FromDischarge(e)

\* What every update that gets past the guards does first.
Prologue ==
  /\ ~manual_override
  /\ previous_activation_' = activation
  /\ undervoltage_lockout_' = IF activation THEN LockoutNow ELSE undervoltage_lockout_
  /\ UNCHANGED <<switches, producing, voltage, byHand, sunny>>

\* Two updates within a millisecond.
TooSoon ==
  /\ ~manual_override
  /\ chg' = [chg EXCEPT !.prev = chg.cur]
  /\ dis' = [dis EXCEPT !.prev = dis.cur]
  /\ UNCHANGED <<control, r48, switches, producing, voltage, byHand, sunny>>

\* Activation off: a level above the configured minimum is brought to rest; one that
\* is no number is not above it, and nothing is sent.
Deactivated ==
  /\ ~activation
  /\ Prologue
  /\ dis' = Noted(IF Above(dis.cur, MinD) THEN set_discharging_level(dis, HmsMin)
                 ELSE Forgotten(dis), HmsMin)
  /\ chg' = Noted(IF Above(chg.cur, MinC) THEN set_charging_level(chg, 0) ELSE chg, 0)
  /\ mode' = IDLE
  /\ r48' = FALSE
  /\ UNCHANGED <<in_startup, errorWasNaN>>

\* Deadband in IDLE: the levels are noted, not sent.
StayIdle(epsi) ==
  /\ activation
  /\ Deadband(epsi) /\ ModeIn = IDLE
  /\ Prologue
  /\ errorWasNaN' = (epsi = NaN)
  /\ chg' = Cached(chg, 0)
  /\ dis' = Cached(dis, HmsMin)
  /\ mode' = IDLE
  /\ UNCHANGED <<r48, in_startup>>

SwitchOff == r48' = FALSE

\* Deadband in an active mode, and any other return to IDLE: immediate stop.
Stop ==
  /\ mode' = IDLE
  /\ chg' = StoppedC(chg)
  /\ dis' = StoppedD(dis)
  /\ SwitchOff
  /\ UNCHANGED in_startup

StopInDeadband(epsi) ==
  /\ activation
  /\ Deadband(epsi) /\ ModeIn # IDLE
  /\ Prologue
  /\ errorWasNaN' = (epsi = NaN)
  /\ Stop

\* A mode change; an update that changes the mode computes no level.
EnterCharge ==
  /\ mode' = CHARGE
  /\ r48' = TRUE
  /\ in_startup' = TRUE
  /\ chg' = StoppedC(chg)
  /\ dis' = Noted(dis, HmsMin)

EnterDischarge ==
  /\ mode' = DISCHARGE
  /\ r48' = FALSE
  /\ in_startup' = TRUE
  /\ chg' = StoppedC(chg)
  /\ dis' = [dis EXCEPT !.prev = HmsMin]

Transition(epsi, high) ==
  /\ activation
  /\ ~Deadband(epsi)
  /\ Prologue
  /\ errorWasNaN' = (epsi = NaN)
  /\ LET m == NextMode(Error(epsi), high)
     IN \/ m = CHARGE /\ ModeIn # m /\ EnterCharge
        \/ m = DISCHARGE /\ ModeIn # m /\ EnterDischarge
        \/ m = IDLE /\ ModeIn # m /\ Stop

\* The levels of the mode; the charger is held at its minimum while it starts.
LevelC(l) ==
  IF ModeIn = CHARGE THEN Clamp(IF in_startup THEN 0 ELSE l, MinC, MaxC) ELSE 0

LevelD(l) == IF ModeIn = DISCHARGE THEN Clamp(l, MinD, MaxD) ELSE HmsMin

\* Safety net on the charger's switch.
R48Net(l) ==
  CASE Above(LevelC(l), MinC) -> TRUE
    [] ModeIn = DISCHARGE -> FALSE
    [] OTHER -> r48

\* The mode stays: a level l is computed and sent.
Regulate(epsi, high, l) ==
  /\ activation
  /\ ~Deadband(epsi)
  /\ NextMode(Error(epsi), high) = ModeIn
  /\ Prologue
  /\ errorWasNaN' = (epsi = NaN)
  /\ mode' = ModeIn
  /\ r48' = R48Net(l)
  /\ chg' = set_charging_level([chg EXCEPT !.out = LevelC(l)], IF charge_gate THEN LevelC(l) ELSE 0)
  /\ dis' = set_discharging_level([dis EXCEPT !.out = LevelD(l)],
                                  IF discharge_gate THEN LevelD(l) ELSE HmsMin)
  /\ UNCHANGED in_startup

\* One value of the input sensor, more than a millisecond after the last.
pid_update(epsi) ==
  \/ Deactivated
  \/ StayIdle(epsi)
  \/ StopInDeadband(epsi)
  \/ \E high \in MayBeHigh(epsi) : Transition(epsi, high)
  \/ \E high \in MayBeHigh(epsi), l \in Computed(epsi) : Regulate(epsi, high, l)

(***************************************************************************)
(* The environment                                                         *)
(***************************************************************************)

\* STARTUP_INHIBIT_MS have passed.
StartupOver ==
  /\ in_startup
  /\ in_startup' = FALSE
  /\ UNCHANGED <<mode, previous_activation_, undervoltage_lockout_, errorWasNaN, chg, dis, r48,
                 switches, producing, voltage, byHand, sunny>>

Toggle ==
  /\ \/ activation' = ~activation /\ UNCHANGED <<manual_override, allow_charging, allow_discharging>>
     \/ manual_override' = ~manual_override /\ UNCHANGED <<activation, allow_charging, allow_discharging>>
     \/ allow_charging' = ~allow_charging /\ UNCHANGED <<activation, manual_override, allow_discharging>>
     \/ allow_discharging' = ~allow_discharging /\ UNCHANGED <<activation, manual_override, allow_charging>>
  /\ UNCHANGED <<control, chg, dis, r48, producing, voltage, byHand, sunny>>

Sensors ==
  /\ \/ producing' = ~producing /\ UNCHANGED voltage
     \/ voltage' \in {"nan", "low", "mid", "high"} \ {voltage} /\ UNCHANGED producing
  /\ UNCHANGED <<control, chg, dis, r48, switches, byHand, sunny>>

\* The user sets the devices during an override.
ByHand ==
  /\ manual_override
  /\ \/ \E l \in {0, LevelMax} : chg' = [chg EXCEPT !.dev = l] /\ UNCHANGED <<dis, r48>>
     \/ /\ \E l \in {HmsMin, LevelMax} : dis' = [dis EXCEPT !.dev = l, !.stray = l > HmsMin]
        /\ UNCHANGED <<chg, r48>>
     \/ r48' = ~r48 /\ UNCHANGED <<chg, dis>>
  /\ byHand' = TRUE
  /\ UNCHANGED <<control, switches, producing, voltage, sunny>>

SunComesOut ==
  /\ ~sunny
  /\ sunny' = TRUE
  /\ UNCHANGED <<control, chg, dis, r48, switches, producing, voltage, byHand>>

\* The values the input sensor may publish.
Inputs == {epsi \in Errors : sunny => Below(epsi, -PstartCh)}

Update == \E epsi \in Inputs : pid_update(epsi)

DualNext ==
  \/ TooSoon
  \/ Update
  \/ StartupOver
  \/ Toggle
  \/ Sensors
  \/ ByHand
  \/ SunComesOut

DualSpec == DualInit /\ [][DualNext]_dualVars

\* The input sensor publishes again and again, and not within a millisecond.
DualFairSpec == DualSpec /\ WF_dualVars(Update)

(***************************************************************************)
(* Properties                                                              *)
(***************************************************************************)

\* Outside DISCHARGE the inverter holds at most its level at rest, whatever levels were
\* cached without being sent and also when errors and levels were no numbers.  Stated for
\* the default minimum, which is the level at rest, and for the levels the controller
\* knows of: not one from before the boot, one set by hand, or one that was no number
\* when the controller was deactivated, until it sends a level again.
DischargerRests ==
  (MinD <= HmsMin /\ ~dis.stray /\ mode # DISCHARGE) => AtMost(dis.dev, HmsMin)

\* The R48 is switched off on every way out of CHARGE.
ChargerOff == (~byHand /\ mode # CHARGE) => ~r48

\* While the undervoltage lock-out is set nothing is discharged.
LockedOut == undervoltage_lockout_ => mode # DISCHARGE

\* The interlock of the two devices, through every order of errors, switches, voltages
\* and early returns of pid_update.  Its parts imply that the charger never runs
\* against an inverter whose level the controller knows.
Interlocked == DualTypeOK /\ DischargerRests /\ ChargerOff /\ LockedOut

\* An empty battery is charged once there is a surplus: the lock-out, which
\* only charging can release, does not stand in the way of charging.
EmptyBatteryCharges ==
  <>[](sunny /\ activation /\ ~manual_override /\ allow_charging /\ ~Reverse /\ voltage = "low")
  => <>[](mode = CHARGE /\ (r48 \/ byHand))
=============================================================================
