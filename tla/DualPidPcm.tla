----------------------------- MODULE DualPidPcm -----------------------------
(***************************************************************************)
(* dualpidpcm: the controller of one bidirectional converter (PCM) with an *)
(* on/off switch, a direction switch and a current level per direction.    *)
(* Compared with dualpid it swaps CHARGE and DISCHARGE directly, stops     *)
(* only when the deadband has lasted DEADBAND_CONFIRM_MS, and holds the    *)
(* first level for STARTUP_INHIBIT_MS after a cold start, that is after    *)
(* more than STANDBY_GRACE_MS in IDLE.                                     *)
(*                                                                         *)
(* The PID and its feed-forward are a choice of any level within the       *)
(* limits of the mode; the timers are flags that run out at some time; the *)
(* flag pass_through_ is set and consumed within one update and is not a   *)
(* variable.  The thresholds include DEADBAND_FACTOR.  Levels are          *)
(* integers, two of them per step of the quantisation.                     *)
(***************************************************************************)
EXTENDS Integers

CONSTANTS
  LevelMax,                   \* 1.0f
  StartLevel,                 \* level of olb_ and of oub_
  MinC, MaxC, MinD, MaxD,     \* output_min_* and output_max_*
  Slack,                      \* 0.01f
  PstopC, PstopD,             \* -Pmin_charging, Pmin_discharging
  PstartC, PstartD,           \* -Pstart_charging, Pstart_discharging
  Errors                      \* values of the error: one per class

\* An error that is NaN is left out: it only takes both levels to 0, and the next
\* update recovers.
ASSUME PcmAssumption ==
  /\ {LevelMax, StartLevel, MinC, MaxC, MinD, MaxD, Slack, PstopC, PstopD, PstartC, PstartD}
       \subseteq Nat
  /\ LevelMax % 2 = 0 /\ StartLevel <= LevelMax
  /\ MinC <= MaxC /\ MaxC <= LevelMax /\ MinD <= MaxD /\ MaxD <= LevelMax
  /\ PstopC <= PstartC /\ PstopD <= PstartD
  /\ Errors \subseteq Int

IDLE == 0
CHARGE == 1
DISCHARGE == 2

VARIABLES
  mode,                       \* previous_mode_, equal to current_mode_ between updates
  previous_activation_,
  undervoltage_lockout_,
  in_startup,                 \* less than STARTUP_INHIBIT_MS since mode_start_time_
  deadband_timer,             \* deadband_start_time_: "off", "running", "over"
  warm,                       \* less than STANDBY_GRACE_MS since idle_start_time_
  chg, dis,                   \* per direction: current_output_, previous_output_
                              \* and the level the converter holds
  onoff, charging,            \* onoff_switch_, discharge_charge_switch_
  activation, manual_override, allow_charging, allow_discharging,
  voltage,                    \* battery voltage against the two thresholds
  byHand,                     \* the converter has been set by hand during an override,
                              \* or held levels when the device booted
  sunny                       \* from now on the sensor shows enough to charge

timers == <<in_startup, deadband_timer, warm>>
converter == <<chg, dis, onoff, charging>>
switches == <<activation, manual_override, allow_charging, allow_discharging>>
pcmVars == <<mode, previous_activation_, undervoltage_lockout_, timers, converter, switches,
             voltage, byHand, sunny>>

Levels == 0..LevelMax
Side == [cur : Levels, prev : Levels, dev : Levels]

\* Type correctness: rounding and clamping keep every level the converter is given
\* within the range of the outputs.
PcmTypeOK ==
  /\ mode \in {IDLE, CHARGE, DISCHARGE}
  /\ {previous_activation_, undervoltage_lockout_, in_startup, warm, onoff, charging, activation,
      manual_override, allow_charging, allow_discharging, byHand, sunny} \subseteq BOOLEAN
  /\ deadband_timer \in {"off", "running", "over"}
  /\ {chg, dis} \subseteq Side
  /\ voltage \in {"nan", "low", "mid", "high"}

\* setup() sends no level and turns off a switch that is on: the converter may still
\* hold the levels of before the boot, as if they had been set by hand.
PcmInit ==
  /\ mode = IDLE
  /\ previous_activation_ = FALSE /\ undervoltage_lockout_ = FALSE
  /\ in_startup = FALSE /\ deadband_timer = "off" /\ warm = FALSE
  /\ \E c, d \in Levels : /\ chg = [cur |-> 0, prev |-> 0, dev |-> c]
                         /\ dis = [cur |-> 0, prev |-> 0, dev |-> d]
                         /\ byHand = (c # 0 \/ d # 0)
  /\ onoff = FALSE
  /\ charging \in BOOLEAN
  /\ activation \in BOOLEAN
  /\ manual_override = FALSE /\ allow_charging = TRUE /\ allow_discharging = TRUE
  /\ voltage \in {"nan", "mid"}
  /\ sunny = FALSE

(***************************************************************************)
(* Sending levels                                                          *)
(***************************************************************************)

Clamp(l, lo, hi) == IF l < lo THEN lo ELSE IF l > hi THEN hi ELSE l

\* round(level * 1000) / 1000, half a step rounded up.
Quantized(level) == 2 * ((level + 1) \div 2)

\* set_charging_level and set_discharging_level: a level is sent when it
\* differs from the cached one; one above zero only while the switch is on.
set_level(s, level, on) ==
  LET q == Quantized(level)
  IN [cur |-> q, prev |-> q, dev |-> IF q # s.prev /\ (q = 0 \/ on) THEN q ELSE s.dev]

(***************************************************************************)
(* pid_update                                                              *)
(***************************************************************************)

ModeIn == IF activation /\ ~previous_activation_ THEN IDLE ELSE mode

LockoutNow ==
  CASE voltage = "low" -> TRUE
    [] voltage = "high" -> FALSE
    [] OTHER -> undervoltage_lockout_

discharge_gate == allow_discharging /\ ~LockoutNow

\* Mutant: the lock-out inhibits charging too.
MutChargeGateLocked == allow_charging /\ ~LockoutNow

charge_gate == allow_charging

\* Comparisons with a NaN voltage are false.
Known == voltage # "nan"

\* The deadband needs both levels at their minimum.
Deadband(epsi) ==
  /\ Known /\ epsi > -PstopC /\ epsi < PstopD
  /\ chg.cur <= MinC /\ dis.cur <= MinD

Surplus(epsi) == Known /\ epsi < -PstartC /\ charge_gate
Need(epsi) == Known /\ epsi > PstartD /\ discharge_gate

\* Mutant: the level is not looked at.
MutLowCAny == ~in_startup

\* The level of the active direction is close to its minimum.
LowC == chg.cur <= MinC + Slack /\ ~in_startup
LowD == dis.cur <= MinD + Slack /\ ~in_startup

\* The deadband is being confirmed.
Confirming(epsi) ==
  \/ ModeIn = CHARGE /\ charge_gate /\ Deadband(epsi) /\ LowC
  \/ ModeIn = DISCHARGE /\ discharge_gate /\ Deadband(epsi) /\ LowD

Confirmed(epsi) == Confirming(epsi) /\ deadband_timer = "over"

\* The state machine.  The exits for an output beyond the other bound cannot
\* be taken: the output has just been clamped to its own side.
NextMode(epsi) ==
  CASE ModeIn = IDLE ->
         IF Surplus(epsi) THEN CHARGE ELSE IF Need(epsi) THEN DISCHARGE ELSE IDLE
    [] ModeIn = CHARGE ->
         IF ~charge_gate \/ Confirmed(epsi) THEN IDLE
         ELSE IF ~Confirming(epsi) /\ LowC /\ Need(epsi) THEN DISCHARGE ELSE CHARGE
    [] OTHER ->
         IF ~discharge_gate \/ Confirmed(epsi) THEN IDLE
         ELSE IF ~Confirming(epsi) /\ LowD /\ Surplus(epsi) THEN CHARGE ELSE DISCHARGE

Prologue ==
  /\ ~manual_override
  /\ previous_activation_' = activation
  /\ undervoltage_lockout_' = IF activation THEN LockoutNow ELSE undervoltage_lockout_
  /\ UNCHANGED <<switches, voltage, byHand, sunny>>

\* Two updates within a millisecond.
TooSoon ==
  /\ ~manual_override
  /\ chg' = [chg EXCEPT !.prev = chg.cur]
  /\ dis' = [dis EXCEPT !.prev = dis.cur]
  /\ UNCHANGED <<mode, previous_activation_, undervoltage_lockout_, timers, onoff, charging,
                 switches, voltage, byHand, sunny>>

\* Both levels go to zero and the converter is switched off.
LevelsZero ==
  /\ chg' = set_level(chg, 0, onoff)
  /\ dis' = set_level(dis, 0, onoff)

Off ==
  /\ mode' = IDLE
  /\ LevelsZero
  /\ onoff' = FALSE
  /\ deadband_timer' = "off"
  /\ UNCHANGED <<in_startup, charging>>

Deactivated ==
  /\ ~activation
  /\ Prologue
  /\ Off
  /\ warm' = FALSE

StayIdle(epsi) ==
  /\ activation
  /\ ModeIn = IDLE /\ Deadband(epsi)
  /\ Prologue
  /\ Off
  /\ UNCHANGED warm

\* A return to IDLE starts the period of grace.
GoIdle(epsi) ==
  /\ activation
  /\ ModeIn # IDLE
  /\ NextMode(epsi) = IDLE
  /\ Prologue
  /\ Off
  /\ warm' = TRUE

\* A start from IDLE; a swap of the direction is not one.
Starts(m) == ModeIn = IDLE /\ m # IDLE

\* The level of mode m: a mode that begins and a converter that starts get
\* the start level, otherwise the PID chooses.
Held(m) == m # ModeIn \/ in_startup

LevelC(m, l) == IF m = CHARGE THEN Clamp(IF Held(m) THEN StartLevel ELSE l, MinC, MaxC) ELSE 0
LevelD(m, l) == IF m = DISCHARGE THEN Clamp(IF Held(m) THEN StartLevel ELSE l, MinD, MaxD) ELSE 0

\* Mutant: the direction is only set on a start.
MutDirectionStartOnly(epsi, m) == IF Starts(m) THEN m = CHARGE ELSE charging

\* The direction is never switched in IDLE or in the deadband.
Direction(epsi, m) == IF m = IDLE \/ Deadband(epsi) THEN charging ELSE m = CHARGE

\* In the deadband both levels are zero.
Sent(epsi, level) == IF Deadband(epsi) THEN 0 ELSE level

\* The mode goes on or another active mode begins: on/off switch first, then
\* the direction, then the levels.
Drive(epsi, l) ==
  LET m == NextMode(epsi)
  IN /\ activation
     /\ ~(ModeIn = IDLE /\ Deadband(epsi))
     /\ m # IDLE \/ ModeIn = IDLE
     /\ Prologue
     /\ mode' = m
     /\ in_startup' = (in_startup \/ (Starts(m) /\ ~warm))
     /\ warm' = (warm /\ m = ModeIn)
     /\ deadband_timer' = IF ~Confirming(epsi) THEN IF ModeIn = IDLE THEN deadband_timer ELSE "off"
                          ELSE IF deadband_timer = "off" THEN "running" ELSE deadband_timer
     /\ onoff' = (m # IDLE)
     /\ charging' = Direction(epsi, m)
     /\ chg' = set_level(chg, Sent(epsi, LevelC(m, l)), onoff')
     /\ dis' = set_level(dis, Sent(epsi, LevelD(m, l)), onoff')

pid_update(epsi) ==
  \/ Deactivated
  \/ StayIdle(epsi)
  \/ GoIdle(epsi)
  \/ \E l \in Levels : Drive(epsi, l)

(***************************************************************************)
(* The environment                                                         *)
(***************************************************************************)

\* STARTUP_INHIBIT_MS, DEADBAND_CONFIRM_MS or STANDBY_GRACE_MS have passed.
TimerEnds ==
  /\ \/ in_startup /\ in_startup' = FALSE /\ UNCHANGED <<deadband_timer, warm>>
     \/ deadband_timer = "running" /\ deadband_timer' = "over" /\ UNCHANGED <<in_startup, warm>>
     \/ warm /\ warm' = FALSE /\ UNCHANGED <<in_startup, deadband_timer>>
  /\ UNCHANGED <<mode, previous_activation_, undervoltage_lockout_, converter, switches, voltage,
                 byHand, sunny>>

Toggle ==
  /\ \/ activation' = ~activation /\ UNCHANGED <<manual_override, allow_charging, allow_discharging>>
     \/ manual_override' = ~manual_override /\ UNCHANGED <<activation, allow_charging, allow_discharging>>
     \/ allow_charging' = ~allow_charging /\ UNCHANGED <<activation, manual_override, allow_discharging>>
     \/ allow_discharging' = ~allow_discharging /\ UNCHANGED <<activation, manual_override, allow_charging>>
  /\ UNCHANGED <<mode, previous_activation_, undervoltage_lockout_, timers, converter, voltage,
                 byHand, sunny>>

Sensor ==
  /\ voltage' \in {"nan", "low", "mid", "high"} \ {voltage}
  /\ UNCHANGED <<mode, previous_activation_, undervoltage_lockout_, timers, converter, switches,
                 byHand, sunny>>

\* The user sets the converter during an override.
ByHand ==
  /\ manual_override
  /\ \/ onoff' = ~onoff /\ UNCHANGED <<chg, dis, charging>>
     \/ charging' = ~charging /\ UNCHANGED <<chg, dis, onoff>>
     \/ \E l \in {0, LevelMax} : chg' = [chg EXCEPT !.dev = l] /\ UNCHANGED <<dis, onoff, charging>>
  /\ byHand' = TRUE
  /\ UNCHANGED <<mode, previous_activation_, undervoltage_lockout_, timers, switches, voltage,
                 sunny>>

SunComesOut ==
  /\ ~sunny
  /\ sunny' = TRUE
  /\ UNCHANGED <<mode, previous_activation_, undervoltage_lockout_, timers, converter, switches,
                 voltage, byHand>>

\* The values the input sensor may publish.
Inputs == {epsi \in Errors : sunny => epsi < -PstartC}

Update == \E epsi \in Inputs : pid_update(epsi)

PcmNext ==
  \/ TooSoon
  \/ Update
  \/ TimerEnds
  \/ Toggle
  \/ Sensor
  \/ ByHand
  \/ SunComesOut

PcmSpec == PcmInit /\ [][PcmNext]_pcmVars

\* The input sensor publishes again and again.
PcmFairSpec == PcmSpec /\ WF_pcmVars(Update)

(***************************************************************************)
(* Properties                                                              *)
(***************************************************************************)

\* Current flows only the way the direction switch says, and only while the
\* converter is on, through starts, direct swaps, deadbands and stops.
DirectionMatches ==
  ~byHand => /\ chg.dev > 0 => onoff /\ charging
             /\ dis.dev > 0 => onoff /\ ~charging

\* The direction is only switched while both levels are at or close to their
\* minimum: never under load.
SwapsAtMinimum ==
  [][(charging # charging' /\ ~byHand') =>
       (chg.dev <= MinC + Slack /\ dis.dev <= MinD + Slack)]_pcmVars

\* The converter is on exactly in an active mode.
OnIffActive == ~byHand => (onoff <=> mode # IDLE)

\* While the lock-out is set nothing is discharged.
LockedOut == undervoltage_lockout_ => (mode # DISCHARGE /\ (~byHand => dis.dev = 0))

\* Levels, direction, on/off and mode of the converter agree after every update.
ConverterOK == PcmTypeOK /\ DirectionMatches /\ OnIffActive /\ LockedOut

\* An empty battery is charged once there is a surplus.
EmptyBatteryCharges ==
  <>[](sunny /\ activation /\ ~manual_override /\ allow_charging /\ voltage = "low")
  => <>[](mode = CHARGE /\ onoff)
=============================================================================
