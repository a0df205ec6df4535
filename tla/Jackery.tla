------------------------------ MODULE Jackery ------------------------------
(***************************************************************************)
(* jackerysv3: the hub of one Jackery SolarVault 3 battery.  The battery   *)
(* is a client of the embedded MQTT broker; the hub is one of the broker's *)
(* message sinks (on_message, on_subscribed, on_clients_changed), polls    *)
(* the battery through it and merges what the battery reports:             *)
(*  - main fields one by one, so that a report may carry any of them;      *)
(*  - the list of smart plugs, replaced by a full list and otherwise       *)
(*    merged by serial number, from which slot_plug_ finds the plug that   *)
(*    the entities of a slot stand for.                                    *)
(* Everything the hub does runs in the main task; what interleaves with it *)
(* is the battery, the session, the users, the control loop that writes    *)
(* the output, and time.  The battery, its session and the broker between  *)
(* them (battery, link) are external, modelled from how the hub uses them: *)
(* a command that was delivered may still be ignored.                      *)
(*                                                                         *)
(* Serial numbers are positive integers; a value not known yet is None, a  *)
(* published NaN is NaN.  The reading of a plug's sensor is represented by *)
(* the serial number of the plug it comes from.                            *)
(***************************************************************************)
EXTENDS Integers, Sequences, FiniteSets, SequencesExt

CONSTANTS
  Slots,        \* the plug slots 1..n (MAX_PLUGS)
  PlugCap,      \* 16: the bound of upsert_plug_ and of a full list
  Top,          \* the configured range of the writable setting is 0..Top
  DevLo, DevHi, \* the battery's own limits for it (minSocChg, maxSocChg)
  Garbage,      \* what an uninitialised float may hold
  MaxUp,        \* bound: reports under way
  MaxCmds,      \* bound: commands under way
  Configs       \* the configurations: entities; groups of fields reported together; plugs
                \* there are, the local ones and the pins of the slots (0: none); the
                \* spelling of the battery's topics; whether the clock is set already,
                \* and whether the session may break and messages of no use arrive

None == -2
NaN == -1

Controls == {"switch", "number"}
Entities == {"sensor", "output"} \cup Controls
Fields == {"sensor", "switch", "number", "lo", "hi"}

ValuesOf(x) == IF x = "number" THEN 0..Top ELSE {0, 1}

\* No two slots are pinned to the same plug: a choice of the yaml, which neither
\* __init__.py nor set_plug_sn checks.
ASSUME JackeryAssumption ==
  /\ IsFiniteSet(Slots) /\ Slots = 1..Cardinality(Slots)
  /\ {PlugCap, MaxUp, MaxCmds} \subseteq Nat \ {0}
  /\ {Top, DevLo, DevHi} \subseteq Nat /\ DevLo <= DevHi /\ DevHi <= Top /\ Top > 0
  /\ Garbage \subseteq Int
  /\ \A c \in Configs :
       /\ c.entities \subseteq Entities
       /\ c.groups \subseteq SUBSET Fields
       /\ c.local \subseteq c.plugs /\ c.plugs \subseteq Nat \ {0}
       /\ c.pins \in [Slots -> Nat]
       /\ \A i, j \in Slots : i # j /\ c.pins[i] = c.pins[j] => c.pins[i] = 0
       /\ c.spelling \in {"yaml", "other"}
       /\ {c.clock, c.faults} \subseteq BOOLEAN

VARIABLES
  config,       \* the configuration, fixed at the start
  battery,      \* the battery: its main fields and its list of plugs
  link,         \* the session: connected, subscribed, poll under way, commands, reports
  clock,        \* the clock is set, or TIME_WAIT_MS have passed
  f_, plugs_,   \* JackeryState
  hub,          \* ever_received_, online_, dirty_, poll_now_, action_topic_, clients_ > 0;
                \* age of the last report: 0 at first, 1 after a housekeeping, 2 when
                \* offline_timeout_ms_ have passed since last_rx_ms_
  traits,       \* the range of the number entity
  shown, last,  \* per entity: its state, and the last value publish_states_ gave it
  power,        \* per slot: state of the plug's power sensor
  plug_switch,  \* per slot: state and last of the plug's switch
  out           \* output: what the control loop wants, last_sent_, RESEND_MS have passed

stateVars == <<f_, plugs_>>
entityVars == <<traits, shown, last, power, plug_switch>>
jackVars == <<config, battery, link, clock, stateVars, hub, entityVars, out>>

(***************************************************************************)
(* Messages.  A report carries main fields (types 23, 25, 106, 107) or     *)
(* plugs: a full list (type 101 with devType 6), a merge (101 without      *)
(* devType, arrays and points of 102 and 25) or an event of a plug (23).   *)
(* A rejection (123) and a message that is no JSON carry nothing.          *)
(***************************************************************************)

Report(type, fields, items) == [type |-> type, fields |-> fields, items |-> items]
MainReport(g) == Report("main", [x \in g |-> battery.fields[x]], <<>>)
ReportTypes == {"main", "list", "merge", "event", "rejected", "garbled"}

\* A plug as reported; the mode (commMode) is 1 for a local plug and -1 when it is
\* not reported, which for the hub makes no difference to a plug of the cloud (2).
Item(sn, on, mode) == [sn |-> sn, on |-> on, mode |-> mode]
Items(c) == [sn : c.plugs, on : {0, 1}, mode : {-1, 1}]
Mode(sn) == IF sn \in config.local THEN 1 ELSE -1
FullItem(p) == Item(p.sn, p.on, Mode(p.sn))

Command(kind, value) == [kind |-> kind, value |-> value]

\* Type correctness: upsert_plug_ and the full lists keep the plugs within their bound,
\* and nothing is published that no report held.
JackTypeOK ==
  /\ config \in Configs
  /\ battery.fields \in [Fields -> 0..Top]
  /\ \A p \in Range(battery.plugs) : p.sn \in config.plugs /\ p.on \in {0, 1}
  /\ {link.conn, link.sub, link.poll} \subseteq BOOLEAN
  /\ Len(link.cmds) <= MaxCmds /\ Len(link.up) <= MaxUp
  /\ \A i \in DOMAIN link.up : link.up[i].type \in ReportTypes
  /\ clock \in BOOLEAN
  /\ f_ \in [Fields -> (0..Top) \cup {None}]
  /\ Len(plugs_) <= PlugCap
  /\ \A p \in Range(plugs_) : Item(p.sn, p.on, p.mode) \in Items(config) /\ p.fresh \in BOOLEAN
  /\ hub \in [ever : BOOLEAN, online : BOOLEAN, dirty : BOOLEAN, poll_now : BOOLEAN,
              topic : {"yaml", "other"}, client : BOOLEAN, age : 0..2]
  /\ {shown, last} \subseteq [Controls \cup {"sensor"} -> Int]
  /\ power \in [Slots -> config.plugs \cup {None, NaN}]
  /\ plug_switch \in [Slots -> [shown : {None, 0, 1}, last : {None, 0, 1}]]
  /\ out.want \in {None, 0, 1} /\ out.sent \in -1..Top /\ out.due \in BOOLEAN

JackInit ==
  /\ config \in Configs
  /\ battery = [fields |-> [x \in Fields |-> IF x = "hi" THEN DevHi ELSE DevLo], plugs |-> <<>>]
  /\ link = [conn |-> FALSE, sub |-> FALSE, poll |-> FALSE, cmds |-> <<>>, up |-> <<>>]
  /\ clock = config.clock
  /\ f_ = [x \in Fields |-> None] /\ plugs_ = <<>>
  /\ hub = [ever |-> FALSE, online |-> FALSE, dirty |-> TRUE, poll_now |-> FALSE,
            topic |-> "yaml", client |-> FALSE, age |-> 0]
  /\ traits = <<0, Top>>
  /\ shown = [e \in Controls \cup {"sensor"} |-> None] /\ last = shown
  /\ power = [i \in Slots |-> None]
  /\ plug_switch = [i \in Slots |-> [shown |-> None, last |-> None]]
  /\ out = [want |-> None, sent |-> -1, due |-> TRUE]

(***************************************************************************)
(* The plugs                                                               *)
(***************************************************************************)

SnsOf(plugs) == {p.sn : p \in Range(plugs)}
Find(plugs, sn) == CHOOSE k \in DOMAIN plugs : plugs[k].sn = sn

\* What a report does not say of a plug is kept.
Filled(p, item) ==
  [p EXCEPT !.on = item.on, !.mode = IF item.mode = -1 THEN @ ELSE item.mode, !.fresh = TRUE]
Overlaid(plugs, item) == [plugs EXCEPT ![Find(plugs, item.sn)] = Filled(@, item)]
NewPlug(item) == [sn |-> item.sn, on |-> item.on, mode |-> item.mode, fresh |-> TRUE]

upsert_plug_(plugs, item) ==
  IF item.sn \in SnsOf(plugs)
  THEN Overlaid(plugs, item)
  ELSE IF Len(plugs) < PlugCap THEN Append(plugs, NewPlug(item)) ELSE plugs

\* In a full list a later entry of a plug overlays the first.
ListItem(plugs, item) ==
  IF item.sn \in SnsOf(plugs) THEN Overlaid(plugs, item) ELSE Append(plugs, NewPlug(item))

\* An event changes a plug that is known and creates none.
Event(plugs, item) == IF item.sn \in SnsOf(plugs) THEN Overlaid(plugs, item) ELSE plugs

\* The items of a report are taken one after the other.
TakeItem(type, plugs, item) ==
  CASE type = "list" -> ListItem(plugs, item)
    [] type = "merge" -> upsert_plug_(plugs, item)
    [] type = "event" -> Event(plugs, item)
TakeItems(type, plugs, items) ==
  LET after[n \in 0..Len(items)] ==
        IF n = 0 THEN plugs ELSE TakeItem(type, after[n - 1], items[n])
  IN  after[Len(items)]

\* Mutant: a full list is merged like any other.
MutFullListMerges(items) == TakeItems("merge", plugs_, items)

\* A plug that is missing from a full list has been unbound.
FullList(items) ==
  LET all == TakeItems("list", <<>>, items)
  IN  SubSeq(all, 1, IF Len(all) < PlugCap THEN Len(all) ELSE PlugCap)

Rank(i) == Cardinality({j \in Slots : j < i /\ config.pins[j] = 0})
Unpinned(p) == \A j \in Slots : config.pins[j] # p.sn

\* Mutant: an unpinned slot takes its plug from all that were discovered.
MutSlotAny(plugs, i) ==
  IF config.pins[i] # 0
  THEN {p \in Range(plugs) : p.sn = config.pins[i]}
  ELSE {plugs[k] : k \in DOMAIN plugs \cap {Rank(i) + 1}}

\* The plug of a slot, as a set of at most one: the pinned plug if it has been
\* discovered, and for an unpinned slot the n-th of the plugs no slot is pinned to,
\* n being its rank among the unpinned slots.
slot_plug_(plugs, i) ==
  IF config.pins[i] # 0
  THEN IF config.pins[i] \in SnsOf(plugs) THEN {plugs[Find(plugs, config.pins[i])]} ELSE {}
  ELSE LET free == {k \in DOMAIN plugs : Unpinned(plugs[k])}
       IN  {plugs[k] : k \in {k \in free : Cardinality({m \in free : m < k}) = Rank(i)}}

(***************************************************************************)
(* What the entities show                                                  *)
(***************************************************************************)

Fresh == hub.ever /\ hub.age < 2

\* online as publish_states_ sees it.
Online == hub.online \/ Fresh

\* The limits of the setting, as the set of the outcomes number_bounds may have:
\* a limit that has not been reported is left uninitialised when the other has.
number_bounds ==
  IF f_["lo"] = None /\ f_["hi"] = None
  THEN {}
  ELSE (IF f_["lo"] = None THEN Garbage ELSE {f_["lo"]})
         \X (IF f_["hi"] = None THEN Garbage ELSE {f_["hi"]})

\* A sensor becomes NaN when there is no value, unless it never had one.
Sensor(old, known, v) == IF known THEN v ELSE IF old = None THEN None ELSE NaN

\* The entities that a user can set are published only when the value differs from
\* the last one published here; a number has no value while the battery is offline.
Known(e) == Online /\ f_[e] # None
Changed(e) == e \in config.entities /\ Known(e) /\ last[e] # f_[e]
Lost(e) == e = "number" /\ e \in config.entities /\ ~Known(e) /\ last[e] \notin {None, NaN}
Published(e, old) == IF Changed(e) THEN f_[e] ELSE IF Lost(e) THEN NaN ELSE old

PlugKnown(i) == Online /\ \E p \in slot_plug_(plugs_, i) : p.fresh
PlugOf(i) == CHOOSE p \in slot_plug_(plugs_, i) : TRUE

\* There are switches for plugs only where there are plugs that take commands.
HasSwitch == config.local # {}

publish_states_ ==
  /\ shown' = [e \in DOMAIN shown |->
                 IF e = "sensor" THEN Sensor(shown[e], Known(e), f_[e]) ELSE Published(e, shown[e])]
  /\ last' = [e \in DOMAIN last |-> IF e = "sensor" THEN None ELSE Published(e, last[e])]
  /\ power' = [i \in Slots |-> Sensor(power[i], PlugKnown(i), IF PlugKnown(i) THEN PlugOf(i).sn ELSE NaN)]
  /\ plug_switch' = [i \in Slots |->
                       IF HasSwitch /\ PlugKnown(i) /\ plug_switch[i].last # PlugOf(i).on
                       THEN [shown |-> PlugOf(i).on, last |-> PlugOf(i).on] ELSE plug_switch[i]]
  /\ IF Online /\ "number" \in config.entities /\ number_bounds # {}
     THEN \E b \in number_bounds : traits' = IF b[1] <= b[2] THEN b ELSE traits
     ELSE UNCHANGED traits

(***************************************************************************)
(* Sending.  publish_ reports whether a session took the message: there is *)
(* one iff the battery subscribed to the topic as the hub spells it.       *)
(***************************************************************************)

Delivered == link.sub /\ hub.topic = config.spelling

\* A poll burst; without a usable clock none is sent.
Polled == IF Delivered /\ clock THEN [link EXCEPT !.poll = TRUE] ELSE link

\* The bound on the commands under way limits who may send one.
MaySend == Len(link.cmds) < MaxCmds
send_main_command(kind, value) ==
  IF Delivered THEN [link EXCEPT !.cmds = Append(@, Command(kind, value))] ELSE link

(***************************************************************************)
(* The hub                                                                 *)
(***************************************************************************)

\* One pass of loop: a pending poll, the pending publication, and when a second has
\* passed the housekeeping, whose request to publish waits for the next pass.
loop(second) ==
  /\ link' = IF hub.poll_now THEN Polled ELSE link
  /\ IF hub.dirty THEN publish_states_ ELSE UNCHANGED entityVars
  /\ LET online == IF second THEN Fresh ELSE hub.online
     IN  hub' = [hub EXCEPT !.poll_now = FALSE, !.online = online, !.dirty = online # hub.online,
                             !.age = IF second /\ @ = 0 THEN 1 ELSE @]
  /\ UNCHANGED <<config, battery, clock, stateVars, out>>

\* The poll timer.
update ==
  /\ link' = Polled
  /\ UNCHANGED <<config, battery, clock, stateVars, hub, entityVars, out>>

\* A report: the spelling of its topic is adopted, what it carries is merged.
\* Even a rejection counts as a sign of life; what is no JSON does not.
Spelled == [hub EXCEPT !.topic = config.spelling]
Heard == [Spelled EXCEPT !.ever = TRUE, !.age = 0, !.dirty = TRUE]
merge_main_(fields) == [x \in Fields |-> IF x \in DOMAIN fields THEN fields[x] ELSE f_[x]]
ingest(r) ==
  /\ f_' = merge_main_(r.fields)
  /\ plugs_' = CASE r.type = "list" -> FullList(r.items)
                 [] r.type \in {"merge", "event"} -> TakeItems(r.type, plugs_, r.items)
                 [] OTHER -> plugs_
on_message ==
  /\ link.up # <<>>
  /\ link' = [link EXCEPT !.up = Tail(@)]
  /\ IF Head(link.up).type = "garbled"
     THEN hub' = Spelled /\ UNCHANGED stateVars
     ELSE hub' = Heard /\ ingest(Head(link.up))
  /\ UNCHANGED <<config, battery, clock, entityVars, out>>

on_clients_changed(connected) == [hub EXCEPT !.client = connected, !.dirty = TRUE]

\* Mutant: the hub keeps publishing on the topic it was configured with.
MutOnSubscribedAsConfigured ==
  /\ link.conn /\ ~link.sub
  /\ link' = [link EXCEPT !.sub = TRUE]
  /\ hub' = [hub EXCEPT !.poll_now = TRUE]
  /\ UNCHANGED <<config, battery, clock, stateVars, entityVars, out>>

\* The battery subscribes to its action topic: the hub publishes exactly there,
\* and polls from the next pass of loop.
on_subscribed ==
  /\ link.conn /\ ~link.sub
  /\ link' = [link EXCEPT !.sub = TRUE]
  /\ hub' = [hub EXCEPT !.topic = config.spelling, !.poll_now = TRUE]
  /\ UNCHANGED <<config, battery, clock, stateVars, entityVars, out>>

(***************************************************************************)
(* The entities                                                            *)
(***************************************************************************)

\* write_state of a switch, control of a number or a select: the new state is shown
\* at once if the command was delivered.
Clamped(v) == IF v < traits[1] THEN traits[1] ELSE IF v > traits[2] THEN traits[2] ELSE v
control(e, v) ==
  LET value == IF e = "number" THEN Clamped(v) ELSE v
  IN  /\ e \in config.entities
      /\ MaySend
      /\ link' = send_main_command(e, value)
      /\ shown' = IF Delivered THEN [shown EXCEPT ![e] = value] ELSE shown
      /\ UNCHANGED <<config, battery, clock, stateVars, hub, traits, last, power, plug_switch, out>>

\* The switch of a plug: only a plug in local mode takes commands.
send_plug_command(i, on) ==
  LET sent == slot_plug_(plugs_, i) # {} /\ PlugOf(i).mode = 1 /\ Delivered
  IN  /\ HasSwitch
      /\ MaySend
      /\ link' = IF sent THEN [link EXCEPT !.cmds = Append(@, Command("plug", <<PlugOf(i).sn, on>>))]
                 ELSE link
      /\ plug_switch' = IF sent THEN [plug_switch EXCEPT ![i].shown = on] ELSE plug_switch
      /\ UNCHANGED <<config, battery, clock, stateVars, hub, traits, shown, last, power, out>>

send_reboot ==
  /\ config.faults /\ MaySend
  /\ link' = send_main_command("reboot", 1)
  /\ UNCHANGED <<config, battery, clock, stateVars, hub, entityVars, out>>

\* The value the output asks for: 0 and 1 are the ends of the configured range. The
\* only setting an output can drive is the maximum output power, and for that
\* number_bounds knows no limits of the battery that would narrow the range.
Target(want) == IF want = 1 THEN Top ELSE 0

\* Mutant: a value is sent only when it changes.
MutWriteStateOnChange ==
  /\ out.want # None
  /\ MaySend
  /\ IF Target(out.want) = out.sent \/ ~Delivered
     THEN UNCHANGED <<link, out>>
     ELSE /\ link' = send_main_command("number", Target(out.want))
          /\ out' = [out EXCEPT !.sent = Target(out.want), !.due = FALSE]
  /\ UNCHANGED <<config, battery, clock, stateVars, hub, entityVars>>

\* write_state of the output: nothing is sent for RESEND_MS after the same value was.
write_state ==
  /\ out.want # None
  /\ MaySend
  /\ IF (Target(out.want) = out.sent /\ ~out.due) \/ ~Delivered
     THEN UNCHANGED <<link, out>>
     ELSE /\ link' = send_main_command("number", Target(out.want))
          /\ out' = [out EXCEPT !.sent = Target(out.want), !.due = FALSE]
  /\ UNCHANGED <<config, battery, clock, stateVars, hub, entityVars>>

(***************************************************************************)
(* The battery, its session, the control loop and time                     *)
(***************************************************************************)

Connects ==
  /\ ~link.conn
  /\ link' = [link EXCEPT !.conn = TRUE]
  /\ hub' = on_clients_changed(TRUE)
  /\ UNCHANGED <<config, battery, clock, stateVars, entityVars, out>>

NoSession == [conn |-> FALSE, sub |-> FALSE, poll |-> FALSE, cmds |-> <<>>, up |-> <<>>]

Disconnects ==
  /\ config.faults /\ link.conn
  /\ link' = NoSession
  /\ hub' = on_clients_changed(FALSE)
  /\ UNCHANGED <<config, battery, clock, stateVars, entityVars, out>>

\* The battery, its app or another controller change a value or the list of plugs.
Own(c) == (UNION c.groups \ {"lo", "hi"}) \cup (IF "output" \in c.entities THEN {"number"} ELSE {})
Changes ==
  /\ \/ \E x \in Own(config) : \E v \in ValuesOf(x) :
          battery' = [battery EXCEPT !.fields[x] = v]
     \/ \E s \in config.plugs :
          battery' = [battery EXCEPT !.plugs =
                        IF s \in SnsOf(@) THEN RemoveAt(@, Find(@, s))
                        ELSE Append(@, [sn |-> s, on |-> 0])]
  /\ UNCHANGED <<config, link, clock, stateVars, hub, entityVars, out>>

Sends(r) ==
  /\ Len(link.up) < MaxUp
  /\ link' = [link EXCEPT !.up = Append(@, r)]
  /\ UNCHANGED <<config, battery, clock, stateVars, hub, entityVars, out>>

\* The answer to a poll: the main fields, or the full list of the plugs, which may
\* name a plug twice.
Lists == LET items == [k \in DOMAIN battery.plugs |-> FullItem(battery.plugs[k])]
         IN  {items} \cup (IF items = <<>> THEN {} ELSE {Append(items, items[1])})
Answers ==
  /\ link.poll
  /\ Len(link.up) < MaxUp
  /\ \E r \in IF config.plugs # {} THEN {Report("list", <<>>, l) : l \in Lists}
              ELSE {MainReport(g) : g \in config.groups} :
       link' = [link EXCEPT !.poll = FALSE, !.up = Append(@, r)]
  /\ UNCHANGED <<config, battery, clock, stateVars, hub, entityVars, out>>

\* What the battery sends unasked.
Volunteers ==
  /\ link.conn
  /\ \/ \E g \in config.groups : Sends(MainReport(g))
     \/ \E type \in {"merge", "event"}, p \in Range(battery.plugs) :
          Sends(Report(type, <<>>, <<Item(p.sn, p.on, -1)>>))
     \/ \E type \in {"rejected", "garbled"} : config.faults /\ Sends(Report(type, <<>>, <<>>))

\* A command is carried out, or is missed.
Applies ==
  /\ link.cmds # <<>>
  /\ LET c == Head(link.cmds)
     IN  IF c.kind = "reboot"
         THEN /\ link' = NoSession
              /\ hub' = on_clients_changed(FALSE)
              /\ UNCHANGED battery
         ELSE /\ link' = [link EXCEPT !.cmds = Tail(@)]
              /\ battery' = IF c.kind = "plug"
                            THEN [battery EXCEPT !.plugs =
                                    [k \in DOMAIN @ |-> IF @[k].sn = c.value[1]
                                                        THEN [@[k] EXCEPT !.on = c.value[2]] ELSE @[k]]]
                            ELSE [battery EXCEPT !.fields[c.kind] = c.value]
              /\ UNCHANGED hub
  /\ UNCHANGED <<config, clock, stateVars, entityVars, out>>

Misses ==
  /\ link.cmds # <<>>
  /\ link' = [link EXCEPT !.cmds = Tail(@)]
  /\ UNCHANGED <<config, battery, clock, stateVars, hub, entityVars, out>>

\* The control loop decides on another value of the output.
Wants(w) ==
  /\ "output" \in config.entities
  /\ out' = [out EXCEPT !.want = w]
  /\ UNCHANGED <<config, battery, link, clock, stateVars, hub, entityVars>>

ClockUsable ==
  /\ ~clock /\ clock' = TRUE
  /\ UNCHANGED <<config, battery, link, stateVars, hub, entityVars, out>>

\* offline_timeout_ms_ (10 s or more) pass without a report: several passes of loop,
\* one with the housekeeping at least.
TimeoutElapses ==
  /\ hub.ever /\ hub.age = 1
  /\ hub' = [hub EXCEPT !.age = 2]
  /\ plugs_' = [k \in DOMAIN plugs_ |-> [plugs_[k] EXCEPT !.fresh = FALSE]]
  /\ UNCHANGED <<config, battery, link, clock, f_, entityVars, out>>

\* The same, since the last report of one plug.
PlugElapses(k) ==
  /\ k \in DOMAIN plugs_ /\ plugs_[k].fresh /\ hub.age # 0
  /\ plugs_' = [plugs_ EXCEPT ![k].fresh = FALSE]
  /\ UNCHANGED <<config, battery, link, clock, f_, hub, entityVars, out>>

\* RESEND_MS pass.
ResendElapses ==
  /\ ~out.due /\ out' = [out EXCEPT !.due = TRUE]
  /\ UNCHANGED <<config, battery, link, clock, stateVars, hub, entityVars>>

JackNext ==
  \/ \E second \in BOOLEAN : loop(second)
  \/ update \/ on_message \/ on_subscribed
  \/ \E e \in Controls : \E v \in ValuesOf(e) : control(e, v)
  \/ \E i \in Slots, on \in {0, 1} : send_plug_command(i, on)
  \/ send_reboot \/ write_state
  \/ Connects \/ Disconnects \/ Changes \/ Answers \/ Volunteers \/ Applies \/ Misses
  \/ \E w \in {0, 1} : Wants(w)
  \/ ClockUsable \/ TimeoutElapses \/ ResendElapses
  \/ \E k \in 1..PlugCap : PlugElapses(k)

JackSpec == JackInit /\ [][JackNext]_jackVars

\* The main task runs loop, with its housekeeping every second, the broker delivers
\* what arrives, the poll timer and the timeouts go off and the control loop goes on
\* writing its output.  Strong fairness: the battery answers polls, whatever else it
\* sends, and does not miss every command.
JackFairSpec ==
  /\ JackSpec
  /\ WF_jackVars(loop(TRUE)) /\ WF_jackVars(on_message) /\ WF_jackVars(update)
  /\ WF_jackVars(write_state) /\ SF_jackVars(Answers) /\ SF_jackVars(Applies)
  /\ WF_jackVars(ClockUsable) /\ WF_jackVars(ResendElapses)
  /\ WF_jackVars(link.up = <<>> /\ TimeoutElapses)

(***************************************************************************)
(* Properties                                                              *)
(***************************************************************************)

\* Two slots never stand for the same plug, however lists, merges and events have
\* built up plugs_ and whichever slots are pinned, as long as no two are pinned to the
\* same plug (JackeryAssumption): a command for one plug never switches the plug of
\* another slot.
SlotsApart ==
  \A i, j \in Slots :
    i # j => \A p \in slot_plug_(plugs_, i), q \in slot_plug_(plugs_, j) : p.sn # q.sn

\* The state is well formed, and no plug is in two slots.
JackInv == JackTypeOK /\ SlotsApart

\* A sensor does not stay behind the battery: while the battery stays subscribed and
\* its value stays the same, the sensor shows that value again and again, and in the
\* end nothing else but NaN, whichever spelling of the topics the battery uses and
\* however late the clock is set.
SensorsFollow ==
  \A v \in {0, 1} :
    <>[](link.sub /\ "sensor" \in config.entities /\ battery.fields["sensor"] = v)
      => /\ []<>(shown["sensor"] = v)
         /\ <>[](shown["sensor"] \in {v, NaN})

\* There is a slot for every plug of the battery.
Room == \A i \in DOMAIN battery.plugs :
          \E j \in Slots : battery.plugs[i] \in slot_plug_(battery.plugs, j)

\* Every plug that stays bound to the battery is shown by a slot, and in the end no
\* slot shows a plug that is not: the list answered to a poll replaces whatever was
\* merged before.
PlugsShown ==
  \A bound \in SUBSET UNION {c.plugs : c \in Configs} :
    <>[](link.sub /\ config.plugs # {} /\ Room /\ SnsOf(battery.plugs) = bound)
      => /\ []<>({power[i] : i \in Slots} \ {None, NaN} = bound)
         /\ <>[]({power[i] : i \in Slots} \subseteq bound \cup {None, NaN})

\* When no report arrives any more the battery is taken for offline, and no sensor
\* goes on showing a value.
OfflineUnknown ==
  <>[](link.up = <<>>)
    => <>[](/\ ~hub.online
            /\ shown["sensor"] \in {None, NaN}
            /\ \A i \in Slots : power[i] \in {None, NaN})

\* What publish_states_ shows is what the battery says: up to date while it reports,
\* nothing once it has fallen silent.
SensorsHonest == SensorsFollow /\ OfflineUnknown

\* The output prevails: while the battery stays subscribed and the control loop wants
\* the same value, the setting has the value wanted again and again, although commands
\* are missed and others change the setting.
OutputInForce ==
  \A w \in {0, 1} :
    <>[](link.sub /\ out.want = w)
      => []<>(battery.fields["number"] = Target(w))

\* The next report from the battery has the last word on an entity that was changed
\* optimistically (jackerysv3_switch.cpp).
LastWord ==
  \A v \in {0, 1} :
    <>[](link.sub /\ "switch" \in config.entities /\ battery.fields["switch"] = v)
      => []<>(shown["switch"] = v)
=============================================================================
