----------------------------- MODULE MCJackery -----------------------------
(***************************************************************************)
(* Small instances of Jackery for TLC: a hub with a sensor and every fault *)
(* of the session, a hub with the number, a hub whose output is written by *)
(* a control loop, a hub with two plugs and two slots, the first of them   *)
(* pinned, and a hub with one plug that takes commands.                    *)
(***************************************************************************)
EXTENDS Jackery

\* An uninitialised float: below, within or above the configured range.
MCGarbage == -1..Top + 1

NoPins == [i \in Slots |-> 0]
Hub(entities, groups, plugs, local, pins) ==
  [entities |-> entities, groups |-> groups, plugs |-> plugs, local |-> local,
   pins |-> pins, spelling |-> "yaml", clock |-> TRUE, faults |-> FALSE]

MCConfigs ==
  {[Hub({"sensor"}, {{"sensor"}}, {}, {}, NoPins)
      EXCEPT !.spelling = "other", !.clock = FALSE, !.faults = TRUE],
   Hub({"number"}, {{"number", "lo", "hi"}}, {}, {}, NoPins),
   Hub({"output"}, {{"number"}}, {}, {}, NoPins),
   Hub({}, {}, {1, 2}, {}, [NoPins EXCEPT ![1] = 2]),
   Hub({}, {}, {1}, {1}, NoPins)}

\* A hub with a switch, for the last word on an entity.
SwitchConfigs == {Hub({"switch"}, {{"switch"}}, {}, {}, NoPins)}
=============================================================================
