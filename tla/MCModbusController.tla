------------------------ MODULE MCModbusController ------------------------
(* Small instances of ModbusController for TLC. *)
EXTENDS ModbusController, TLC

CONSTANTS d1, d2, r1, r2, w1

OrderTwo == <<d1, d2>>
RangesTwo == (d1 :> <<r1, r2>>) @@ (d2 :> <<r1>>)
WritesTwo == (d1 :> {w1}) @@ (d2 :> {})
SkipTwo == (d1 :> (r1 :> 0 @@ r2 :> 1)) @@ (d2 :> (r1 :> 0))
=============================================================================
