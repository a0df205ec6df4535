---------------------------- MODULE MCModbusTcp ----------------------------
(* Small instances of ModbusTcp for TLC. *)
EXTENDS ModbusTcp
=============================================================================
