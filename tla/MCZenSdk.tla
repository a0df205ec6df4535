------------------------------ MODULE MCZenSdk ------------------------------
(* A small instance of ZenSdk for TLC. *)
EXTENDS ZenSdk
=============================================================================
