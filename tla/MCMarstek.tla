------------------------------ MODULE MCMarstek ------------------------------
(* Small instances of Marstek for TLC. *)
EXTENDS Marstek, TLC

CONSTANTS hub, rmode, wmode, wpower

OneHub == <<hub>>
HubRanges == (hub :> <<rmode>>)
HubWrites == (hub :> {wmode, wpower})
HubSkip == (hub :> (rmode :> 0))
=============================================================================
