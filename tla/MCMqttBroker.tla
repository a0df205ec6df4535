---------------------------- MODULE MCMqttBroker ----------------------------
(* Small instances of MqttBroker for TLC. *)
EXTENDS MqttBroker, TLC

CONSTANTS a, t, f

\* The filter f matches the topic t.
MatchedOne == (f :> {t})

\* No step depends on last_connected_, which is only reported to the sinks.
View == <<pc, todo, open, created, st, story>>
=============================================================================
