----------------------------- MODULE MCHmsRadio -----------------------------
(* Small instances of HmsRadio for TLC. *)
EXTENDS HmsRadio, TLC

CONSTANTS i1, i2, d1, d2

\* The default, one serial for the board, and a serial of its own for i2.
Settings == {(i1 :> None) @@ (i2 :> None), (i1 :> None) @@ (i2 :> d2)}

\* The fields that can still be read: `ask` while its "redo" is on the air, the
\* fields of the reassembly until the exchange ends (the next one resets them
\* first).
Relevant(s) ==
  LET r == IF s.tx = "redo" THEN s ELSE [s EXCEPT !.ask = 0]
  IN IF s.op = "wait" THEN r
     ELSE [r EXCEPT !.got = NoFragments, !.last = 0, !.max = 0, !.redo = 0, !.sends = 0]

\* What has been published matters to OwnTelemetry only.
View == <<dtu, lock, chan, air, OwnTelemetry, ended, abandoned,
          [i \in Invs |-> Relevant(st[i])]>>
=============================================================================
