---------------------------- MODULE MCOperatorWrites ----------------------------
(* Model values and the dial that is checked. *)
EXTENDS OperatorWrites, TLC

CONSTANTS off, on

\* A boolean row: a press flips it.
Flip == off :> on @@ on :> off
AllOff == [s \in Settings |-> off]
===============================================================================
