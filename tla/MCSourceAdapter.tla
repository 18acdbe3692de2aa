---------------------------- MODULE MCSourceAdapter ----------------------------
(* Model values for the source adapter. *)
EXTENDS SourceAdapter, TLC

CONSTANT i1

\* What the checked properties say ends where a poll's record was lost.
Converged == ~diverged
===============================================================================
