----------------------------- MODULE MCCommandLane -----------------------------
(* Model values and the queues that are checked. *)
EXTENDS CommandLane, TLC

CONSTANTS k1, k2

\* Ids sort by command type: config, factory dispatch, factory drain, work item.
\* A dispatch and a valve of one item:
ItemKind == <<"dispatch", "valve">>
ItemAggregate == <<"item", "item">>
\* ... and with them a drain and a setting, each of an aggregate of its own:
MixedKind == <<"config", "dispatch", "drain", "valve">>
MixedAggregate == <<"repo", "item", "fleet", "item">>

ConsoleSymmetry == Permutations({k1, k2})
===============================================================================
