------------------------------- MODULE MCCockpit -------------------------------
(* Model values and the board that is checked. *)
EXTENDS Cockpit, TLC

CONSTANTS i1, i2, f1, f2, f3, hygiene, pending, ready, approve

\* Three findings of one class, the first about an item.
ThreeFindings == <<f1, f2, f3>>
FirstNamesItem == f1 :> i2 @@ f2 :> None @@ f3 :> None
\* A finding that goes leaves the group, and the group may outlive it.
Scans == {{}, {f1, f3}, {f2, f3}}
OneClass == f1 :> hygiene @@ f2 :> hygiene @@ f3 :> hygiene
OfferedIn == approve :> {pending}
\* The empty text matches everything, the other one item and one finding.
Texts == {{i1, i2, f1, f2, f3}, {i2, f1}}

\* The lists of every projection, worked out once: each names rows and nothing else.
ASSUME ListsTyped ==
  /\ RowsOf \in [Projections \X (Queries \cup {None}) \X SUBSET Classes -> Seq(RowIds)]
  /\ ColumnOf \in [Projections \X Lanes -> Seq(Items)]
===============================================================================
