------------------------------ MODULE CockpitProofs -----------------------------
(***************************************************************************)
(* Proofs about the verbs of the cockpit, for any board, any findings, any *)
(* rule of which lanes offer a valve, and any refresh between the keys.    *)
(*                                                                         *)
(* The argument: while a verb is staged the frame on the screen is that of *)
(* the events in hand, no movement or change of view is taken (Consented), *)
(* and the lane's cursor holds the item it was staged on (LaneHeld).  What *)
(* the rows of a list are plays no part there.                             *)
(*                                                                         *)
(* It does for the cursor of the Attention list: that no list names a row  *)
(* twice, whatever is folded, bounds the positions (TypeOK) and makes the  *)
(* id of a row lead back to that row alone (CursorFollows).                *)
(***************************************************************************)
EXTENDS Cockpit, ListLemmas

Staged == overlay.kind \in {"valve", "dispatch"}

\* A staged verb is on the screen as it is, and a command is sent for a moment.
Consented ==
  /\ sent # None => tick = "sent"
  /\ Staged => tick = "input" /\ frame = Target
  /\ overlay.kind = "dispatch" => overlay.verb = None
  /\ overlay.kind = "valve" => overlay.verb \in Valves

\* A valve staged on an item chosen in a lane: the lane's cursor is on that item.
LaneHeld ==
  overlay.kind = "valve" /\ overlay.held /\ view = "lanes" =>
    drill # None /\ column.id # None /\ column.id = overlay.item

-------------------------------------------------------------------------------
(* Selections *)

\* No valve is offered for no item.
LEMMA NothingOffered ==
  ASSUME NEW v \in Valves, NEW i, LaneOf(i) \in ValidIn[v]
  PROVE  i # None
BY NamesAssumption, OffersAssumption DEF NamesAssumption, OffersAssumption, LaneOf

\* An item selected in a lane by a cursor that names one is the one it names.
LEMMA LaneSelection ==
  ASSUME view = "lanes", column.id # None, SelectedItem # None
  PROVE  drill # None /\ SelectedItem = column.id
<1>1. ColumnRow # 0 /\ SelectedItem = Column[ColumnRow]
  BY DEF SelectedItem
<1>2. drill # None /\ \E n \in DOMAIN Column : Column[n] = column.id
  BY <1>1 DEF ColumnRow
<1>3. ColumnRow = CHOOSE n \in DOMAIN Column : Column[n] = column.id
  BY <1>2 DEF ColumnRow
<1>4. Column[ColumnRow] = column.id
  BY <1>2, <1>3
<1> QED BY <1>1, <1>2, <1>4

-------------------------------------------------------------------------------
(* Consent *)

\* A search, or no overlay, stages nothing.
LEMMA SearchFields ==
  /\ Closed.kind = "none"
  /\ \A q : [Closed EXCEPT !.kind = "search", !.query = q].kind = "search"
BY DEF Closed

\* The initial state, in which nothing is staged or sent.
LEMMA InitConsent == Init => Consented /\ LaneHeld /\ sent = None
BY DEF Init, Consented, LaneHeld, Staged, Closed

\* Every step but Enter on a staged verb leaves no command sent, and every step
\* that leaves one staged has drawn it.
LEMMA ConsentedStep == ASSUME Consented, [Next]_vars PROVE Consented'
<1> USE DEF Staged
<1>1. CASE Down \/ Up
  BY <1>1 DEF Down, Up, Move, AtKey, Consented, Target
<1>2. CASE \/ Jump \/ Acknowledge \/ ToggleGroup \/ ReturnToOverview
           \/ (\E v \in {"attention", "lanes"} : SwitchView(v))
           \/ (\E l \in Lanes : Drill(l))
  BY <1>2 DEF Jump, Acknowledge, ToggleGroup, ReturnToOverview, SwitchView, Drill, Drawn, Consented
<1>3. CASE OpenSearch \/ CloseOverlay \/ (\E q \in Queries : TypeSearch(q))
  <2>1. overlay'.kind \in {"none", "search"} /\ Drawn
    BY <1>3, SearchFields DEF OpenSearch, CloseOverlay, TypeSearch, Overlays
  <2> QED BY <2>1 DEF Drawn, Consented
<1>4. CASE (\E v \in Valves : StageValve(v)) \/ StageDispatch
  BY <1>4 DEF StageValve, StageDispatch, Overlays, Closed, Drawn, Consented
<1>5. CASE Confirm
  BY <1>5 DEF Confirm, Closed, Drawn, Consented
<1>6. CASE EndBurst \/ Refresh
  BY <1>6 DEF EndBurst, Refresh, Drawn, Consented, ui
<1>7. CASE UNCHANGED vars
  <2>1. Rows' = Rows /\ Column' = Column
    BY <1>7 DEF vars, Rows, Column
  <2>2. InboxRow' = InboxRow
    BY <1>7, <2>1 DEF vars, InboxRow
  <2>3. ColumnRow' = ColumnRow
    BY <1>7, <2>1 DEF vars, ColumnRow
  <2>4. InboxItem' = InboxItem
    BY <2>1, <2>2 DEF InboxItem
  <2>5. SelectedItem' = SelectedItem
    BY <1>7, <2>1, <2>3, <2>4 DEF vars, SelectedItem
  <2> QED BY <1>7, <2>5 DEF vars, Consented, Target
<1> QED BY <1>1, <1>2, <1>3, <1>4, <1>5, <1>6, <1>7 DEF Next, Key

\* A command that a step sends is for the item the frame named, and offered there.
LEMMA SentIsShown == ASSUME Consented, ConsentHeld, [Next]_vars PROVE ConsentHeld'
<1>1. CASE Confirm
  <2>1. Staged /\ frame = Target
    BY <1>1 DEF Confirm, Consented, Staged
  <2>2. CASE sent' # None
    <3> DEFINE i == IF overlay.kind = "dispatch" THEN overlay.item ELSE ValveItem
    <3>1. /\ overlay.kind = "dispatch" \/ Offered(i)
          /\ sent' = [verb |-> overlay.verb, item |-> i,
                      staged |-> overlay.item, held |-> overlay.held]
          /\ frame' = frame
      BY <1>1, <2>2 DEF Confirm, Drawn
    <3>2. i = frame
      BY <2>1 DEF Target, ValveItem, Staged
    <3>3. sent'.item = i /\ sent'.verb = overlay.verb
      BY <3>1
    <3>4. sent'.item = frame'
      BY <3>1, <3>2, <3>3
    <3>5. sent'.verb # None => LaneOf(i) \in ValidIn[overlay.verb]
      BY <3>1, <3>3 DEF Offered, Consented
    <3>6. UNCHANGED events
      BY <1>1 DEF Confirm
    <3> HIDE DEF i
    <3> QED BY <3>3, <3>4, <3>5, <3>6 DEF ConsentHeld, LaneOf
  <2> QED BY <2>2 DEF ConsentHeld
<1>2. CASE Down \/ Up
  <2>1. sent' = None
    BY <1>2 DEF Down, Up, Move, AtKey, Consented
  <2> QED BY <2>1 DEF ConsentHeld
<1>3. CASE \/ Jump \/ Acknowledge \/ ToggleGroup \/ ReturnToOverview
           \/ (\E v \in {"attention", "lanes"} : SwitchView(v))
           \/ (\E l \in Lanes : Drill(l))
           \/ OpenSearch \/ CloseOverlay \/ (\E q \in Queries : TypeSearch(q))
           \/ (\E v \in Valves : StageValve(v)) \/ StageDispatch
           \/ EndBurst \/ Refresh
  <2>1. sent' = None
    BY <1>3 DEF Jump, Acknowledge, ToggleGroup, ReturnToOverview, SwitchView, Drill, OpenSearch,
                CloseOverlay, TypeSearch, StageValve, StageDispatch, Overlays, EndBurst, Refresh,
                Drawn
  <2> QED BY <2>1 DEF ConsentHeld
<1>4. CASE UNCHANGED vars
  BY <1>4 DEF vars, ConsentHeld, LaneOf
<1> QED BY <1>1, <1>2, <1>3, <1>4 DEF Next, Key

\* ConsentHeld: Enter does what the screen says, to the item it names.
THEOREM EnterDoesWhatIsShown == Spec => []ConsentHeld
<1>1. Init => Consented /\ ConsentHeld
  BY InitConsent DEF ConsentHeld
<1>2. Consented /\ ConsentHeld /\ [Next]_vars => (Consented /\ ConsentHeld)'
  BY ConsentedStep, SentIsShown
<1> QED BY <1>1, <1>2, PTL DEF Spec

-------------------------------------------------------------------------------
(* The item a lane's verb was staged on *)

\* While a valve is staged in a lane no key moves the lane's cursor.
LEMMA LaneHeldStep == ASSUME Consented, LaneHeld, [Next]_vars PROVE LaneHeld'
<1>1. CASE Down \/ Up
  BY <1>1 DEF Down, Up, Move, LaneHeld
<1>2. CASE \/ Jump \/ Acknowledge \/ ToggleGroup \/ ReturnToOverview
           \/ (\E v \in {"attention", "lanes"} : SwitchView(v))
           \/ (\E l \in Lanes : Drill(l))
  BY <1>2 DEF Jump, Acknowledge, ToggleGroup, ReturnToOverview, SwitchView, Drill, MovesTo, LaneHeld
<1>3. CASE OpenSearch \/ CloseOverlay \/ (\E q \in Queries : TypeSearch(q))
  <2>1. overlay'.kind \in {"none", "search"}
    BY <1>3, SearchFields DEF OpenSearch, CloseOverlay, TypeSearch, Overlays
  <2> QED BY <2>1 DEF LaneHeld
<1>7. CASE StageDispatch
  BY <1>7 DEF StageDispatch, Overlays, Closed, LaneHeld
<1>4. ASSUME NEW v \in Valves, StageValve(v) PROVE LaneHeld'
  <2>1. /\ overlay'.held = Held /\ overlay'.item = SelectedItem
        /\ UNCHANGED <<view, drill, column>>
    BY <1>4 DEF StageValve, Overlays, Closed
  <2>2. SelectedItem # None
    BY <1>4, NothingOffered DEF StageValve
  <2>3. view = "lanes" /\ Held => column.id # None
    BY DEF Held
  <2> QED BY <2>1, <2>2, <2>3, LaneSelection DEF LaneHeld
<1>5. CASE Confirm
  BY <1>5 DEF Confirm, Closed, LaneHeld
<1>6. CASE EndBurst \/ Refresh \/ UNCHANGED vars
  BY <1>6 DEF EndBurst, Refresh, vars, ui, LaneHeld
<1> QED BY <1>1, <1>2, <1>3, <1>4, <1>5, <1>6, <1>7 DEF Next, Key

\* A command that a step sends from a lane is for the item it was staged on.
LEMMA SentIsStaged ==
  ASSUME Consented, LaneHeld, LaneVerbKeepsItem, [Next]_vars PROVE LaneVerbKeepsItem'
<1>1. CASE Confirm
  <2>1. CASE sent' # None /\ sent'.held /\ view' = "lanes"
    <3>1. sent' = [verb |-> overlay.verb,
                   item |-> IF overlay.kind = "dispatch" THEN overlay.item ELSE ValveItem,
                   staged |-> overlay.item, held |-> overlay.held]
      BY <1>1, <2>1 DEF Confirm, Drawn
    <3>2. view = "lanes" /\ overlay.held /\ overlay.kind \in {"valve", "dispatch"}
      BY <1>1, <2>1, <3>1 DEF Confirm
    <3>3. CASE overlay.kind = "dispatch"
      BY <3>1, <3>3 DEF LaneVerbKeepsItem
    <3>4. CASE overlay.kind = "valve"
      <4>1. overlay.verb \in Valves /\ Offered(ValveItem)
        BY <1>1, <2>1, <3>4 DEF Confirm, Drawn, Consented
      <4>2. ValveItem # None /\ ValveItem = SelectedItem
        BY <4>1, NothingOffered DEF Offered, ValveItem
      <4>3. SelectedItem = overlay.item
        BY <3>2, <3>4, <4>2, LaneSelection DEF LaneHeld
      <4> QED BY <3>1, <3>4, <4>2, <4>3 DEF LaneVerbKeepsItem
    <3> QED BY <3>2, <3>3, <3>4
  <2> QED BY <2>1 DEF LaneVerbKeepsItem
<1>2. CASE ~Confirm /\ Next
  <2>1. sent' = None
    BY <1>2 DEF Next, Key, Down, Up, Move, AtKey, Consented, Jump, Acknowledge, ToggleGroup,
                ReturnToOverview, SwitchView, Drill, OpenSearch, CloseOverlay, TypeSearch,
                StageValve, StageDispatch, Overlays, EndBurst, Refresh, Drawn
  <2> QED BY <2>1 DEF LaneVerbKeepsItem
<1>3. CASE UNCHANGED vars
  BY <1>3 DEF vars, LaneVerbKeepsItem
<1> QED BY <1>1, <1>2, <1>3

\* LaneVerbKeepsItem: a verb staged in a lane stays with its item.
THEOREM LaneVerbStays == Spec => []LaneVerbKeepsItem
<1> DEFINE Inv == Consented /\ LaneHeld /\ LaneVerbKeepsItem
<1>1. Init => Inv
  BY InitConsent DEF LaneVerbKeepsItem
<1>2. Inv /\ [Next]_vars => Inv'
  BY ConsentedStep, LaneHeldStep, SentIsStaged
<1> QED BY <1>1, <1>2, PTL DEF Spec

-------------------------------------------------------------------------------
(* The lists *)

\* Keeping the members of S keeps each once, and no other.
LEMMA KeptMembers ==
  ASSUME NEW X, NEW s \in Seq(X), NEW S
  PROVE  /\ Kept(s, S) \in Seq(X)
         /\ ToSet(Kept(s, S)) = ToSet(s) \cap S
         /\ IsInjective(s) => IsInjective(Kept(s, S))
<1> DEFINE ss == [n \in DOMAIN s |-> IF s[n] \in S THEN <<s[n]>> ELSE <<>>]
<1>0. Len(s) \in Nat /\ DOMAIN s = 1 .. Len(s) /\ \A n \in 1 .. Len(s) : s[n] \in X
  OBVIOUS
<1>1. \A n \in 1 .. Len(s) : /\ ss[n] \in Seq(X)
                             /\ ToSet(ss[n]) = {s[n]} \cap S
                             /\ IsInjective(ss[n])
  BY <1>0 DEF ToSet, IsInjective
<1>2. ss \in Seq(Seq(X)) /\ Len(ss) = Len(s)
  <2>1. DOMAIN ss = 1 .. Len(s)
    BY <1>0
  <2>2. ss = [n \in 1 .. Len(s) |-> ss[n]]
    BY <1>0
  <2> HIDE DEF ss
  <2>3. ss \in [1 .. Len(s) -> Seq(X)]
    BY <1>1, <2>2
  <2> QED BY <1>0, <2>3
<1> HIDE DEF ss
<1>3. Kept(s, S) = FlattenSeq(ss)
  BY DEF Kept, ss
<1>4. Members(ss, Len(ss)) = ToSet(s) \cap S
  BY <1>0, <1>1, <1>2 DEF Members, ToSet
<1>5. ASSUME IsInjective(s), NEW i \in 1 .. Len(ss), NEW j \in 1 .. Len(ss), i # j
      PROVE  ToSet(ss[i]) \cap ToSet(ss[j]) = {}
  <2>1. s[i] # s[j]
    BY <1>0, <1>2, <1>5 DEF IsInjective
  <2> QED BY <1>1, <1>2, <2>1
<1>6. IsInjective(s) => IsInjective(FlattenSeq(ss))
  BY <1>1, <1>2, <1>5, FlattenOnce
<1> QED BY <1>2, <1>3, <1>4, <1>6, FlattenMembers

\* An order of the items is a list of them, each once.
LEMMA OrdersList ==
  ASSUME NEW o \in Orders
  PROVE  o \in Seq(Items) /\ IsInjective(o)
<1>1. Cardinality(Items) \in Nat
  BY ListsAssumption, FS_CardinalityType DEF ListsAssumption
<1>2. o \in [1 .. Cardinality(Items) -> Items] /\ \A i, j \in 1 .. Cardinality(Items) : i # j => o[i] # o[j]
  BY DEF Orders, SetToSeqs
<1> QED BY <1>1, <1>2 DEF IsInjective

\* The entries of the Attention list name no item and no finding twice: an item's
\* id is no finding's, and each kind is listed once.
LEMMA EntriesList ==
  ASSUME NEW p \in Projections, NEW q
  PROVE  Entries(p, q) \in Seq(Subjects) /\ IsInjective(Entries(p, q))
<1> DEFINE base == p.order \o Findings
<1>1. p.order \in Seq(Items) /\ IsInjective(p.order)
  BY OrdersList DEF Projections
<1>2. Findings \in Seq(ToSet(Findings)) /\ IsInjective(Findings)
  BY ListsAssumption DEF ListsAssumption
<1>3. p.order \in Seq(Subjects) /\ Findings \in Seq(Subjects)
  BY <1>1, <1>2 DEF Subjects
<1>4. ToSet(p.order) \subseteq Items
  BY <1>1 DEF ToSet
<1>5. ToSet(p.order) \cap ToSet(Findings) = {}
  BY <1>4, NamesAssumption DEF NamesAssumption
<1>6. base \in Seq(Subjects) /\ IsInjective(base)
  BY <1>1, <1>2, <1>3, <1>5, ConcatMembers, ConcatOnce
<1> HIDE DEF base
<1>7. \A S : Kept(base, S) \in Seq(Subjects) /\ IsInjective(Kept(base, S))
  BY <1>6, KeptMembers
<1> QED BY <1>7 DEF Entries, base

\* A lane lists no item twice.
LEMMA ColumnList ==
  ASSUME NEW p \in Projections, NEW l \in Lanes
  PROVE  LaneItems(p, l) \in Seq(Items) /\ IsInjective(LaneItems(p, l))
<1>1. p.order \in Seq(Items) /\ IsInjective(p.order)
  BY OrdersList DEF Projections
<1>2. LaneItems(p, l) = Kept(p.order, {i \in Items : p.lane[i] = l})
  BY DEF LaneItems
<1> QED BY <1>1, <1>2, KeptMembers

\* No two rows of the Attention list have the same id, folded or not: the rows an
\* entry brings are itself, or its class and the class's members, and only one
\* entry of a class brings them.
LEMMA RowsList ==
  ASSUME NEW p \in Projections, NEW q \in Queries \cup {None}, NEW expanded \in SUBSET Classes
  PROVE  AttentionRows(p, q, expanded) \in Seq(RowIds) /\ IsInjective(AttentionRows(p, q, expanded))
<1> DEFINE entries == Entries(p, q)
           class(x) == IF x \in Items \/ q # None THEN None ELSE Class[x]
           members(c) == Kept(entries, {x \in Subjects : class(x) = c})
           rowsFor(x) ==
             IF class(x) = None \/ Len(members(class(x))) = 1 THEN <<x>>
             ELSE IF Head(members(class(x))) # x THEN <<>>
             ELSE <<class(x)>> \o IF class(x) \in expanded THEN members(class(x)) ELSE <<>>
           ss == [n \in DOMAIN entries |-> rowsFor(entries[n])]
<1>1. AttentionRows(p, q, expanded) = FlattenSeq(ss)
  BY DEF AttentionRows
<1>2. entries \in Seq(Subjects) /\ IsInjective(entries)
  BY EntriesList
<1>3. Len(entries) \in Nat /\ DOMAIN entries = 1 .. Len(entries)
      /\ (\A n \in 1 .. Len(entries) : entries[n] \in Subjects)
  BY <1>2
<1>4. \A x \in Subjects : class(x) = None \/ class(x) \in Classes
  BY DEF Subjects, Classes
<1>5. Classes \cap Subjects = {} /\ Subjects \subseteq RowIds /\ Classes \subseteq RowIds
  BY NamesAssumption DEF NamesAssumption, RowIds
<1> HIDE DEF entries, class
<1>6. \A c : /\ members(c) \in Seq(Subjects) /\ IsInjective(members(c))
             /\ ToSet(members(c)) = {x \in ToSet(entries) : class(x) = c}
  <2> TAKE c
  <2>1. ToSet(entries) \subseteq Subjects
    BY <1>3 DEF ToSet
  <2> QED BY <1>2, <2>1, KeptMembers
<1> HIDE DEF members
\* What the entry x brings: itself, or its class and the members of the class.
<1>7. ASSUME NEW x \in Subjects
      PROVE  /\ rowsFor(x) \in Seq(RowIds) /\ IsInjective(rowsFor(x))
             /\ \A y \in ToSet(rowsFor(x)) :
                  \/ y = x
                  \/ /\ class(x) # None /\ Len(members(class(x))) # 1 /\ Head(members(class(x))) = x
                     /\ y = class(x) \/ y \in ToSet(members(class(x)))
             /\ rowsFor(x) # <<>> /\ class(x) # None =>
                  Len(members(class(x))) = 1 \/ Head(members(class(x))) = x
  <2>1. CASE class(x) = None \/ Len(members(class(x))) = 1
    <3>1. rowsFor(x) = <<x>>
      BY <2>1
    <3>2. x \in RowIds
      BY <1>5
    <3> HIDE DEF rowsFor
    <3> QED BY <2>1, <3>1, <3>2 DEF ToSet, IsInjective
  <2>2. CASE class(x) # None /\ Len(members(class(x))) # 1 /\ Head(members(class(x))) # x
    <3>1. rowsFor(x) = <<>>
      BY <2>2
    <3> HIDE DEF rowsFor
    <3> QED BY <3>1 DEF ToSet, IsInjective
  <2>3. CASE class(x) # None /\ Len(members(class(x))) # 1 /\ Head(members(class(x))) = x
    <3> DEFINE c == class(x)
               more == IF c \in expanded THEN members(c) ELSE <<>>
    <3>1. rowsFor(x) = <<c>> \o more
      BY <2>3
    <3>2. c \in Classes /\ c \in RowIds /\ c \notin Subjects
      BY <1>4, <1>5, <2>3
    <3>3. members(c) \in Seq(RowIds) /\ ToSet(members(c)) \subseteq Subjects
      BY <1>5, <1>6 DEF ToSet
    <3>4. /\ more \in Seq(RowIds) /\ IsInjective(more) /\ ToSet(more) \subseteq ToSet(members(c))
      BY <1>6, <3>3 DEF ToSet, IsInjective
    <3>5. <<c>> \in Seq(RowIds) /\ IsInjective(<<c>>) /\ ToSet(<<c>>) = {c}
      BY <3>2 DEF ToSet, IsInjective
    <3> HIDE DEF c, more, rowsFor
    <3>6. <<c>> \o more \in Seq(RowIds) /\ ToSet(<<c>> \o more) = {c} \cup ToSet(more)
      <4> DEFINE one == <<c>>
      <4>1. one \in Seq(RowIds) /\ ToSet(one) = {c} /\ more \in Seq(RowIds)
        BY <3>4, <3>5
      <4> HIDE DEF one
      <4>2. one \o more \in Seq(RowIds) /\ ToSet(one \o more) = ToSet(one) \cup ToSet(more)
        BY <4>1, ConcatMembers
      <4> QED BY <4>1, <4>2 DEF one
    <3>7. IsInjective(<<c>> \o more)
      BY <3>2, <3>3, <3>4, <3>5, ConcatOnce
    <3> QED BY <2>3, <3>1, <3>4, <3>6, <3>7 DEF c
  <2> QED BY <2>1, <2>2, <2>3
<1>8. ASSUME NEW x \in ToSet(entries), NEW y \in ToSet(entries), x # y,
             NEW z, z \in ToSet(rowsFor(x)), z \in ToSet(rowsFor(y))
      PROVE  FALSE
  <2>1. x \in Subjects /\ y \in Subjects
    BY <1>3 DEF ToSet
  <2>2. rowsFor(x) # <<>> /\ rowsFor(y) # <<>>
    <3> HIDE DEF rowsFor
    <3> QED BY <1>8 DEF ToSet
  <2> HIDE DEF rowsFor
  <2>3. \A c : \A w \in ToSet(members(c)) : class(w) = c /\ w \in Subjects
    BY <1>6, <1>3 DEF ToSet
  <2>4. class(x) = class(y) /\ class(x) # None => Len(members(class(x))) # 1
    <3> SUFFICES ASSUME class(x) = class(y), Len(members(class(x))) = 1 PROVE FALSE
      OBVIOUS
    <3>1. x \in ToSet(members(class(x))) /\ y \in ToSet(members(class(x)))
      BY <1>6, <1>8
    <3>2. DOMAIN members(class(x)) = {1}
      BY <1>6
    <3> QED BY <1>8, <3>1, <3>2 DEF ToSet
  <2>5. class(x) = class(y) => class(x) = None
    BY <1>7, <1>8, <2>1, <2>2, <2>4
  <2>6. \A w \in Subjects : class(w) # w
    BY <1>4, <1>5, NamesAssumption DEF NamesAssumption, RowIds
  <2>7. class(x) \notin Subjects /\ class(y) \notin Subjects
    BY <1>4, <1>5, <2>1, NamesAssumption DEF NamesAssumption, RowIds
  <2>8. z = x \/ (class(x) # None /\ (z = class(x) \/ z \in ToSet(members(class(x)))))
    BY <1>7, <1>8, <2>1
  <2>9. z = y \/ (class(y) # None /\ (z = class(y) \/ z \in ToSet(members(class(y)))))
    BY <1>7, <1>8, <2>1
  <2> QED BY <1>8, <2>1, <2>3, <2>5, <2>7, <2>8, <2>9
<1>9. ss \in Seq(Seq(RowIds)) /\ Len(ss) = Len(entries)
  <2> HIDE DEF rowsFor
  <2>1. \A n \in 1 .. Len(entries) : rowsFor(entries[n]) \in Seq(RowIds)
    BY <1>3, <1>7
  <2>2. ss \in [1 .. Len(entries) -> Seq(RowIds)]
    BY <1>3, <2>1
  <2> HIDE DEF ss
  <2> QED BY <1>3, <2>2
<1>10. \A n \in 1 .. Len(ss) : ss[n] = rowsFor(entries[n]) /\ IsInjective(ss[n])
  <2> HIDE DEF rowsFor
  <2> QED BY <1>3, <1>7, <1>9
<1>11. ASSUME NEW i \in 1 .. Len(ss), NEW j \in 1 .. Len(ss), i # j
       PROVE  ToSet(ss[i]) \cap ToSet(ss[j]) = {}
  <2>1. entries[i] # entries[j] /\ entries[i] \in ToSet(entries) /\ entries[j] \in ToSet(entries)
    BY <1>2, <1>3, <1>9, <1>11 DEF IsInjective, ToSet
  <2> HIDE DEF rowsFor, ss
  <2> QED BY <1>8, <1>10, <2>1
<1> HIDE DEF ss
<1> QED BY <1>1, <1>9, <1>10, <1>11, FlattenMembers, FlattenOnce

\* Folding hides nothing the operator must attend to and makes nothing up: every
\* entry has its row or its class's, every other row is an entry, and a class has
\* a row only if it has two entries to fold (attention_rows: there is no group of one).
THEOREM NothingFoldedAway ==
  ASSUME NEW p \in Projections, NEW q \in Queries \cup {None}, NEW expanded \in SUBSET Classes
  PROVE  LET rows == ToSet(AttentionRows(p, q, expanded))
             entries == ToSet(Entries(p, q))
         IN  /\ \A x \in entries : x \in rows \/ Group(x) \in rows
             /\ rows \ Classes \subseteq entries
             /\ \A c \in rows \cap Classes :
                  \E x, y \in entries : x # y /\ Group(x) = c /\ Group(y) = c
<1> DEFINE entries == Entries(p, q)
           class(x) == IF x \in Items \/ q # None THEN None ELSE Class[x]
           members(c) == Kept(entries, {x \in Subjects : class(x) = c})
           rowsFor(x) ==
             IF class(x) = None \/ Len(members(class(x))) = 1 THEN <<x>>
             ELSE IF Head(members(class(x))) # x THEN <<>>
             ELSE <<class(x)>> \o IF class(x) \in expanded THEN members(class(x)) ELSE <<>>
           ss == [n \in DOMAIN entries |-> rowsFor(entries[n])]
           rows == ToSet(AttentionRows(p, q, expanded))
<1>1. AttentionRows(p, q, expanded) = FlattenSeq(ss)
  BY DEF AttentionRows
<1>2. entries \in Seq(Subjects) /\ IsInjective(entries)
  BY EntriesList
<1>3. /\ Len(entries) \in Nat /\ DOMAIN entries = 1 .. Len(entries)
      /\ \A n \in 1 .. Len(entries) : entries[n] \in Subjects
      /\ ToSet(entries) \subseteq Subjects
  BY <1>2 DEF ToSet
<1>4. \A x \in Subjects : /\ class(x) = None \/ class(x) \in Classes
                          /\ class(x) # None => class(x) = Group(x)
  BY DEF Subjects, Classes, Group
<1>5. Classes \cap Subjects = {} /\ None \notin Classes
  BY NamesAssumption DEF NamesAssumption, RowIds
<1> HIDE DEF entries, class
<1>6. \A c : /\ members(c) \in Seq(Subjects) /\ IsInjective(members(c))
             /\ ToSet(members(c)) = {x \in ToSet(entries) : class(x) = c}
  BY <1>2, <1>3, KeptMembers
<1> HIDE DEF members
\* What an entry brings, by the three cases of attention_rows.
<1>7. ASSUME NEW x \in ToSet(entries), class(x) = None \/ Len(members(class(x))) = 1
      PROVE  ToSet(rowsFor(x)) = {x} /\ rowsFor(x) \in Seq(Subjects \cup Classes)
  <2>1. rowsFor(x) = <<x>>
    BY <1>7
  <2> HIDE DEF rowsFor
  <2> QED BY <2>1, <1>3 DEF ToSet
<1>8. ASSUME NEW x \in ToSet(entries), class(x) # None, Len(members(class(x))) # 1,
             Head(members(class(x))) # x
      PROVE  ToSet(rowsFor(x)) = {} /\ rowsFor(x) \in Seq(Subjects \cup Classes)
  <2>1. rowsFor(x) = <<>>
    BY <1>8
  <2> HIDE DEF rowsFor
  <2> QED BY <2>1 DEF ToSet
<1>9. ASSUME NEW x \in ToSet(entries), class(x) # None, Len(members(class(x))) # 1,
             Head(members(class(x))) = x
      PROVE  /\ class(x) \in ToSet(rowsFor(x)) /\ rowsFor(x) \in Seq(Subjects \cup Classes)
             /\ ToSet(rowsFor(x)) \subseteq {class(x)} \cup ToSet(entries)
  <2> DEFINE c == class(x)
             one == <<c>>
             more == IF c \in expanded THEN members(c) ELSE <<>>
  <2>1. rowsFor(x) = one \o more
    BY <1>9
  <2>2. more \in Seq(Subjects \cup Classes) /\ ToSet(more) \subseteq ToSet(entries)
    <3>1. members(c) \in Seq(Subjects) /\ ToSet(members(c)) \subseteq ToSet(entries)
      BY <1>6
    <3> HIDE DEF c
    <3>2. members(c) \in Seq(Subjects \cup Classes)
      BY <3>1
    <3>3. <<>> \in Seq(Subjects \cup Classes) /\ ToSet(<<>>) \subseteq ToSet(entries)
      BY DEF ToSet
    <3>4. more = members(c) \/ more = <<>>
      OBVIOUS
    <3> HIDE DEF more
    <3> QED BY <3>1, <3>2, <3>3, <3>4
  <2>3. one \in Seq(Subjects \cup Classes) /\ ToSet(one) = {c}
    BY <1>3, <1>4, <1>9 DEF ToSet
  <2> HIDE DEF one, more, rowsFor
  <2>4. one \o more \in Seq(Subjects \cup Classes) /\ ToSet(one \o more) = ToSet(one) \cup ToSet(more)
    BY <2>2, <2>3, ConcatMembers
  <2> QED BY <2>1, <2>2, <2>3, <2>4 DEF c
<1>10. \A x \in ToSet(entries) : rowsFor(x) \in Seq(Subjects \cup Classes)
  <2> HIDE DEF rowsFor
  <2> QED BY <1>7, <1>8, <1>9
<1>11. rows = UNION {ToSet(rowsFor(x)) : x \in ToSet(entries)}
  <2> HIDE DEF rowsFor
  <2>1. \A n \in 1 .. Len(entries) : rowsFor(entries[n]) \in Seq(Subjects \cup Classes)
    BY <1>3, <1>10 DEF ToSet
  <2>2. ss \in [1 .. Len(entries) -> Seq(Subjects \cup Classes)]
    BY <1>3, <2>1
  <2>3. \A n \in 1 .. Len(entries) : ss[n] = rowsFor(entries[n])
    BY <1>3
  <2> HIDE DEF ss
  <2>4. ss \in Seq(Seq(Subjects \cup Classes)) /\ Len(ss) = Len(entries)
    BY <1>3, <2>2
  <2>5. rows = Members(ss, Len(entries))
    BY <1>1, <2>4, FlattenMembers
  <2>6. rows = UNION {ToSet(rowsFor(entries[n])) : n \in 1 .. Len(entries)}
    BY <2>3, <2>5 DEF Members
  <2>7. ToSet(entries) = {entries[n] : n \in 1 .. Len(entries)}
    BY <1>3 DEF ToSet
  <2> HIDE DEF rows
  <2> QED BY <2>6, <2>7
<1> HIDE DEF rows
\* A class with an entry and more than one has the entry that brings its row.
<1>12. ASSUME NEW x \in ToSet(entries), class(x) # None, Len(members(class(x))) # 1
       PROVE  class(x) \in rows /\ \E y \in ToSet(entries) : y # x /\ class(y) = class(x)
  <2> DEFINE m == members(class(x))
  <2>1. /\ m \in Seq(Subjects) /\ IsInjective(m) /\ ToSet(m) = {y \in ToSet(entries) : class(y) = class(x)}
        /\ x \in ToSet(m) /\ Len(m) # 1
    BY <1>6, <1>12
  <2> HIDE DEF m
  <2>2. Len(m) \in Nat /\ DOMAIN m = 1 .. Len(m)
    BY <2>1
  <2>3. 1 \in DOMAIN m /\ 2 \in DOMAIN m
    BY <2>1, <2>2 DEF ToSet
  <2>4. m[1] \in ToSet(m) /\ m[2] \in ToSet(m) /\ m[1] # m[2] /\ Head(m) = m[1]
    BY <2>1, <2>3 DEF ToSet, IsInjective
  <2>5. class(Head(m)) = class(x) /\ Head(m) \in ToSet(entries)
    BY <2>1, <2>4
  <2>6. class(x) \in ToSet(rowsFor(Head(m)))
    <3> HIDE DEF rowsFor
    <3> QED BY <1>9, <1>12, <2>5 DEF m
  <2> HIDE DEF rowsFor
  <2> QED BY <1>11, <2>1, <2>4, <2>5, <2>6
<1>13. \A x \in ToSet(entries) : x \in rows \/ Group(x) \in rows
  <2> TAKE x \in ToSet(entries)
  <2>1. CASE class(x) = None \/ Len(members(class(x))) = 1
    <3>1. x \in ToSet(rowsFor(x))
      BY <1>7, <2>1
    <3> HIDE DEF rowsFor
    <3> QED BY <1>11, <3>1
  <2>2. CASE class(x) # None /\ Len(members(class(x))) # 1
    BY <1>3, <1>4, <1>12, <2>2
  <2> QED BY <2>1, <2>2
<1>14. ASSUME NEW r \in rows
       PROVE  \/ r \in ToSet(entries)
              \/ \E x \in ToSet(entries) : class(x) = r /\ class(x) # None /\ Len(members(class(x))) # 1
  <2>1. PICK x \in ToSet(entries) : r \in ToSet(rowsFor(x))
    BY <1>11
  <2> HIDE DEF rowsFor
  <2> QED BY <2>1, <1>7, <1>8, <1>9
<1>15. rows \ Classes \subseteq ToSet(entries)
  BY <1>3, <1>4, <1>14
<1>16. \A c \in rows \cap Classes :
         \E x, y \in ToSet(entries) : x # y /\ Group(x) = c /\ Group(y) = c
  <2> TAKE c \in rows \cap Classes
  <2>1. PICK x \in ToSet(entries) : class(x) = c /\ class(x) # None /\ Len(members(class(x))) # 1
    BY <1>3, <1>5, <1>14
  <2>2. PICK y \in ToSet(entries) : y # x /\ class(y) = class(x)
    BY <1>12, <2>1
  <2> QED BY <1>3, <1>4, <2>1, <2>2
<1> QED BY <1>13, <1>15, <1>16 DEF rows, entries

-------------------------------------------------------------------------------
(* Types *)

\* What the positions and the overlay are, without what was drawn and sent.
Typed ==
  /\ events \in Projections
  /\ view \in {"attention", "lanes"} /\ drill \in Lanes \cup {None}
  /\ open \subseteq Classes
  /\ inbox \in [at : Positions, id : RowIds \cup {None}]
  /\ column \in [at : Positions, id : Items \cup {None}]
  /\ overlay \in [kind : {"none", "search", "valve", "dispatch"}, verb : Valves \cup {None},
                  item : Items \cup {None}, query : Queries \cup {None}, held : BOOLEAN]

\* There are finitely many ids a row can have.
LEMMA FiniteIds == IsFiniteSet(RowIds) /\ IsFiniteSet(Items) /\ Items \subseteq RowIds
<1>1. IsFiniteSet(Items)
  BY ListsAssumption DEF ListsAssumption
<1>2. IsFiniteSet(ToSet(Findings))
  <2>1. Findings \in Seq(ToSet(Findings))
    BY ListsAssumption DEF ListsAssumption
  <2>2. Len(Findings) \in Nat /\ DOMAIN Findings = 1 .. Len(Findings)
    BY <2>1
  <2>3. IsFiniteSet(1 .. Len(Findings))
    BY <2>2, FS_Interval
  <2>4. Findings \in Surjection(1 .. Len(Findings), ToSet(Findings))
    BY <2>1, <2>2 DEF Surjection, ToSet
  <2> QED BY <2>3, <2>4, FS_Surjection
<1>3. IsFiniteSet(Classes)
  <2> DEFINE C == {Class[f] : f \in ToSet(Findings)}
             class == [f \in ToSet(Findings) |-> Class[f]]
  <2>1. class \in Surjection(ToSet(Findings), C)
    BY DEF Surjection
  <2>2. IsFiniteSet(C)
    <3> HIDE DEF C, class
    <3> QED BY <1>2, <2>1, FS_Surjection
  <2>3. Classes \in SUBSET C
    BY DEF Classes
  <2> HIDE DEF C
  <2> QED BY <2>2, <2>3, FS_Subset
<1>4. IsFiniteSet(Subjects)
  BY <1>1, <1>2, FS_Union DEF Subjects
<1> QED BY <1>1, <1>3, <1>4, FS_Union DEF RowIds, Subjects

\* A list that names nothing twice is no longer than there are ids.
LEMMA OnceFits ==
  ASSUME NEW rows \in Seq(RowIds), IsInjective(rows)
  PROVE  Len(rows) \in Nat /\ DOMAIN rows = 1 .. Len(rows) /\ DOMAIN rows \subseteq Positions
<1>1. Len(rows) \in Nat /\ DOMAIN rows = 1 .. Len(rows) /\ rows \in [1 .. Len(rows) -> RowIds]
  OBVIOUS
<1>2. Cardinality(1 .. Len(rows)) = Len(rows)
  BY <1>1, FS_Interval
<1>3. rows \in Injection(1 .. Len(rows), RowIds)
  BY <1>1 DEF Injection
<1>4. Len(rows) <= Cardinality(RowIds)
  BY <1>2, <1>3, FiniteIds, FS_Injection
<1>5. Cardinality(RowIds) \in Nat
  BY FiniteIds, FS_CardinalityType
<1> QED BY <1>1, <1>4, <1>5 DEF Positions

\* The rows of a state are a list of ids, each once, within the positions.
LEMMA RowsFacts ==
  Typed => /\ Rows \in Seq(RowIds) /\ IsInjective(Rows)
           /\ Len(Rows) \in Nat /\ DOMAIN Rows = 1 .. Len(Rows) /\ DOMAIN Rows \subseteq Positions
<1> SUFFICES ASSUME Typed
             PROVE  Rows \in Seq(RowIds) /\ IsInjective(Rows)
  BY OnceFits
<1>1. overlay.query \in Queries \cup {None} /\ open \in SUBSET Classes /\ events \in Projections
  BY DEF Typed
<1>2. Rows = AttentionRows(events, overlay.query, open)
  BY <1>1 DEF Rows, RowsOf
<1> QED BY <1>1, <1>2, RowsList

\* So is a lane's column.
LEMMA ColumnFacts ==
  ASSUME NEW p \in Projections, NEW l \in Lanes
  PROVE  LET rows == ColumnOf[<<p, l>>]
         IN  /\ rows \in Seq(Items) /\ IsInjective(rows)
             /\ Len(rows) \in Nat /\ DOMAIN rows = 1 .. Len(rows) /\ DOMAIN rows \subseteq Positions
<1>1. ColumnOf[<<p, l>>] = LaneItems(p, l)
  BY DEF ColumnOf
<1>2. LaneItems(p, l) \in Seq(Items) /\ IsInjective(LaneItems(p, l))
  BY ColumnList
<1>3. LaneItems(p, l) \in Seq(RowIds)
  BY <1>2, FiniteIds
<1> QED BY <1>1, <1>2, <1>3, OnceFits

\* The row that Follows finds is the one with the id, or the one of its class.
LEMMA FollowsFacts ==
  ASSUME NEW rows, NEW id
  PROVE  /\ id \in ToSet(rows) =>
              Follows(id, rows) \in DOMAIN rows /\ rows[Follows(id, rows)] = id
         /\ id \notin ToSet(rows) /\ id \in ToSet(Findings) /\ Class[id] \in ToSet(rows) =>
              Follows(id, rows) \in DOMAIN rows /\ rows[Follows(id, rows)] = Class[id]
         /\ Follows(id, rows) \in {0} \cup DOMAIN rows
BY DEF Follows, ToSet

\* The cursor of the Attention list is on a row unless there is none.
LEMMA InboxRowFacts ==
  Typed => /\ InboxRow \in {0} \cup DOMAIN Rows
           /\ InboxRow = 0 => Rows = <<>>
           /\ Current \in Positions
<1> SUFFICES ASSUME Typed PROVE (InboxRow \in DOMAIN Rows \/ (InboxRow = 0 /\ Rows = <<>>)) /\ Current \in Positions
  BY RowsFacts
<1>0. Cardinality(RowIds) \in Nat
  BY FiniteIds, FS_CardinalityType
<1>1. inbox.at \in Positions /\ inbox.at \in Nat /\ inbox.at >= 1
  BY <1>0 DEF Typed, Positions
<1>2. InboxRow \in DOMAIN Rows \/ (InboxRow = 0 /\ Rows = <<>>)
  <2>1. CASE inbox.id # None /\ Follows(inbox.id, Rows) # 0
    <3>1. InboxRow = Follows(inbox.id, Rows)
      BY <2>1 DEF InboxRow
    <3> QED BY <2>1, <3>1, FollowsFacts
  <2>2. CASE ~(inbox.id # None /\ Follows(inbox.id, Rows) # 0)
    <3>1. InboxRow = Clamp(inbox.at, Rows)
      BY <2>2 DEF InboxRow
    <3>2. Rows # <<>> => Len(Rows) > 0
      BY RowsFacts
    <3>3. Rows # <<>> => Clamp(inbox.at, Rows) \in 1 .. Len(Rows)
      BY <1>1, <3>2, RowsFacts DEF Clamp
    <3>4. Rows = <<>> => Clamp(inbox.at, Rows) = 0
      BY DEF Clamp
    <3> QED BY <3>1, <3>3, <3>4, RowsFacts
  <2> QED BY <2>1, <2>2
<1> QED BY <1>1, <1>2, RowsFacts DEF Current

\* The cursor in a lane, when it is anywhere, is on an item of the lane.
LEMMA ColumnRowFacts ==
  Typed /\ ColumnRow # 0 =>
    drill \in Lanes /\ ColumnRow \in DOMAIN Column /\ Column[ColumnRow] \in Items /\ ColumnRow \in Positions
<1> SUFFICES ASSUME Typed, ColumnRow # 0
             PROVE  drill \in Lanes /\ ColumnRow \in DOMAIN Column
                    /\ Column[ColumnRow] \in Items /\ ColumnRow \in Positions
  OBVIOUS
<1>0. Cardinality(RowIds) \in Nat
  BY FiniteIds, FS_CardinalityType
<1>1. column.at \in Nat /\ column.at >= 1
  BY <1>0 DEF Typed, Positions
<1>2. drill \in Lanes
  BY DEF Typed, ColumnRow
<1>3. /\ Column \in Seq(Items) /\ Len(Column) \in Nat /\ DOMAIN Column = 1 .. Len(Column)
      /\ DOMAIN Column \subseteq Positions
  BY <1>2, ColumnFacts DEF Typed, Column
<1>4. ColumnRow \in DOMAIN Column
  <2>1. CASE column.id = None
    <3>1. ColumnRow = Clamp(column.at, Column)
      BY <1>2, <2>1, NamesAssumption DEF ColumnRow, NamesAssumption
    <3>2. Column # <<>> => Len(Column) > 0
      BY <1>3
    <3>3. Column # <<>>
      BY <3>1 DEF Clamp
    <3>4. Clamp(column.at, Column) \in 1 .. Len(Column)
      BY <1>1, <1>3, <3>2, <3>3 DEF Clamp
    <3> QED BY <1>3, <3>1, <3>4
  <2>2. CASE column.id # None
    BY <2>2 DEF ColumnRow
  <2> QED BY <2>1, <2>2
<1>5. Column[ColumnRow] \in Items
  BY <1>3, <1>4
<1> QED BY <1>2, <1>3, <1>4, <1>5

\* A verb acts on a work item or on nothing, ...
LEMMA InboxItemTyped == Typed => InboxItem \in Items \cup {None}
<1> SUFFICES ASSUME Typed, InboxRow # 0 PROVE ItemOf(Rows[InboxRow]) \in Items \cup {None}
  BY DEF InboxItem
<1>1. Rows[InboxRow] \in RowIds
  BY InboxRowFacts, RowsFacts
<1>2. About \in [ToSet(Findings) -> Items \cup {None}]
  BY ListsAssumption DEF ListsAssumption
<1> QED BY <1>1, <1>2 DEF ItemOf, RowIds, Subjects

\* ... in either view, ...
LEMMA SelectedTyped == Typed => SelectedItem \in Items \cup {None}
BY InboxItemTyped, ColumnRowFacts DEF SelectedItem

\* ... and so does the one the frame shows.
LEMMA TargetTyped == Typed => Target \in Items \cup {None}
BY SelectedTyped DEF Target, Typed

\* The cursors of the Attention list.
Cursors == [at : Positions, id : RowIds \cup {None}]

\* A movement leaves the cursor at a position.
LEMMA SelectAtTyped ==
  ASSUME Typed, NEW n \in Positions
  PROVE  SelectAt(n) \in Cursors
<1>1. n \in DOMAIN Rows => Rows[n] \in RowIds
  BY RowsFacts
<1> QED BY <1>1 DEF SelectAt, Cursor, Cursors

\* So does the acknowledgement of what the list has become.
LEMMA ReanchoredTyped ==
  ASSUME Typed, NEW c \in Cursors
  PROVE  Reanchored(c) \in Cursors
<1>1. c.at \in Positions
  BY DEF Cursors
<1>2. InboxRow # 0 => InboxRow \in Positions
  BY InboxRowFacts, RowsFacts
<1> QED BY <1>1, <1>2, SelectAtTyped DEF Reanchored

\* One row down or up is a position.
LEMMA StepsTyped ==
  ASSUME NEW n \in Positions, NEW rows, DOMAIN rows = 1 .. Len(rows), Len(rows) \in Nat,
         DOMAIN rows \subseteq Positions, rows # <<>> => Len(rows) > 0
  PROVE  Lower(n, rows) \in Positions /\ Higher(n) \in Positions
<1>0. Cardinality(RowIds) \in Nat
  BY FiniteIds, FS_CardinalityType
<1>1. n \in Nat /\ n >= 1
  BY <1>0 DEF Positions
<1>2. Lower(n, rows) \in Positions
  <2>1. CASE rows = <<>>
    BY <2>1 DEF Lower, Positions
  <2>2. CASE rows # <<>>
    <3>1. Lower(n, rows) \in 1 .. Len(rows)
      BY <1>1, <2>2 DEF Lower
    <3> QED BY <3>1
  <2> QED BY <2>1, <2>2
<1>3. Higher(n) \in Positions
  <2>1. CASE n > 1
    BY <1>0, <1>1, <2>1 DEF Higher, Positions
  <2>2. CASE ~(n > 1)
    BY <2>2 DEF Higher, Positions
  <2> QED BY <2>1, <2>2
<1> QED BY <1>2, <1>3

\* The state the loop starts in.
LEMMA InitTyped == Init => Typed
BY DEF Init, Typed, Cursor, Closed, Positions

\* The cursor of the Attention list after a key that is not about it.
LEMMA AcknowledgedTyped == Typed => Reanchored(inbox) \in Cursors
BY ReanchoredTyped DEF Typed, Cursors

\* A movement, in the Attention list or in a lane.
LEMMA MoveTyped == ASSUME Typed, Down \/ Up PROVE Typed'
<1>0. UNCHANGED <<events, view, drill, open, overlay>>
  BY DEF Down, Up, Move
<1>1. Current \in Positions
  BY InboxRowFacts
<1>2. Rows # <<>> => Len(Rows) > 0
  BY RowsFacts
<1>3. Lower(Current, Rows) \in Positions /\ Higher(Current) \in Positions
  BY <1>1, <1>2, RowsFacts, StepsTyped
<1> DEFINE base == IF ColumnRow # 0 THEN ColumnRow ELSE column.at
<1>4. base \in Positions
  BY ColumnRowFacts DEF Typed
<1>5. drill # None => /\ Column \in Seq(Items) /\ Len(Column) \in Nat /\ DOMAIN Column = 1 .. Len(Column)
                      /\ DOMAIN Column \subseteq Positions
  BY ColumnFacts DEF Typed, Column
<1>6. drill # None /\ Column # <<>> => Len(Column) > 0
  BY <1>5
<1>7. drill # None => Lower(base, Column) \in Positions /\ Higher(base) \in Positions
  <2> HIDE DEF base
  <2> QED BY <1>4, <1>5, <1>6, StepsTyped
<1>8. \E n \in Positions :
        \/ inbox' = SelectAt(n) /\ UNCHANGED column
        \/ /\ drill # None /\ column' = Cursor(n, IF n \in DOMAIN Column THEN Column[n] ELSE None)
           /\ inbox' = Reanchored(inbox)
  BY <1>3, <1>7 DEF Down, Up, Move, MovesTo
<1>9. PICK n \in Positions :
        \/ inbox' = SelectAt(n) /\ UNCHANGED column
        \/ /\ drill # None /\ column' = Cursor(n, IF n \in DOMAIN Column THEN Column[n] ELSE None)
           /\ inbox' = Reanchored(inbox)
  BY <1>8
<1>10. inbox' \in Cursors
  BY <1>9, SelectAtTyped, AcknowledgedTyped
<1>11. column' \in [at : Positions, id : Items \cup {None}]
  BY <1>5, <1>9 DEF Cursor, Typed
<1> QED BY <1>0, <1>10, <1>11 DEF Typed, Cursors

\* Opening, narrowing and closing an overlay.
LEMMA OverlaysTyped ==
  ASSUME Typed, NEW o, Overlays(o),
         o \in [kind : {"none", "search", "valve", "dispatch"}, verb : Valves \cup {None},
                item : Items \cup {None}, query : Queries \cup {None}, held : BOOLEAN]
  PROVE  Typed'
BY AcknowledgedTyped DEF Overlays, Typed, Cursors

\* Every key and every refresh.
LEMMA TypedStep == ASSUME Typed, [Next]_vars PROVE Typed'
<1>1. CASE Down \/ Up
  BY <1>1, MoveTyped
<1>2. CASE Jump
  <2>1. PICK n \in DOMAIN Rows : MovesTo(n)
    BY <1>2 DEF Jump
  <2>2. n \in Positions
    BY RowsFacts
  <2> QED BY <1>2, <2>1, <2>2, SelectAtTyped DEF Jump, MovesTo, Typed, Cursors
<1>3. CASE Acknowledge
  BY <1>3, AcknowledgedTyped DEF Acknowledge, Typed, Cursors
<1>4. CASE ToggleGroup
  BY <1>4, AcknowledgedTyped DEF ToggleGroup, Typed, Cursors, SymDiff
<1>5. ASSUME NEW v \in {"attention", "lanes"}, SwitchView(v) PROVE Typed'
  BY <1>5, AcknowledgedTyped DEF SwitchView, Typed, Cursors
<1>6. ASSUME NEW l \in Lanes, Drill(l) PROVE Typed'
  <2>1. ColumnOf[<<events, l>>] # <<>> => ColumnOf[<<events, l>>][1] \in Items
    BY ColumnFacts DEF Typed
  <2>2. column' \in [at : Positions, id : Items \cup {None}]
    BY <1>6, <2>1 DEF Drill, Cursor, Positions, Typed
  <2> QED BY <1>6, <2>2, AcknowledgedTyped DEF Drill, Typed, Cursors
<1>7. CASE ReturnToOverview
  BY <1>7, AcknowledgedTyped DEF ReturnToOverview, Cursor, Typed, Cursors
<1>8. CASE OpenSearch
  BY <1>8, OverlaysTyped, OffersAssumption DEF OpenSearch, Closed, OffersAssumption
<1>9. ASSUME NEW q \in Queries, TypeSearch(q) PROVE Typed'
  BY <1>9, OverlaysTyped DEF TypeSearch, Closed
<1>10. CASE CloseOverlay
  BY <1>10, OverlaysTyped DEF CloseOverlay, Closed
<1>11. ASSUME NEW v \in Valves, StageValve(v) PROVE Typed'
  BY <1>11, OverlaysTyped, SelectedTyped DEF StageValve, Closed, Held
<1>12. CASE StageDispatch
  BY <1>12, OverlaysTyped, SelectedTyped DEF StageDispatch, Closed, Held
<1>13. CASE Confirm
  BY <1>13, AcknowledgedTyped DEF Confirm, Typed, Cursors, Closed
<1>14. CASE EndBurst \/ Refresh \/ UNCHANGED vars
  BY <1>14 DEF EndBurst, Refresh, ui, vars, Typed
<1> QED BY <1>1, <1>2, <1>3, <1>4, <1>5, <1>6, <1>7, <1>8, <1>9, <1>10, <1>11, <1>12, <1>13, <1>14
        DEF Next, Key

\* ... and after a step.
LEMMA NextTargetTyped == (Typed => Target \in Items \cup {None})'
BY TargetTyped, PTL

\* TypeOK is inductive: a command is issued by Enter alone, for a work item or none.
LEMMA TypeStep == ASSUME TypeOK, [Next]_vars PROVE TypeOK'
<1>1. Typed /\ Typed'
  <2>1. Typed
    BY DEF TypeOK, Typed
  <2> QED BY <2>1, TypedStep
<1>2. Drawn => TypeOK'
  BY <1>1, NextTargetTyped DEF Drawn, TypeOK, Typed
<1>3. CASE Down \/ Up
  BY <1>1, <1>3 DEF Down, Up, Move, AtKey, TypeOK, Typed
<1>4. CASE Confirm
  <2> DEFINE i == IF overlay.kind = "dispatch" THEN overlay.item ELSE ValveItem
  <2>1. CASE Drawn
    BY <2>1, <1>2
  <2>2. CASE /\ sent' = [verb |-> overlay.verb, item |-> i,
                         staged |-> overlay.item, held |-> overlay.held]
             /\ tick' = "sent" /\ UNCHANGED frame
    <3>1. i \in Items \cup {None}
      BY <1>1, SelectedTyped DEF ValveItem, Typed
    <3> HIDE DEF i
    <3>2. sent' \in Commands
      BY <1>1, <2>2, <3>1 DEF Commands, Typed
    <3>3. sent' # None
      BY <3>2, NamesAssumption DEF NamesAssumption
    <3> QED BY <1>1, <2>2, <3>2, <3>3 DEF TypeOK, Typed
  <2> QED BY <1>4, <2>1, <2>2 DEF Confirm
<1>5. CASE Next /\ ~(Down \/ Up \/ Confirm)
  <2>1. Drawn
    BY <1>5 DEF Next, Key, Jump, Acknowledge, ToggleGroup, ReturnToOverview, SwitchView, Drill, OpenSearch,
                CloseOverlay, TypeSearch, StageValve, StageDispatch, Overlays, EndBurst, Refresh
  <2> QED BY <1>2, <2>1
<1>6. CASE UNCHANGED vars
  BY <1>1, <1>6 DEF vars, TypeOK, Typed
<1> QED BY <1>3, <1>4, <1>5, <1>6

\* TypeOK: whatever the lists become, the cursors stay within them, and a verb acts
\* on a work item the board has or on none.
THEOREM TypeCorrect == Spec => []TypeOK
<1>1. Init => TypeOK
  BY InitTyped DEF Init, Typed, TypeOK
<1>2. TypeOK /\ [Next]_vars => TypeOK'
  BY TypeStep
<1> QED BY <1>1, <1>2, PTL DEF Spec

-------------------------------------------------------------------------------
(* The cursor and its row *)

\* The cursor is on the row it is anchored to, or else on the group that folds it.
LEMMA AnchoredRow ==
  Typed => /\ Showing(inbox.id) => InboxRow \in DOMAIN Rows /\ Row = inbox.id
           /\ ~Showing(inbox.id) /\ Showing(Group(inbox.id)) =>
                InboxRow \in DOMAIN Rows /\ Row = Group(inbox.id)
<1> SUFFICES ASSUME Typed
             PROVE  /\ Showing(inbox.id) => InboxRow \in DOMAIN Rows /\ Row = inbox.id
                    /\ ~Showing(inbox.id) /\ Showing(Group(inbox.id)) =>
                         InboxRow \in DOMAIN Rows /\ Row = Group(inbox.id)
  OBVIOUS
<1>1. 0 \notin DOMAIN Rows
  BY RowsFacts
<1>2. Showing(inbox.id) => InboxRow \in DOMAIN Rows /\ Row = inbox.id
  BY <1>1, FollowsFacts DEF Showing, InboxRow, Row
<1>3. ~Showing(inbox.id) /\ Showing(Group(inbox.id)) =>
        InboxRow \in DOMAIN Rows /\ Row = Group(inbox.id)
  <2> SUFFICES ASSUME ~Showing(inbox.id), Showing(Group(inbox.id))
               PROVE  InboxRow \in DOMAIN Rows /\ Row = Group(inbox.id)
    OBVIOUS
  <2>1. inbox.id \in ToSet(Findings) /\ Group(inbox.id) = Class[inbox.id] /\ Class[inbox.id] \in ToSet(Rows)
    BY DEF Showing, Group
  <2>2. inbox.id # None
    BY <2>1, NamesAssumption DEF NamesAssumption, RowIds, Subjects
  <2>3. inbox.id \notin ToSet(Rows)
    BY <2>2 DEF Showing
  <2> QED BY <1>1, <2>1, <2>2, <2>3, FollowsFacts DEF InboxRow, Row
<1> QED BY <1>2, <1>3

\* ... and after a step.
LEMMA NextAnchoredRow ==
  (Typed => /\ Showing(inbox.id) => InboxRow \in DOMAIN Rows /\ Row = inbox.id
            /\ ~Showing(inbox.id) /\ Showing(Group(inbox.id)) =>
                 InboxRow \in DOMAIN Rows /\ Row = Group(inbox.id))'
BY AnchoredRow, PTL

\* Only a finding folds into a group, and a group folds into none.
LEMMA GroupFacts ==
  ASSUME NEW id \in RowIds \cup {None}
  PROVE  Group(id) # None => id \in ToSet(Findings) /\ Group(id) \in Classes /\ Group(Group(id)) = None
<1>1. Group(id) # None => id \in ToSet(Findings) /\ Group(id) \in Classes
  BY DEF Group, Classes
<1>2. Group(id) \in Classes => Group(id) \notin ToSet(Findings)
  BY NamesAssumption DEF NamesAssumption, Subjects
<1> QED BY <1>1, <1>2 DEF Group

\* A step that is no movement: the anchor is kept, or it is the group the cursor is on.
LEMMA CursorStaysStep == ASSUME Typed, Next PROVE CursorStays
<1> SUFFICES ASSUME Showing(inbox.id) \/ Showing(Group(inbox.id)), tick' # "burst", ~Jump
             PROVE  \/ inbox.id \in ToSet(Rows') /\ Row' = inbox.id
                    \/ IF Row \in ToSet(Rows') THEN Row' = Row
                       ELSE Group(Row) # None /\ Group(Row) \in ToSet(Rows') => Row' = Group(Row)
  BY DEF CursorStays
<1>0. Typed'
  BY TypedStep
<1>1. inbox' = Reanchored(inbox) \/ inbox' = inbox
  BY DEF Next, Key, Down, Up, Move, Jump, Acknowledge, ToggleGroup, ReturnToOverview, SwitchView, Drill, OpenSearch,
         CloseOverlay, TypeSearch, StageValve, StageDispatch, Confirm, Overlays, EndBurst, Refresh, ui
<1>2. inbox.id \in RowIds \cup {None}
  BY DEF Typed
<1>4. CASE inbox' = inbox
  <2>1. CASE Showing(inbox.id)
    <3>1. Row = inbox.id
      BY <2>1, AnchoredRow
    <3>2. CASE inbox.id \in ToSet(Rows')
      <4>1. Showing(inbox.id)'
        BY <1>4, <2>1, <3>2 DEF Showing, ToSet
      <4> QED BY <1>0, <1>4, <3>1, <3>2, <4>1, NextAnchoredRow
    <3>3. CASE inbox.id \notin ToSet(Rows') /\ Group(inbox.id) # None /\ Group(inbox.id) \in ToSet(Rows')
      <4>1. ~Showing(inbox.id)' /\ Showing(Group(inbox.id))' /\ Group(inbox.id)' = Group(inbox.id)
        BY <1>4, <3>3 DEF Showing, ToSet, Group
      <4>2. Row' = Group(inbox.id)
        BY <1>0, <4>1, NextAnchoredRow
      <4> QED BY <3>1, <3>3, <4>2
    <3>4. Group(Row) = Group(inbox.id)
      BY <3>1 DEF Group
    <3> QED BY <3>1, <3>2, <3>3, <3>4
  <2>2. CASE ~Showing(inbox.id) /\ Showing(Group(inbox.id))
    <3>1. Row = Group(inbox.id) /\ Group(Row) = None
      BY <1>2, <2>2, AnchoredRow, GroupFacts DEF Showing
    <3>2. CASE inbox.id \in ToSet(Rows')
      <4>1. inbox.id # None
        BY <1>2, <2>2, GroupFacts, NamesAssumption DEF Showing, NamesAssumption, RowIds, Subjects
      <4>2. Showing(inbox.id)'
        BY <1>4, <3>2, <4>1 DEF Showing, ToSet
      <4> QED BY <1>0, <1>4, <3>2, <4>2, NextAnchoredRow
    <3>3. CASE inbox.id \notin ToSet(Rows') /\ Row \in ToSet(Rows')
      <4>1. ~Showing(inbox.id)' /\ Showing(Group(inbox.id))' /\ Group(inbox.id)' = Group(inbox.id)
        BY <1>4, <2>2, <3>1, <3>3 DEF Showing, ToSet, Group
      <4> QED BY <1>0, <3>1, <3>3, <4>1, NextAnchoredRow
    <3> QED BY <3>1, <3>2, <3>3
  <2> QED BY <2>1, <2>2
<1>5. CASE inbox' = Reanchored(inbox) /\ inbox' # inbox
  <2>1. ~Showing(inbox.id) /\ Showing(Group(inbox.id))
    BY <1>5 DEF Showing, Reanchored
  <2>2. Row = Group(inbox.id) /\ Group(Row) = None /\ InboxRow \in DOMAIN Rows /\ Row # None
    BY <1>2, <2>1, AnchoredRow, GroupFacts DEF Showing
  <2>3. inbox'.id = Row
    BY <1>5, <2>2, RowsFacts DEF Reanchored, SelectAt, Cursor, Row
  <2>4. CASE Row \in ToSet(Rows')
    <3>1. Showing(inbox.id)'
      BY <2>2, <2>3, <2>4 DEF Showing, ToSet
    <3> QED BY <1>0, <2>3, <2>4, <3>1, NextAnchoredRow
  <2> QED BY <2>2, <2>4
<1> QED BY <1>1, <1>4, <1>5

\* A movement: the row it goes to is listed once, so its id leads back to it.
LEMMA MovesFromShownStep == ASSUME Typed, Next PROVE MovesFromShown
<1> SUFFICES ASSUME view = "attention", InboxRow # 0, tick' = "burst"
             PROVE  InboxRow' \in {Clamp(InboxRow + 1, Rows), IF InboxRow = 1 THEN 1 ELSE InboxRow - 1}
  BY DEF MovesFromShown
<1>1. Down \/ Up
  BY DEF Next, Key, Jump, Acknowledge, ToggleGroup, ReturnToOverview, SwitchView, Drill, OpenSearch,
         CloseOverlay, TypeSearch, StageValve, StageDispatch, Confirm, Overlays, EndBurst, Refresh, Drawn
<1>2. UNCHANGED <<events, overlay, open>> /\ Rows' = Rows
  BY <1>1 DEF Down, Up, Move, Rows
<1>3. InboxRow \in 1 .. Len(Rows) /\ Len(Rows) \in Nat /\ DOMAIN Rows = 1 .. Len(Rows)
  BY InboxRowFacts, RowsFacts
<1>4. Rows # <<>>
  BY <1>3
<1>5. PICK n : inbox' = SelectAt(n) /\ (n = Lower(InboxRow, Rows) \/ n = Higher(InboxRow))
  BY <1>1 DEF Down, Up, Move, MovesTo, Current
<1>6. n \in DOMAIN Rows /\ n \in {Clamp(InboxRow + 1, Rows), IF InboxRow = 1 THEN 1 ELSE InboxRow - 1}
  BY <1>3, <1>4, <1>5 DEF Lower, Higher, Clamp
<1>7. inbox'.id = Rows[n] /\ Rows[n] # None /\ Rows[n] \in ToSet(Rows)
  BY <1>5, <1>6, RowsFacts, NamesAssumption DEF SelectAt, Cursor, NamesAssumption, ToSet
<1>8. Follows(Rows[n], Rows) = n
  BY <1>6, <1>7, RowsFacts, FollowsFacts DEF IsInjective
<1>9. InboxRow' = n
  <2>1. Follows(inbox.id, Rows)' = Follows(inbox'.id, Rows')
    BY DEF Follows
  <2>2. Follows(inbox'.id, Rows') = n
    BY <1>2, <1>7, <1>8
  <2>3. inbox'.id # None /\ n # 0
    BY <1>3, <1>6, <1>7
  <2> QED BY <2>1, <2>2, <2>3 DEF InboxRow
<1> QED BY <1>6, <1>9

\* CursorFollows: the cursor of the Attention list stays with its row through every
\* change of the list, and moves from the row the screen shows.
THEOREM CursorFollowsItsRow == Spec => CursorFollows
<1>1. TypeOK /\ [Next]_vars => [CursorStays /\ MovesFromShown]_vars
  BY CursorStaysStep, MovesFromShownStep DEF TypeOK, Typed
<1> QED BY <1>1, TypeCorrect, PTL DEF Spec, CursorFollows
===============================================================================
