-------------------------------- MODULE Cockpit --------------------------------
(***************************************************************************)
(* The operator's cursor, and what Enter acts on, while the lists change   *)
(* underneath.  The terminal loop draws a frame, handles one key or a      *)
(* burst of movements against the events it holds, and lists the events    *)
(* again after a key that issued a command, or after none for a while.     *)
(* Every frame and every key derive the rows anew; the cursor is a         *)
(* position and the id of the row the operator chose.                      *)
(*                                                                         *)
(* The focus of the panes, scrolling, help and the read-only overlays only *)
(* decide which keys arrive, or keep nothing the lists could change: one   *)
(* action, Acknowledge, stands for them.  The menu, the palette and the    *)
(* invoker stage a verb just as its key does.                              *)
(***************************************************************************)
EXTENDS Naturals, Sequences, FiniteSets, Functions, SequencesExt

CONSTANTS Items,           \* work items
          Findings,        \* the needs-attention items, in the order of their ids
          About,           \* the work item a finding names, or None
          Class,           \* the class a finding may be folded into, or None
          Lanes, AttentionLanes, ReadyLane,
          Valves,
          ValidIn,         \* the lanes a valve is offered in
          Found,           \* what a log may hold of the findings
          Queries,         \* what the texts typed into a search match
          None

Subjects == Items \cup ToSet(Findings)
Classes == {Class[f] : f \in ToSet(Findings)} \ {None}
RowIds == Subjects \cup Classes
\* What Enter may issue, with the item it was staged on and how it was chosen.
Commands == [verb : Valves \cup {None}, item : Items \cup {None},
             staged : Items \cup {None}, held : BOOLEAN]

ASSUME NamesAssumption == /\ Items \cap ToSet(Findings) = {} /\ Classes \cap Subjects = {}
                          /\ None \notin RowIds \cup Lanes \cup Valves \cup Commands
\* The store holds finitely many items, and lists a finding once, by its id.
ASSUME ListsAssumption == /\ IsFiniteSet(Items)
                          /\ Findings \in Seq(ToSet(Findings)) /\ IsInjective(Findings)
                          /\ About \in [ToSet(Findings) -> Items \cup {None}]
ASSUME OffersAssumption == /\ AttentionLanes \cup {ReadyLane} \subseteq Lanes
                           /\ ValidIn \in [Valves -> SUBSET Lanes]
                           /\ Found \subseteq SUBSET ToSet(Findings)
                           /\ Subjects \in Queries /\ Queries \subseteq SUBSET Subjects

VARIABLES events,   \* what the event list in hand projects to
          view,     \* attention or lanes
          drill,    \* the lane drilled into, or None
          open,     \* the classes whose group row is expanded
          inbox,    \* the cursor of the Attention list
          column,   \* the cursor in the lane
          overlay,
          tick,     \* input: a frame is up; burst: a movement is not drawn yet;
                    \* sent: a command was issued
          frame,    \* the item the frame shows an overlay's verb will act on
          sent      \* the command issued

ui == <<view, drill, open, inbox, column, overlay>>
vars == <<events, view, drill, open, inbox, column, overlay, tick, frame, sent>>

Orders == SetToSeqs(Items)
\* What a log can project to: items by rank, where they are, what was found.
Projections == [order : Orders, lane : [Items -> Lanes], found : Found]

Cursor(at, id) == [at |-> at, id |-> id]
Closed == [kind |-> "none", verb |-> None, item |-> None, query |-> None, held |-> FALSE]

-------------------------------------------------------------------------------
(* The rows *)

\* The members of S that are listed in s, in its order.
Kept(s, S) == FlattenSeq([n \in DOMAIN s |-> IF s[n] \in S THEN <<s[n]>> ELSE <<>>])

\* unified_attention_entries, of a projection p searched for q, or None: a
\* finding about a listed item is left out.
Entries(p, q) ==
  LET matches(x) == q = None \/ x \in q
      wanted == {i \in Items : p.lane[i] \in AttentionLanes /\ matches(i)}
      found == {f \in p.found : matches(f) /\ About[f] \notin wanted}
  IN  Kept(p.order \o Findings, wanted \cup found)

\* attention_rows: the first member of a class brings the group row, and the
\* members of an expanded one; a search folds nothing.
AttentionRows(p, q, expanded) ==
  LET entries == Entries(p, q)
      class(x) == IF x \in Items \/ q # None THEN None ELSE Class[x]
      members(c) == Kept(entries, {x \in Subjects : class(x) = c})
      rowsFor(x) ==
        IF class(x) = None \/ Len(members(class(x))) = 1 THEN <<x>>
        ELSE IF Head(members(class(x))) # x THEN <<>>
        ELSE <<class(x)>> \o IF class(x) \in expanded THEN members(class(x)) ELSE <<>>
  IN  FlattenSeq([n \in DOMAIN entries |-> rowsFor(entries[n])])

\* The rows of every projection, each worked out once.
RowsOf == [k \in Projections \X (Queries \cup {None}) \X SUBSET Classes |->
             AttentionRows(k[1], k[2], k[3])]

Searching == overlay.kind = "search"
Rows == RowsOf[<<events, overlay.query, open>>]

\* project_lane_board: a lane's items by rank.
LaneItems(p, l) == Kept(p.order, {i \in Items : p.lane[i] = l})
ColumnOf == [k \in Projections \X Lanes |-> LaneItems(k[1], k[2])]
Column == ColumnOf[<<events, drill>>]

-------------------------------------------------------------------------------
(* The cursors *)

Clamp(n, rows) == IF rows = <<>> THEN 0 ELSE IF n > Len(rows) THEN Len(rows) ELSE n

\* Mutant of Follows: the cursor is its position.
FollowsPosition(id, rows) == 0

\* Where the row with this id is, or the group row that holds it, or nowhere.
Follows(id, rows) ==
  LET here == {n \in DOMAIN rows : rows[n] = id}
      fold == {n \in DOMAIN rows : id \in ToSet(Findings) /\ rows[n] = Class[id]}
  IN  IF here # {} THEN CHOOSE n \in here : TRUE
      ELSE IF fold # {} THEN CHOOSE n \in fold : TRUE ELSE 0

\* selected_attention_for_state: the row of the anchor, else the nearest.  No row is 0.
InboxRow ==
  IF inbox.id # None /\ Follows(inbox.id, Rows) # 0 THEN Follows(inbox.id, Rows)
  ELSE Clamp(inbox.at, Rows)

\* Mutant of ColumnRow: nearest row for a lane, too.
ColumnRowNearest ==
  IF column.id # None /\ \E n \in DOMAIN Column : Column[n] = column.id
  THEN CHOOSE n \in DOMAIN Column : Column[n] = column.id
  ELSE Clamp(column.at, Column)

\* selected_lane_item_for_state: an anchor that has left the lane selects nothing.
ColumnRow ==
  IF drill = None THEN 0
  ELSE IF column.id = None THEN Clamp(column.at, Column)
  ELSE IF \E n \in DOMAIN Column : Column[n] = column.id
       THEN CHOOSE n \in DOMAIN Column : Column[n] = column.id
       ELSE 0

\* The work item of the row the cursor of the Attention list is on.
ItemOf(r) == IF r \in Items THEN r ELSE IF r \in Classes THEN None ELSE About[r]
InboxItem == IF InboxRow = 0 THEN None ELSE ItemOf(Rows[InboxRow])

\* selected_work_item_id
SelectedItem ==
  IF view = "attention" THEN InboxItem
  ELSE IF ColumnRow = 0 THEN None ELSE Column[ColumnRow]

LaneOf(i) == IF i = None THEN None ELSE events.lane[i]

\* select_attention_at: a row that is not there leaves the position, and no id.
SelectAt(n) == IF n \in DOMAIN Rows THEN Cursor(n, Rows[n]) ELSE Cursor(n, None)

\* current_attention_index
Current == IF InboxRow # 0 THEN InboxRow ELSE inbox.at

\* reanchor_displaced_attention, for the cursor a key leaves: an id the list the
\* key was pressed on did not show gives way to the row it showed instead.
Reanchored(c) ==
  IF c.id = None \/ c.id \in ToSet(Rows) THEN c
  ELSE SelectAt(IF InboxRow # 0 THEN InboxRow ELSE c.at)

-------------------------------------------------------------------------------
(* Keys *)

\* The item the overlay's verb will act on, as the frame tells it.
Target == IF overlay.kind = "dispatch" THEN overlay.item
          ELSE IF overlay.kind = "valve" THEN SelectedItem ELSE None

AtKey == tick \in {"input", "burst"}
\* A key other than a movement ends the burst, and the frame is drawn.
Drawn == tick' = "input" /\ frame' = Target' /\ sent' = None

\* Mutant of Lower: one below the last row.
LowerUnclamped(n, rows) == n + 1

Lower(n, rows) == IF rows = <<>> THEN 1 ELSE IF n < Len(rows) THEN n + 1 ELSE Len(rows)
Higher(n) == IF n > 1 THEN n - 1 ELSE 1

MovesTo(n) ==
  /\ inbox' = SelectAt(n)
  /\ UNCHANGED column

\* select_next, select_previous: the first overlays leave the keys to the list.
Move(step(_, _)) ==
  /\ AtKey /\ overlay.kind \in {"none", "search"}
  /\ \/ view = "attention" /\ MovesTo(step(Current, Rows))
     \/ /\ view = "lanes" /\ drill # None
        /\ LET n == step(IF ColumnRow # 0 THEN ColumnRow ELSE column.at, Column)
           IN  column' = Cursor(n, IF n \in DOMAIN Column THEN Column[n] ELSE None)
        /\ inbox' = Reanchored(inbox)
  /\ tick' = "burst"
  /\ UNCHANGED <<events, view, drill, open, overlay, frame, sent>>

Down == Move(Lower)
Up == Move(LAMBDA n, rows : Higher(n))

Actionable(n) ==
  \/ Rows[n] \in Classes
  \/ LaneOf(ItemOf(Rows[n])) \in UNION {ValidIn[v] : v \in Valves} \cup {ReadyLane}

\* JumpToActionableAttentionRow, forward and back.
Jump ==
  /\ AtKey /\ overlay.kind = "none" /\ view = "attention"
  /\ \E n \in DOMAIN Rows :
       /\ Actionable(n)
       /\ \/ n > Current /\ \A m \in Current + 1 .. n - 1 : ~Actionable(m)
          \/ n < Current /\ \A m \in n + 1 .. Current - 1 : m \in DOMAIN Rows => ~Actionable(m)
       /\ MovesTo(n)
  /\ UNCHANGED <<events, view, drill, open, overlay>>
  /\ Drawn

\* Any key that only acknowledges what the list has become.
Acknowledge ==
  /\ AtKey
  /\ inbox' = Reanchored(inbox)
  /\ UNCHANGED <<events, view, drill, open, column, overlay>>
  /\ Drawn

\* Enter on a group row.
ToggleGroup ==
  /\ AtKey /\ overlay.kind = "none" /\ view = "attention"
  /\ InboxRow # 0 /\ Rows[InboxRow] \in Classes
  /\ open' = SymDiff(open, {Rows[InboxRow]})
  /\ inbox' = Reanchored(inbox)
  /\ UNCHANGED <<events, view, drill, column, overlay>>
  /\ Drawn

SwitchView(v) ==
  /\ AtKey /\ overlay.kind = "none" /\ view # v
  /\ view' = v
  /\ inbox' = Reanchored(inbox)
  /\ UNCHANGED <<events, drill, open, column, overlay>>
  /\ Drawn

\* drill_into_lane: the cursor on the lane's first item, if it has one.
Drill(l) ==
  /\ AtKey /\ overlay.kind = "none" /\ view = "lanes" /\ drill = None
  /\ drill' = l
  /\ column' = LET items == ColumnOf[<<events, l>>]
               IN  IF items = <<>> THEN column ELSE Cursor(1, items[1])
  /\ inbox' = Reanchored(inbox)
  /\ UNCHANGED <<events, view, open, overlay>>
  /\ Drawn

ReturnToOverview ==
  /\ AtKey /\ overlay.kind = "none" /\ view = "lanes" /\ drill # None
  /\ drill' = None
  /\ column' = Cursor(column.at, None)
  /\ inbox' = Reanchored(inbox)
  /\ UNCHANGED <<events, view, open, overlay>>
  /\ Drawn

Overlays(o) ==
  /\ overlay' = o
  /\ inbox' = Reanchored(inbox)
  /\ UNCHANGED <<events, view, drill, open, column>>
  /\ Drawn

OpenSearch ==
  /\ AtKey /\ overlay.kind = "none"
  /\ Overlays([Closed EXCEPT !.kind = "search", !.query = Subjects])

\* A character narrows what the text matches, a backspace widens it.
TypeSearch(q) ==
  /\ AtKey /\ Searching
  /\ q \subseteq overlay.query \/ overlay.query \subseteq q
  /\ Overlays([Closed EXCEPT !.kind = "search", !.query = q])

CloseOverlay == AtKey /\ overlay.kind # "none" /\ Overlays(Closed)

\* Whether the item chosen is held by its id (a history of the staging).
Held == IF view = "attention" THEN inbox.id # None ELSE column.id # None

\* open_valve_confirm_state
StageValve(v) ==
  /\ AtKey /\ overlay.kind = "none"
  /\ view = "attention" \/ drill # None
  /\ LaneOf(SelectedItem) \in ValidIn[v]
  /\ Overlays([Closed EXCEPT !.kind = "valve", !.verb = v, !.item = SelectedItem, !.held = Held])

\* open_factory_dispatch_item_confirm: the item is pinned.
StageDispatch ==
  /\ AtKey /\ overlay.kind = "none"
  /\ view = "attention" \/ drill # None
  /\ LaneOf(SelectedItem) = ReadyLane
  /\ Overlays([Closed EXCEPT !.kind = "dispatch", !.item = SelectedItem, !.held = Held])

\* Mutant of ValveItem: the item of the Attention detail, in a lane, too.
ValveItemOfDetail == InboxItem

\* resolve_valve_action: the item selected at Enter, not the one staged on ...
ValveItem == SelectedItem

\* ... if the valve is offered there.
Offered(i) == LaneOf(i) \in ValidIn[overlay.verb]

\* confirm_operator_action: the overlay closes whatever becomes of it.
Confirm ==
  /\ AtKey /\ overlay.kind \in {"valve", "dispatch"}
  /\ overlay' = Closed
  /\ inbox' = Reanchored(inbox)
  /\ UNCHANGED <<events, view, drill, open, column>>
  /\ LET i == IF overlay.kind = "dispatch" THEN overlay.item ELSE ValveItem
     IN  IF overlay.kind = "dispatch" \/ Offered(i)
         THEN /\ sent' = [verb |-> overlay.verb, item |-> i,
                          staged |-> overlay.item, held |-> overlay.held]
              /\ tick' = "sent" /\ UNCHANGED frame
         ELSE Drawn

-------------------------------------------------------------------------------
(* The loop *)

\* The burst is over, no key mutated: no refresh.
EndBurst ==
  /\ tick = "burst"
  /\ UNCHANGED <<events, ui>>
  /\ Drawn

\* Idle, or after a command: whatever the pollers and lanes have brought about.
Refresh ==
  /\ tick \in {"input", "sent"}
  /\ events' \in Projections
  /\ UNCHANGED ui
  /\ Drawn

Init == /\ events \in Projections
        /\ view = "attention" /\ drill = None /\ open = {}
        /\ inbox = Cursor(1, None) /\ column = Cursor(1, None)
        /\ overlay = Closed
        /\ tick = "input" /\ frame = None /\ sent = None

Key == \/ Down \/ Up \/ Jump \/ Acknowledge \/ ToggleGroup
       \/ \E v \in {"attention", "lanes"} : SwitchView(v)
       \/ \E l \in Lanes : Drill(l)
       \/ ReturnToOverview
       \/ OpenSearch \/ CloseOverlay \/ \E q \in Queries : TypeSearch(q)
       \/ \E v \in Valves : StageValve(v)
       \/ StageDispatch \/ Confirm

Next == Key \/ EndBurst \/ Refresh

Spec == Init /\ [][Next]_vars

-------------------------------------------------------------------------------
(* Properties *)

Positions == {1} \cup 1 .. Cardinality(RowIds)

TypeOK ==
  /\ events \in Projections
  /\ view \in {"attention", "lanes"} /\ drill \in Lanes \cup {None}
  /\ open \subseteq Classes
  /\ inbox \in [at : Positions, id : RowIds \cup {None}]
  /\ column \in [at : Positions, id : Items \cup {None}]
  /\ overlay \in [kind : {"none", "search", "valve", "dispatch"}, verb : Valves \cup {None},
                  item : Items \cup {None}, query : Queries \cup {None}, held : BOOLEAN]
  /\ tick \in {"input", "burst", "sent"}
  /\ frame \in Items \cup {None}
  /\ sent \in Commands \cup {None}
  /\ tick = "sent" <=> sent # None

\* Enter issues a command for the item the frame on the screen named as its
\* target, in either view, and a valve only where it is offered for that item:
\* no key of a burst and no refresh comes between (resolve_valve_action and the
\* modal's "Target:" line).
ConsentHeld ==
  sent # None => /\ sent.item = frame
                 /\ sent.verb # None => LaneOf(sent.item) \in ValidIn[sent.verb]

\* A verb staged on an item the operator chose in a lane is issued for that item
\* or not at all, whatever refreshes re-rank, move or remove while it is open.
LaneVerbKeepsItem ==
  sent # None /\ sent.held /\ view = "lanes" => sent.item = sent.staged

Row == Rows[InboxRow]
Group(r) == IF r \in ToSet(Findings) THEN Class[r] ELSE None
Showing(r) == r # None /\ r \in ToSet(Rows)

\* The cursor stays on the row it was anchored to, and goes to the group that
\* folds it in, through refreshes, searches, groups, views and overlays, while the
\* row is listed at all, and from the group back to that row alone when it is
\* listed again (only a movement leaves a burst to draw) ...
CursorStays ==
  (Showing(inbox.id) \/ Showing(Group(inbox.id))) /\ tick' # "burst" =>
    LET r == Row
    IN  \/ Jump
        \/ inbox.id \in ToSet(Rows') /\ Row' = inbox.id
        \/ IF r \in ToSet(Rows') THEN Row' = r
           ELSE Group(r) # None /\ Group(r) \in ToSet(Rows') => Row' = Group(r)

\* ... and a movement goes to the row beside the one the screen shows, however
\* the list was re-ranked since the cursor was last moved.
MovesFromShown ==
  view = "attention" /\ InboxRow # 0 /\ tick' = "burst" =>
    InboxRow' \in {Clamp(InboxRow + 1, Rows), IF InboxRow = 1 THEN 1 ELSE InboxRow - 1}

CursorFollows == [][CursorStays /\ MovesFromShown]_vars

\* The rule a lane keeps, for both views.  No run has it, for it does not hold: in
\* the Attention view resolve_valve_action takes the item of the row the cursor
\* fell to.  The modal names that item (ConsentHeld).
VerbKeepsItem == sent # None /\ sent.held => sent.item = sent.staged
===============================================================================
