-------------------------- MODULE OperatorWritesProofs --------------------------
(***************************************************************************)
(* Proofs about the operator's writes, for any consoles, lanes, settings,  *)
(* valves and values, any dial, and any number of rows and faults.         *)
(*                                                                         *)
(* The argument for the identities: rows are only appended and keep their  *)
(* keys (RowsKept), a tag was the length of a shorter table (Numbered),    *)
(* and the count of a press is the length it found (Pressed), so that a    *)
(* table that has not grown since holds no row of that tag.  The argument  *)
(* for the launch read: until it is taken nothing has been shown, and      *)
(* nothing that was never shown is edited (Launching).  The argument for   *)
(* the outcomes: a row appended since the count has no outcome among those *)
(* the thread has listed (Unlisted), so that neither has the row that      *)
(* takes the write or absorbs it, and the log only grows.  The argument    *)
(* for the queue: an identity has one row (KeysOnce), which stands for it, *)
(* and a row one lane, under which it is recovered at worst (Served).      *)
(***************************************************************************)
EXTENDS OperatorWrites, TLAPS

Issuing(k) == loop[k] \in {"list", "append"}

\* A press is under way, with the count of its moment, while the thread issues it.
Pressed ==
  \A k \in Consoles :
    /\ Issuing(k) => press[k].base \in Bases /\ press[k].count = press[k].upon
    /\ ~Issuing(k) => press[k] = NoPress

Fresh(k) == reading[k] \/ cell[k] # NotYetRead

\* Until the launch read is taken nothing is shown, edited or followed.
Launching ==
  \A k \in Consoles :
    /\ reading[k] => cell[k] = NotYetRead
    /\ Fresh(k) => /\ shown[k] = NotYetRead
                   /\ slot[k] = Idle
                   /\ loop[k] # "confirm"
                   /\ Issuing(k) => press[k].base.subject \notin Settings

\* A row that carries a number stands after that many rows.
Numbered == \A n \in DOMAIN rows : rows[n].key.tag # None => rows[n].key.tag < n

\* What the list told of a valve's attempts is so, until another row is appended.
Listed ==
  \A k \in Consoles :
    /\ loop[k] = "append" /\ press[k].base.subject \in Valves
    /\ Len(rows) = press[k].upon /\ ~press[k].over
    /\ Attempts(press[k].base) # {}
    => press[k].retry

-------------------------------------------------------------------------------
(* Types *)

\* A step that puts e in the place of row n, under the same identity.
Sets(n, e) == /\ e \in Records /\ e.key = rows[n].key
              /\ rows' = [rows EXCEPT ![n] = e]

\* It leaves the other rows, and every identity, as they are.
LEMMA SetsRow ==
  ASSUME rows \in Seq(Records), NEW n \in DOMAIN rows, NEW e, Sets(n, e)
  PROVE  /\ rows' \in Seq(Records)
         /\ Len(rows') = Len(rows)
         /\ DOMAIN rows' = DOMAIN rows
         /\ \A m \in DOMAIN rows : rows'[m].key = rows[m].key
         /\ \A m \in DOMAIN rows : m # n => rows'[m] = rows[m]
         /\ rows'[n] = e
<1>1. n \in 1 .. Len(rows) /\ rows[n] \in Records
  OBVIOUS
<1> QED BY <1>1 DEF Sets

\* Setting one field of a row.
LEMMA SetsField ==
  ASSUME NEW r \in Records
  PROVE  /\ \A s \in Statuses : LET e == [r EXCEPT !.status = s]
                               IN  /\ e \in Records /\ e.key = r.key /\ e.status = s
                                   /\ e.answer = r.answer /\ e.told = r.told
         /\ \A a \in Answers : LET e == [r EXCEPT !.answer = a]
                              IN  /\ e \in Records /\ e.key = r.key /\ e.status = r.status
                                  /\ e.answer = a /\ e.told = r.told
         /\ LET e == [r EXCEPT !.told = TRUE]
            IN  /\ e \in Records /\ e.key = r.key /\ e.status = r.status
                /\ e.answer = r.answer /\ e.told = TRUE
BY DEF Records

\* A status that is set.
LEMMA SetsStatus ==
  ASSUME TypeOK, NEW n \in DOMAIN rows, NEW s \in Statuses, SetStatus(n, s)
  PROVE  \E e : /\ Sets(n, e) /\ e.status = s
               /\ e.answer = rows[n].answer /\ e.told = rows[n].told
<1> DEFINE e == [rows[n] EXCEPT !.status = s]
<1>1. rows[n] \in Records
  BY DEF TypeOK
<1>2. /\ e \in Records /\ e.key = rows[n].key /\ e.status = s
      /\ e.answer = rows[n].answer /\ e.told = rows[n].told
  BY <1>1, SetsField
<1>3. rows' = [rows EXCEPT ![n] = e]
  BY DEF SetStatus
<1> HIDE DEF e
<1> QED BY <1>2, <1>3 DEF Sets

\* What a call of the port does to its row.
LEMMA ActSets ==
  ASSUME TypeOK, NEW l \in Lanes, NEW n, n = lane[l], Act(l)
  PROVE  /\ n \in DOMAIN rows /\ rows[n].answer = "none"
         /\ \E e : /\ Sets(n, e) /\ e.status = rows[n].status
                  /\ e.answer \in {"landed", "refused"} /\ e.told = rows[n].told
<1>1. n \in DOMAIN rows /\ rows[n] \in Records /\ rows[n].answer = "none"
  BY DEF Act, TypeOK
<1>2. PICK a \in {"landed", "refused"} : rows' = [rows EXCEPT ![n].answer = a]
  BY DEF Act
<1> DEFINE e == [rows[n] EXCEPT !.answer = a]
<1>3. /\ e \in Records /\ e.key = rows[n].key /\ e.status = rows[n].status
      /\ e.answer = a /\ e.told = rows[n].told
  <2>1. a \in Answers
    BY DEF Answers
  <2> QED BY <1>1, <2>1, SetsField
<1>4. rows' = [rows EXCEPT ![n] = e]
  BY <1>2
<1> HIDE DEF e
<1> QED BY <1>1, <1>3, <1>4 DEF Sets

\* What the outcome event does to its row.
LEMMA LogSets ==
  ASSUME TypeOK, NEW l \in Lanes, NEW n, n = lane[l], LogOutcome(l)
  PROVE  /\ n \in DOMAIN rows
         /\ \E e : /\ Sets(n, e) /\ e.status = rows[n].status
                  /\ e.answer = rows[n].answer /\ e.told
<1>1. n \in DOMAIN rows /\ rows[n] \in Records
  BY DEF LogOutcome, TypeOK
<1> DEFINE e == [rows[n] EXCEPT !.told = TRUE]
<1>2. /\ e \in Records /\ e.key = rows[n].key /\ e.status = rows[n].status
      /\ e.answer = rows[n].answer /\ e.told
  BY <1>1, SetsField
<1>3. rows' = [rows EXCEPT ![n] = e]
  BY DEF LogOutcome
<1> HIDE DEF e
<1> QED BY <1>1, <1>2, <1>3 DEF Sets

\* What the end of a command does to its row, if it was not recovered.
LEMMA FinalizeSets ==
  ASSUME TypeOK, NEW l \in Lanes, NEW n, n = lane[l], Finalize(l)
  PROVE  /\ n \in DOMAIN rows /\ lane' = [lane EXCEPT ![l] = 0]
         /\ \/ UNCHANGED rows
            \/ /\ rows[n].status = "executing"
               /\ \E v \in Verdicts(rows[n]) : \E e :
                    /\ Sets(n, e) /\ e.status = v
                    /\ e.answer = rows[n].answer /\ e.told = rows[n].told
<1>1. n \in DOMAIN rows /\ lane' = [lane EXCEPT ![l] = 0]
  BY DEF Finalize, TypeOK
<1>2. CASE rows[n].status = "executing"
  <2>1. PICK v \in Verdicts(rows[n]) : SetStatus(n, v)
    BY <1>2 DEF Finalize
  <2>2. v \in Statuses
    BY DEF Verdicts, Statuses, Final
  <2> QED BY <1>1, <1>2, <2>1, <2>2, SetsStatus
<1>3. CASE rows[n].status # "executing"
  BY <1>1, <1>3 DEF Finalize
<1> QED BY <1>2, <1>3

\* A step of a lane, or a recovery.
Worked == \/ \E l \in Lanes : Work(l)
          \/ \E n \in DOMAIN rows : Recover(n)

\* It leaves the threads and their views as they are.
LEMMA WorkedView ==
  Worked => UNCHANGED <<loop, press, cell, reading, shown, slot, seen>>
BY DEF Worked, Work, Claim, Act, LogOutcome, Finalize, Fail, Recover, view

\* It changes one row, or none.
LEMMA WorkedRow ==
  ASSUME TypeOK, Worked
  PROVE  UNCHANGED rows \/ \E n \in DOMAIN rows : \E e : Sets(n, e)
<1>1. ASSUME NEW l \in Lanes, NEW n \in DOMAIN rows, Claim(l, n)
      PROVE  \E i \in DOMAIN rows : \E e : Sets(i, e)
  BY <1>1, SetsStatus DEF Claim, Statuses
<1>2. ASSUME NEW l \in Lanes, Act(l) PROVE \E i \in DOMAIN rows : \E e : Sets(i, e)
  BY <1>2, ActSets
<1>3. ASSUME NEW l \in Lanes, LogOutcome(l) PROVE \E i \in DOMAIN rows : \E e : Sets(i, e)
  BY <1>3, LogSets
<1>4. ASSUME NEW l \in Lanes, Finalize(l)
      PROVE  UNCHANGED rows \/ \E i \in DOMAIN rows : \E e : Sets(i, e)
  BY <1>4, FinalizeSets
<1>5. ASSUME NEW l \in Lanes, Fail(l) PROVE UNCHANGED rows
  BY <1>5 DEF Fail, store
<1>6. ASSUME NEW n \in DOMAIN rows, Recover(n) PROVE \E i \in DOMAIN rows : \E e : Sets(i, e)
  BY <1>6, SetsStatus DEF Recover, Statuses, Final
<1> QED BY <1>1, <1>2, <1>3, <1>4, <1>5, <1>6 DEF Worked, Work

\* The empty press and the empty slot are of their types.
LEMMA EmptyTypes == TypeOK => NoPress \in Presses /\ Idle \in Slots
BY DEF TypeOK, NoPress, Presses, Idle, Slots

\* A press that grows with the table keeps its type.
LEMMA PressesGrow ==
  ASSUME rows \in Seq(Records), rows' \in Seq(Records), Len(rows) <= Len(rows')
  PROVE  Presses \subseteq Presses'
<1>1. Len(rows) \in Nat /\ Len(rows') \in Nat
  OBVIOUS
<1>2. 0 .. Len(rows) \subseteq 0 .. Len(rows')
  BY <1>1
<1> QED BY <1>2 DEF Presses

\* What a press on a row or a valve asks for.
LEMMA PressBase ==
  ASSUME TypeOK, NEW k \in Consoles, NEW x \in Targets, x \in Settings => Editable(k, x)
  PROVE  PressOn(k, x) \in Bases /\ PressOn(k, x).subject = x
<1>1. CASE x \in Valves
  BY <1>1 DEF PressOn, Bases
<1>2. CASE x \notin Valves
  <2>1. x \in Settings /\ shown[k] \in Observed
    BY <1>2 DEF Targets, Editable
  <2>2. Proposed(k, x) \in Values
    BY <2>1, DialAssumption DEF DialAssumption, Proposed, Observed
  <2> QED BY <1>2, <2>1, <2>2 DEF PressOn, Bases
<1> QED BY <1>1, <1>2

\* The identity a press is given is a key.
LEMMA IdentityType ==
  ASSUME NEW p \in Presses, p.base \in Bases, rows \in Seq(Records)
  PROVE  Identity(p) \in Keys /\ Identity(p).base = p.base
<1>1. p.count \in Nat
  BY DEF Presses
<1> QED BY <1>1 DEF Identity, Key, Keys

\* The settings read, or not, keep the slot in its type.
LEMMA FoldType ==
  ASSUME NEW s \in Slots, NEW read \in Reads, TypeOK
  PROVE  Folded(s, read) \in Slots
<1>1. [s EXCEPT !.state = "unchanged", !.mark = 0, !.upon = 0] \in Slots
  BY DEF Slots
<1> QED BY <1>1, EmptyTypes DEF Folded

\* The initial state is of the right type.
LEMMA InitWrites == Init => TypeOK
<1> SUFFICES ASSUME Init PROVE TypeOK
  OBVIOUS
<1>1. rows \in Seq(Records) /\ Len(rows) = 0 /\ Len(outcomes) = 0
  BY DEF Init
<1>2. NoPress \in Presses /\ Idle \in Slots
  BY <1>1 DEF NoPress, Presses, Idle, Slots
<1>3. faults \in 0 .. MaxFaults
  BY BoundsAssumption DEF BoundsAssumption, Init
<1> QED BY <1>1, <1>2, <1>3, DialAssumption DEF DialAssumption, Init, TypeOK, Reads, Observed

\* Every step that appends or changes a row.
LEMMA TableType ==
  ASSUME TypeOK, Pressed, [Next]_vars
  PROVE  /\ rows' \in Seq(Records)
         /\ Len(rows') >= Len(rows)
         /\ \A n \in DOMAIN rows : rows'[n].key = rows[n].key
<1>1. CASE UNCHANGED rows
  BY <1>1 DEF TypeOK
<1>2. ASSUME NEW k \in Consoles, AppendRow(k)
      PROVE  /\ rows' \in Seq(Records)
             /\ Len(rows') >= Len(rows)
             /\ \A n \in DOMAIN rows : rows'[n].key = rows[n].key
  <2>1. rows \in Seq(Records) /\ press[k] \in Presses /\ press[k].base \in Bases
    BY <1>2 DEF AppendRow, TypeOK, Pressed, Issuing
  <2>2. Row(Identity(press[k])) \in Records
    BY <2>1, IdentityType DEF Row, Records, Statuses, Answers
  <2> QED BY <1>2, <2>1, <2>2 DEF AppendRow
<1>3. CASE Worked
  BY <1>1, <1>3, WorkedRow, SetsRow DEF TypeOK
<1> QED BY <1>1, <1>2, <1>3
        DEF Next, Pass, Worked, vars, store, Publish, StoreBusy, Count, List, Look, Confirm

\* Every step keeps every variable in its type.
LEMMA WritesType == ASSUME TypeOK, Pressed, [Next]_vars PROVE TypeOK'
<1> DEFINE Kept == /\ rows' \in Seq(Records)
                   /\ Presses \subseteq Presses'
                   /\ DOMAIN rows \subseteq DOMAIN rows'
<1>0. Kept
  <2>1. /\ rows \in Seq(Records) /\ rows' \in Seq(Records) /\ Len(rows) <= Len(rows')
    BY TableType DEF TypeOK
  <2> QED BY <2>1, PressesGrow
<1>a. press \in [Consoles -> Presses'] /\ lane \in [Lanes -> {0} \cup DOMAIN rows']
  BY <1>0 DEF TypeOK
<1>1. ASSUME NEW k \in Consoles, NEW x \in Targets, Count(k, x) PROVE TypeOK'
  <2> DEFINE p == [NoPress EXCEPT !.base = PressOn(k, x), !.count = Counted, !.upon = Len(rows)]
  <2>a. PressOn(k, x) \in Bases
    BY <1>1, PressBase DEF Count
  <2>b. Counted \in 0 .. Len(rows) /\ Len(rows) \in 0 .. Len(rows)
    BY DEF Counted, TypeOK
  <2>1. p \in Presses
    BY <2>a, <2>b DEF NoPress, Presses
  <2>2. press' = [press EXCEPT ![k] = p]
    BY <1>1 DEF Count
  <2> HIDE DEF p
  <2>3. press' \in [Consoles -> Presses']
    BY <1>0, <1>a, <2>1, <2>2
  <2> QED BY <1>0, <1>1, <1>a, <2>3 DEF Count, Goto, TypeOK, store, view
<1>2. ASSUME NEW k \in Consoles, List(k) PROVE TypeOK'
  <2> DEFINE b == press[k].base.subject \in Valves /\ AllFailed(press[k].base)
             o == \E n \in Attempts(press[k].base) : rows[n].status # "failed"
             p == [press[k] EXCEPT !.retry = b, !.over = o]
  <2>1. b \in BOOLEAN /\ o \in BOOLEAN
    OBVIOUS
  <2>2. press' = [press EXCEPT ![k] = p]
    BY <1>2 DEF List
  <2> HIDE DEF b, o
  <2>3. p \in Presses
    BY <2>1 DEF TypeOK, Presses
  <2> HIDE DEF p
  <2>4. press' \in [Consoles -> Presses']
    BY <1>0, <1>a, <2>2, <2>3
  <2> QED BY <1>0, <1>2, <1>a, <2>4 DEF List, Goto, TypeOK, store, view
<1>3. ASSUME NEW k \in Consoles, AppendRow(k) PROVE TypeOK'
  <2> DEFINE s == [state |-> "pending", subject |-> press[k].base.subject,
                   value |-> press[k].base.value, mark |-> Mark(k), upon |-> press[k].upon]
  <2>1. press' \in [Consoles -> Presses']
    BY <1>0, <1>3, <1>a, EmptyTypes DEF AppendRow
  <2>2. press[k].base \in Bases
    BY <1>3 DEF AppendRow, Pressed, Issuing
  <2>3. CASE press[k].base.subject \in Valves
    <3>1. slot' = slot
      BY <1>3, <2>3 DEF AppendRow
    <3> QED BY <1>0, <1>3, <1>a, <2>1, <3>1 DEF AppendRow, Goto, TypeOK
  <2>4. CASE press[k].base.subject \notin Valves
    <3>1. press[k].base.subject \in Settings /\ press[k].base.value \in Values
      BY <2>2, <2>4 DEF Bases
    <3>2. Mark(k) \in Nat /\ press[k].upon \in Nat
      BY DEF Mark, TypeOK, Presses
    <3>3. s \in Slots
      BY <3>1, <3>2 DEF Slots
    <3>4. slot' = [slot EXCEPT ![k] = s]
      BY <1>3, <2>4 DEF AppendRow
    <3> HIDE DEF s
    <3>5. slot' \in [Consoles -> Slots]
      BY <3>3, <3>4 DEF TypeOK
    <3> QED BY <1>0, <1>3, <1>a, <2>1, <3>5 DEF AppendRow, Goto, TypeOK, Slots
  <2> QED BY <2>3, <2>4
<1>4. ASSUME NEW k \in Consoles, StoreBusy(k) PROVE TypeOK'
  <2>1. press' \in [Consoles -> Presses']
    BY <1>0, <1>4, <1>a, EmptyTypes DEF StoreBusy
  <2>2. faults' \in 0 .. MaxFaults
    BY <1>4, BoundsAssumption DEF BoundsAssumption, StoreBusy, Fault, TypeOK
  <2> QED BY <1>0, <1>4, <1>a, <2>1, <2>2 DEF StoreBusy, Goto, TypeOK, store, view
<1>5. ASSUME NEW k \in Consoles, Publish(k) PROVE TypeOK'
  <2>1. faults' \in 0 .. MaxFaults
    BY <1>5, BoundsAssumption DEF BoundsAssumption, Publish, Fault, TypeOK
  <2>2. cell' \in [Consoles -> Reads]
    BY <1>5 DEF Publish, TypeOK, Reads
  <2> QED BY <1>0, <1>5, <1>a, <2>1, <2>2 DEF Publish, TypeOK, store
<1>6. ASSUME NEW k \in Consoles, Look(k) PROVE TypeOK'
  <2>1. seen' \in [Consoles -> 0 .. Len(outcomes)]
    BY <1>6 DEF Look, TypeOK
  <2>2. cell' \in [Consoles -> Reads] /\ shown' \in [Consoles -> Reads]
    BY <1>6 DEF Look, TypeOK, Reads, Emptied
  <2>3. slot[k] \in Slots /\ cell[k] \in Reads
    BY DEF TypeOK
  <2> DEFINE s == Folded(slot[k], cell[k])
  <2>a. s \in Slots
    BY <2>3, FoldType
  <2>b. slot' = slot \/ slot' = [slot EXCEPT ![k] = s]
    BY <1>6 DEF Look
  <2> HIDE DEF s
  <2>4. slot' \in [Consoles -> Slots]
    BY <2>a, <2>b DEF TypeOK
  <2> QED BY <1>0, <1>6, <1>a, <2>1, <2>2, <2>4 DEF Look, Goto, TypeOK, store, Slots
<1>7. ASSUME NEW k \in Consoles, Confirm(k) PROVE TypeOK'
  <2>1. shown' \in [Consoles -> Reads]
    BY <1>7 DEF Confirm, TypeOK, Reads
  <2>2. slot[k] \in Slots /\ shown'[k] \in Reads
    BY <2>1 DEF TypeOK
  <2>3. slot' \in [Consoles -> Slots]
    BY <1>7, <2>2, FoldType DEF Confirm, TypeOK
  <2>4. faults' \in 0 .. MaxFaults
    BY <1>7, BoundsAssumption DEF BoundsAssumption, Confirm, Fault, TypeOK
  <2> QED BY <1>0, <1>7, <1>a, <2>1, <2>3, <2>4 DEF Confirm, Goto, TypeOK, store, Slots
<1>8. ASSUME NEW l \in Lanes, NEW n \in DOMAIN rows, Claim(l, n) PROVE TypeOK'
  <2>1. lane' \in [Lanes -> {0} \cup DOMAIN rows']
    BY <1>0, <1>8, <1>a DEF Claim
  <2> QED BY <1>0, <1>8, <1>a, <2>1 DEF Claim, TypeOK, view, Slots
<1>9. ASSUME NEW l \in Lanes, Act(l) PROVE TypeOK'
  <2>1. faults' \in 0 .. MaxFaults
    BY <1>9, BoundsAssumption DEF BoundsAssumption, Act, Fault, TypeOK
  <2>2. rows[lane[l]] \in Records
    BY <1>9 DEF Act, TypeOK
  <2>3. rows[lane[l]].key.base.subject \in Settings
          => rows[lane[l]].key.base.value \in Values
    BY <2>2, NamesAssumption DEF NamesAssumption, Records, Keys, Bases
  <2>4. effective' \in Observed
    BY <1>9, <2>3 DEF Act, TypeOK, Observed
  <2> QED BY <1>0, <1>9, <1>a, <2>1, <2>4 DEF Act, TypeOK, view, Slots
<1>10. ASSUME NEW l \in Lanes, LogOutcome(l) PROVE TypeOK'
  <2>1. outcomes' \in Seq(Settings) /\ Len(outcomes) <= Len(outcomes')
    BY <1>10 DEF LogOutcome, TypeOK
  <2>2. 0 .. Len(outcomes) \subseteq 0 .. Len(outcomes')
    BY <2>1 DEF TypeOK
  <2>3. seen' \in [Consoles -> 0 .. Len(outcomes')]
    BY <1>10, <2>2 DEF LogOutcome, TypeOK, view
  <2> QED BY <1>0, <1>10, <1>a, <2>1, <2>3 DEF LogOutcome, TypeOK, view, Slots
<1>11. ASSUME NEW l \in Lanes, Finalize(l) PROVE TypeOK'
  <2>1. lane' \in [Lanes -> {0} \cup DOMAIN rows']
    BY <1>0, <1>11, <1>a DEF Finalize
  <2> QED BY <1>0, <1>11, <1>a, <2>1 DEF Finalize, TypeOK, view, Slots
<1>12. ASSUME NEW l \in Lanes, Fail(l) PROVE TypeOK'
  <2>1. lane' \in [Lanes -> {0} \cup DOMAIN rows']
    BY <1>0, <1>12, <1>a DEF Fail
  <2>2. faults' \in 0 .. MaxFaults
    BY <1>12, BoundsAssumption DEF BoundsAssumption, Fail, Fault, TypeOK
  <2> QED BY <1>0, <1>12, <1>a, <2>1, <2>2 DEF Fail, TypeOK, view, store, Slots
<1>13. ASSUME NEW n \in DOMAIN rows, Recover(n) PROVE TypeOK'
  <2>1. faults' \in 0 .. MaxFaults
    BY <1>13, BoundsAssumption DEF BoundsAssumption, Recover, Fault, TypeOK
  <2> QED BY <1>0, <1>13, <1>a, <2>1 DEF Recover, TypeOK, view, Slots
<1>14. CASE UNCHANGED vars
  BY <1>0, <1>14, <1>a DEF vars, TypeOK, Slots
<1> QED BY <1>1, <1>2, <1>3, <1>4, <1>5, <1>6, <1>7, <1>8, <1>9, <1>10, <1>11, <1>12, <1>13,
           <1>14 DEF Next, Pass, Work

-------------------------------------------------------------------------------
(* Presses *)

\* A step that issues nothing leaves who issues what.
LEMMA RestPresses ==
  ASSUME Pressed, UNCHANGED press,
         \A k \in Consoles : Issuing(k)' <=> Issuing(k)
  PROVE  Pressed'
BY DEF Pressed

\* A press is under way just while the thread issues it.
LEMMA PressedStep == ASSUME TypeOK, Pressed, [Next]_vars PROVE Pressed'
<1> USE DEF Issuing
<1>1. ASSUME NEW k \in Consoles, NEW x \in Targets, Count(k, x) PROVE Pressed'
  <2>1. PressOn(k, x) \in Bases
    BY <1>1, PressBase DEF Count
  <2>2. /\ press' = [press EXCEPT ![k] = [NoPress EXCEPT !.base = PressOn(k, x),
                                                      !.count = Counted, !.upon = Len(rows)]]
        /\ loop' = [loop EXCEPT ![k] = "list"]
    BY <1>1 DEF Count, Goto
  <2>3. press'[k].base \in Bases /\ press'[k].count = press'[k].upon /\ loop'[k] = "list"
    BY <2>1, <2>2 DEF Counted, NoPress, TypeOK
  <2>4. \A c \in Consoles \ {k} : press'[c] = press[c] /\ loop'[c] = loop[c]
    BY <2>2 DEF TypeOK
  <2> QED BY <2>3, <2>4 DEF Pressed
<1>2. ASSUME NEW k \in Consoles, List(k) PROVE Pressed'
  <2>1. /\ press'[k].base = press[k].base /\ press'[k].count = press[k].count
        /\ press'[k].upon = press[k].upon /\ loop'[k] = "append"
    BY <1>2 DEF List, Goto, TypeOK, Presses
  <2>2. \A c \in Consoles \ {k} : press'[c] = press[c] /\ loop'[c] = loop[c]
    BY <1>2 DEF List, Goto, TypeOK
  <2>3. loop[k] = "list"
    BY <1>2 DEF List
  <2> QED BY <2>1, <2>2, <2>3 DEF Pressed
<1>3. ASSUME NEW k \in Consoles, AppendRow(k) \/ StoreBusy(k) PROVE Pressed'
  <2>1. press'[k] = NoPress /\ loop'[k] = "look"
    BY <1>3 DEF AppendRow, StoreBusy, Goto, TypeOK
  <2>2. \A c \in Consoles \ {k} : press'[c] = press[c] /\ loop'[c] = loop[c]
    BY <1>3 DEF AppendRow, StoreBusy, Goto, TypeOK
  <2> QED BY <2>1, <2>2 DEF Pressed
<1>4. ASSUME NEW k \in Consoles, Look(k) \/ Confirm(k) PROVE Pressed'
  <2>1. UNCHANGED press /\ loop[k] \notin {"list", "append"} /\ loop'[k] \notin {"list", "append"}
    BY <1>4 DEF Look, Confirm, Goto, TypeOK
  <2>2. \A c \in Consoles \ {k} : loop'[c] = loop[c]
    BY <1>4 DEF Look, Confirm, Goto, TypeOK
  <2> QED BY <2>1, <2>2, RestPresses
<1>5. ASSUME UNCHANGED <<press, loop>> PROVE Pressed'
  BY <1>5, RestPresses
<1> QED BY <1>1, <1>2, <1>3, <1>4, <1>5, WorkedView DEF Next, Pass, Worked, Publish, vars

\* TypeOK holds for any dial and any bounds.
THEOREM WritesTypeCorrect == Spec => []TypeOK
<1>1. Init => TypeOK /\ Pressed
  BY InitWrites DEF Init, Pressed, Issuing
<1>2. TypeOK /\ Pressed /\ [Next]_vars => (TypeOK /\ Pressed)'
  BY WritesType, PressedStep
<1> QED BY <1>1, <1>2, PTL DEF Spec

-------------------------------------------------------------------------------
(* The launch read *)

\* What was read is neither of the other two.
LEMMA ReadsApart == NotYetRead \notin Observed /\ NotObserved \notin Observed
BY NamesAssumption DEF NamesAssumption, Observed

\* Nothing is edited or followed before the launch read is taken.
LEMMA LaunchingStep == ASSUME TypeOK, Pressed, Launching, [Next]_vars PROVE Launching'
<1> USE DEF Fresh, Issuing
<1>1. ASSUME NEW k \in Consoles, NEW x \in Targets, Count(k, x) PROVE Launching'
  <2>1. press'[k].base = PressOn(k, x) /\ PressOn(k, x).subject = x
    BY <1>1, PressBase DEF Count, NoPress, TypeOK
  <2>2. Fresh(k) => x \notin Settings
    BY <1>1, ReadsApart DEF Count, Editable, Launching
  <2>3. \A c \in Consoles \ {k} : press'[c] = press[c] /\ loop'[c] = loop[c]
    BY <1>1 DEF Count, Goto, TypeOK
  <2>4. loop'[k] = "list"
    BY <1>1 DEF Count, Goto, TypeOK
  <2> QED BY <1>1, <2>1, <2>2, <2>3, <2>4 DEF Count, Launching, view
<1>2. ASSUME NEW k \in Consoles, List(k) PROVE Launching'
  <2>1. press'[k].base = press[k].base /\ loop'[k] = "append" /\ loop[k] = "list"
    BY <1>2 DEF List, Goto, TypeOK, Presses
  <2>2. \A c \in Consoles \ {k} : press'[c] = press[c] /\ loop'[c] = loop[c]
    BY <1>2 DEF List, Goto, TypeOK
  <2> QED BY <1>2, <2>1, <2>2 DEF List, Launching, view
<1>3. ASSUME NEW k \in Consoles, AppendRow(k) PROVE Launching'
  <2>1. loop'[k] = "look" /\ loop[k] = "append"
    BY <1>3 DEF AppendRow, Goto, TypeOK
  <2>2. \A c \in Consoles \ {k} :
          press'[c] = press[c] /\ loop'[c] = loop[c] /\ slot'[c] = slot[c]
    BY <1>3 DEF AppendRow, Goto, TypeOK
  <2>3. press[k].base \in Bases
    BY <2>1 DEF Pressed
  <2>4. Fresh(k) => press[k].base.subject \in Valves
    BY <2>1, <2>3 DEF Launching, Bases
  <2>5. Fresh(k) => slot'[k] = slot[k]
    BY <1>3, <2>4 DEF AppendRow
  <2> QED BY <1>3, <2>1, <2>2, <2>5 DEF AppendRow, Launching
<1>4. ASSUME NEW k \in Consoles, StoreBusy(k) PROVE Launching'
  <2>1. loop'[k] = "look" /\ \A c \in Consoles \ {k} : press'[c] = press[c] /\ loop'[c] = loop[c]
    BY <1>4 DEF StoreBusy, Goto, TypeOK
  <2> QED BY <1>4, <2>1 DEF StoreBusy, Launching, view
<1>5. ASSUME NEW k \in Consoles, Publish(k) PROVE Launching'
  <2>1. reading'[k] = FALSE /\ reading[k]
    BY <1>5 DEF Publish, TypeOK
  <2>2. \A c \in Consoles \ {k} : reading'[c] = reading[c] /\ cell'[c] = cell[c]
    BY <1>5 DEF Publish, TypeOK
  <2> QED BY <1>5, <2>1, <2>2 DEF Publish, Launching
<1>6. ASSUME NEW k \in Consoles, Look(k) PROVE Launching'
  <2>1. \A c \in Consoles \ {k} : /\ cell'[c] = cell[c] /\ shown'[c] = shown[c]
                                  /\ slot'[c] = slot[c] /\ loop'[c] = loop[c]
    BY <1>6 DEF Look, Goto, TypeOK
  <2>2. loop'[k] = IF Settled(slot'[k], seen'[k]) THEN "confirm" ELSE "input"
    BY <1>6 DEF Look, Goto, TypeOK
  <2>3. CASE cell[k] = NotYetRead
    <3>1. UNCHANGED <<cell, shown, slot>>
      BY <1>6, <2>3 DEF Look
    <3>2. slot[k] = Idle => ~Settled(slot'[k], seen'[k])
      BY <3>1 DEF Settled, Idle
    <3> QED BY <1>6, <2>1, <2>2, <3>1, <3>2 DEF Look, Launching
  <2>4. CASE cell[k] # NotYetRead
    <3>1. cell'[k] = NotYetRead /\ ~reading[k]
      BY <1>6, <2>4 DEF Look, Emptied, Launching, TypeOK
    <3> QED BY <1>6, <2>1, <3>1 DEF Look, Launching
  <2> QED BY <2>3, <2>4
<1>7. ASSUME NEW k \in Consoles, Confirm(k) PROVE Launching'
  <2>1. \A c \in Consoles \ {k} : /\ shown'[c] = shown[c]
                                  /\ slot'[c] = slot[c] /\ loop'[c] = loop[c]
    BY <1>7 DEF Confirm, Goto, TypeOK
  <2>2. ~Fresh(k)
    BY <1>7 DEF Confirm, Launching
  <2> QED BY <1>7, <2>1, <2>2 DEF Confirm, Launching
<1>8. ASSUME UNCHANGED <<press, loop, cell, reading, shown, slot>> PROVE Launching'
  BY <1>8 DEF Launching
<1> QED BY <1>1, <1>2, <1>3, <1>4, <1>5, <1>6, <1>7, <1>8, WorkedView
        DEF Next, Pass, Worked, vars

\* LaunchReadFirst: the launch read answers no edit and replaces no later read.
THEOREM LaunchReadIsFirst == Spec => []LaunchReadFirst
<1>1. Init => TypeOK /\ Pressed /\ Launching
  BY InitWrites DEF Init, Pressed, Issuing, Launching, Fresh
<1>2. TypeOK /\ Pressed /\ Launching /\ [Next]_vars => (TypeOK /\ Pressed /\ Launching)'
  BY WritesType, PressedStep, LaunchingStep
<1>3. Launching => LaunchReadFirst
  BY DEF Launching, LaunchReadFirst, Fresh
<1> QED BY <1>1, <1>2, <1>3, PTL DEF Spec

-------------------------------------------------------------------------------
(* Identities *)

\* A row that is appended carries no number, or the length of an earlier table.
LEMMA NumberedStep == ASSUME TypeOK, Pressed, Numbered, [Next]_vars PROVE Numbered'
<1>1. ASSUME NEW k \in Consoles, AppendRow(k) PROVE Numbered'
  <2> DEFINE e == Row(Identity(press[k]))
  <2>1. rows \in Seq(Records) /\ press[k] \in Presses
    BY DEF TypeOK
  <2>2. rows' = rows \/ rows' = Append(rows, e)
    BY <1>1 DEF AppendRow
  <2>3. press[k].count \in Nat /\ press[k].count < Len(rows) + 1
    BY <2>1 DEF Presses
  <2>4. e.key.tag # None => e.key.tag < Len(rows) + 1
    BY <2>3 DEF Row, Identity, Key
  <2> HIDE DEF e
  <2>5. CASE rows' = Append(rows, e)
    <3>1. /\ DOMAIN rows' = 1 .. Len(rows) + 1
          /\ rows'[Len(rows) + 1] = e
          /\ \A n \in 1 .. Len(rows) : rows'[n] = rows[n]
      BY <2>1, <2>5
    <3>2. \A n \in DOMAIN rows' : n \in 1 .. Len(rows) \/ n = Len(rows) + 1
      BY <2>1, <3>1
    <3> QED BY <2>1, <2>4, <3>1, <3>2 DEF Numbered
  <2> QED BY <2>2, <2>5 DEF Numbered
<1>2. ASSUME \A k \in Consoles : ~AppendRow(k) PROVE Numbered'
  <2>1. Len(rows') = Len(rows)
    <3>1. CASE Worked
      BY <3>1, WorkedRow, SetsRow DEF TypeOK
    <3> QED BY <1>2, <3>1 DEF Next, Pass, Worked, vars, store, Publish, StoreBusy, Count,
                              List, Look, Confirm
  <2>2. rows \in Seq(Records) /\ rows' \in Seq(Records)
        /\ \A n \in DOMAIN rows : rows'[n].key = rows[n].key
    BY TableType DEF TypeOK
  <2>3. DOMAIN rows' = DOMAIN rows
    BY <2>1, <2>2
  <2> QED BY <2>2, <2>3 DEF Numbered
<1> QED BY <1>1, <1>2

\* In a table that has not grown, a count is nobody's number.
LEMMA FreshCount ==
  ASSUME TypeOK, Numbered, NEW k \in Consoles, press[k].count = press[k].upon,
         ~(Len(rows) > press[k].upon)
  PROVE  ~Absorbs(Key(press[k].base, press[k].count))
<1>1. press[k] \in Presses /\ rows \in Seq(Records)
  BY DEF TypeOK
<1>2. press[k].count = Len(rows) /\ press[k].count \in Nat
  BY <1>1 DEF Presses
<1>3. press[k].count # None
  BY <1>2, NamesAssumption DEF NamesAssumption
<1> SUFFICES ASSUME NEW n \in DOMAIN rows, rows[n].key = Key(press[k].base, press[k].count)
             PROVE  FALSE
  BY DEF Absorbs
<1>4. rows[n].key.tag = press[k].count
  BY DEF Key
<1>5. press[k].count < n
  BY <1>3, <1>4 DEF Numbered
<1> QED BY <1>1, <1>2, <1>5

\* An append that is not absorbed lengthens the table.
LEMMA AppendGrows ==
  ASSUME TypeOK, NEW k \in Consoles, AppendRow(k), ~Absorbs(Identity(press[k]))
  PROVE  Len(rows') > Len(rows)
BY DEF AppendRow, TypeOK

\* The press that a step ends was appended, unless a fault ended it.
LEMMA PressEnds ==
  ASSUME TypeOK, Pressed, Next, NEW k \in Consoles,
         loop[k] = "append", press'[k] = NoPress, faults' = faults
  PROVE  AppendRow(k)
<1>1. press[k].base \in Bases /\ NoPress.base \notin Bases
  BY NamesAssumption DEF NamesAssumption, Pressed, Issuing, NoPress
<1>2. press[k] # press'[k]
  BY <1>1
<1>3. ASSUME NEW c \in Consoles, c # k, Pass(c) \/ Publish(c) \/ StoreBusy(c)
      PROVE  FALSE
  BY <1>2, <1>3 DEF Pass, List, AppendRow, Look, Confirm, Publish, StoreBusy, TypeOK, view
<1>4. ASSUME NEW c \in Consoles, NEW x \in Targets, Count(c, x) PROVE FALSE
  BY <1>2, <1>4 DEF Count, TypeOK
<1>5. CASE Worked
  BY <1>2, <1>5, WorkedView
<1>6. ASSUME StoreBusy(k) PROVE FALSE
  BY <1>6 DEF StoreBusy, Fault, TypeOK
<1>7. ASSUME List(k) \/ Look(k) \/ Confirm(k) \/ Publish(k) PROVE FALSE
  BY <1>2, <1>7 DEF List, Look, Confirm, Publish
<1> QED BY <1>3, <1>4, <1>5, <1>6, <1>7 DEF Next, Pass, Worked

\* The step that ends a press on a repeatable action.
LEMMA RepeatableStep ==
  TypeOK /\ Pressed /\ Numbered /\ [Next]_vars =>
    [\A k \in Consoles :
       /\ loop[k] = "append" /\ press'[k] = NoPress /\ faults' = faults
       /\ press[k].base.subject \in Settings
       => Len(rows') > Len(rows) \/ Len(rows) > press[k].upon]_vars
<1> SUFFICES ASSUME TypeOK, Pressed, Numbered, Next, NEW k \in Consoles,
                    loop[k] = "append", press'[k] = NoPress, faults' = faults,
                    press[k].base.subject \in Settings, ~(Len(rows) > press[k].upon)
             PROVE  Len(rows') > Len(rows)
  OBVIOUS
<1>1. AppendRow(k)
  BY PressEnds
<1>2. press[k].count = press[k].upon
  BY DEF Pressed, Issuing
<1>3. ~Absorbs(Key(press[k].base, press[k].count))
  BY <1>2, FreshCount
<1>4. Identity(press[k]) = Key(press[k].base, press[k].count)
  BY DEF Identity
<1> QED BY <1>1, <1>3, <1>4, AppendGrows

\* RepeatablesLand: only a concurrent append absorbs a press on a setting.
THEOREM RepeatablesAreAppended == Spec => RepeatablesLand
<1>1. Init => TypeOK /\ Pressed /\ Numbered
  BY InitWrites DEF Init, Pressed, Issuing, Numbered
<1>2. TypeOK /\ Pressed /\ Numbered /\ [Next]_vars => (TypeOK /\ Pressed /\ Numbered)'
  BY WritesType, PressedStep, NumberedStep
<1> QED BY <1>1, <1>2, RepeatableStep, PTL DEF Spec, RepeatablesLand

-------------------------------------------------------------------------------
(* Valves *)

\* A table that has not grown holds the same attempts.
LEMMA AttemptsKept ==
  ASSUME TypeOK, Pressed, [Next]_vars, Len(rows') = Len(rows)
  PROVE  \A b : {n \in DOMAIN rows' : rows'[n].key.base = b} = Attempts(b)
<1>1. /\ rows \in Seq(Records) /\ rows' \in Seq(Records)
      /\ \A n \in DOMAIN rows : rows'[n].key = rows[n].key
  BY TableType DEF TypeOK
<1>2. DOMAIN rows' = DOMAIN rows
  BY <1>1
<1> QED BY <1>1, <1>2 DEF Attempts

\* What was listed stays so for a press that this step leaves as it is.
LEMMA ListedKept ==
  ASSUME TypeOK, Pressed, Listed, [Next]_vars, NEW c \in Consoles,
         press'[c] = press[c], loop'[c] = "append" => loop[c] = "append",
         loop'[c] = "append", press'[c].base.subject \in Valves,
         Len(rows') = press'[c].upon, ~press'[c].over,
         {n \in DOMAIN rows' : rows'[n].key.base = press'[c].base} # {}
  PROVE  press'[c].retry
<1>1. rows \in Seq(Records) /\ Len(rows') >= Len(rows) /\ press[c] \in Presses
  BY TableType DEF TypeOK
<1>2. Len(rows') = Len(rows)
  BY <1>1, TableType DEF Presses
<1>3. Attempts(press[c].base) # {}
  BY <1>2, AttemptsKept
<1> QED BY <1>2, <1>3 DEF Listed

\* The list tells of every attempt, and nothing but an append outdates it.
LEMMA ListedStep == ASSUME TypeOK, Pressed, Listed, [Next]_vars PROVE Listed'
<1> SUFFICES ASSUME NEW c \in Consoles, loop'[c] = "append", press'[c].base.subject \in Valves,
                    Len(rows') = press'[c].upon, ~press'[c].over,
                    {n \in DOMAIN rows' : rows'[n].key.base = press'[c].base} # {}
             PROVE  press'[c].retry
  BY DEF Listed, Attempts
<1>1. CASE List(c)
  <2>1. /\ press'[c].base = press[c].base
        /\ press'[c].retry = (press[c].base.subject \in Valves /\ AllFailed(press[c].base))
        /\ press'[c].over = (\E n \in Attempts(press[c].base) : rows[n].status # "failed")
    BY <1>1 DEF List, TypeOK, Presses
  <2>2. rows' = rows
    BY <1>1 DEF List, store
  <2>3. Attempts(press[c].base) # {}
    BY <2>1, <2>2 DEF Attempts
  <2> QED BY <2>1, <2>3 DEF AllFailed
<1>2. CASE ~List(c)
  <2>1. press'[c] = press[c] /\ loop[c] = "append"
    <3>1. ASSUME NEW k \in Consoles, NEW x \in Targets, Count(k, x)
          PROVE  press'[c] = press[c] /\ loop[c] = "append"
      BY <3>1 DEF Count, Goto, TypeOK
    <3>2. ASSUME NEW k \in Consoles, k # c \/ ~List(k), Pass(k) \/ StoreBusy(k) \/ Publish(k)
          PROVE  press'[c] = press[c] /\ loop[c] = "append"
      BY <3>2 DEF Pass, List, AppendRow, Look, Confirm, StoreBusy, Publish, Goto, TypeOK, view
    <3>3. ASSUME UNCHANGED <<press, loop>> PROVE press'[c] = press[c] /\ loop[c] = "append"
      BY <3>3
    <3>4. CASE Worked
      BY <3>3, <3>4, WorkedView
    <3> QED BY <1>2, <3>1, <3>2, <3>3, <3>4 DEF Next, Worked, vars
  <2> QED BY <2>1, ListedKept
<1> QED BY <1>1, <1>2

\* The step that ends a press on a valve whose attempts have all failed.
LEMMA ValveStep ==
  TypeOK /\ Pressed /\ Numbered /\ Listed /\ [Next]_vars =>
    [\A k \in Consoles :
       /\ loop[k] = "append" /\ press'[k] = NoPress /\ faults' = faults
       /\ press[k].base.subject \in Valves
       /\ AllFailed(press[k].base) /\ ~press[k].over
       => Len(rows') > Len(rows) \/ Len(rows) > press[k].upon]_vars
<1> SUFFICES ASSUME TypeOK, Pressed, Numbered, Listed, Next, NEW k \in Consoles,
                    loop[k] = "append", press'[k] = NoPress, faults' = faults,
                    press[k].base.subject \in Valves, AllFailed(press[k].base),
                    ~press[k].over, ~(Len(rows) > press[k].upon)
             PROVE  Len(rows') > Len(rows)
  OBVIOUS
<1>1. AppendRow(k)
  BY PressEnds
<1>2. press[k].count = press[k].upon
  BY DEF Pressed, Issuing
<1>3. ~Absorbs(Key(press[k].base, press[k].count))
  BY <1>2, FreshCount
<1>4. Len(rows) = press[k].upon
  BY DEF TypeOK, Presses
<1>5. press[k].retry
  BY <1>4 DEF Listed, AllFailed
<1>6. Identity(press[k]) = Key(press[k].base, press[k].count)
  BY <1>5 DEF Identity
<1> QED BY <1>1, <1>3, <1>6, AppendGrows

\* FailedValveRetried: a valve whose attempts have all failed is never stuck.
THEOREM FailedValvesAreRetried == Spec => FailedValveRetried
<1> DEFINE Inv == TypeOK /\ Pressed /\ Numbered /\ Listed
<1>1. Init => Inv
  BY InitWrites DEF Init, Pressed, Issuing, Numbered, Listed
<1>2. Inv /\ [Next]_vars => Inv'
  BY WritesType, PressedStep, NumberedStep, ListedStep
<1> QED BY <1>1, <1>2, ValveStep, PTL DEF Spec, FailedValveRetried

-------------------------------------------------------------------------------
(* Outcomes *)

\* A row whose outcome is not in the log, or is there past the mark.
OpenIn(table, reported, n, mark) ==
  \/ ~table[n].told
  \/ \E m \in mark + 1 .. Len(reported) : reported[m] = table[n].key.base.subject

\* While a setting is issued: a row appended since its count has no outcome that
\* the thread has listed.
Unlisted ==
  \A k \in Consoles, n \in DOMAIN rows :
    Issuing(k) /\ n > press[k].upon /\ rows[n].key.base.subject \in Settings
      => OpenIn(rows, outcomes, n, seen[k])

\* A write that is followed is of a setting, and its mark a number of events that
\* were in the log.
Marked ==
  \A k \in Consoles : /\ slot[k].mark <= Len(outcomes)
                      /\ slot[k].state = "pending" => slot[k].subject \in Settings

\* How a step changes the table and the outcomes: a row whose outcome is told has it
\* appended, and a row that is new has none.
LEMMA TableSteps ==
  ASSUME TypeOK, Pressed, [Next]_vars
  PROVE  /\ Len(outcomes') >= Len(outcomes)
         /\ \A m \in 1 .. Len(outcomes) : outcomes'[m] = outcomes[m]
         /\ \A n \in DOMAIN rows' :
              n \in DOMAIN rows \/ (n = Len(rows) + 1 /\ ~rows'[n].told)
         /\ \A n \in DOMAIN rows :
              ~rows[n].told /\ rows'[n].told /\ rows[n].key.base.subject \in Settings
                => /\ Len(outcomes') = Len(outcomes) + 1
                   /\ outcomes'[Len(outcomes) + 1] = rows[n].key.base.subject
<1> DEFINE Goal == /\ Len(outcomes') >= Len(outcomes)
                   /\ \A m \in 1 .. Len(outcomes) : outcomes'[m] = outcomes[m]
                   /\ \A n \in DOMAIN rows' :
                        n \in DOMAIN rows \/ (n = Len(rows) + 1 /\ ~rows'[n].told)
                   /\ \A n \in DOMAIN rows :
                        ~rows[n].told /\ rows'[n].told /\ rows[n].key.base.subject \in Settings
                          => /\ Len(outcomes') = Len(outcomes) + 1
                             /\ outcomes'[Len(outcomes) + 1] = rows[n].key.base.subject
<1>0. rows \in Seq(Records) /\ outcomes \in Seq(Settings) /\ Len(outcomes) \in Nat
  BY DEF TypeOK
<1>1. CASE UNCHANGED <<rows, outcomes>>
  BY <1>0, <1>1
<1>2. ASSUME NEW k \in Consoles, AppendRow(k) PROVE Goal
  <2> DEFINE e == Row(Identity(press[k]))
  <2>1. UNCHANGED outcomes /\ (rows' = rows \/ rows' = Append(rows, e)) /\ ~e.told
    BY <1>2 DEF AppendRow, Row
  <2> HIDE DEF e
  <2>2. CASE rows' = Append(rows, e)
    <3>1. /\ DOMAIN rows' = 1 .. Len(rows) + 1 /\ DOMAIN rows = 1 .. Len(rows) /\ Len(rows) \in Nat
          /\ rows'[Len(rows) + 1] = e
          /\ \A n \in 1 .. Len(rows) : rows'[n] = rows[n]
      BY <1>0, <2>2
    <3> QED BY <1>0, <2>1, <3>1
  <2> QED BY <1>0, <2>1, <2>2
<1>3. ASSUME UNCHANGED outcomes, NEW n \in DOMAIN rows, NEW e, Sets(n, e), e.told = rows[n].told
      PROVE  Goal
  BY <1>0, <1>3, SetsRow
<1>4. ASSUME NEW l \in Lanes, NEW n \in DOMAIN rows, Claim(l, n) PROVE Goal
  <2>1. SetStatus(n, "executing") /\ UNCHANGED outcomes /\ "executing" \in Statuses
    BY <1>4 DEF Claim, Statuses
  <2> HIDE DEF Goal
  <2> QED BY <1>3, <2>1, SetsStatus
<1>5. ASSUME NEW l \in Lanes, Act(l) PROVE Goal
  <2>1. UNCHANGED outcomes
    BY <1>5 DEF Act
  <2> HIDE DEF Goal
  <2> QED BY <1>3, <1>5, <2>1, ActSets
<1>6. ASSUME NEW l \in Lanes, LogOutcome(l) PROVE Goal
  <2>1. PICK n : n = lane[l]
    OBVIOUS
  <2>2. n \in DOMAIN rows
    BY <1>6, <2>1, LogSets
  <2>3. PICK e : Sets(n, e) /\ e.told
    BY <1>6, <2>1, LogSets
  <2> DEFINE x == rows[n].key.base.subject
  <2>4. outcomes' = IF x \in Settings THEN Append(outcomes, x) ELSE outcomes
    BY <1>6, <2>1 DEF LogOutcome
  <2>5. CASE x \notin Settings
    BY <1>0, <2>2, <2>3, <2>4, <2>5, SetsRow
  <2>6. CASE x \in Settings
    <3>1. /\ Len(outcomes') = Len(outcomes) + 1
          /\ outcomes'[Len(outcomes) + 1] = x
          /\ \A m \in 1 .. Len(outcomes) : outcomes'[m] = outcomes[m]
      BY <1>0, <2>4, <2>6
    <3> QED BY <1>0, <2>2, <2>3, <3>1, SetsRow
  <2> QED BY <2>5, <2>6
<1>7. ASSUME NEW l \in Lanes, Finalize(l) PROVE Goal
  <2>1. UNCHANGED outcomes
    BY <1>7 DEF Finalize
  <2>2. CASE UNCHANGED rows
    BY <1>1, <2>1, <2>2
  <2>3. CASE ~UNCHANGED rows
    <3> HIDE DEF Goal
    <3> QED BY <1>3, <1>7, <2>1, <2>3, FinalizeSets
  <2> QED BY <2>2, <2>3
<1>8. ASSUME NEW l \in Lanes, Fail(l) PROVE Goal
  BY <1>1, <1>8 DEF Fail, store
<1>9. ASSUME NEW n \in DOMAIN rows, Recover(n) PROVE Goal
  <2>1. SetStatus(n, "failed") /\ UNCHANGED outcomes /\ "failed" \in Statuses
    BY <1>9 DEF Recover, Statuses, Final
  <2> HIDE DEF Goal
  <2> QED BY <1>3, <2>1, SetsStatus
<1>10. ASSUME UNCHANGED <<rows, outcomes>> PROVE Goal
  BY <1>1, <1>10
<1> HIDE DEF Goal
<1>11. Goal
  BY <1>2, <1>4, <1>5, <1>6, <1>7, <1>8, <1>9, <1>10
     DEF Next, Pass, Work, vars, store, Publish, StoreBusy, Count, List, Look, Confirm
<1> QED BY <1>11 DEF Goal

\* A row that is open past a mark stays so.
LEMMA OpenStays ==
  ASSUME TypeOK, Pressed, [Next]_vars, NEW n \in DOMAIN rows, NEW mark \in 0 .. Len(outcomes),
         rows[n].key.base.subject \in Settings, OpenIn(rows, outcomes, n, mark)
  PROVE  OpenIn(rows', outcomes', n, mark)
<1>1. rows'[n].key = rows[n].key /\ Len(outcomes) \in Nat /\ Len(outcomes') \in Nat
  <2>1. rows'[n].key = rows[n].key
    BY TableType
  <2>2. outcomes' \in Seq(Settings) /\ outcomes \in Seq(Settings)
    BY WritesType DEF TypeOK
  <2> QED BY <2>1, <2>2
<1>2. CASE ~rows[n].told /\ rows'[n].told
  <2>1. /\ Len(outcomes') = Len(outcomes) + 1
        /\ outcomes'[Len(outcomes) + 1] = rows[n].key.base.subject
    BY <1>2, TableSteps
  <2> QED BY <1>1, <2>1 DEF OpenIn
<1>3. CASE ~rows'[n].told
  BY <1>3 DEF OpenIn
<1>4. CASE rows[n].told
  <2>1. PICK m \in mark + 1 .. Len(outcomes) : outcomes[m] = rows[n].key.base.subject
    BY <1>4 DEF OpenIn
  <2>2. m \in 1 .. Len(outcomes) /\ m \in mark + 1 .. Len(outcomes')
    BY <1>1, TableSteps
  <2> QED BY <1>1, <2>1, <2>2, TableSteps DEF OpenIn
<1> QED BY <1>2, <1>3, <1>4

\* A thread that is issuing after a step has just counted the table, or was issuing
\* the same press with the same events before.
LEMMA IssuingSteps ==
  ASSUME TypeOK, Pressed, [Next]_vars, NEW k \in Consoles, Issuing(k)'
  PROVE  \/ UNCHANGED rows /\ press'[k].upon = Len(rows)
         \/ Issuing(k) /\ press'[k].upon = press[k].upon /\ seen'[k] = seen[k]
<1>1. ASSUME NEW x \in Targets, Count(k, x)
      PROVE  UNCHANGED rows /\ press'[k].upon = Len(rows)
  <2>1. press' = [press EXCEPT ![k] = [NoPress EXCEPT !.base = PressOn(k, x), !.count = Counted,
                                                      !.upon = Len(rows)]]
    BY <1>1 DEF Count
  <2>2. press'[k].upon = Len(rows)
    BY <2>1 DEF TypeOK, NoPress
  <2> QED BY <1>1, <2>2 DEF Count, store
<1>2. CASE List(k)
  BY <1>2 DEF List, Issuing, TypeOK, Presses, view
<1>3. CASE AppendRow(k) \/ StoreBusy(k) \/ Look(k) \/ Confirm(k)
  BY <1>3 DEF AppendRow, StoreBusy, Look, Confirm, Goto, Issuing, TypeOK
<1>4. ASSUME UNCHANGED <<loop[k], press[k], seen[k]>>
      PROVE  Issuing(k) /\ press'[k].upon = press[k].upon /\ seen'[k] = seen[k]
  BY <1>4 DEF Issuing
<1>5. ASSUME NEW c \in Consoles, c # k, \/ Pass(c) \/ StoreBusy(c)
                                        \/ \E x \in Targets : Count(c, x)
      PROVE  UNCHANGED <<loop[k], press[k], seen[k]>>
  BY <1>5 DEF Pass, List, AppendRow, Look, Confirm, StoreBusy, Count, Goto, TypeOK, view
<1>6. ASSUME NEW c \in Consoles, Publish(c) PROVE UNCHANGED <<loop[k], press[k], seen[k]>>
  BY <1>6 DEF Publish
<1>7. ASSUME Worked PROVE UNCHANGED <<loop[k], press[k], seen[k]>>
  BY <1>7, WorkedView
<1> QED BY <1>1, <1>2, <1>3, <1>4, <1>5, <1>6, <1>7 DEF Next, Pass, Worked, vars

\* No outcome of a row appended since the count has been listed.
LEMMA UnlistedStep == ASSUME TypeOK, Pressed, Unlisted, [Next]_vars PROVE Unlisted'
<1> SUFFICES ASSUME NEW k \in Consoles, NEW n \in DOMAIN rows', Issuing(k)',
                    n > press'[k].upon, rows'[n].key.base.subject \in Settings
             PROVE  OpenIn(rows', outcomes', n, seen'[k])
  BY DEF Unlisted, OpenIn
<1>1. CASE n \notin DOMAIN rows
  BY <1>1, TableSteps DEF OpenIn
<1>2. CASE n \in DOMAIN rows
  <2>1. rows \in Seq(Records) /\ rows'[n].key = rows[n].key
    BY <1>2, TableType DEF TypeOK
  <2>2. ~(n > Len(rows))
    BY <1>2, <2>1
  <2>3. Issuing(k) /\ press'[k].upon = press[k].upon /\ seen'[k] = seen[k]
    BY <2>2, IssuingSteps
  <2>4. OpenIn(rows, outcomes, n, seen[k]) /\ seen[k] \in 0 .. Len(outcomes)
    BY <1>2, <2>1, <2>3 DEF Unlisted, TypeOK
  <2> QED BY <1>2, <2>1, <2>3, <2>4, OpenStays
<1> QED BY <1>1, <1>2

\* A write that is followed after a step was followed before, or has just been issued.
LEMMA SlotSteps ==
  ASSUME TypeOK, Pressed, [Next]_vars, NEW k \in Consoles
  PROVE  \/ slot'[k] = slot[k]
         \/ slot'[k].state # "pending" /\ slot'[k].mark = 0
         \/ /\ AppendRow(k) /\ press[k].base.subject \in Settings
            /\ slot'[k] = [state |-> "pending", subject |-> press[k].base.subject,
                           value |-> press[k].base.value, mark |-> seen[k],
                           upon |-> press[k].upon]
<1>1. ASSUME NEW s \in Slots, NEW read PROVE \/ Folded(s, read) = s
                                             \/ /\ Folded(s, read).state # "pending"
                                                /\ Folded(s, read).mark = 0
  BY <1>1 DEF Folded, Idle, Slots
<1>2. slot[k] \in Slots /\ press[k] \in Presses
  BY DEF TypeOK
<1>3. CASE AppendRow(k)
  <2>1. press[k].base \in Bases
    BY <1>3 DEF AppendRow, Pressed, Issuing
  <2>2. press[k].base.subject \in Valves \/ press[k].base.subject \in Settings
    BY <2>1 DEF Bases
  <2> QED BY <1>3, <2>2 DEF AppendRow, Mark, TypeOK
<1>4. CASE Look(k) \/ Confirm(k)
  <2>1. slot'[k] = slot[k] \/ \E read : slot'[k] = Folded(slot[k], read)
    BY <1>4 DEF Look, Confirm, TypeOK
  <2> QED BY <1>1, <1>2, <2>1
<1>5. ASSUME NEW c \in Consoles, c # k, Pass(c) PROVE slot'[k] = slot[k]
  BY <1>5 DEF Pass, List, AppendRow, Look, Confirm, TypeOK, view
<1>6. ASSUME NEW c \in Consoles, \/ Publish(c) \/ StoreBusy(c) \/ List(c)
                                 \/ \E x \in Targets : Count(c, x)
      PROVE  slot'[k] = slot[k]
  BY <1>6 DEF Publish, StoreBusy, List, Count, view
<1>7. ASSUME Worked PROVE slot'[k] = slot[k]
  BY <1>7, WorkedView
<1> QED BY <1>3, <1>4, <1>5, <1>6, <1>7 DEF Next, Pass, Worked, vars

\* Marks stay in the log.
LEMMA MarkedStep == ASSUME TypeOK, Pressed, Marked, [Next]_vars PROVE Marked'
<1> SUFFICES ASSUME NEW k \in Consoles
             PROVE  /\ slot'[k].mark <= Len(outcomes')
                    /\ slot'[k].state = "pending" => slot'[k].subject \in Settings
  BY DEF Marked
<1>1. /\ Len(outcomes) \in Nat /\ Len(outcomes') \in Nat /\ Len(outcomes') >= Len(outcomes)
      /\ slot[k] \in Slots /\ seen[k] \in 0 .. Len(outcomes)
  <2>1. outcomes' \in Seq(Settings) /\ outcomes \in Seq(Settings)
    BY WritesType DEF TypeOK
  <2> QED BY <2>1, TableSteps DEF TypeOK
<1>2. CASE slot'[k] = slot[k]
  BY <1>1, <1>2 DEF Marked, Slots
<1>3. CASE slot'[k].state # "pending" /\ slot'[k].mark = 0
  BY <1>1, <1>3
<1>4. CASE /\ press[k].base.subject \in Settings
           /\ slot'[k] = [state |-> "pending", subject |-> press[k].base.subject,
                          value |-> press[k].base.value, mark |-> seen[k],
                          upon |-> press[k].upon]
  BY <1>1, <1>4
<1> QED BY <1>2, <1>3, <1>4, SlotSteps

\* A write is followed from its issue, at which its rows are open past its mark, and
\* they stay so, as does any row of the same write that is appended later.
LEMMA AheadStep ==
  ASSUME TypeOK, Pressed, Numbered, Unlisted, Marked, OutcomeAhead, [Next]_vars
  PROVE  OutcomeAhead'
<1> DEFINE OfEdit(n, k) == /\ rows'[n].key.base = [subject |-> slot'[k].subject,
                                                   value |-> slot'[k].value]
                           /\ n > slot'[k].upon
<1> SUFFICES ASSUME NEW k \in Consoles, slot'[k].state = "pending"
             PROVE  /\ \E n \in DOMAIN rows' : OfEdit(n, k)
                    /\ \A n \in DOMAIN rows' : OfEdit(n, k) =>
                         ~rows'[n].told \/ \E m \in slot'[k].mark + 1 .. Len(outcomes') :
                                             outcomes'[m] = slot'[k].subject
  BY DEF OutcomeAhead, Edited, Attempts
<1>1. /\ rows \in Seq(Records) /\ rows' \in Seq(Records) /\ Len(rows') >= Len(rows)
      /\ \A n \in DOMAIN rows : rows'[n].key = rows[n].key
  BY TableType DEF TypeOK
<1>2. DOMAIN rows \subseteq DOMAIN rows'
  BY <1>1
<1>3. ASSUME NEW n \in DOMAIN rows', n \notin DOMAIN rows PROVE ~rows'[n].told
  BY <1>3, TableSteps
<1>4. CASE slot'[k] = slot[k]
  <2>1. PICK i \in DOMAIN rows :
          /\ rows[i].key.base = [subject |-> slot[k].subject, value |-> slot[k].value]
          /\ i > slot[k].upon
    BY <1>4 DEF OutcomeAhead, Edited, Attempts
  <2>2. \E n \in DOMAIN rows' : OfEdit(n, k)
    BY <1>1, <1>2, <1>4, <2>1
  <2>3. slot[k].mark \in 0 .. Len(outcomes) /\ slot[k].subject \in Settings
    BY <1>4 DEF Marked, TypeOK, Slots
  <2>4. ASSUME NEW n \in DOMAIN rows', OfEdit(n, k), n \in DOMAIN rows
        PROVE  ~rows'[n].told \/ \E m \in slot'[k].mark + 1 .. Len(outcomes') :
                                    outcomes'[m] = slot'[k].subject
    <3>1. /\ rows[n].key.base = [subject |-> slot[k].subject, value |-> slot[k].value]
          /\ n > slot[k].upon
      BY <1>1, <1>4, <2>4
    <3>2. rows[n].key.base.subject = slot[k].subject
      BY <3>1
    <3>3. OpenIn(rows, outcomes, n, slot[k].mark)
      BY <1>4, <2>4, <3>1, <3>2 DEF OutcomeAhead, Edited, Attempts, OpenIn
    <3>4. OpenIn(rows', outcomes', n, slot[k].mark)
      BY <2>3, <2>4, <3>2, <3>3, OpenStays
    <3> QED BY <1>1, <1>4, <2>4, <3>2, <3>4 DEF OpenIn
  <2> QED BY <1>3, <2>2, <2>4
<1>5. CASE /\ AppendRow(k) /\ press[k].base.subject \in Settings
           /\ slot'[k] = [state |-> "pending", subject |-> press[k].base.subject,
                          value |-> press[k].base.value, mark |-> seen[k],
                          upon |-> press[k].upon]
  <2>1. /\ press[k] \in Presses /\ press[k].base \in Bases /\ press[k].count = press[k].upon
        /\ Issuing(k) /\ press[k].count \in Nat /\ press[k].upon \in 0 .. Len(rows)
    BY <1>5 DEF AppendRow, Pressed, Issuing, TypeOK, Presses
  <2>2. press[k].base = [subject |-> press[k].base.subject, value |-> press[k].base.value]
    BY <1>5, <2>1, NamesAssumption DEF NamesAssumption, Bases
  <2>3. Identity(press[k]) = [base |-> press[k].base, tag |-> press[k].count]
    BY <1>5 DEF Identity, Key
  <2>4. /\ slot'[k].subject = press[k].base.subject /\ slot'[k].value = press[k].base.value
        /\ slot'[k].mark = seen[k] /\ slot'[k].upon = press[k].upon
    BY <1>5
  <2>5. outcomes' = outcomes /\ \A n \in DOMAIN rows : rows'[n] = rows[n]
    BY <1>1, <1>5 DEF AppendRow
  <2>6. ASSUME NEW n \in DOMAIN rows', OfEdit(n, k), n \in DOMAIN rows
        PROVE  ~rows'[n].told \/ \E m \in slot'[k].mark + 1 .. Len(outcomes') :
                                    outcomes'[m] = slot'[k].subject
    <3>1. rows[n].key.base = press[k].base /\ n > press[k].upon
      BY <1>1, <2>2, <2>4, <2>6
    <3>2. OpenIn(rows, outcomes, n, seen[k])
      BY <1>5, <2>1, <2>6, <3>1 DEF Unlisted
    <3> QED BY <2>4, <2>5, <2>6, <3>1, <3>2 DEF OpenIn
  <2>7. CASE Absorbs(Identity(press[k]))
    <3>1. PICK n \in DOMAIN rows : rows[n].key = Identity(press[k])
      BY <2>7 DEF Absorbs
    <3>2. rows[n].key.base = press[k].base /\ rows[n].key.tag = press[k].count
      BY <2>3, <3>1
    <3>3. press[k].count < n
      BY <2>1, <3>2, NamesAssumption DEF NamesAssumption, Numbered
    <3>4. OfEdit(n, k) /\ n \in DOMAIN rows'
      BY <1>2, <2>1, <2>2, <2>4, <2>5, <3>2, <3>3
    <3> HIDE DEF OfEdit
    <3> QED BY <1>3, <2>6, <3>4
  <2>8. CASE ~Absorbs(Identity(press[k]))
    <3>1. rows' = Append(rows, Row(Identity(press[k])))
      BY <1>5, <2>8 DEF AppendRow
    <3>2. Len(rows) + 1 \in DOMAIN rows' /\ rows'[Len(rows) + 1].key = Identity(press[k])
      BY <1>1, <3>1 DEF Row
    <3>3. OfEdit(Len(rows) + 1, k)
      BY <1>1, <2>1, <2>2, <2>3, <2>4, <3>2
    <3> HIDE DEF OfEdit
    <3> QED BY <1>3, <2>6, <3>2, <3>3
  <2> QED BY <2>7, <2>8
<1> QED BY <1>4, <1>5, SlotSteps

\* OutcomeAhead: no outcome an edit waits for is missed, whichever console's row
\* absorbed it, wherever the lanes fail and whichever rows are recovered.
THEOREM OutcomesAreAhead == Spec => []OutcomeAhead
<1> DEFINE Inv == TypeOK /\ Pressed /\ Numbered /\ Unlisted /\ Marked /\ OutcomeAhead
<1>1. Init => Inv
  BY InitWrites DEF Init, Pressed, Issuing, Numbered, Unlisted, Marked, OutcomeAhead, Idle
<1>2. Inv /\ [Next]_vars => Inv'
  BY WritesType, PressedStep, NumberedStep, UnlistedStep, MarkedStep, AheadStep
<1>3. Inv => OutcomeAhead
  OBVIOUS
<1> QED BY <1>1, <1>2, <1>3, PTL DEF Spec

-------------------------------------------------------------------------------
(* The queue of identities *)

\* No two rows have one identity.
KeysOnce == \A m, n \in DOMAIN rows : rows[m].key = rows[n].key => m = n

\* The row a lane works on is executing, or was recovered under it, and no other lane
\* has it.
Served ==
  /\ \A l \in Lanes : lane[l] # 0 => rows[lane[l]].status \in {"executing", "failed"}
  /\ \A l, m \in Lanes : lane[l] = lane[m] /\ lane[l] # 0 => l = m

\* A row stands for its identity.
LEMMA OneRow ==
  ASSUME TypeOK, KeysOnce, NEW n \in DOMAIN rows
  PROVE  /\ rows[n].key \in Keys
         /\ RowsOf(rows[n].key) = {n}
         /\ Queued[rows[n].key] = rows[n].status
         /\ TimesAsked[rows[n].key] = IF rows[n].answer # "none" THEN 1 ELSE 0
         /\ rows[n].key \in Landed <=> rows[n].answer = "landed"
<1> DEFINE key == rows[n].key
<1>1. rows[n] \in Records
  BY DEF TypeOK
<1>2. key \in Keys
  BY <1>1 DEF Records
<1>3. RowsOf(key) = {n}
  BY DEF RowsOf, KeysOnce
<1> HIDE DEF key
<1>4. (CHOOSE m \in RowsOf(key) : TRUE) = n
  BY <1>3
<1>5. Queued[key] = rows[n].status
  BY <1>2, <1>3, <1>4 DEF Queued
<1>6. TimesAsked[key] = IF rows[n].answer # "none" THEN 1 ELSE 0
  BY <1>2, <1>3 DEF TimesAsked
<1>7. key \in Landed <=> rows[n].answer = "landed"
  BY <1>2, <1>3 DEF Landed
<1> QED BY <1>2, <1>3, <1>5, <1>6, <1>7 DEF key

\* An identity without a row is absent from the queue.
LEMMA NoRowYet ==
  ASSUME NEW key \in Keys, RowsOf(key) = {}
  PROVE  Queued[key] = "absent" /\ TimesAsked[key] = 0 /\ key \notin Landed
BY DEF Queued, TimesAsked, Landed

\* An identity whose row a step leaves alone.
LEMMA Unmoved ==
  ASSUME NEW k \in Keys, RowsOf(k)' = RowsOf(k), \A m \in RowsOf(k) : rows'[m] = rows[m]
  PROVE  /\ Queued'[k] = Queued[k] /\ TimesAsked'[k] = TimesAsked[k]
         /\ k \in Landed' <=> k \in Landed
<1>1. Queued'[k] = Queued[k]
  <2>1. CASE RowsOf(k) = {}
    BY <2>1 DEF Queued
  <2>2. CASE RowsOf(k) # {}
    <3>1. PICK m : m = CHOOSE i \in RowsOf(k) : TRUE
      OBVIOUS
    <3>2. m \in RowsOf(k)
      BY <2>2, <3>1
    <3>3. Queued[k] = rows[m].status /\ Queued'[k] = rows'[m].status
      BY <2>2, <3>1 DEF Queued
    <3> QED BY <3>2, <3>3
  <2> QED BY <2>1, <2>2
<1> QED BY <1>1 DEF TimesAsked, Landed

\* The queue is of the identities.
LEMMA OfKeys ==
  /\ Queued = [k \in Keys |-> Queued[k]]
  /\ TimesAsked = [k \in Keys |-> TimesAsked[k]]
  /\ Landed \subseteq Keys
BY DEF Queued, TimesAsked, Landed

\* ... after a step, too.
LEMMA StillOfKeys ==
  /\ Queued' = [k \in Keys |-> Queued'[k]]
  /\ TimesAsked' = [k \in Keys |-> TimesAsked'[k]]
  /\ Landed' \subseteq Keys
BY DEF Queued, TimesAsked, Landed

\* What a step that sets a row does to the queue.
LEMMA QueueSet ==
  ASSUME TypeOK, KeysOnce, NEW n \in DOMAIN rows, NEW e, Sets(n, e)
  PROVE  /\ KeysOnce'
         /\ Queued' = [Queued EXCEPT ![rows[n].key] = e.status]
         /\ TimesAsked' = [TimesAsked EXCEPT ![rows[n].key] =
                             IF e.answer # "none" THEN 1 ELSE 0]
         /\ Landed' = IF e.answer = "landed" THEN Landed \cup {rows[n].key}
                      ELSE Landed \ {rows[n].key}
<1> DEFINE key == rows[n].key
<1>1. /\ DOMAIN rows' = DOMAIN rows /\ \A m \in DOMAIN rows : rows'[m].key = rows[m].key
      /\ \A m \in DOMAIN rows : m # n => rows'[m] = rows[m]
      /\ rows'[n] = e
  BY SetsRow DEF TypeOK
<1>2. KeysOnce'
  BY <1>1 DEF KeysOnce
<1>3. \A k \in Keys : RowsOf(k)' = RowsOf(k)
  BY <1>1 DEF RowsOf
<1>4. key \in Keys /\ RowsOf(key) = {n}
  BY OneRow
<1>5. ASSUME NEW k \in Keys, k # key PROVE \A m \in RowsOf(k) : rows'[m] = rows[m]
  BY <1>1, <1>5 DEF RowsOf
<1> HIDE DEF key
<1>6. ASSUME NEW k \in Keys, k # key
      PROVE  Queued'[k] = Queued[k] /\ TimesAsked'[k] = TimesAsked[k] /\ (k \in Landed' <=> k \in Landed)
  <2>1. RowsOf(k)' = RowsOf(k) /\ \A m \in RowsOf(k) : rows'[m] = rows[m]
    BY <1>3, <1>5, <1>6
  <2> QED BY <2>1, Unmoved
<1>7. ASSUME NEW k \in Keys, k = key
      PROVE  /\ Queued'[k] = e.status
             /\ TimesAsked'[k] = IF e.answer # "none" THEN 1 ELSE 0
             /\ k \in Landed' <=> e.answer = "landed"
  <2>1. RowsOf(k)' = {n} /\ rows'[n] = e
    BY <1>1, <1>3, <1>4, <1>7
  <2>2. (CHOOSE m \in RowsOf(k)' : TRUE) = n
    BY <2>1
  <2>3. Queued'[k] = e.status
    BY <2>1, <2>2 DEF Queued
  <2>4. TimesAsked'[k] = IF e.answer # "none" THEN 1 ELSE 0
    BY <2>1 DEF TimesAsked
  <2>5. k \in Landed' <=> e.answer = "landed"
    BY <2>1 DEF Landed
  <2> QED BY <2>3, <2>4, <2>5
<1>8. /\ Queued' = [Queued EXCEPT ![key] = e.status]
      /\ TimesAsked' = [TimesAsked EXCEPT ![key] =
                          IF e.answer # "none" THEN 1 ELSE 0]
  BY <1>4, <1>6, <1>7, OfKeys, StillOfKeys
<1>9. Landed' = IF e.answer = "landed" THEN Landed \cup {key} ELSE Landed \ {key}
  BY <1>4, <1>6, <1>7, OfKeys, StillOfKeys
<1> QED BY <1>2, <1>8, <1>9 DEF key

\* A step that leaves a row's answer leaves what was asked and what landed.
LEMMA SameAnswer ==
  ASSUME TypeOK, KeysOnce, NEW n \in DOMAIN rows, NEW e, Sets(n, e), e.answer = rows[n].answer
  PROVE  TimesAsked' = TimesAsked /\ Landed' = Landed
<1>1. PICK key : key = rows[n].key
  OBVIOUS
<1>2. /\ key \in Keys /\ TimesAsked[key] = IF e.answer # "none" THEN 1 ELSE 0
      /\ key \in Landed <=> e.answer = "landed"
  BY <1>1, OneRow
<1>3. /\ TimesAsked' = [TimesAsked EXCEPT ![key] = IF e.answer # "none" THEN 1 ELSE 0]
      /\ Landed' = IF e.answer = "landed" THEN Landed \cup {key} ELSE Landed \ {key}
  BY <1>1, QueueSet
<1> QED BY <1>2, <1>3 DEF TimesAsked

\* The appended row of an identity that had none.
LEMMA QueueAppend ==
  ASSUME TypeOK, KeysOnce, NEW e \in Records, e.status = "pending", e.answer = "none", ~Absorbs(e.key),
         rows' = Append(rows, e)
  PROVE  KeysOnce' /\ Queue!Request(e.key)
<1>1. /\ DOMAIN rows' = DOMAIN rows \cup {Len(rows) + 1} /\ Len(rows) + 1 \notin DOMAIN rows
      /\ rows'[Len(rows) + 1] = e /\ \A n \in DOMAIN rows : rows'[n] = rows[n]
  BY DEF TypeOK
<1>2. e.key \in Keys /\ RowsOf(e.key) = {}
  BY DEF Records, Absorbs, RowsOf
<1>3. KeysOnce'
  BY <1>1 DEF KeysOnce, Absorbs
<1>4. ASSUME NEW k \in Keys, k # e.key
      PROVE  Queued'[k] = Queued[k] /\ TimesAsked'[k] = TimesAsked[k] /\ (k \in Landed' <=> k \in Landed)
  <2>1. RowsOf(k)' = RowsOf(k) /\ \A m \in RowsOf(k) : rows'[m] = rows[m]
    BY <1>1, <1>4 DEF RowsOf
  <2> QED BY <2>1, Unmoved
<1>5. ASSUME NEW k \in Keys, k = e.key
      PROVE  Queued'[k] = "pending" /\ TimesAsked'[k] = 0 /\ k \notin Landed'
  <2>1. RowsOf(k)' = {Len(rows) + 1} /\ rows'[Len(rows) + 1] = e
    BY <1>1, <1>2, <1>5 DEF RowsOf
  <2>2. (CHOOSE m \in RowsOf(k)' : TRUE) = Len(rows) + 1
    BY <2>1
  <2>3. Queued'[k] = "pending"
    BY <2>1, <2>2 DEF Queued
  <2> QED BY <2>1, <2>3 DEF TimesAsked, Landed
<1>6. Queued[e.key] = "absent" /\ TimesAsked[e.key] = 0 /\ e.key \notin Landed
  BY <1>2, NoRowYet
<1>7. Queued' = [Queued EXCEPT ![e.key] = "pending"]
  BY <1>2, <1>4, <1>5, OfKeys, StillOfKeys
<1>8. TimesAsked' = TimesAsked /\ Landed' = Landed
  BY <1>4, <1>5, <1>6, OfKeys, StillOfKeys
<1> QED BY <1>3, <1>6, <1>7, <1>8 DEF Queue!Request

\* A row has one lane.
LEMMA ServedStep == ASSUME TypeOK, Pressed, Served, [Next]_vars PROVE Served'
<1>0. rows \in Seq(Records) /\ lane \in [Lanes -> {0} \cup DOMAIN rows]
  BY DEF TypeOK
<1>1. ASSUME UNCHANGED lane, \A n \in DOMAIN rows : rows'[n].status = rows[n].status
      PROVE  Served'
  BY <1>0, <1>1 DEF Served
<1>2. ASSUME NEW k \in Consoles, AppendRow(k) PROVE Served'
  <2>1. UNCHANGED lane /\ \A n \in DOMAIN rows : rows'[n] = rows[n]
    BY <1>0, <1>2 DEF AppendRow
  <2> QED BY <1>1, <2>1
<1>3. ASSUME NEW l \in Lanes, NEW n \in DOMAIN rows, Claim(l, n) PROVE Served'
  <2>1. rows[n].status = "pending" /\ SetStatus(n, "executing") /\ lane' = [lane EXCEPT ![l] = n]
    BY <1>3 DEF Claim
  <2>2. PICK e : Sets(n, e) /\ e.status = "executing"
    BY <2>1, SetsStatus DEF Statuses
  <2>3. rows'[n] = e /\ \A m \in DOMAIN rows : m # n => rows'[m] = rows[m]
    BY <1>0, <2>2, SetsRow
  <2>4. \A m \in Lanes : lane[m] # n
    BY <1>0, <2>1 DEF Served
  <2> QED BY <1>0, <2>1, <2>2, <2>3, <2>4 DEF Served
<1>4. ASSUME NEW l \in Lanes, Act(l) PROVE Served'
  <2>1. PICK n : n = lane[l]
    OBVIOUS
  <2>2. n \in DOMAIN rows /\ UNCHANGED lane /\ \E e : Sets(n, e) /\ e.status = rows[n].status
    BY <1>4, <2>1, ActSets DEF Act
  <2>3. \A m \in DOMAIN rows : rows'[m].status = rows[m].status
    BY <1>0, <2>2, SetsRow
  <2> QED BY <1>1, <2>2, <2>3
<1>5. ASSUME NEW l \in Lanes, LogOutcome(l) PROVE Served'
  <2>1. PICK n : n = lane[l]
    OBVIOUS
  <2>2. n \in DOMAIN rows /\ UNCHANGED lane /\ \E e : Sets(n, e) /\ e.status = rows[n].status
    BY <1>5, <2>1, LogSets DEF LogOutcome
  <2>3. \A m \in DOMAIN rows : rows'[m].status = rows[m].status
    BY <1>0, <2>2, SetsRow
  <2> QED BY <1>1, <2>2, <2>3
<1>6. ASSUME NEW l \in Lanes, Finalize(l) PROVE Served'
  <2>1. PICK n : n = lane[l]
    OBVIOUS
  <2>2. /\ n \in DOMAIN rows /\ lane' = [lane EXCEPT ![l] = 0]
        /\ UNCHANGED rows \/ \E e : Sets(n, e)
    BY <1>6, <2>1, FinalizeSets
  <2>3. \A m \in DOMAIN rows : m # n => rows'[m] = rows[m]
    BY <1>0, <2>2, SetsRow
  <2>4. \A m \in Lanes \ {l} : lane[m] # n \/ lane[m] = 0
    BY <2>1 DEF Served
  <2> QED BY <1>0, <2>2, <2>3, <2>4 DEF Served
<1>7. ASSUME NEW l \in Lanes, Fail(l) PROVE Served'
  BY <1>0, <1>7 DEF Fail, store, Served
<1>8. ASSUME NEW n \in DOMAIN rows, Recover(n) PROVE Served'
  <2>1. PICK e : Sets(n, e) /\ e.status = "failed"
    BY <1>8, SetsStatus DEF Recover, Statuses, Final
  <2>2. UNCHANGED lane /\ rows'[n] = e /\ \A m \in DOMAIN rows : m # n => rows'[m] = rows[m]
    BY <1>0, <1>8, <2>1, SetsRow DEF Recover
  <2> QED BY <1>0, <2>1, <2>2 DEF Served
<1>9. CASE UNCHANGED <<rows, lane>>
  BY <1>1, <1>9
<1> QED BY <1>2, <1>3, <1>4, <1>5, <1>6, <1>7, <1>8, <1>9
        DEF Next, Pass, Work, vars, store, List, Look, Confirm, Publish, StoreBusy, Count

\* Every step is a step of the queue, or none.
LEMMA QueueStep ==
  ASSUME TypeOK, Pressed, Served, KeysOnce, [Next]_vars
  PROVE  KeysOnce' /\ [Queue!Next]_(Queue!qvars)
<1> DEFINE Goal == KeysOnce' /\ [Queue!Next]_(Queue!qvars)
<1>1. ASSUME UNCHANGED rows PROVE Goal
  BY <1>1 DEF KeysOnce, Queue!qvars, Queued, TimesAsked, Landed, RowsOf
<1>2. ASSUME NEW k \in Consoles, AppendRow(k) PROVE Goal
  <2> DEFINE e == Row(Identity(press[k]))
  <2>1. rows \in Seq(Records) /\ press[k] \in Presses /\ press[k].base \in Bases
    BY <1>2 DEF AppendRow, TypeOK, Pressed, Issuing
  <2>2. /\ e \in Records /\ e.status = "pending" /\ e.answer = "none"
        /\ e.key = Identity(press[k])
    BY <2>1, IdentityType DEF Row, Records, Statuses, Answers
  <2>3. rows' = IF Absorbs(Identity(press[k])) THEN rows ELSE Append(rows, e)
    BY <1>2 DEF AppendRow
  <2> HIDE DEF e
  <2>4. CASE ~Absorbs(Identity(press[k]))
    <3>1. KeysOnce' /\ Queue!Request(e.key)
      BY <2>2, <2>3, <2>4, QueueAppend
    <3> QED BY <2>2, <3>1 DEF Queue!Next, Records
  <2> QED BY <1>1, <2>3, <2>4
<1>3. ASSUME NEW l \in Lanes, NEW n \in DOMAIN rows, Claim(l, n) PROVE Goal
  <2>1. rows[n].status = "pending" /\ SetStatus(n, "executing")
    BY <1>3 DEF Claim
  <2>2. PICK e : Sets(n, e) /\ e.status = "executing" /\ e.answer = rows[n].answer
    BY <2>1, SetsStatus DEF Statuses
  <2>3. PICK key : key = rows[n].key
    OBVIOUS
  <2>4. key \in Keys /\ Queued[key] = "pending"
    BY <2>1, <2>3, OneRow
  <2>5. KeysOnce' /\ Queued' = [Queued EXCEPT ![key] = "executing"]
    BY <2>2, <2>3, QueueSet
  <2>6. TimesAsked' = TimesAsked /\ Landed' = Landed
    BY <2>2, SameAnswer
  <2>7. Queue!Claim(key)
    BY <2>4, <2>5, <2>6 DEF Queue!Claim
  <2> QED BY <2>4, <2>5, <2>7 DEF Queue!Next
<1>4. ASSUME NEW l \in Lanes, Act(l) PROVE Goal
  <2>1. PICK n : n = lane[l]
    OBVIOUS
  <2>2. n \in DOMAIN rows /\ rows[n].answer = "none" /\ n # 0
    BY <1>4, <2>1, ActSets DEF TypeOK, Act
  <2>3. PICK e : Sets(n, e) /\ e.status = rows[n].status /\ e.answer \in {"landed", "refused"}
    BY <1>4, <2>1, ActSets
  <2>4. rows[n].status \in {"executing", "failed"}
    BY <2>1, <2>2 DEF Served
  <2>5. PICK key : key = rows[n].key
    OBVIOUS
  <2>6. /\ key \in Keys /\ Queued[key] = rows[n].status /\ TimesAsked[key] = 0
        /\ key \notin Landed
    BY <2>2, <2>5, OneRow
  <2>7. /\ KeysOnce' /\ Queued' = [Queued EXCEPT ![key] = rows[n].status]
        /\ TimesAsked' = [TimesAsked EXCEPT ![key] = 1]
        /\ Landed' \in {Landed \ {key}, Landed \cup {key}}
    BY <2>2, <2>3, <2>5, QueueSet
  <2>8. Queued' = Queued
    BY <2>6, <2>7 DEF Queued
  <2>9. Queue!Ask(key)
    BY <2>4, <2>6, <2>7, <2>8 DEF Queue!Ask
  <2> QED BY <2>6, <2>7, <2>9 DEF Queue!Next
<1>5. ASSUME NEW l \in Lanes, LogOutcome(l) PROVE Goal
  <2>1. PICK n : n = lane[l]
    OBVIOUS
  <2>2. n \in DOMAIN rows
    BY <1>5, <2>1, LogSets
  <2>3. PICK e : Sets(n, e) /\ e.status = rows[n].status /\ e.answer = rows[n].answer
    BY <1>5, <2>1, LogSets
  <2>4. PICK key : key = rows[n].key
    OBVIOUS
  <2>5. key \in Keys /\ Queued[key] = rows[n].status
    BY <2>2, <2>4, OneRow
  <2>6. KeysOnce' /\ Queued' = [Queued EXCEPT ![key] = rows[n].status]
    BY <2>2, <2>3, <2>4, QueueSet
  <2>7. Queued' = Queued
    BY <2>5, <2>6 DEF Queued
  <2>8. TimesAsked' = TimesAsked /\ Landed' = Landed
    BY <2>2, <2>3, SameAnswer
  <2> QED BY <2>6, <2>7, <2>8 DEF Queue!qvars
<1>6. ASSUME NEW l \in Lanes, Finalize(l) PROVE Goal
  <2>1. PICK n : n = lane[l]
    OBVIOUS
  <2>2. CASE UNCHANGED rows
    BY <1>1, <2>2
  <2>3. CASE ~UNCHANGED rows
    <3>1. n \in DOMAIN rows /\ rows[n].status = "executing"
      BY <1>6, <2>1, <2>3, FinalizeSets
    <3>a. PICK v \in Verdicts(rows[n]) :
            \E e : Sets(n, e) /\ e.status = v /\ e.answer = rows[n].answer
      BY <1>6, <2>1, <2>3, FinalizeSets
    <3>2. PICK e : Sets(n, e) /\ e.status = v /\ e.answer = rows[n].answer
      BY <3>a
    <3>3. PICK key : key = rows[n].key
      OBVIOUS
    <3>4. /\ key \in Keys /\ Queued[key] = "executing"
          /\ key \in Landed <=> rows[n].answer = "landed"
      BY <3>1, <3>3, OneRow
    <3>5. KeysOnce' /\ Queued' = [Queued EXCEPT ![key] = v]
      BY <3>1, <3>2, <3>3, QueueSet
    <3>6. TimesAsked' = TimesAsked /\ Landed' = Landed
      BY <3>1, <3>2, SameAnswer
    <3>7. /\ v \in {"completed", "not_wired", "failed"}
          /\ v = "completed" => key \in Landed
          /\ v = "not_wired" => key \notin Landed
      BY <3>4 DEF Verdicts
    <3>8. Queue!Finish(key, v)
      BY <3>4, <3>5, <3>6, <3>7 DEF Queue!Finish, Queue!Terminal
    <3> QED BY <3>4, <3>5, <3>7, <3>8 DEF Queue!Next, Queue!Terminal
  <2> QED BY <2>2, <2>3
<1>7. ASSUME NEW l \in Lanes, Fail(l) PROVE Goal
  BY <1>1, <1>7 DEF Fail, store
<1>8. ASSUME NEW n \in DOMAIN rows, Recover(n) PROVE Goal
  <2>1. rows[n].status = "executing" /\ SetStatus(n, "failed")
    BY <1>8 DEF Recover
  <2>2. PICK e : Sets(n, e) /\ e.status = "failed" /\ e.answer = rows[n].answer
    BY <2>1, SetsStatus DEF Statuses, Final
  <2>3. PICK key : key = rows[n].key
    OBVIOUS
  <2>4. key \in Keys /\ Queued[key] = "executing"
    BY <2>1, <2>3, OneRow
  <2>5. KeysOnce' /\ Queued' = [Queued EXCEPT ![key] = "failed"]
    BY <2>2, <2>3, QueueSet
  <2>6. TimesAsked' = TimesAsked /\ Landed' = Landed
    BY <2>2, SameAnswer
  <2>7. Queued' = [c \in Keys |-> IF c \in {key} THEN "failed" ELSE Queued[c]]
    BY <2>4, <2>5, OfKeys
  <2>8. Queue!GiveUp({key})
    BY <2>4, <2>6, <2>7 DEF Queue!GiveUp
  <2> QED BY <2>4, <2>5, <2>8 DEF Queue!Next
<1>9. ASSUME UNCHANGED rows PROVE Goal
  BY <1>1, <1>9
<1> HIDE DEF Goal
<1>10. Goal
  BY <1>2, <1>3, <1>4, <1>5, <1>6, <1>7, <1>8, <1>9
     DEF Next, Pass, Work, vars, store, List, Look, Confirm, Publish, StoreBusy, Count
<1> QED BY <1>10 DEF Goal

\* ImplementsCommandQueue: whatever absorbs a press, its identity is one command of
\* the queue, claimed once, acted on at most once, and completed only if it was, also
\* where the lane fails or the row is recovered under it.
THEOREM IdentitiesAreQueued == Spec => ImplementsCommandQueue
<1> DEFINE Inv == TypeOK /\ Pressed /\ Served /\ KeysOnce
<1>1. Init => Inv
  BY InitWrites DEF Init, Pressed, Issuing, Served, KeysOnce
<1>2. Inv /\ [Next]_vars => Inv'
  BY WritesType, PressedStep, ServedStep, QueueStep
<1>3. Init => Queue!Init
  BY DEF Init, Queue!Init, Queued, TimesAsked, Landed, RowsOf
<1>4. Inv /\ [Next]_vars => [Queue!Next]_(Queue!qvars)
  BY QueueStep
<1> QED BY <1>1, <1>2, <1>3, <1>4, PTL DEF Spec, Queue!Spec, ImplementsCommandQueue
===============================================================================
