----------------------------- MODULE OperatorWrites -----------------------------
(***************************************************************************)
(* What becomes of a key press that writes: how the interface thread gives *)
(* the command an identity in the commands table, and how the Settings     *)
(* view follows a write of a dispatcher setting until its outcome is in.   *)
(*                                                                         *)
(* Two kinds of command stand for the rest.  A setting is repeatable: its  *)
(* identity carries the number of commands the thread counted.  A valve is *)
(* once-only: it keeps one identity, except after attempts that all        *)
(* failed.  Count, list and append are three calls of the store, and other *)
(* consoles append between them.  The lanes, which CommandLane models,     *)
(* take any pending row here; a lane may fail at any of its calls, and the *)
(* row it leaves behind is failed a day later, with no outcome of its own. *)
(***************************************************************************)
EXTENDS Naturals, Sequences

CONSTANTS Consoles, Settings, Valves,
          Lanes,       \* the control lanes of the consoles
          Values,
          NextValue,   \* the dial: the value a press on a row proposes
          Launch,      \* the settings as the orchestrator has them at first
          NotYetRead, NotObserved, None,
          MaxRows,     \* bound: nothing is pressed when the table is this long
          MaxFaults    \* bound: refusals, failing calls and reads, stale recoveries

Targets == Settings \cup Valves
Bases == [subject : Settings, value : Values] \cup [subject : Valves, value : {None}]

ASSUME DialAssumption == NextValue \in [Values -> Values] /\ Launch \in [Settings -> Values]
ASSUME NamesAssumption == /\ Settings \cap Valves = {}
                          /\ None \notin Values \cup Settings \cup Valves
                          /\ {NotYetRead, NotObserved} \cap [Settings -> Values] = {}
                          /\ None \notin Bases \cup Nat
ASSUME BoundsAssumption == MaxRows \in Nat /\ MaxFaults \in Nat

VARIABLES rows,       \* the commands table, in the order of appends
          effective,  \* the settings the orchestrator has
          outcomes,   \* the event log's outcomes of setting writes, by setting
          lane,       \* the row each lane works on
          cell,       \* the background read of the settings, till it is taken
          reading,    \* that read has not been made
          loop,       \* where the interface thread is in its pass
          press,      \* the command it is issuing
          shown,      \* dispatcher_settings: what the Settings view renders
          slot,       \* dispatcher_setting_write: the operator's last edit
          seen,       \* how many of the outcomes its event list holds
          faults

vars == <<rows, effective, outcomes, lane, cell, reading, loop, press, shown, slot, seen, faults>>
store == <<rows, outcomes, effective>>
view == <<cell, reading, shown, slot, seen>>

Observed == [Settings -> Values]

\* The tag is None, or the count the identity carries.
Key(base, tag) == [base |-> base, tag |-> tag]
Keys == [base : Bases, tag : Nat \cup {None}]

Final == {"completed", "failed", "not_wired"}
\* A press, and as a history the length of the table when it was counted and
\* whether an attempt of it had not failed when it was listed.
NoPress == [base |-> None, count |-> 0, retry |-> FALSE, upon |-> 0, over |-> FALSE]
\* The operator's edit; as a history, the length of the table when it was counted.
Idle == [state |-> "idle", subject |-> None, value |-> None, mark |-> 0, upon |-> 0]

Init == /\ rows = <<>> /\ outcomes = <<>>
        /\ effective = Launch
        /\ lane = [l \in Lanes |-> 0]
        /\ cell = [k \in Consoles |-> NotYetRead]
        /\ reading = [k \in Consoles |-> TRUE]
        /\ loop = [k \in Consoles |-> "input"]
        /\ press = [k \in Consoles |-> NoPress]
        /\ shown = [k \in Consoles |-> NotYetRead]
        /\ slot = [k \in Consoles |-> Idle]
        /\ seen = [k \in Consoles |-> 0]
        /\ faults = 0

Fault == faults < MaxFaults /\ faults' = faults + 1

-------------------------------------------------------------------------------
(* Issuing *)

Goto(k, step) == loop' = [loop EXCEPT ![k] = step]

\* Mutant of Editable: an unread setting is proposed from its default.
EditableAnyway(k, s) == TRUE

\* resolve_dispatcher_setting_edit: no edit of values nobody has read.
Editable(k, s) == shown[k] \in Observed

Proposed(k, s) == NextValue[IF shown[k] \in Observed THEN shown[k][s] ELSE Launch[s]]

PressOn(k, x) ==
  IF x \in Valves THEN [subject |-> x, value |-> None]
                  ELSE [subject |-> x, value |-> Proposed(k, x)]

\* Mutant of Counted: only the commands that wait are counted.
CountedPending == Len(SelectSeq(rows, LAMBDA r : r.status = "pending"))

\* Mutant of Counted: the row to come is counted, too.
CountedNext == Len(rows) + 1

\* command_count
Counted == Len(rows)

Count(k, x) ==
  /\ loop[k] = "input"
  /\ Len(rows) < MaxRows
  /\ x \in Settings => Editable(k, x)
  /\ press' = [press EXCEPT ![k] = [NoPress EXCEPT !.base = PressOn(k, x), !.count = Counted,
                                                 !.upon = Len(rows)]]
  /\ Goto(k, "list")
  /\ UNCHANGED <<store, lane, view, faults>>

Attempts(base) == {n \in DOMAIN rows : rows[n].key.base = base}

\* is_failed_once_only_valve_retry
AllFailed(base) == /\ Attempts(base) # {}
                   /\ \A n \in Attempts(base) : rows[n].status = "failed"

List(k) ==
  /\ loop[k] = "list"
  /\ press' = [press EXCEPT ![k].retry = press[k].base.subject \in Valves
                                         /\ AllFailed(press[k].base),
                            ![k].over = \E n \in Attempts(press[k].base) :
                                          rows[n].status # "failed"]
  /\ Goto(k, "append")
  /\ UNCHANGED <<store, lane, view, faults>>

\* Mutant of Identity: a valve keeps the identity of its first press.
IdentityOfValve(p) == Key(p.base, IF p.base.subject \in Settings THEN p.count ELSE None)

\* distinguish_retryable_command
Identity(p) == Key(p.base, IF p.base.subject \in Settings \/ p.retry THEN p.count ELSE None)

\* As a history, what became of the port's call and whether the outcome is logged.
Row(key) == [key |-> key, status |-> "pending", answer |-> "none", told |-> FALSE]

Absorbs(key) == \E n \in DOMAIN rows : rows[n].key = key

\* Mutant of Mark: the outcomes are told apart from the log as it is now.
MarkNext(k) == seen[k] + 1

\* submitted_after_events: the length of the event list the thread holds.
Mark(k) == seen[k]

\* append_command, and the write the Settings view is to follow.
AppendRow(k) ==
  /\ loop[k] = "append"
  /\ LET p == press[k]
     IN  /\ rows' = IF Absorbs(Identity(p)) THEN rows
                    ELSE Append(rows, Row(Identity(p)))
         /\ slot' = IF p.base.subject \in Valves THEN slot
                    ELSE [slot EXCEPT ![k] = [state |-> "pending", subject |-> p.base.subject,
                                              value |-> p.base.value, mark |-> Mark(k),
                                              upon |-> p.upon]]
  /\ press' = [press EXCEPT ![k] = NoPress]
  /\ Goto(k, "look")
  /\ UNCHANGED <<outcomes, effective, lane, cell, reading, shown, seen, faults>>

\* NotApplied: a call finds the store busy; nothing is issued or followed.
StoreBusy(k) ==
  /\ loop[k] \in {"list", "append"}
  /\ Fault
  /\ press' = [press EXCEPT ![k] = NoPress]
  /\ Goto(k, "look")
  /\ UNCHANGED <<store, lane, view>>

-------------------------------------------------------------------------------
(* Following a write *)

\* fold_dispatcher_setting_reread
Folded(s, read) ==
  IF s.state # "pending" \/ read \notin Observed THEN s
  ELSE IF read[s.subject] = s.value THEN Idle
  ELSE [s EXCEPT !.state = "unchanged", !.mark = 0, !.upon = 0]

\* The background reader publishes what it read, or that it could not.
Publish(k) ==
  /\ reading[k]
  /\ reading' = [reading EXCEPT ![k] = FALSE]
  /\ \/ /\ cell' = [cell EXCEPT ![k] = effective] /\ UNCHANGED faults
     \/ /\ cell' = [cell EXCEPT ![k] = NotObserved] /\ Fault
  /\ UNCHANGED <<store, lane, loop, press, shown, slot, seen>>

\* take: the read is delivered once.
Emptied == NotYetRead

\* dispatcher_setting_write_settled, in the first n outcomes.
Settled(s, n) ==
  s.state = "pending" /\ \E m \in s.mark + 1 .. n : outcomes[m] = s.subject

\* After a press, or after none for a while, the thread takes the background
\* read, if there is one, and lists the events.
Look(k) ==
  /\ loop[k] \in {"input", "look"}
  /\ \/ /\ cell[k] = NotYetRead
        /\ UNCHANGED <<cell, shown, slot>>
     \/ /\ cell[k] # NotYetRead
        /\ shown' = [shown EXCEPT ![k] = cell[k]]
        /\ slot' = [slot EXCEPT ![k] = Folded(@, cell[k])]
        /\ cell' = [cell EXCEPT ![k] = Emptied]
  /\ seen' = [seen EXCEPT ![k] = Len(outcomes)]
  /\ Goto(k, IF Settled(slot'[k], seen'[k]) THEN "confirm" ELSE "input")
  /\ UNCHANGED <<store, lane, reading, press, faults>>

\* An outcome of the setting is in: its effective value is read again.
Confirm(k) ==
  /\ loop[k] = "confirm"
  /\ \/ /\ shown' = [shown EXCEPT ![k] = effective] /\ UNCHANGED faults
     \/ /\ shown' = [shown EXCEPT ![k] = NotObserved] /\ Fault
  /\ slot' = [slot EXCEPT ![k] = Folded(@, shown'[k])]
  /\ Goto(k, "input")
  /\ UNCHANGED <<store, lane, cell, reading, press, seen>>

-------------------------------------------------------------------------------
(* The lanes, as far as an identity and a setting can tell them apart *)

SetStatus(n, s) == rows' = [rows EXCEPT ![n].status = s]

Claim(l, n) ==
  /\ lane[l] = 0 /\ rows[n].status = "pending"
  /\ SetStatus(n, "executing") /\ lane' = [lane EXCEPT ![l] = n]
  /\ UNCHANGED <<outcomes, effective, loop, press, view, faults>>

\* set-config, or the valve's action: it lands, or the orchestrator refuses or has
\* no such command.  The lane does not look at the row again.
Act(l) ==
  /\ lane[l] # 0 /\ rows[lane[l]].answer = "none"
  /\ LET b == rows[lane[l]].key.base
     IN  \/ /\ rows' = [rows EXCEPT ![lane[l]].answer = "landed"] /\ UNCHANGED faults
            /\ effective' = IF b.subject \in Settings
                            THEN [effective EXCEPT ![b.subject] = b.value] ELSE effective
         \/ /\ rows' = [rows EXCEPT ![lane[l]].answer = "refused"] /\ Fault
            /\ UNCHANGED effective
  /\ UNCHANGED <<outcomes, lane, loop, press, view>>

\* The outcome event, of a change or of a refusal.
LogOutcome(l) ==
  /\ lane[l] # 0 /\ rows[lane[l]].answer # "none" /\ ~rows[lane[l]].told
  /\ rows' = [rows EXCEPT ![lane[l]].told = TRUE]
  /\ LET x == rows[lane[l]].key.base.subject
     IN  outcomes' = IF x \in Settings THEN Append(outcomes, x) ELSE outcomes
  /\ UNCHANGED <<effective, lane, loop, press, view, faults>>

\* What a handler makes of the answer; only a valve's may be a failure.
Verdicts(r) ==
  IF r.answer = "landed" THEN {"completed"}
  ELSE {"not_wired"} \cup (IF r.key.base.subject \in Valves THEN {"failed"} ELSE {})

\* finalize_executing_command_status: a row that was recovered stays as it is.
Finalize(l) ==
  /\ lane[l] # 0 /\ rows[lane[l]].told
  /\ IF rows[lane[l]].status = "executing"
       THEN \E v \in Verdicts(rows[lane[l]]) : SetStatus(lane[l], v)
       ELSE UNCHANGED rows  \* CommandNotFound
  /\ lane' = [lane EXCEPT ![l] = 0]
  /\ UNCHANGED <<outcomes, effective, loop, press, view, faults>>

\* The settings cannot be read before the write, the port answers with an error
\* (after the write, perhaps), or the store does with the outcome or the status:
\* the handler returns, and the row is executing.
Fail(l) ==
  /\ lane[l] # 0
  /\ Fault
  /\ lane' = [lane EXCEPT ![l] = 0]
  /\ UNCHANGED <<store, loop, press, view>>

\* recover_stale_executing_commands: a row that was claimed a day ago, whether a
\* lane is still at work on it or not.  No outcome event.
Recover(n) ==
  /\ rows[n].status = "executing"
  /\ Fault
  /\ SetStatus(n, "failed")
  /\ UNCHANGED <<outcomes, effective, lane, loop, press, view>>

-------------------------------------------------------------------------------

Pass(k) == List(k) \/ AppendRow(k) \/ Look(k) \/ Confirm(k)
Work(l) == \/ Act(l) \/ LogOutcome(l) \/ Finalize(l) \/ Fail(l)
           \/ \E n \in DOMAIN rows : Claim(l, n)

Next == \/ \E k \in Consoles : \/ Pass(k) \/ Publish(k) \/ StoreBusy(k)
                               \/ \E x \in Targets : Count(k, x)
        \/ \E l \in Lanes : Work(l)
        \/ \E n \in DOMAIN rows : Recover(n)

\* The loop runs.  A background read may take for ever, and so may a lane: its
\* call of the orchestrator has no timeout, and nothing wakes it for a row that
\* an earlier one left behind.
Spec == /\ Init /\ [][Next]_vars
        /\ \A k \in Consoles : WF_vars(Pass(k))

-------------------------------------------------------------------------------
(* Properties *)

Reads == Observed \cup {NotYetRead, NotObserved}
Statuses == {"pending", "executing"} \cup Final
Answers == {"none", "landed", "refused"}
Records == [key : Keys, status : Statuses, answer : Answers, told : BOOLEAN]
Presses == [base : Bases \cup {None}, count : 0 .. Len(rows), retry : BOOLEAN,
            upon : 0 .. Len(rows), over : BOOLEAN]
Slots == [state : {"idle", "pending", "unchanged"}, subject : Settings \cup {None},
          value : Values \cup {None}, mark : Nat, upon : Nat]

TypeOK ==
  /\ rows \in Seq(Records)
  /\ outcomes \in Seq(Settings) /\ effective \in Observed
  /\ lane \in [Lanes -> {0} \cup DOMAIN rows]
  /\ cell \in [Consoles -> Reads] /\ reading \in [Consoles -> BOOLEAN]
  /\ loop \in [Consoles -> {"input", "list", "append", "look", "confirm"}]
  /\ press \in [Consoles -> Presses]
  /\ shown \in [Consoles -> Reads]
  /\ slot \in [Consoles -> Slots]
  /\ seen \in [Consoles -> 0 .. Len(outcomes)]
  /\ faults \in 0 .. MaxFaults

\* A press on a repeatable action is absorbed only if another console appended
\* between its count and its append: the operator's own earlier writes, of the
\* same value too, never absorb it (distinguish_repeatable_command).
RepeatablesLand ==
  [][\A k \in Consoles :
       /\ loop[k] = "append" /\ press'[k] = NoPress /\ faults' = faults
       /\ press[k].base.subject \in Settings
       => Len(rows') > Len(rows) \/ Len(rows) > press[k].upon]_vars

\* A valve all of whose attempts have failed can be pressed again, any number of
\* times: it is absorbed only where an attempt has not failed, now or when the
\* table was listed, or another console appended (is_failed_once_only_valve_retry).
FailedValveRetried ==
  [][\A k \in Consoles :
       /\ loop[k] = "append" /\ press'[k] = NoPress /\ faults' = faults
       /\ press[k].base.subject \in Valves
       /\ AllFailed(press[k].base) /\ ~press[k].over
       => Len(rows') > Len(rows) \/ Len(rows) > press[k].upon]_vars

\* The launch read, however late it comes, neither answers an edit of this
\* session nor replaces what was read after one (SharedDispatcherSettingsRead).
LaunchReadFirst ==
  \A k \in Consoles : cell[k] # NotYetRead \/ reading[k] => slot[k] = Idle

\* The rows an edit may have come to: its own, or the one that absorbed it, and
\* any other of the same write since the press was counted.
Edited(k) == {n \in Attempts([subject |-> slot[k].subject, value |-> slot[k].value]) :
                n > slot[k].upon}

\* A row the operator has edited does not say "writing..." for ever once the
\* write's outcome is in the log.  The outcome is never missed, though it may land
\* before the thread lists the events again, the lane may fail after it, or the
\* row be recovered under the lane; and the thread asks again while the settings
\* cannot be read (dispatcher_setting_write_settled).
Logged(k) == slot[k].state = "pending" /\ \E n \in Edited(k) : rows[n].told
WritesAnswered == \A k \in Consoles : Logged(k) ~> ~Logged(k)

\* What WritesAnswered rests on: an edit that is followed has a row, and the
\* outcome of none of its rows is behind its mark (DispatcherSettingWriteState).
OutcomeAhead ==
  \A k \in Consoles : slot[k].state = "pending" =>
    /\ Edited(k) # {}
    /\ \A n \in Edited(k) : rows[n].told =>
         \E m \in slot[k].mark + 1 .. Len(outcomes) : outcomes[m] = slot[k].subject

\* No run has it, for it does not hold: the lane that took the row may fail or hang
\* before its outcome, and a recovered row ends without one.  The settings row
\* then says "writing..." until the session ends or another edit replaces it.
EveryWriteAnswered ==
  \A k \in Consoles : slot[k].state = "pending" ~> slot[k].state # "pending"

\* The table keeps the queue's promise for every identity, whoever appends to it:
\* a press that is absorbed adds no row to one that is there, and no identity is
\* acted on twice, also when its row is recovered under its lane (append_command,
\* distinguish_retryable_command).
RowsOf(key) == {n \in DOMAIN rows : rows[n].key = key}
Queued == [key \in Keys |-> IF RowsOf(key) = {} THEN "absent"
                            ELSE rows[CHOOSE n \in RowsOf(key) : TRUE].status]
TimesAsked == [key \in Keys |-> IF \E n \in RowsOf(key) : rows[n].answer # "none"
                                THEN 1 ELSE 0]
Landed == {key \in Keys : \E n \in RowsOf(key) : rows[n].answer = "landed"}
Queue == INSTANCE CommandQueue
           WITH Commands <- Keys, row <- Queued, asked <- TimesAsked, landed <- Landed
ImplementsCommandQueue == Queue!Spec

Quiet(k) == /\ loop[k] = "input" /\ slot[k].state = "idle"
            /\ \A n \in DOMAIN rows : rows[n].status \in Final

\* DispatcherSettingWriteState: a write that landed is not rendered as lost, the
\* pre-edit value is not presented as current.
LandedIsShown ==
  \A k \in Consoles : Quiet(k) /\ rows # <<>> /\ shown[k] \in Observed /\ seen[k] = Len(outcomes)
    => \A s \in Settings : Attempts([subject |-> s, value |-> effective[s]]) # {}
                            => shown[k][s] = effective[s]
===============================================================================
