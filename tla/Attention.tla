------------------------------- MODULE Attention -------------------------------
(***************************************************************************)
(* How the operator's inbox follows the orchestrator.  The poller reads    *)
(* the needs-attention surface, compares it with what the event log says   *)
(* it last showed, and appends what appeared, changed or was resolved.     *)
(* Every console also reads the Dispatcher's journal and reflects it: a    *)
(* decision the orchestrator took by itself resolves its item through a    *)
(* command of its own, an escalation becomes an item.  The inbox is the    *)
(* fold of the log by item id, whoever wrote the events.                   *)
(*                                                                         *)
(* One poller's ingest is followed.  A second one beside it, which the     *)
(* writer lease of SourceAdapter keeps out for the lease's time only, is   *)
(* not; the reflections take no lease.                                     *)
(***************************************************************************)
EXTENDS Naturals, Sequences, FiniteSets

CONSTANTS Ids,           \* the stable ids of attention items
          Contents,      \* the contents an item may be composed with, for every id
          Own,           \* those whose source_ref names the repo the console reads
                         \* for; a malformed item has another, or a default
          Valves,        \* ids an automatic decision resolves, valve:approve:...
          Escalations,   \* ids an escalation opens, valve:set-admission:...
          Dispositions,  \* what the orchestrator may decide by itself
          Settings,      \* the settings that governed an escalation
          Consoles,      \* processes that reflect the journal
          None,
          MaxChanges,    \* bound: changes of the surface
          MaxDecisions,  \* bound: records of the journal
          MaxFaults      \* bound: crashes and failed store calls

AnyContent == UNION {Contents[i] : i \in Ids}

ASSUME IdsAssumption == /\ Valves \subseteq Ids /\ Escalations \subseteq Ids
                        /\ Valves \cap Escalations = {}
                        /\ Own \subseteq AnyContent
                        /\ None \notin Ids \cup AnyContent \cup Settings \cup Dispositions
ASSUME BoundsAssumption ==
  MaxChanges \in Nat /\ MaxDecisions \in Nat /\ MaxFaults \in Nat

VARIABLES surface,   \* what needs-attention --json would answer
          journal,   \* the Dispatcher's auto-disposition records: the
                     \* resolutions and the escalations, each in its order
          log,       \* the attention events and the source's markers, in order
          rows,      \* the reflection commands in the commands table
          ingest,    \* the poller's ingest
          reflect,   \* each console's pass over the journal
          changes, faults

vars == <<surface, journal, log, rows, ingest, reflect, changes, faults>>

Surfaces == [up : BOOLEAN, items : [Ids -> AnyContent \cup {None}]]
Resolutions == [kind : {"resolve"}, id : Valves, tag : Dispositions]
Escalates   == [kind : {"escalate"}, id : Escalations, tag : Settings]
Decisions   == Resolutions \cup Escalates

-------------------------------------------------------------------------------
(* Events.  An event is its identity: two that are equal are one row.      *)

Event(kind, i, content, tag) == [kind |-> kind, id |-> i, content |-> content, tag |-> tag]

\* attention_item_event: the identity is a hash of the composed content.
Appeared(i, c) == Event("appeared", i, c, 0)
Changed(i, c)  == Event("changed", i, c, 0)

\* Mutant of Resolved: one identity for every resolution of an id.
ResolvedById(i, c, tag) == Event("resolved", i, None, tag)

\* attention_item_resolved_event, and its disambiguated form when tag > 0: a
\* hash of the content that is retired and, at the retry, of the ingest's clock.
Resolved(i, c, tag) == Event("resolved", i, c, tag)

\* Mutant of Marker: the same identity for every outage.
MarkerOnce(kind, n) == Event(kind, None, None, 1)

\* The epoch of a marker is the number of markers before it, and one.
Marker(kind, n) == Event(kind, None, None, n + 1)

Reflected(i)    == Event("reflected", i, None, 0)
Escalated(i, s) == Event("escalated", i, s, 0)

Events == [kind : {"appeared", "changed"}, id : Ids, content : AnyContent, tag : {0}]
          \cup [kind : {"resolved"}, id : Ids, content : AnyContent, tag : Nat]
          \cup [kind : {"reflected"}, id : Valves, content : {None}, tag : {0}]
          \cup [kind : {"escalated"}, id : Escalations, content : Settings, tag : {0}]
          \cup [kind : {"observed", "not_observed"}, id : {None}, content : {None}, tag : Nat]

Logged(e) == \E n \in DOMAIN log : log[n] = e
Append1(e) == IF Logged(e) THEN log ELSE Append(log, e)

\* materialize_attention_items: the latest event on an id opens or closes it.
LatestAt(events, n) ==
  n \in DOMAIN events /\ \A m \in DOMAIN events : m > n => events[m].id # events[n].id

\* Mutant of Holds: the prior is not narrowed to the surface's own items.
HoldsAny(events, i, c) ==
  \E n \in DOMAIN events : /\ LatestAt(events, n) /\ events[n].id = i
                           /\ events[n].kind \in {"appeared", "changed", "escalated"}
                           /\ c = IF events[n].kind = "escalated"
                                  THEN CHOOSE d \in AnyContent : TRUE ELSE events[n].content

\* The inbox of these events shows i with content c, composed by the surface.
Shows(events, i, c) ==
  \E n \in DOMAIN events : /\ LatestAt(events, n) /\ events[n].id = i
                           /\ events[n].kind \in {"appeared", "changed"}
                           /\ events[n].content = c

\* The prior an ingest compares with: of what the inbox shows, the items of the
\* console's own repo.  An escalation names the journal, and is not of it.
Holds(events, i, c) == c \in Own /\ Shows(events, i, c)

ShowsEscalation(i) ==
  \E n \in DOMAIN log : /\ LatestAt(log, n)
                        /\ log[n].id = i /\ log[n].kind = "escalated"

IsMarker(e) == e.kind \in {"observed", "not_observed"}
Markers(events) == {n \in DOMAIN events : IsMarker(events[n])}

\* needs_attention_previous_availability: the last marker says the source is down.
Down(events) ==
  \E n \in Markers(events) : /\ events[n].kind = "not_observed"
                             /\ \A m \in Markers(events) : m <= n

MarkerCount(events) == Cardinality(Markers(events))

-------------------------------------------------------------------------------
(* The ingest *)

\* Mutant of Diff: an id the prior has is taken as unchanged.
DiffById(was, items) ==
  {Appeared(i, items[i]) : i \in {i \in Ids : /\ items[i] # None
                                              /\ \A c \in AnyContent : ~Holds(was, i, c)}}
  \cup {Resolved(h[1], h[2], 0) : h \in {h \in Ids \X AnyContent :
                                           items[h[1]] = None /\ Holds(was, h[1], h[2])}}

\* diff_needs_attention
Diff(was, items) ==
  DiffById(was, items)
  \cup {Changed(i, items[i]) : i \in {i \in Ids :
          items[i] # None /\ \E c \in AnyContent \ {items[i]} : Holds(was, i, c)}}

\* A marker only when the source has come back, or has gone.
Notices(was, view) ==
  IF view.up = Down(was)
  THEN {Marker(IF view.up THEN "observed" ELSE "not_observed", MarkerCount(was))}
  ELSE {}

NoIngest == [at |-> "idle", listed |-> 0, owed |-> {},
             saw |-> [up |-> FALSE, items |-> [i \in Ids |-> None]]]

\* The event log is listed before the surface is read.
ListPrior ==
  /\ ingest.at = "idle"
  /\ ingest' = [ingest EXCEPT !.at = "listed", !.listed = Len(log)]
  /\ UNCHANGED <<surface, journal, log, rows, reflect, changes, faults>>

Existing == SubSeq(log, 1, ingest.listed)

\* An unavailable surface resolves nothing.
ReadSurface ==
  /\ ingest.at = "listed"
  /\ ingest' = [ingest EXCEPT !.at = "append", !.listed = 0, !.saw = surface,
                  !.owed = Notices(Existing, surface)
                           \cup IF surface.up THEN Diff(Existing, surface.items) ELSE {}]
  /\ UNCHANGED <<surface, journal, log, rows, reflect, changes, faults>>

\* The marker first, then what appeared or changed, then what was resolved.
Turn(e) == IF IsMarker(e) THEN 1 ELSE IF e.kind \in {"appeared", "changed"} THEN 2 ELSE 3
Due(e) == e \in ingest.owed /\ \A f \in ingest.owed : Turn(e) <= Turn(f)

\* A duplicate of an appeared or changed item is skipped.
Land(e) ==
  /\ ingest.at = "append" /\ Due(e)
  /\ e.kind = "resolved" => ~Logged(e)
  /\ log' = Append1(e)
  /\ ingest' = [ingest EXCEPT !.owed = @ \ {e}]
  /\ UNCHANGED <<surface, journal, rows, reflect, changes, faults>>

\* The resolution repeats an earlier one's identity ...
Collide(e) ==
  /\ ingest.at = "append" /\ Due(e)
  /\ e.kind = "resolved" /\ Logged(e)
  /\ ingest' = [ingest EXCEPT !.at = "retry"]
  /\ UNCHANGED <<surface, journal, log, rows, reflect, changes, faults>>

\* Mutant of Disambiguate: a resolution that collides is an error of the ingest.
DisambiguateRefused(e) ==
  /\ ingest.at = "retry" /\ Due(e) /\ Logged(e)
  /\ ingest' = NoIngest
  /\ UNCHANGED <<surface, journal, log, rows, reflect, changes, faults>>

\* Mutant of Retried: the retry repeats it, too.
RetriedAsIs(e) == e

\* ... and is appended once more with the ingest's clock in it, which no
\* resolution before it had.
Retried(e) == Resolved(e.id, e.content, Len(log))

Disambiguate(e) ==
  /\ ingest.at = "retry" /\ Due(e) /\ Logged(e)
  /\ log' = Append1(Retried(e))
  /\ ingest' = [ingest EXCEPT !.at = "append", !.owed = @ \ {e}]
  /\ UNCHANGED <<surface, journal, rows, reflect, changes, faults>>

Ingested == ingest.at = "append" /\ ingest.owed = {}

EndIngest ==
  /\ Ingested
  /\ ingest' = NoIngest
  /\ UNCHANGED <<surface, journal, log, rows, reflect, changes, faults>>

\* A store call fails and the ingest with it, or its process ends; the next
\* sweep starts from the log.
AbortIngest ==
  /\ ingest.at # "idle" /\ faults < MaxFaults
  /\ ingest' = NoIngest /\ faults' = faults + 1
  /\ UNCHANGED <<surface, journal, log, rows, reflect, changes>>

-------------------------------------------------------------------------------
(* The reflection *)

NoPass == [at |-> "idle", todo |-> <<>>]
NoRow == [status |-> "absent", tag |-> None]

\* read_autonomous_decisions: the resolutions in journal order, then the escalations.
ReadJournal(k) ==
  /\ reflect[k].at = "idle" /\ journal.resolve \o journal.escalate # <<>>
  /\ reflect' = [reflect EXCEPT ![k] =
       [at |-> "next", todo |-> journal.resolve \o journal.escalate]]
  /\ UNCHANGED <<surface, journal, log, rows, ingest, changes, faults>>

Facing(k, step, kind) ==
  reflect[k].at = step /\ reflect[k].todo # <<>> /\ Head(reflect[k].todo).kind = kind

\* The rest of the pass, or its end.
PassOn(k) == reflect' = [reflect EXCEPT ![k] = IF Len(@.todo) = 1 THEN NoPass
                           ELSE [at |-> "next", todo |-> Tail(@.todo)]]
StepTo(k, step) == reflect' = [reflect EXCEPT ![k].at = step]

\* The command's id is its gate and its item: one row for every attention id.
Record(k) ==
  /\ Facing(k, "next", "resolve")
  /\ LET d == Head(reflect[k].todo)
     IN  \/ /\ rows[d.id].status # "absent"
            /\ PassOn(k) /\ UNCHANGED rows
         \/ /\ rows[d.id].status = "absent"
            /\ rows' = [rows EXCEPT ![d.id] = [status |-> "pending", tag |-> d.tag]]
            /\ StepTo(k, "recorded")
  /\ UNCHANGED <<surface, journal, log, ingest, changes, faults>>

\* No handler of the command lanes takes a reflection, so that the claim wins.
Claim(k) ==
  /\ Facing(k, "recorded", "resolve")
  /\ rows' = [rows EXCEPT ![Head(reflect[k].todo).id].status = "executing"]
  /\ StepTo(k, "claimed")
  /\ UNCHANGED <<surface, journal, log, ingest, changes, faults>>

\* finalize_pending_command: the outcome events, and the status after them.
LogOutcome(k) ==
  /\ Facing(k, "claimed", "resolve")
  /\ log' = Append1(Reflected(Head(reflect[k].todo).id))
  /\ StepTo(k, "logged")
  /\ UNCHANGED <<surface, journal, rows, ingest, changes, faults>>

\* Mutant of Finalizing: the status is written before the events.
FinalizingFirst(k) == Facing(k, "claimed", "resolve")

Finalizing(k) == Facing(k, "logged", "resolve")

Finalize(k) ==
  /\ Finalizing(k)
  /\ rows[Head(reflect[k].todo).id].status = "executing"
  /\ rows' = [rows EXCEPT ![Head(reflect[k].todo).id].status = "completed"]
  /\ PassOn(k)
  /\ UNCHANGED <<surface, journal, log, ingest, changes, faults>>

SurfaceEscalation(k) ==
  /\ Facing(k, "next", "escalate")
  /\ LET d == Head(reflect[k].todo) IN log' = Append1(Escalated(d.id, d.tag))
  /\ PassOn(k)
  /\ UNCHANGED <<surface, journal, rows, ingest, changes, faults>>

\* A store call fails, or the process ends.
AbortPass(k) ==
  /\ reflect[k].at # "idle" /\ faults < MaxFaults
  /\ reflect' = [reflect EXCEPT ![k] = NoPass] /\ faults' = faults + 1
  /\ UNCHANGED <<surface, journal, log, rows, ingest, changes>>

\* A lane recovers an executing row whose claim bears a stamp a day old.  The
\* claim bears the stamp the session began with, so the row may be a live one.
Recover(i) ==
  /\ rows[i].status = "executing" /\ faults < MaxFaults
  /\ rows' = [rows EXCEPT ![i].status = "failed"] /\ faults' = faults + 1
  /\ UNCHANGED <<surface, journal, log, ingest, reflect, changes>>

\* CommandNotFound: the row is no longer executing.
FinalizeLost(k) ==
  /\ Finalizing(k)
  /\ rows[Head(reflect[k].todo).id].status = "failed"
  /\ reflect' = [reflect EXCEPT ![k] = NoPass]
  /\ UNCHANGED <<surface, journal, log, rows, ingest, changes, faults>>

-------------------------------------------------------------------------------
(* The orchestrator *)

\* One item moves, or the surface goes or comes back.  Only ReadSurface looks at
\* it, so that a change at any other time is one just before the next read.
ChangeSurface ==
  /\ ingest.at = "listed"
  /\ changes < MaxChanges /\ changes' = changes + 1
  /\ \/ surface' = [surface EXCEPT !.up = ~@]
     \/ \E i \in Ids : \E c \in (Contents[i] \cup {None}) \ {surface.items[i]} :
          surface' = [surface EXCEPT !.items[i] = c]
  /\ UNCHANGED <<journal, log, rows, ingest, reflect, faults>>

\* A record, read by no pass that is under way.
Decide(d) ==
  /\ \E k \in Consoles : reflect[k].at = "idle"
  /\ Len(journal.resolve) + Len(journal.escalate) < MaxDecisions
  /\ journal' = [journal EXCEPT ![d.kind] = Append(@, d)]
  /\ UNCHANGED <<surface, log, rows, ingest, reflect, changes, faults>>

-------------------------------------------------------------------------------

\* The surface answers at first: one that does not is a change away.
Init == /\ surface \in Surfaces /\ surface.up
        /\ \A i \in Ids : surface.items[i] \in Contents[i] \cup {None}
        /\ journal = [resolve |-> <<>>, escalate |-> <<>>] /\ log = <<>>
        /\ rows = [i \in Valves |-> NoRow]
        /\ ingest = NoIngest
        /\ reflect = [k \in Consoles |-> NoPass]
        /\ changes = 0 /\ faults = 0

Ingest == \/ ListPrior \/ ReadSurface \/ EndIngest
          \/ \E e \in ingest.owed : Land(e) \/ Collide(e) \/ Disambiguate(e)

Reflect(k) == \/ ReadJournal(k) \/ Record(k) \/ Claim(k) \/ LogOutcome(k)
              \/ Finalize(k) \/ FinalizeLost(k) \/ SurfaceEscalation(k)

Next == \/ Ingest \/ AbortIngest
        \/ \E k \in Consoles : Reflect(k) \/ AbortPass(k)
        \/ \E i \in Valves : Recover(i)
        \/ ChangeSurface
        \/ \E d \in Decisions : Decide(d)

Spec == Init /\ [][Next]_vars

\* The poller keeps its cadence and a console reflects at every refresh.
FairSpec == /\ Spec
            /\ WF_vars(Ingest)
            /\ \A k \in Consoles : WF_vars(Reflect(k))

-------------------------------------------------------------------------------
(* Properties *)

Ingests == [at : {"idle", "listed", "append", "retry"}, listed : Nat,
            owed : SUBSET Events, saw : Surfaces]
Passes == [at : {"idle", "next", "recorded", "claimed", "logged"}, todo : Seq(Decisions)]
Rows == [status : {"absent", "pending", "executing", "completed", "failed"},
         tag : Dispositions \cup {None}]

TypeOK ==
  /\ surface \in Surfaces
  /\ journal \in [resolve : Seq(Resolutions), escalate : Seq(Escalates)]
  /\ log \in Seq(Events)
  /\ rows \in [Valves -> Rows]
  /\ ingest \in Ingests /\ ingest.listed <= Len(log)
  /\ reflect \in [Consoles -> Passes]
  /\ changes \in 0 .. MaxChanges /\ faults \in 0 .. MaxFaults

\* When an ingest is through, no item the surface has dropped is left in the
\* inbox with a content of the console's own repo, whatever it looked like when
\* it was dropped before and whoever else wrote to the log meanwhile
\* (ingest_needs_attention).
NothingLingers ==
  Ingested /\ ingest.saw.up =>
    \A i \in Ids, c \in Own : Shows(log, i, c) => ingest.saw.items[i] # None

\* ... and each item it lists has been shown with the content it lists: what
\* the inbox does not show now is a repetition, never news.
NewsIsShown ==
  Ingested /\ ingest.saw.up =>
    \A i \in Ids : ingest.saw.items[i] # None =>
      Logged(Appeared(i, ingest.saw.items[i])) \/ Logged(Changed(i, ingest.saw.items[i]))

\* The log tells each outage once, and its end once, for as long as it lasts,
\* and after an ingest the header counts the source as down just when it was
\* (ingest_needs_attention_with_identity, needs_attention_availability_marker).
OutagesTold ==
  /\ Ingested => (Down(log) <=> ~ingest.saw.up)
  /\ \A m, n \in Markers(log) :
       /\ m < n /\ (\A l \in Markers(log) : ~(m < l /\ l < n)) => log[m].kind # log[n].kind
       /\ (\A l \in Markers(log) : n <= l) => log[n].kind = "not_observed"

\* An escalation the surface has never listed stays in the inbox: neither an
\* ingest, for which the item is absent, nor a reflection takes it out.
UnlistedEscalationStays ==
  \A i \in Escalations, s \in Settings :
    Logged(Escalated(i, s)) /\ (\A c \in AnyContent : ~Logged(Appeared(i, c)))
      => ShowsEscalation(i)

\* A reflection's row says completed only with its outcome in the log.
CompletedIsReflected ==
  \A i \in Valves : rows[i].status = "completed" => Logged(Reflected(i))

\* The rows of the reflections keep the queue's promise, though a claim looks at
\* no status: each is claimed by the pass that recorded it, reflected at most
\* once, and completed only when it was (reflect_autonomous_decision,
\* finalize_pending_command).
RowStatus == [i \in Valves |-> rows[i].status]
Reflections == {i \in Valves : Logged(Reflected(i))}
TimesReflected == [i \in Valves |-> IF i \in Reflections THEN 1 ELSE 0]
Queue == INSTANCE CommandQueue
           WITH Commands <- Valves, row <- RowStatus, asked <- TimesReflected,
                landed <- Reflections
ImplementsCommandQueue == Queue!Spec

\* Failed sweeps, resolutions that collide and reflections that race them only
\* delay: the inbox ends up without the items of the console's own repo that the
\* surface no longer lists.
InboxHeals ==
  <>[](surface.up => \A i \in Ids, c \in Own :
                       Shows(log, i, c) => surface.items[i] # None)

\* contracts.md, the needs-attention adapter: resolved is a previously-present id
\* that is now absent, of whatever repo and whoever opened it.  No run has it, for
\* it does not hold: Holds leaves out what is not the surface's own.
DroppedIsResolved ==
  Ingested /\ ingest.saw.up =>
    \A i \in Ids : ingest.saw.items[i] = None =>
      \A c \in AnyContent : ~Shows(log, i, c)

\* contracts.md, the needs-attention adapter: an id that was not present and is
\* now is an item that appeared; the inbox shows what the surface lists.
InboxShowsSurface ==
  Ingested /\ ingest.saw.up =>
    \A i \in Ids : ingest.saw.items[i] # None => Shows(log, i, ingest.saw.items[i])

\* Scenario 15: no auto-disposition is silent.  One that a pass leaves out as
\* reflected already is one that was.
NoSilentDisposition ==
  \A k \in Consoles :
    Facing(k, "next", "resolve") =>
      LET d == Head(reflect[k].todo)
      IN  rows[d.id].status # "absent" => rows[d.id].tag = d.tag
===============================================================================
