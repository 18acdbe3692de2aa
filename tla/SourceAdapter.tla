----------------------------- MODULE SourceAdapter -----------------------------
(***************************************************************************)
(* How one observed source reaches the event log.  A console's poller      *)
(* reads the clock, takes or renews the store's writer lease, loads the    *)
(* adapter's checkpoint, probes the source, appends what the probe yields  *)
(* one event at a time, and saves the checkpoint last.  A backfill does    *)
(* the same without the lease.  An event's id carries an epoch kept in the *)
(* checkpoint, so that the store drops a repeated observation and keeps a  *)
(* return to an earlier state.  What the operator sees is a fold of the    *)
(* log.  The source is the orchestrator's ledger: it holds work items at   *)
(* versions, or cannot be read, for a cause.                               *)
(***************************************************************************)
EXTENDS Naturals, Sequences

CONSTANTS Consoles,      \* processes that sweep their sources under the lease
          Backfills,     \* one-shot processes that take no lease
          Items, Versions, Causes,
          None,          \* no cause, no version, no item, no process
          Gone,          \* the identity of a process that has ended
          LeaseTTL,      \* WRITER_LEASE_TTL_SECONDS
          SweepTime,     \* bound: how long a sweep lasts from its reading of the
                         \* clock, which may well be longer than the lease
          MaxChanges,    \* bound: changes of the source
          MaxFaults      \* bound: crashes and failed store calls

Processes == Consoles \cup Backfills

ASSUME NamesAssumption == /\ Consoles \cap Backfills = {}
                          /\ None \notin Processes \cup Items \cup Versions \cup Causes
                          /\ Gone \notin Processes \cup {None}
ASSUME BoundsAssumption == /\ LeaseTTL \in Nat \ {0} /\ SweepTime \in Nat
                           /\ MaxChanges \in Nat /\ MaxFaults \in Nat

VARIABLES source,      \* what a probe would find: [cause, items]
          log,         \* the source's events, in global_seq order
          checkpoint,  \* the adapter's saved checkpoint
          lease,       \* the writer_lease row: [holder, age since renewal]
          pc,          \* the step each process is at
          age,         \* time since each console read the clock
          poll,        \* the poll it has open
          diverged,    \* history: a poll landed something and its checkpoint was
                       \* lost, or two polls were open at once
          changes, faults

procVars == <<pc, age, poll>>
vars == <<source, log, checkpoint, lease, procVars, diverged, changes, faults>>

Steps == {"idle", "clocked", "ready", "loaded", "append"}
InPoll(p) == pc[p] \in {"loaded", "append"}

-------------------------------------------------------------------------------
(* Checkpoints and events *)

Cold == [availability |-> "none", epoch |-> 0,
         ledger |-> [i \in Items |-> [version |-> None, epoch |-> 0]]]

Up(view) == view.cause = None

\* Mutant of Present: every item that was ever listed.
Listed(view) == Items

\* The items of an observation.  A record that cannot be read is skipped like an
\* absent one; a listing with no other is a failed poll, and so a cause.
Present(view) == {i \in Items : view.items[i] # None}

\* Mutant of Transition: a change of state keeps the epoch.
SameEpoch(ck, state) == IF ck.epoch = 0 THEN 1 ELSE ck.epoch

\* availability_transition: a changed state is the next epoch, the first is 1.
Transition(ck, state) ==
  IF ck.availability = state THEN ck.epoch ELSE ck.epoch + 1

\* Mutant of Observe: the id of a version is the same whenever it is seen.
ContentAddressed(entry, v) == [version |-> v, epoch |-> 1]

\* WorkItemObservationLedger::observe and record
Observe(entry, v) ==
  [version |-> v,
   epoch   |-> IF entry.version = v THEN entry.epoch ELSE entry.epoch + 1]

\* The checkpoint a poll that saw view will save.  An unreachable source keeps
\* the ledger, and so does an absent item its entry.
NextCheckpoint(ck, view) ==
  IF Up(view)
  THEN [availability |-> "observed", epoch |-> Transition(ck, "observed"),
        ledger |-> [i \in Items |-> IF i \in Present(view)
                                    THEN Observe(ck.ledger[i], view.items[i])
                                    ELSE ck.ledger[i]]]
  ELSE [ck EXCEPT !.availability = "not_observed",
                  !.epoch = Transition(ck, "not_observed")]

\* An event is its id: one record stands for both.
Snapshot(i, entry) == [kind |-> "snapshot", item |-> i,
                       value |-> entry.version, epoch |-> entry.epoch]
ObservedMarker(e) == [kind |-> "observed", item |-> None, value |-> None, epoch |-> e]
NotObserved(c, e) == [kind |-> "not_observed", item |-> None, value |-> c, epoch |-> e]

\* Mutant of Reports: the positive marker only when the state has changed.
ReportsGated(was, view) ==
  LET next == NextCheckpoint(was, view)
  IN  IF Up(view)
      THEN {Snapshot(i, next.ledger[i]) : i \in Present(view)}
           \cup (IF was.availability = "observed" THEN {}
                 ELSE {ObservedMarker(next.epoch)})
      ELSE {NotObserved(view.cause, next.epoch)}

\* What a poll of view appends: the items and the positive marker, or the finding.
Reports(was, view) ==
  LET next == NextCheckpoint(was, view)
  IN  IF Up(view)
      THEN {Snapshot(i, next.ledger[i]) : i \in Present(view)}
           \cup {ObservedMarker(next.epoch)}
      ELSE {NotObserved(view.cause, next.epoch)}

Views == [cause : Causes \cup {None}, items : [Items -> Versions \cup {None}]]
Checkpoints == [availability : {"none", "observed", "not_observed"}, epoch : Nat,
                ledger : [Items -> [version : Versions \cup {None}, epoch : Nat]]]
Events ==
  [kind : {"snapshot"}, item : Items, value : Versions, epoch : Nat]
  \cup [kind : {"observed"}, item : {None}, value : {None}, epoch : Nat]
  \cup [kind : {"not_observed"}, item : {None}, value : Causes, epoch : Nat]

\* The poll a process has open: what it will save, what it saw, the events it has
\* still to append, whether an append failed, and whether one was new.
Polls == [next : Checkpoints, saw : Views, owed : SUBSET Events,
          lost : BOOLEAN, fresh : BOOLEAN]

InLog(e) == \E n \in DOMAIN log : log[n] = e

\* The fold of the header: down since a finding that no observation followed.
Branded == \E n \in DOMAIN log :
             /\ log[n].kind = "not_observed"
             /\ \A m \in DOMAIN log : m > n => log[m].kind = "not_observed"

\* The cause on the row is that of the latest finding, the item that of its
\* latest snapshot.
ShowsCause(c) == \E n \in DOMAIN log :
                   /\ log[n].kind = "not_observed" /\ log[n].value = c
                   /\ \A m \in DOMAIN log : m > n => log[m].kind # "not_observed"
Shows(i, v) == \E n \in DOMAIN log :
                 /\ log[n].kind = "snapshot" /\ log[n].item = i /\ log[n].value = v
                 /\ \A m \in DOMAIN log :
                      m > n => ~(log[m].kind = "snapshot" /\ log[m].item = i)

NoPoll == [next |-> Cold, saw |-> [cause |-> None, items |-> [i \in Items |-> None]],
           owed |-> {}, lost |-> FALSE, fresh |-> FALSE]

-------------------------------------------------------------------------------
(* A sweep *)

Init == /\ source \in Views
        /\ log = <<>>
        /\ checkpoint = Cold
        /\ lease = [holder |-> None, age |-> 0]
        /\ pc = [p \in Processes |-> "idle"]
        /\ age = [p \in Consoles |-> 0]
        /\ poll = [p \in Processes |-> NoPoll]
        /\ diverged = FALSE
        /\ changes = 0 /\ faults = 0

ReadClock(p) ==
  /\ p \in Consoles /\ pc[p] = "idle"
  /\ pc' = [pc EXCEPT ![p] = "clocked"]
  /\ UNCHANGED <<source, log, checkpoint, lease, age, poll, diverged, changes, faults>>

\* Mutant of Stale: a lease is abandoned as soon as it is not renewed.
StaleAtOnce(p) == lease.age >= age[p]

\* lease_is_stale, by the clock the process read before it came to the lease
Stale(p) == lease.age >= LeaseTTL + age[p]

MayWrite(p) == lease.holder \in {None, p} \/ Stale(p)

TakeLease(p) ==
  /\ pc[p] = "clocked" /\ MayWrite(p)
  /\ lease' = [holder |-> p, age |-> age[p]]
  /\ pc' = [pc EXCEPT ![p] = "ready"]
  /\ UNCHANGED <<source, log, checkpoint, age, poll, diverged, changes, faults>>

Rest(p) == /\ pc' = [pc EXCEPT ![p] = "idle"]
           /\ age' = [c \in Consoles |-> IF c = p THEN 0 ELSE age[c]]
           /\ poll' = [poll EXCEPT ![p] = NoPoll]

\* Another live process holds the lease: this sweep reads and writes nothing.
HeldOff(p) ==
  /\ pc[p] = "clocked" /\ ~MayWrite(p)
  /\ Rest(p)
  /\ UNCHANGED <<source, log, checkpoint, lease, diverged, changes, faults>>

\* A backfill comes here with no lease and no clock to compare.
Load(p) ==
  /\ pc[p] = "ready" \/ (p \in Backfills /\ pc[p] = "idle")
  /\ pc' = [pc EXCEPT ![p] = "loaded"]
  /\ poll' = [poll EXCEPT ![p].next = checkpoint]
  /\ diverged' = (diverged \/ \E q \in Processes : InPoll(q))
  /\ UNCHANGED <<source, log, checkpoint, lease, age, changes, faults>>

Probe(p) ==
  /\ pc[p] = "loaded"
  /\ LET was == poll[p].next
     IN  poll' = [poll EXCEPT ![p].next = NextCheckpoint(was, source),
                              ![p].saw  = source,
                              ![p].owed = Reports(was, source)]
  /\ pc' = [pc EXCEPT ![p] = "append"]
  /\ UNCHANGED <<source, log, checkpoint, lease, age, diverged, changes, faults>>

\* The positive marker is the last event of a poll.
Due(p, e) == /\ pc[p] = "append" /\ e \in poll[p].owed
             /\ e.kind = "observed" => poll[p].owed = {e}

\* An id the log holds already is a duplicate, which adds nothing.
Land(p, e) ==
  /\ Due(p, e)
  /\ log' = IF InLog(e) THEN log ELSE Append(log, e)
  /\ poll' = [poll EXCEPT ![p].owed = @ \ {e}, ![p].fresh = @ \/ ~InLog(e)]
  /\ UNCHANGED <<source, checkpoint, lease, pc, age, diverged, changes, faults>>

\* An append that fails is skipped; the poll goes on.
Lose(p, e) ==
  /\ Due(p, e) /\ faults < MaxFaults
  /\ poll' = [poll EXCEPT ![p].owed = @ \ {e}, ![p].lost = TRUE]
  /\ faults' = faults + 1
  /\ UNCHANGED <<source, log, checkpoint, lease, pc, age, diverged, changes>>

Appended(p) == pc[p] = "append" /\ poll[p].owed = {}

Save(p) ==
  /\ Appended(p)
  /\ checkpoint' = poll[p].next
  /\ Rest(p)
  /\ UNCHANGED <<source, log, lease, diverged, changes, faults>>

\* A poll ends with its checkpoint unsaved.
Unsaved(p) ==
  /\ diverged' = (diverged \/ (poll[p].fresh /\ poll[p].next # checkpoint))
  /\ Rest(p)

\* The lease, the checkpoint or another source's poll fails, and with it the sweep.
Abort(p) ==
  /\ pc[p] \in {"clocked", "ready"} \/ Appended(p)
  /\ faults < MaxFaults /\ faults' = faults + 1
  /\ Unsaved(p)
  /\ UNCHANGED <<source, log, checkpoint, lease, changes>>

\* The process ends, and a later one has an identity of its own.
Crash(p) ==
  /\ pc[p] # "idle" \/ lease.holder = p
  /\ faults < MaxFaults /\ faults' = faults + 1
  /\ Unsaved(p)
  /\ lease' = [lease EXCEPT !.holder = IF @ = p THEN Gone ELSE @]
  /\ UNCHANGED <<source, log, checkpoint, changes>>

-------------------------------------------------------------------------------
(* The source and the clock *)

\* The source goes down, comes up, fails otherwise, or moves one item.
Change ==
  /\ changes < MaxChanges /\ changes' = changes + 1
  /\ \/ \E c \in (Causes \cup {None}) \ {source.cause} :
          source' = [source EXCEPT !.cause = c]
     \/ \E i \in Items : \E v \in (Versions \cup {None}) \ {source.items[i]} :
          source' = [source EXCEPT !.items[i] = v]
  /\ UNCHANGED <<log, checkpoint, lease, procVars, diverged, faults>>

\* Ages stop growing once nothing can tell them from older ones.
Tick ==
  /\ \A p \in Consoles : pc[p] # "idle" => age[p] < SweepTime
  /\ age' = [p \in Consoles |-> IF pc[p] = "idle" THEN 0 ELSE age[p] + 1]
  /\ lease' = [lease EXCEPT !.age = IF @ < LeaseTTL + SweepTime THEN @ + 1 ELSE @]
  /\ UNCHANGED <<source, log, checkpoint, pc, poll, diverged, changes, faults>>

Work(p) == \/ ReadClock(p) \/ TakeLease(p) \/ HeldOff(p) \/ Load(p) \/ Probe(p)
           \/ \E e \in poll[p].owed : Land(p, e)
           \/ Save(p)

Next == \/ \E p \in Processes : \/ Work(p) \/ Abort(p) \/ Crash(p)
                                \/ \E e \in poll[p].owed : Lose(p, e)
        \/ Change \/ Tick

Spec == Init /\ [][Next]_vars

\* A console polls for as long as it runs, its probes return, and time passes.
FairSpec == /\ Spec
            /\ \A p \in Consoles : WF_vars(Work(p))
            /\ WF_vars(Tick)

-------------------------------------------------------------------------------
(* Properties *)

TypeOK ==
  /\ source \in Views
  /\ log \in Seq(Events)
  /\ checkpoint \in Checkpoints
  /\ lease \in [holder : Processes \cup {None, Gone}, age : 0 .. LeaseTTL + SweepTime]
  /\ pc \in [Processes -> Steps]
  /\ \A b \in Backfills : pc[b] \notin {"clocked", "ready"}
  /\ age \in [Consoles -> 0 .. SweepTime]
  /\ poll \in [Processes -> Polls]
  /\ diverged \in BOOLEAN
  /\ changes \in 0 .. MaxChanges /\ faults \in 0 .. MaxFaults

Writing(p) == pc[p] \in {"ready", "loaded", "append"}

\* A lease excludes others for its time and no longer: of two consoles that write
\* at once, one began its sweep at least a lease's time before the other, however
\* old the clock is that a console brings to the lease, and whoever crashed.
WritersApart ==
  \A p, q \in Consoles :
    p # q /\ Writing(p) /\ Writing(q)
      => age[p] >= age[q] + LeaseTTL \/ age[q] >= age[p] + LeaseTTL

\* Until a poll's record is lost, the header shows the source as the latest poll
\* found it: an epoch stops a finding of an earlier outage, and an observation of
\* an earlier recovery, from swallowing a later one.
TallyFollowsPoll ==
  \A p \in Processes :
    Appended(p) /\ ~poll[p].lost /\ ~diverged
      => (Branded <=> ~Up(poll[p].saw))

\* ... and the board shows every item as the latest poll found it, an item that
\* is back in an earlier state or was absent for a while included.
BoardFollowsPoll ==
  \A p \in Processes :
    Appended(p) /\ ~poll[p].lost /\ ~diverged /\ Up(poll[p].saw)
      => \A i \in Present(poll[p].saw) : Shows(i, poll[p].saw.items[i])

InStep == /\ Branded <=> ~Up(source)
          /\ Up(source) => \A i \in Present(source) : Shows(i, source.items[i])

\* Lost appends and dead lease holders only delay: once the source settles, what
\* is shown settles on it.
CatchesUp == []~diverged => <>[]InStep

\* What acquire_or_renew_writer_lease promises: only the holder of the lease may
\* write, so that at most one process's markers land at a time.
SoleWriter ==
  \A p, q \in Consoles : pc[p] = "append" /\ pc[q] = "append" => p = q

\* What the scenario promises: the tally reflects the latest poll outcome.
TallyReflectsLatestPoll ==
  \A p \in Processes :
    Appended(p) /\ ~poll[p].lost => (Branded <=> ~Up(poll[p].saw))

\* What the re-poll promises: a failed poll replaces the cause on the row.
FailedPollReplacesCause ==
  \A p \in Processes :
    Appended(p) /\ ~poll[p].lost /\ ~diverged /\ ~Up(poll[p].saw)
      => ShowsCause(poll[p].saw.cause)
===============================================================================
