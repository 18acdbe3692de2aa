# Formal model of the livespec console

The console is a terminal cockpit over an event-sourced SQLite store. It polls
external sources into an event log, folds the log into what the operator sees,
and turns the operator's keys into commands that background lanes execute
against an orchestrator and a factory dispatcher. This directory holds TLA+
modules of the parts whose behaviour depends on interleaving, failure or order,
the TLC configurations that check them, and TLAPS proofs about them. Paths below
are relative to `src/crates/`.

## 1. Inventory

| component | state | operations | what is hard | what makes it correct |
|---|---|---|---|---|
| **Event store: event log** (`console-eventstore/src/lib.rs`) | `events` (id, source key, stream, position), the stream-position index | open with bounded retry, migrate, `append_event`, list | several connections and processes, deferred transactions, a two-statement migration, crashes | one row per id and per source key; stream positions 1, 2, 3 …; rows never change; answers stay true |
| **Event store: commands** | `commands` (id, idempotency key, status, requested_at, updated_at) | append, list, claim, finalize, fail stale | the claim is the only mutual exclusion between lanes of all processes | one consumer per command; honest, final statuses |
| **Event store: checkpoints, writer lease** | one row per adapter; one lease row | load, save; acquire or renew | a checkpoint is saved after the events it covers; a lease expires under a long sweep | checkpoint and log agree; a lease excludes other writers for its time |
| **Command lanes** (`console-cli/src/{lib,main}.rs`) | wake channel, one control worker, a factory thread per wake, the main thread's passes | issue, wake, recover, list, claim, execute, finalize, flush, serve | lanes race over one table with stale listings; crashes; age-based recovery; quit | no double execution; order per aggregate; nothing left behind |
| **Command handlers** (`console-application/src/lib.rs`) | none | drain, dispatch, work-item actions, settings | a port that fails, refuses or is not wired | the outcome events and the status tell the truth |
| **Command identities** (`console-cli/src/lib.rs`, 3654–3821) | the command count | distinguish, retry | count, list and append are not one transaction | every distinct issue lands, a double press is absorbed |
| **Source adapters** (`console-application/src/source_adapters.rs`) | availability checkpoint (state, epoch, source position), work-item ledger | poll, normalize, append, save | crash between append and save, a lost append, failing sources | availability shown = last poll; every observed state lands |
| **Needs attention and reflection** (`console-cli/src/lib.rs`, `source_adapters.rs`) | last shown items in the log; reflection commands | diff at ingest, resolve, reflect, escalate | items that return with an identity the log has, a diff against an older listing, reflection interrupted half-way | nothing of its own repo that it dropped lingers, news is told, escalations stay, a completed reflection is in the log |
| **Refresh, backfill, lease use** (`console-cli/src/lib.rs`) | lease per sweep | refresh, backfill, ingest and reflect | two consoles on one store, sweeps longer than the lease | sweeps of two consoles begin a lease apart |
| **Source poller** (`console-cli/src/source_poller.rs`, `main.rs`) | window, named rows, channel | paced loop, request, quit, join or detach | requests that keep arriving, a poll that hangs at quit | cadence kept, requests served, the process ends |
| **Settings write** (`console-application/src/{lib,dispatcher_settings_cell}.rs`, `console-tui`) | launch-read cell, values shown, write slot, watermark | read, propose, submit, settle, re-read | late launch read, outcome before the next listing, unreadable settings, a lane that fails before its outcome | no blind edit, no outcome of an edit missed |
| **Projections** (`console-application/src/lib.rs`) | none (folds) | lanes, attention list and groups, settings, staleness, outcome | order and duplicates of events | the rows are those of the log |
| **Terminal UI** (`console-tui/src/lib.rs`, `console-application/src/lib.rs`) | view, cursors, groups, overlay | movements in bursts, search, drill, stage, confirm, refresh | the lists change between a key and the next | the cursor follows its row; a confirmed action is the one shown |
| Domain types, action registry, doctor, identities, backing CLI, probes | none | – | – | – |
| Development tools (`*-check`, `nightly-soak`) | none | – | – | not part of the console |

The terminal session (main thread) appends commands and wakes the command worker
over a channel; the worker and its factory threads, and the poller, each open a
connection of their own; the main thread reads the log. Consoles meet only in
the store. `PROJECT.json` lists the hazards of each part at their lines.

## 2. Plan

Most important first; all of it is done except the last item.

1. `DedupLog`, `EventLog`, `EventLogProofs` – the event log.
2. `CommandQueue`, `CommandLane`, `CommandLaneProofs` – command execution.
3. `SourceAdapter`, `SourceAdapterProofs` – a poll with its checkpoint, epochs
   and markers, under the writer lease or beside it.
4. `Attention`, `AttentionProofs` – the ingest of needs-attention items and the
   reflection of the Dispatcher's journal, over one deduplicated log.
5. `SourcePoller`, `SourcePollerProofs` – the paced loop and the quit.
6. `OperatorWrites`, `OperatorWritesProofs` – count, list and append; keys and
   retries; the write of a setting and how the view follows it.
7. `Cockpit`, `CockpitProofs`, `ListLemmas` – the cursors, the grouped list, staging
   and confirming a verb while the lists refresh; facts about lists that are kept and
   flattened.
8. Left: the fold of a poll's events into the roster, staleness and event counts
   as operators, the ingest of `Attention` over `DedupLog`, and ingests of two consoles
   that overlap. The lease does not rule those out: it keeps the beginnings of two
   consoles' sweeps a lease apart (`LeaseKeepsApart`), and a sweep lasts longer than that
   (section 6). `SourceAdapter` has overlapping polls; `Attention` covers one ingest at a
   time, and says nothing of a store on which two overlap.

## 3. Modules

**`EventLog`** models `SqliteEventStore` for the `events` table. Each connection
is `closed` until it has opened the store. `FindIndex`, `MissIndex`, `Renumber`,
`CreateIndex` and `IndexRefused` are the statements of `ensure_stream_positions`,
in the separate transactions the code runs them in. `OpenBusy` is
`open_tolerating_contention` around them. An append is `BeginAppend` (begin, read
the highest position), `InsertRow` or `InsertBusy` (the `insert or ignore`,
which upgrades the transaction) and `CommitInserted`, `CommitDuplicate` or
`RefuseAppend` (`find_existing_sequence`, commit). A row's `global_seq` is its
index in `events`. `lock`, `stalled` and `fresh` are SQLite's write lock, a
commit that outlives the busy timeout, and the age of a read snapshot: they are
external, taken from WAL mode and the pragmas of `initialize_connection`.
`WriteOtherTable` stands for every single-statement write to another table.
`Crash` ends a process anywhere. `Init` admits tables the old handlers wrote.

**`DedupLog`** is what the store promises: an append is accepted, answered as a
repeat or failed, in one step, on a growing log without repeats.
`EventLog!ImplementsDedupLog` maps the rows to the log and the outcomes to the
answers.

**`CommandLane`** models the queue and its consumers. A console's lanes are its
worker (control lane, number 0), its factory threads, and its main thread
(`Main(k)`). `Issue`, `IssueAgain` and `SendWake` are `handle_runtime_effect`;
`TakeWake` is `command_worker_loop`. A handler is `Recover` (fail stale), `List`
(one listing, with the blocking test), then for each command `Claim`,
`CallPort`, `Reject` or `LeaveUnwired`, `LogOutcome` once per event, and
`Finalize`; `EndHandler` goes on to the next handler. `Quit` starts the flush of a
session that ended, with the session's clock and without a dispatch port;
`Serve` is the headless pass. `Exit` and `Crash` end a process and its threads;
`Abort` is any failed store or port call. Time is a counter; `StaleAfter` is the
24 hours. Payloads are left out; each command has a kind and an aggregate.

**`CommandQueue`** is the promise: claimed once, asked for at most once, final
and honest. `CommandLane!ImplementsCommandQueue` maps `status`, `invoked` and
`performed`. The rows of the reflections (`Attention`) and the table of identities
(`OperatorWrites`) implement the same queue, each under a mapping of its own: a
reflection is asked for when its outcome is logged, an identity when a lane acts on the
one row that has it.

**`SourceAdapter`** models how one observed source reaches the log. A console's
sweep is `ReadClock` (the poller's `current_requested_at`), `TakeLease` or
`HeldOff` (`acquire_or_renew_writer_lease` and the read-only degradation of
`refresh_sources`), then `run_adapter_poll`: `Load`, `Probe`, one `Land` or
`Lose` for each event, `Save`. A backfill (`backfill_source_report`) is the same
without clock and lease. `NextCheckpoint` and `Reports` are the adapter's `poll`
with `availability_transition` and the `WorkItemObservationLedger`; an event is
its id, so appending one the log holds adds nothing. `Abort` is any failing call
that ends a sweep, of this source or of another, and `Crash` the end of a process,
whose lease stays behind under an identity nobody has again. `Branded`,
`ShowsCause` and `Shows` are the folds the header and the board are drawn from.
Time is in the ages of the lease and of each clock that was read. `SweepTime` bounds how
long a sweep lasts; it is a bound of the model and no assumption, and may be larger than
`LeaseTTL`, as the code's sweeps of 50 to 70 seconds are than its lease of 30.
`diverged` is a history variable: it is raised when a poll added to the log and
its checkpoint was not saved, or when two polls were open at once. The source
itself changes at any time, within `MaxChanges`.

**`Attention`** models how the inbox follows the orchestrator. The poller's ingest
(`ingest_needs_attention_with_identity`) is `ListPrior` (the log is listed),
`ReadSurface` (the port is read, the availability marker and `diff_needs_attention`
are computed against that listing), `Land` for each event in the order of the code,
and for a resolution whose identity the log has `Collide` and `Disambiguate`. An event is its
identity: appearances and changes are told apart by their content, as their hash is,
and resolutions by the content they retire. `Shows` is `materialize_attention_items`, and
`Holds` is what the ingest keeps of it as its prior: the items of the console's own repo.
A content names the repo it was composed for; those in `Own` name the console's, any other
is of another repo or of the default one, and an escalation names the journal. The
reflection of each console
(`observe_and_reflect_autonomous_decisions`) is `ReadJournal`, then for each
resolution `Record`, `Claim`, `LogOutcome`, `Finalize`, and for each escalation
`SurfaceEscalation`. `AbortIngest`, `AbortPass` and `Recover` are failed calls, lost
processes and the age-based recovery. The surface may change between the listing and the
reading, which is the same as at any other time.

**`SourcePoller`** models `run_paced_source_poll_loop` with its host: `Size` takes the
time, `Receive` or `TimeOut` is the wait, `Turn` the decision to coalesce or to poll,
`EndPoll` a poll that returned. `Request` and `Quit` are the interface thread's sends,
`Exit` is `join_poller_or_detach`. Time counts up to the cadence and to the grace.
`owed` is a history variable: what was asked for and no poll has begun for since.

**`OperatorWrites`** models a press that writes. `Count`, `List` and `AppendRow` are the
three store calls of `persist_tui_runtime_effects`, with the identities of
`distinguish_retryable_command`; `StoreBusy` is the refusal that leaves nothing behind.
`Publish` is the background read at launch; `Look` is the rest of the terminal loop's
pass (take the cell, list the events) and `Confirm` the re-read once
`dispatcher_setting_write_settled`. A lane takes any pending row and goes through
`Claim`, `Act` (the ports), `LogOutcome` and `Finalize`; `Fail` is an error of any of those
calls, which ends the handler and leaves the row executing, and `Recover` the age-based
recovery, which fails such a row, or one a lane still works on, and logs no outcome. What
`CommandLane` knows of the lanes beyond that, an identity cannot tell.
`upon` and `over` in a press, `upon` in the slot, and `answer` and `told` in a row are
history: the table's length at the count, whether an attempt had not failed at the
listing, what the port did, and whether the row's outcome is in the log.

**`Cockpit`** models the operator's cursor. `events` is what the event list in hand
projects to: items by rank, their lanes, and what was found. `Entries` is
`unified_attention_entries` (`Kept` is its filter), `AttentionRows` is `attention_rows`
and `LaneItems` a column of `project_lane_board`; `RowsOf` and `ColumnOf` are their tables,
so that a list is worked out once. `InboxRow` and `ColumnRow` are
`selected_attention_for_state` and `selected_lane_item_for_state`, which differ in
what an anchor that left means. Every key is an action; `Reanchored` is applied by
each of them, as `reduce_tui_interaction_with_model` does. A movement leaves the tick
in `burst`, in which no frame is drawn and no refresh comes; any other key draws one
(`frame` is the target its modal names). `Refresh` is an idle tick, or the one after a
command, and replaces `events` by anything. `held` is a history of the staging.

`MCEventLog`, `MCCommandLane`, `MCSourceAdapter`, `MCAttention`, `MCOperatorWrites`
and `MCCockpit` hold the model values; `SourcePoller` needs none.

## 4. Runs

| run | bounds | shows |
|---|---|---|
| `EventLog` | 2 connections, 2 ids, 1 source key, 2 streams, 3 rows, 3 initial databases | the eight properties of the log |
| `CommandLaneRace` | 2 consoles, 4 lanes, a dispatch and a valve of one item, 2 presses | `RunOnce`, `QueueOrder` |
| `CommandLaneFaults` | 1 console, 4 commands (one of each kind), 2 clock values, 1 fault, 1 main-thread pass | `TypeOK`, `HonestStatus`, refinement of the queue |
| `CommandLaneHandled` | 1 console, 2 factory threads, no faults | every pending command is handled |
| `CommandLaneOvertaking` (violation) | 2 consoles, 2 commands | section 6 |
| `SourceAdapter` | 2 consoles, 1 backfill, 1 item of 2 versions, 1 cause, 2 changes, 1 fault, lease 1, sweep 2 | `TypeOK`, `WritersApart`, `TallyFollowsPoll`, `BoardFollowsPoll`, `CatchesUp` |
| `SourceAdapterLease` (violation) | the same, 1 change, no fault | section 6 |
| `Attention` | a valve item of 2 contents, an escalated item that the surface lists for another repo, 1 console, 4 changes of the surface, 1 record of the journal, 1 fault | six safety properties and `InboxHeals` |
| `SourcePoller` | 2 rows, cadence 2, grace 1, 3 waiting messages, requests without end | `PacedPolls`, `QuitEnds`, `NamedSourcesPolled`, `SweepsMade` |
| `OperatorWrites` | 2 consoles, 1 lane, 1 setting of 2 values, 1 valve, presses on a table of up to 1 row, 1 fault | `LaunchReadFirst`, `RepeatablesLand`, `FailedValveRetried`, `WritesAnswered` |
| `OperatorWritesLanded` (violation) | 1 console, 1 lane, 2 settings, 2 rows, no fault | section 6 |
| `Cockpit` | 2 items in 2 lanes, 3 findings of one class, 2 search texts, any refresh at any time | `ConsentHeld`, `LaneVerbKeepsItem`, `CursorFollows` |

Why the bounds are enough to be of interest: two connections already give every
pair of conflicting statements, and three rows hold a repeat, a position collision
and a stream of two. Two lanes are enough to contest a row; a factory and a
control command of one item are enough for the order. The clock needs two values
because `StaleAfter` is 0: an hour of the model is more than the stale age. Two changes of the source are an
outage and a recovery, or another version and the first again, which is what an epoch
is for. A sweep of two units against a lease of one lets a second console take the stale
lease while the first still appends, which the code's figures allow; one item is enough because an item's epoch depends
on nothing but the item. `SourceAdapter` explores no further from a state that has
`diverged` (CONSTRAINT `Converged`): what it promises ends there. Four changes of the
surface take an item through a content, its absence, and the same again, or through the second
resolution of one content, which is what needs the disambiguated retry; the escalated
item moves beside it. In `SourcePoller` the window can be open, half over and closed,
and a queue of three holds both rows and a sweep or the shutdown behind two requests.
In `OperatorWrites` both consoles may press on an empty table or beside one row, so
that it grows to three: a press, its retry and another console's append in between. One
fault is a lane that fails at any of its calls, a row recovered under its lane, a busy
store or an unreadable setting. In `Cockpit` two items are the least that a refresh can
swap, two findings the least that fold into a group, and a third lets a group outlive a row: the
row leaves the open group and comes back, and the cursor, which went to the group, goes
back to the row it was anchored to. (`CursorStays` said otherwise until its proof was
tried; two findings had hidden it.) The safety proofs do not depend on these bounds.
`SourcePoller` runs with `CHECK_DEADLOCK FALSE` because it ends when the process is gone, the
`CommandLane` runs because they end when the operators have no presses left.

## 5. Fairness

`EventLog`: a connection that began an append goes on with it (its thread runs);
nothing makes anyone begin. `CommandLane`: lanes, wakes and the exit after a
flush make progress; nobody has to press a key, open a session, quit, and the
clock may stop. A port that never returns is thereby excluded: a factory drain
has no timeout in the code, and `EveryCommandHandled` is said of ports that return.
`SourceAdapter`: a console's poller loops until the console ends, its probes return,
and time passes; a backfill is never obliged to run. The loop is
`run_paced_source_poll_loop`; that a probe returns is an assumption (a backing CLI may hang,
and then nothing is promised).
`Attention`: the ingest and every console's pass go on, as the poller's cadence and the
refresh of each tick see to. `SourcePoller`: the loop, the join and time; no request, no
quit and no end of a poll is assumed, so `NamedSourcesPolled` and `SweepsMade` have "polls
return" as an explicit premise and `QuitEnds` has not. `OperatorWrites`: the terminal
loop only; a lane may hang or fail at any call, so `WritesAnswered` is said of edits whose
outcome is in the log, and the background read of the settings may never come. `Cockpit` states no
liveness.

## 6. What the violations say

1. `NoOvertaking` – the blocking test orders commands by the start of the issuing
   session: a valve of an older session overtakes a dispatch that was appended before it.
2. `LandedIsShown` – the write state of the Settings view is one slot. Two edits of
   different rows in flight: the later replaces the earlier, whose row shows its
   pre-edit value as current after it has landed.
3. `SoleWriter` – the lease is taken once per sweep, for 30 seconds, and not asked for
   again before the appends. A sweep lasts 50 to 70 seconds, and longer when a backing CLI
   blocks: a second console reclaims the stale lease, and both append at once. What is
   left of the promise is `WritersApart`. An overlap counts as `diverged`: what the header
   and the board promise ends there.

Further statements that do not hold, of the docs where nothing else is said, are defined
in the modules beside the properties, and are not kept as runs:

- `EventLog!BriefWriteWaitedOut` – a deferred transaction that reads and then writes is
  refused at once when a peer committed in between.
- `CommandLane!LiveClaimKept` – staleness is age only; a live claim can be failed.
- `CommandLane!DispatchIsAsked` – the flush at quit answers a pending dispatch
  `not_wired` without asking the wired port.
- `SourceAdapter!TallyReflectsLatestPoll` – a marker that landed without its checkpoint
  makes the next transition reuse its epoch, and be dropped as a duplicate.
- `SourceAdapter!FailedPollReplacesCause` – a cause that comes back within one outage is
  dropped as a duplicate, and the row keeps the cause in between.
- `Attention!InboxShowsSurface` – an item that appears again with a content the log has
  is a duplicate, and the inbox does not show it. `Attention!NoSilentDisposition` – the
  command of a reflection is one row for an item, so a second decision on it is taken
  as reflected already.
- `Attention!DroppedIsResolved` – the ingest compares the surface with the items of its
  own repo. A row of another repo, or one an escalation of the same id has covered, is
  announced and shown, and not resolved when the surface drops it.
- `OperatorWrites!EveryWriteAnswered`, which no doc promises – a lane that fails before its
  outcome leaves the row to the recovery, which logs none, and the settings row goes on
  saying "writing...".
- `Cockpit!VerbKeepsItem` – in the Attention view a staged valve is not pinned to its
  item. When a refresh takes the item out of the list the cursor falls to its neighbour,
  and Enter acts on that, if the verb is offered there. The frame in between names the
  neighbour (`ConsentHeld` holds), in a lane the verb is lost instead
  (`LaneVerbKeepsItem` holds), and a dispatch is pinned.
- `SourcePoller!SweepNeverSkipped` – while rows are named again and again, each turn is
  theirs and the ordinary sweep is put off.

Also seen: the migration's `create unique index` has no `if not exists`, so the loser of
two first opens is told that the store is broken; a side effect that landed before a
crash ends as `failed`; and a stale claim is recovered only when some command is handled.

## 7. Proofs

`EventLogProofs` proves, for any connections, ids, keys, streams and legacy
tables: `TypeOK`, `AppendedOnce`, `StreamPositions`, `LogStable`, `AnswersHold`,
`RefusedOnlyForTakenId`, and that every step of the store is a step or a stutter
of `DedupLog`. The inductive invariant adds what the properties lean on:
nobody appends before the index exists (`OpenMeansMigrated`), the holder of the
lock is the one connection between insert and commit, a fresh snapshot's position
is one past the highest of its stream, and a migrated table stays migrated. That is why a
colliding position is never the reason an insert is ignored, and why a late
renumbering changes nothing: it numbers an already numbered table.

`CommandLaneProofs` proves `TypeOK`, `RunOnce`, `HonestStatus`, `QueueOrder`,
`NothingStranded` and
that the lanes implement `CommandQueue`, for any consoles, threads and commands.
The strengthening says that a command is in the hands of at most one lane, that a
claimed command is executing or was failed by recovery, how many port calls and
events its lane's step implies, and that a listed control command had no factory
command before it that is in flight now. It needs only the assumptions declared
in `CommandLane`. `NothingStranded` is the safety half of `EveryCommandHandled`: while no
fault, quit or stale age has disturbed the console, a pending command has its wake still
to be sent or taken, or a lane still to list or try it. Its strengthening: an executing
command is held by a lane (`Attended`), a lane's list is of its handler (`Handling`), and
no clock that was read is ahead (`Clocks`), so that nothing is stale. A valve that is left
out of its own lane's listing because a factory command is in flight is expected of the
lane that runs that command, which goes on to the valves.

`SourceAdapterProofs` proves `TypeOK`, `WritersApart`, `TallyFollowsPoll` and
`BoardFollowsPoll`, for any consoles, backfills, items, versions and causes. For
the lease (`Apart`), with no assumption on how long a sweep lasts: a
writing console is the holder of a lease as old as its own clock, or was displaced, and then
its clock is older than the lease by a lease's time at least. A new writer brings a clock
by which the lease is stale, which puts it that far from every other.
For the data: while nothing has `diverged`, polls come
one at a time from the checkpoint of the one before (`InOrder`); the log `Fits` that
checkpoint - no entry has a later epoch, an entry of its epoch says what it says, and
a finding that an item was read after is of an epoch that is over - and its epochs
ascend (`Ascends`). A finished poll's own entries have the checkpoint's epochs, so
nothing that contradicts them can come after them. `TallyIsTrue` and `BoardIsTrue`
rest on nothing the lease does: an overlap raises `diverged`.

`AttentionProofs` proves the six safety properties of `Attention` for any items,
contents, consoles and histories. `IngestInv` says what the ingest still owes
(`OwedKinds`, `Owed`): for every item that the log opens with a content of the console's own repo, while the
surface no longer lists the item, a resolution is owed. The listing it was computed from is a prefix of the
log whose remainder is of the reflections only (`Prefix`), which never open an item of
the surface; what the diff announces is either owed or logged (`Complete`). A tag of
a resolution is less than the length of the log (`Stamped`), so that a disambiguated
one is new. `Alternate` carries the outages: markers alternate, and their number is what
the next epoch counts. That the rows of the reflections implement `CommandQueue` rests on
`Attended`: two passes are never at one row, because only the pass that found it absent
goes on to it. The claim of a reflection looks at no status, and need not.

`SourcePollerProofs` proves `TypeOK`, `PacedPolls` and `NothingForgotten`: what a waiting
loop found left of its window and what has passed since the last poll never come to less
than a cadence (`Window`), so a turn that does not coalesce finds a cadence gone.
`NothingForgotten` is the safety half of `NamedSourcesPolled` and `QuitEnds`: until its poll
begins a named row is in the channel or on the list, and the shutdown stays in the channel.

`OperatorWritesProofs` proves `TypeOK`, `LaunchReadFirst`, `RepeatablesLand`,
`FailedValveRetried`, `OutcomeAhead` and that the table implements `CommandQueue`. The
strengthening says that the number in an identity is less than the position of its row
(`Numbered`), so that a count taken of the table as it still is collides with nothing, and
that a listing which found all attempts failed stays true until another console appends
(`Listed`). `OutcomeAhead` is the safety half of `WritesAnswered`: an edit that is followed has
a row, and no row of it has its outcome behind the edit's mark. The thread lists the events
before it counts the table, so no row appended since the count has an outcome among them
(`Unlisted`); the row that takes the edit, or absorbs it, is one of those, because its
number is the count. The queue rests on `Served`: a row in a lane's hands was claimed by it
alone, and what a recovery under the lane leaves behind is failed, whatever the lane still
does to it.

`CockpitProofs` proves `TypeOK`, `ConsentHeld`, `LaneVerbKeepsItem`, `CursorFollows` and
`NothingFoldedAway`. While a verb is staged the frame names its target (`Consented`), and a
valve staged in a lane on an item chosen by its id has the lane's cursor on it
(`LaneHeld`). For the cursor of the Attention list the rows themselves matter: no list
names a row twice, whatever is folded, so that an id leads back to one position.
`NothingFoldedAway` says it of the fold alone: every entry has its row or its class's, and
no class of one entry is folded.

`ListLemmas` holds what those proofs say of lists. The lists are filtered and flattened by
`FlattenSeq`, which the library defines by a recursive function; what such a function
computes needs induction, and the library's induction theorems take a predicate as a
parameter, which the provers cannot instantiate. `SetInduction` states induction for a set
instead (a set that holds 0, and n + 1 with n, holds every natural number) and is proved
from the well-foundedness of inclusion among finite sets; `FlattenMembers` and
`FlattenOnce` say what a flattened list holds, and when it holds nothing twice.

The safety halves, `NothingStranded`, `OutcomeAhead` and `NothingForgotten`, and the two
refinements of `CommandQueue` by `Attention` and `OperatorWrites` are proved and are the
property of no run; the runs check the liveness properties they stand behind, and
`CompletedIsReflected`, which the first of the refinements implies.

Assumptions: those each module declares on its constants. `Cockpit` assumes of its lists that the items are finitely many and that a
finding is listed once (`ListsAssumption`): the board is a fold by id. Only model-checked:
the liveness properties (`AppendsAnswered`, `EveryCommandHandled`, `CatchesUp`,
`InboxHeals`, `QuitEnds`, `NamedSourcesPolled`, `SweepsMade`, `WritesAnswered`; fairness is
beyond the prover) and the violations.

## 8. Not modelled

Command payloads other than a setting's value, port answers' texts and event contents;
the requested event of a factory command; the bounded start-up retry around the first
reads. Of the sources only the orchestrator's normalizer is modelled, one source at a
time: the others of a sweep appear as its failures. A completeness finding is appended
with its snapshot and is left out; so are collisions of the version, cause and content
hashes, checkpoints of older schemas, epochs at the end of their range, and stamps that
cannot be parsed. A disambiguated resolution is new in `Attention` because its clock is:
two ingests within one reading of the clock are left out.

Of the interface: scrolling, the header, help, menus and the palette (they stage a verb
as its key does), the Events and Settings cursors, the roster's row cursor, and drawing.
`Cockpit` keeps the projection as a value; the cache that decides when it is rebuilt is
taken as transparent, since the log only grows.

Not modelled at all, because they keep no state and their results are texts, counts or
process output: source staleness, factory outcome and event counts, the doctor and the
identities, the domain types, the backing CLI, probes and the factory registry, and the
development tools. They and the tables of actions, keys, help and layout are
most of the lines of this repository, which is why the map names a small part of it.
