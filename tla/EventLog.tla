------------------------------- MODULE EventLog -------------------------------
(***************************************************************************)
(* The events table of the SQLite event store (console-eventstore), shared *)
(* by every connection the console opens: the terminal session, the source *)
(* poller, the command lanes, other console processes.                     *)
(*                                                                         *)
(* A connection opens the store, which on a database without the           *)
(* stream-position index renumbers the rows and creates the index (two     *)
(* statements, no transaction), and then appends events.  An append is a   *)
(* DEFERRED transaction: it reads the stream's highest position on a       *)
(* snapshot, and only its insert asks for the write lock.  In WAL mode     *)
(* that upgrade fails at once with SQLITE_BUSY when a peer holds the lock  *)
(* or has committed since the snapshot; a statement that opens its own     *)
(* transaction waits for the lock up to the busy timeout instead.          *)
(***************************************************************************)
EXTENDS Naturals, Sequences, FiniteSets

CONSTANTS Connections,   \* the open handles on one database file
          NoConnection,  \* holder of the write lock when nobody holds it
          EventIds, SourceKeys, Streams,
          NoKey,         \* key of an append without a source event id
          LegacyLogs,    \* the event tables a database may be opened with
          MaxRows        \* bound: no append begins when the table is this long

\* An append asks for an event id, a (source, source event id) key and a stream.
Appends == [id : EventIds, key : SourceKeys \cup {NoKey}, stream : Streams]
Rows == [id : EventIds, key : SourceKeys \cup {NoKey}, stream : Streams, pos : Nat]

\* Two rows of the table never share an event id or a source key: both are
\* unique in the schema from the first version on.
DistinctRows(log) ==
  \A i, j \in DOMAIN log :
    i # j => /\ log[i].id # log[j].id
             /\ log[i].key = NoKey \/ log[i].key # log[j].key

ASSUME NamesAssumption == /\ NoConnection \notin Connections
                          /\ NoKey \notin SourceKeys
                          /\ EventIds # {} /\ Streams # {}
ASSUME LegacyAssumption ==
  \A log \in LegacyLogs : log \in Seq(Rows) /\ DistinctRows(log)

VARIABLES events,    \* the committed rows; a row's global_seq is its index
          indexed,   \* the unique index on (stream_id, stream_seq) exists
          lock,      \* the connection holding SQLite's write lock
          stalled,   \* the holder has kept the lock past the busy timeout
          pc,        \* where each connection is
          tries,     \* failed attempts of the open in progress
          req,       \* the append in progress
          position,  \* the stream position it read
          fresh,     \* nothing was committed since it read it
          outcome    \* what the last append returned

openVars == <<indexed, tries>>
lockVars == <<lock, stalled>>
txVars   == <<req, position>>
vars == <<events, indexed, lock, stalled, pc, tries, req, position, fresh, outcome>>

Steps == {"closed", "unindexed", "renumbered", "idle", "positioned", "inserted", "failed"}
STORE_OPEN_ATTEMPTS == 3

NoAppend  == CHOOSE a \in Appends : TRUE
NoOutcome == [status |-> "none", seq |-> 0]
Outcomes  == [status : {"none", "inserted", "duplicate", "busy", "refused"}, seq : Nat]

Entry(row) == [id |-> row.id, key |-> row.key, stream |-> row.stream]

-------------------------------------------------------------------------------
(* The queries *)

RowsOf(stream) == {i \in DOMAIN events : events[i].stream = stream}

\* coalesce(max(stream_seq), 0) over the rows of one stream
HighestPosition(stream) ==
  LET held == {0} \cup {events[i].pos : i \in RowsOf(stream)}
  IN  CHOOSE p \in held : \A q \in held : q <= p

\* The row `insert or ignore` would write.
\* Mutant of NewRow: the source event id is not stored.
NewRowWithoutKey(c) == [id |-> req[c].id, key |-> NoKey, stream |-> req[c].stream,
                        pos |-> position[c]]

NewRow(c) == [id |-> req[c].id, key |-> req[c].key, stream |-> req[c].stream,
              pos |-> position[c]]

\* Mutants of Ignored: one of the unique constraints is missing.
IgnoredById(c) ==
  \E i \in DOMAIN events :
    \/ events[i].id = req[c].id
    \/ indexed /\ events[i].stream = req[c].stream /\ events[i].pos = position[c]
IgnoredByKey(c) ==
  \E i \in DOMAIN events :
    \/ req[c].key # NoKey /\ events[i].key = req[c].key
    \/ indexed /\ events[i].stream = req[c].stream /\ events[i].pos = position[c]

\* The three unique constraints that make it write nothing.
Ignored(c) ==
  \E i \in DOMAIN events :
    \/ events[i].id = req[c].id
    \/ req[c].key # NoKey /\ events[i].key = req[c].key
    \/ indexed /\ events[i].stream = req[c].stream /\ events[i].pos = position[c]

\* find_existing_sequence: by source event id when there is one, else by id
Existing(c) == {i \in DOMAIN events : IF req[c].key # NoKey THEN events[i].key = req[c].key
                                                            ELSE events[i].id = req[c].id}

\* Mutants of Renumbered: from zero; by global_seq, over all streams.
RenumberedFromZero ==
  [i \in DOMAIN events |->
     [events[i] EXCEPT !.pos = Cardinality({j \in RowsOf(events[i].stream) : j < i})]]
RenumberedOverAll == [i \in DOMAIN events |-> [events[i] EXCEPT !.pos = i]]

\* Each row's place among the rows of its stream, by global_seq
Renumbered ==
  [i \in DOMAIN events |->
     [events[i] EXCEPT !.pos = Cardinality({j \in RowsOf(events[i].stream) : j <= i})]]

PositionsCollide ==
  \E i, j \in DOMAIN events : /\ i # j
                              /\ events[i].stream = events[j].stream
                              /\ events[i].pos = events[j].pos

-------------------------------------------------------------------------------
(* Opening a connection *)

Init == /\ events \in LegacyLogs
        /\ indexed = FALSE
        /\ lock = NoConnection
        /\ stalled = FALSE
        /\ pc = [c \in Connections |-> "closed"]
        /\ tries = [c \in Connections |-> 0]
        /\ req = [c \in Connections |-> NoAppend]
        /\ position = [c \in Connections |-> 0]
        /\ fresh = [c \in Connections |-> FALSE]
        /\ outcome = [c \in Connections |-> NoOutcome]

\* A commit makes every other open snapshot stale.
Commit(rows) == /\ events' = rows
                /\ fresh' = [c \in Connections |-> FALSE]

Opened(c) == /\ pc' = [pc EXCEPT ![c] = "idle"]
             /\ tries' = [tries EXCEPT ![c] = 0]

FindIndex(c) ==
  /\ pc[c] = "closed"
  /\ indexed
  /\ Opened(c)
  /\ UNCHANGED <<events, indexed, lockVars, txVars, fresh, outcome>>

MissIndex(c) ==
  /\ pc[c] = "closed"
  /\ ~indexed
  /\ pc' = [pc EXCEPT ![c] = "unindexed"]
  /\ UNCHANGED <<events, openVars, lockVars, txVars, fresh, outcome>>

Renumber(c) ==
  /\ pc[c] = "unindexed"
  /\ lock = NoConnection
  /\ Commit(Renumbered)
  /\ pc' = [pc EXCEPT ![c] = "renumbered"]
  /\ UNCHANGED <<openVars, lockVars, txVars, outcome>>

CreateIndex(c) ==
  /\ pc[c] = "renumbered"
  /\ lock = NoConnection
  /\ ~indexed
  /\ ~PositionsCollide
  /\ indexed' = TRUE
  /\ Commit(events)
  /\ Opened(c)
  /\ UNCHANGED <<lockVars, txVars, outcome>>

\* A peer created the index first (or the rows repeat a position): the create
\* statement fails, and no attempt follows a failure that is not contention.
IndexRefused(c) ==
  /\ pc[c] = "renumbered"
  /\ lock = NoConnection
  /\ indexed \/ PositionsCollide
  /\ pc' = [pc EXCEPT ![c] = "failed"]
  /\ UNCHANGED <<events, openVars, lockVars, txVars, fresh, outcome>>

\* Mutant of StartsOver: one attempt too many.
StartsOverOnceMore(c) == tries[c] + 1 <= STORE_OPEN_ATTEMPTS

StartsOver(c) == tries[c] + 1 < STORE_OPEN_ATTEMPTS

\* The write lock outlived the busy timeout: the open starts over, until its
\* attempts are spent.
OpenBusy(c) ==
  /\ pc[c] \in {"closed", "unindexed", "renumbered"}
  /\ lock # NoConnection /\ stalled
  /\ tries' = [tries EXCEPT ![c] = @ + 1]
  /\ pc' = [pc EXCEPT ![c] = IF StartsOver(c) THEN "closed" ELSE "failed"]
  /\ UNCHANGED <<events, indexed, lockVars, txVars, fresh, outcome>>

-------------------------------------------------------------------------------
(* Appending *)

BeginAppend(c, a) ==
  /\ pc[c] = "idle"
  /\ Len(events) < MaxRows
  /\ req' = [req EXCEPT ![c] = a]
  /\ position' = [position EXCEPT ![c] = HighestPosition(a.stream) + 1]
  /\ fresh' = [fresh EXCEPT ![c] = TRUE]
  /\ outcome' = [outcome EXCEPT ![c] = NoOutcome]
  /\ pc' = [pc EXCEPT ![c] = "positioned"]
  /\ UNCHANGED <<events, openVars, lockVars>>

Return(c, result) ==
  /\ pc' = [pc EXCEPT ![c] = "idle"]
  /\ outcome' = [outcome EXCEPT ![c] = result]
  /\ position' = [position EXCEPT ![c] = 0]
  /\ UNCHANGED req

\* Mutant of UpgradeFails: the insert takes a snapshot of its own.
UpgradeFailsOnLock(c) == lock # NoConnection

\* Upgrading a read transaction never waits.
UpgradeFails(c) == lock # NoConnection \/ ~fresh[c]

\* Mutant of InsertBusy: only the busy timeout ends the wait.
InsertBusyOnceStalled(c) ==
  /\ pc[c] = "positioned"
  /\ stalled
  /\ Return(c, [status |-> "busy", seq |-> 0])
  /\ UNCHANGED <<events, openVars, lockVars, fresh>>

InsertBusy(c) ==
  /\ pc[c] = "positioned"
  /\ UpgradeFails(c)
  /\ Return(c, [status |-> "busy", seq |-> 0])
  /\ UNCHANGED <<events, openVars, lockVars, fresh>>

\* The insert holds the write lock until the transaction ends.
InsertRow(c) ==
  /\ pc[c] = "positioned"
  /\ ~UpgradeFails(c)
  /\ lock' = c
  /\ pc' = [pc EXCEPT ![c] = "inserted"]
  /\ UNCHANGED <<events, openVars, stalled, txVars, fresh, outcome>>

Release == lock' = NoConnection /\ stalled' = FALSE

CommitInserted(c) ==
  /\ pc[c] = "inserted"
  /\ ~Ignored(c)
  /\ Commit(Append(events, NewRow(c)))
  /\ Return(c, [status |-> "inserted", seq |-> Len(events) + 1])
  /\ Release
  /\ UNCHANGED <<openVars>>

CommitDuplicate(c) ==
  /\ pc[c] = "inserted"
  /\ Ignored(c)
  /\ \E i \in Existing(c) : Return(c, [status |-> "duplicate", seq |-> i])
  /\ Release
  /\ UNCHANGED <<events, openVars, fresh>>

\* The insert was ignored and no row answers for it: the append is an error
\* and the transaction rolls back.
RefuseAppend(c) ==
  /\ pc[c] = "inserted"
  /\ Ignored(c) /\ Existing(c) = {}
  /\ Return(c, [status |-> "refused", seq |-> 0])
  /\ Release
  /\ UNCHANGED <<events, openVars, fresh>>

-------------------------------------------------------------------------------
(* The surroundings *)

\* A single-statement write to another table: commands, checkpoints, lease.
WriteOtherTable(c) ==
  /\ pc[c] = "idle"
  /\ lock = NoConnection
  /\ Commit(events)
  /\ UNCHANGED <<openVars, lockVars, pc, txVars, outcome>>

\* A stalled disk keeps a commit, and so the lock, past the busy timeout.
Stall ==
  /\ lock # NoConnection
  /\ stalled' = TRUE
  /\ UNCHANGED <<events, openVars, lock, pc, txVars, fresh, outcome>>

\* The process dies: its transaction rolls back and its answer is lost.  The
\* next process on this handle opens the store again.
Crash(c) ==
  /\ pc' = [pc EXCEPT ![c] = "closed"]
  /\ tries' = [tries EXCEPT ![c] = 0]
  /\ req' = [req EXCEPT ![c] = NoAppend]
  /\ position' = [position EXCEPT ![c] = 0]
  /\ fresh' = [fresh EXCEPT ![c] = FALSE]
  /\ outcome' = [outcome EXCEPT ![c] = NoOutcome]
  /\ IF lock = c THEN Release ELSE UNCHANGED lockVars
  /\ UNCHANGED <<events, indexed>>

FinishAppend(c) == CommitInserted(c) \/ CommitDuplicate(c) \/ RefuseAppend(c)

Next == \/ Stall
        \/ \E c \in Connections :
             \/ FindIndex(c) \/ MissIndex(c) \/ Renumber(c) \/ CreateIndex(c)
             \/ IndexRefused(c) \/ OpenBusy(c)
             \/ \E a \in Appends : BeginAppend(c, a)
             \/ InsertBusy(c) \/ InsertRow(c) \/ FinishAppend(c)
             \/ WriteOtherTable(c) \/ Crash(c)

\* A connection's thread runs its append to the end; nothing obliges anyone
\* to start one.
Fairness == \A c \in Connections :
              /\ WF_vars(InsertBusy(c) \/ InsertRow(c))
              /\ WF_vars(FinishAppend(c))

Spec == Init /\ [][Next]_vars /\ Fairness

-------------------------------------------------------------------------------
(* Properties *)

\* Type invariant.
TypeOK ==
  /\ events \in Seq(Rows)
  /\ indexed \in BOOLEAN
  /\ lock \in Connections \cup {NoConnection}
  /\ stalled \in BOOLEAN
  /\ pc \in [Connections -> Steps]
  /\ tries \in [Connections -> 0 .. STORE_OPEN_ATTEMPTS]
  /\ req \in [Connections -> Appends]
  /\ position \in [Connections -> Nat]
  /\ fresh \in [Connections -> BOOLEAN]
  /\ outcome \in [Connections -> Outcomes]

\* Positions order a stream as the table does ...
PositionsAscend ==
  \A i, j \in DOMAIN events :
    events[i].stream = events[j].stream /\ i < j => events[i].pos < events[j].pos

\* ... and leave no gap: a row that is not the first of its stream follows one.
PositionsHaveNoGap ==
  \A i \in DOMAIN events :
    /\ events[i].pos >= 1
    /\ events[i].pos > 1 => \E j \in RowsOf(events[i].stream) :
                              j < i /\ events[j].pos + 1 = events[i].pos

\* Once the store is migrated, stream_seq is a stream position whoever appends
\* and however their transactions, migrations and crashes interleave: 1, 2, 3
\* in the order of global_seq (next_stream_position, ensure_stream_positions).
StreamPositions == indexed => PositionsAscend /\ PositionsHaveNoGap

\* One event id and one source key are stored at most once (append_event).
AppendedOnce == DistinctRows(events)

\* An answer stays true: "inserted" names the row the caller wrote, "duplicate"
\* a row that already carries its source key, or its id when it has none
\* (append_event, find_existing_sequence).
AnswersHold ==
  \A c \in Connections :
    /\ outcome[c].status = "inserted" =>
         /\ outcome[c].seq \in DOMAIN events
         /\ Entry(events[outcome[c].seq]) = req[c]
    /\ outcome[c].status = "duplicate" => outcome[c].seq \in Existing(c)

\* An append is refused as an error only when its event id is taken by a row
\* of another source key.  A colliding stream position, which the unique index
\* is there to refuse, is never the reason.
RefusedOnlyForTakenId ==
  \A c \in Connections :
    outcome[c].status = "refused" =>
      /\ req[c].key # NoKey
      /\ \E i \in DOMAIN events : /\ events[i].id = req[c].id
                                  /\ events[i].key # req[c].key

\* No append is ever computed from, and no connection is ever open on, a table
\* that still carries the repeated positions of the old handlers.
OpenMeansMigrated ==
  \A c \in Connections : pc[c] \in {"idle", "positioned", "inserted"} => indexed

\* Rows are never removed, reordered or rewritten, and once the index exists
\* not even a late migration of a second opener moves a position.
LogStable ==
  [][/\ Len(events) <= Len(events')
     /\ \A i \in DOMAIN events :
          /\ [events'[i] EXCEPT !.pos = events[i].pos] = events[i]
          /\ indexed => events'[i].pos = events[i].pos]_vars

\* The store promises no more than a growing, deduplicated log.
Promise == INSTANCE DedupLog WITH Clients <- Connections, answer <- outcome,
                                  log <- [i \in DOMAIN events |-> Entry(events[i])]
ImplementsDedupLog == Promise!Spec

\* An append that began is answered: nobody waits for ever on the write lock.
AppendsAnswered ==
  \A c \in Connections : pc[c] = "positioned" ~> pc[c] \notin {"positioned", "inserted"}

\* What initialize_connection promises of a peer's brief write: it is waited
\* out rather than failed.  A busy answer needs a lock held past the timeout.
BriefWriteWaitedOut ==
  [][\A c \in Connections : outcome'[c].status = "busy" /\ outcome[c].status # "busy"
                              => stalled]_vars
===============================================================================
