---------------------------- MODULE EventLogProofs ----------------------------
(***************************************************************************)
(* Proofs about the event store, for any number of connections, any ids,   *)
(* keys and streams, and any legacy table.                                 *)
(*                                                                         *)
(* The argument: wherever the migration has run, the table is Counted -    *)
(* every row's position is its place among the rows of its stream.  The    *)
(* migration establishes this and, run again, changes nothing; an append   *)
(* keeps it because a snapshot that is still fresh when the write lock is  *)
(* taken read the number of rows the stream really has.                    *)
(***************************************************************************)
EXTENDS EventLog, FiniteSetTheorems, WellFoundedInduction, TLAPS

-------------------------------------------------------------------------------
(* Finite sets of indices *)

\* A nonempty set of naturals below a bound has a greatest element.
LEMMA GreatestElement ==
  ASSUME NEW n \in Nat, NEW S \in SUBSET (0 .. n), S # {}
  PROVE  \E m \in S : \A x \in S : x <= m
<1> DEFINE T == {n - x : x \in S}
<1>1. T \subseteq Nat /\ T # {}
  <2>1. \A x \in S : x \in 0 .. n
    OBVIOUS
  <2>2. \A x \in S : n - x \in Nat
    BY <2>1
  <2>3. PICK x \in S : TRUE
    OBVIOUS
  <2>4. n - x \in T
    BY <2>3
  <2> QED BY <2>2, <2>4
<1>2. PICK t \in T : \A y \in T : ~ (<<y, t>> \in OpToRel(<, Nat))
  <2> HIDE DEF T
  <2> QED BY <1>1, NatLessThanWellFounded, WFMin
<1>3. \A y \in T : ~ (y < t)
  BY <1>1, <1>2 DEF OpToRel
<1>4. PICK m \in S : t = n - m
  OBVIOUS
<1>5. \A x \in S : x <= m
  <2>1. SUFFICES ASSUME NEW x \in S PROVE x <= m
    OBVIOUS
  <2>2. n - x \in T /\ ~ (n - x < n - m)
    BY <1>3, <1>4
  <2>3. x \in 0 .. n /\ m \in 0 .. n
    OBVIOUS
  <2> QED BY <2>2, <2>3
<1> QED BY <1>5

\* The rows of a log that precede or are row i in the stream of row i.
UpTo(log, stream, i) == {j \in DOMAIN log : log[j].stream = stream /\ j <= i}

\* The rows of a stream up to a place are finitely many, and counted by a number.
LEMMA UpToFinite ==
  ASSUME NEW log \in Seq(Rows), NEW stream, NEW i \in Nat
  PROVE  /\ IsFiniteSet(UpTo(log, stream, i))
         /\ Cardinality(UpTo(log, stream, i)) \in Nat
         /\ UpTo(log, stream, i) \subseteq 0 .. Len(log)
<1>1. IsFiniteSet(1 .. Len(log))
  BY FS_Interval
<1>2. UpTo(log, stream, i) \in SUBSET (1 .. Len(log))
  BY DEF UpTo
<1>3. IsFiniteSet(UpTo(log, stream, i))
  BY <1>1, <1>2, FS_Subset
<1> QED BY <1>2, <1>3, FS_CardinalityType

\* Position by position, the log is numbered by the places of its rows.
Counted(log) ==
  \A i \in DOMAIN log : log[i].pos = Cardinality(UpTo(log, log[i].stream, i))

\* A counted log is numbered in ascending order within each stream.
LEMMA CountedAscends ==
  ASSUME NEW log \in Seq(Rows), Counted(log),
         NEW i \in DOMAIN log, NEW j \in DOMAIN log,
         log[i].stream = log[j].stream, i < j
  PROVE  log[i].pos < log[j].pos
<1> DEFINE s == log[i].stream
<1>1. UpTo(log, s, i) \subseteq UpTo(log, s, j) /\ j \in UpTo(log, s, j) \ UpTo(log, s, i)
  BY DEF UpTo
<1>2. i \in Nat /\ j \in Nat
  OBVIOUS
<1>3. /\ IsFiniteSet(UpTo(log, s, j))
      /\ Cardinality(UpTo(log, s, j)) \in Nat
      /\ Cardinality(UpTo(log, s, i)) \in Nat
  BY <1>2, UpToFinite
<1>4. Cardinality(UpTo(log, s, i)) < Cardinality(UpTo(log, s, j))
  <2> HIDE DEF s
  <2>1. UpTo(log, s, i) \in SUBSET UpTo(log, s, j) /\ UpTo(log, s, i) # UpTo(log, s, j)
    BY <1>1
  <2>2. /\ Cardinality(UpTo(log, s, i)) <= Cardinality(UpTo(log, s, j))
        /\ Cardinality(UpTo(log, s, i)) # Cardinality(UpTo(log, s, j))
    BY <1>3, <2>1, FS_Subset
  <2> QED BY <1>3, <2>2
<1> QED BY <1>4 DEF Counted

\* A counted log starts each stream at one and leaves no gap in it.
LEMMA CountedHasNoGap ==
  ASSUME NEW log \in Seq(Rows), Counted(log), NEW i \in DOMAIN log
  PROVE  /\ log[i].pos >= 1
         /\ log[i].pos > 1 => \E j \in DOMAIN log : /\ log[j].stream = log[i].stream
                                                    /\ j < i
                                                    /\ log[j].pos + 1 = log[i].pos
<1> DEFINE s == log[i].stream
           Before == UpTo(log, s, i - 1)
<1>1. i \in Nat /\ i - 1 \in Nat /\ i \in 1 .. Len(log)
  OBVIOUS
<1>2. /\ IsFiniteSet(Before)
      /\ Cardinality(Before) \in Nat
      /\ Before \subseteq 0 .. Len(log)
  BY <1>1, UpToFinite
<1>3. UpTo(log, s, i) = Before \cup {i} /\ i \notin Before
  BY <1>1 DEF UpTo
<1>4. log[i].pos = Cardinality(Before) + 1
  <2>1. Cardinality(Before \cup {i}) = Cardinality(Before) + 1
    <3> HIDE DEF Before
    <3> QED BY <1>2, <1>3, FS_AddElement
  <2> QED BY <1>3, <2>1 DEF Counted
<1>5. ASSUME log[i].pos > 1
      PROVE  \E j \in DOMAIN log : /\ log[j].stream = log[i].stream
                                   /\ j < i
                                   /\ log[j].pos + 1 = log[i].pos
  <2>1. Before # {}
    <3> HIDE DEF Before
    <3> QED BY <1>2, <1>4, <1>5, FS_EmptySet
  <2>2. PICK j \in Before : \A x \in Before : x <= j
    <3>1. Len(log) \in Nat
      OBVIOUS
    <3> HIDE DEF Before
    <3> QED BY <1>2, <2>1, <3>1, GreatestElement
  <2>3. j \in DOMAIN log /\ log[j].stream = s /\ j <= i - 1 /\ j \in Nat
    BY DEF UpTo
  <2>4. UpTo(log, s, j) = Before
    BY <1>1, <2>2, <2>3 DEF UpTo
  <2>5. log[j].pos = Cardinality(Before)
    BY <2>3, <2>4 DEF Counted
  <2> QED BY <1>1, <1>4, <2>3, <2>5
<1> QED BY <1>2, <1>4, <1>5

\* Appending a row numbered one past the rows of its stream keeps a log counted.
LEMMA AppendKeepsCounted ==
  ASSUME NEW log \in Seq(Rows), Counted(log), NEW row \in Rows,
         row.pos = Cardinality(UpTo(log, row.stream, Len(log))) + 1
  PROVE  Counted(Append(log, row))
<1> DEFINE new == Append(log, row)
           n == Len(log)
<1>1. /\ n \in Nat
      /\ DOMAIN new = 1 .. (n + 1)
      /\ new[n + 1] = row
      /\ \A i \in 1 .. n : new[i] = log[i]
  OBVIOUS
<1>2. SUFFICES ASSUME NEW i \in DOMAIN new
               PROVE  new[i].pos = Cardinality(UpTo(new, new[i].stream, i))
  BY DEF Counted
<1>3. CASE i \in 1 .. n
  <2>1. UpTo(new, new[i].stream, i) = UpTo(log, log[i].stream, i)
    BY <1>1, <1>3 DEF UpTo
  <2> QED BY <1>1, <1>3, <2>1 DEF Counted
<1>4. CASE i = n + 1
  <2>1. UpTo(new, row.stream, i) = UpTo(log, row.stream, n) \cup {i}
    BY <1>1, <1>4 DEF UpTo
  <2>2. i \notin UpTo(log, row.stream, n) /\ IsFiniteSet(UpTo(log, row.stream, n))
    <3>1. \A j \in UpTo(log, row.stream, n) : j \in 1 .. n
      BY <1>1 DEF UpTo
    <3>2. i \notin 1 .. n
      BY <1>1, <1>4
    <3> QED BY <1>1, <3>1, <3>2, UpToFinite
  <2>3. Cardinality(UpTo(log, row.stream, n) \cup {i}) = Cardinality(UpTo(log, row.stream, n)) + 1
    BY <2>2, FS_AddElement
  <2> QED BY <1>1, <1>4, <2>1, <2>3
<1> QED BY <1>1, <1>3, <1>4

\* On a counted table the highest position of a stream is its number of rows.
LEMMA HighestIsCount ==
  ASSUME events \in Seq(Rows), Counted(events), NEW s \in Streams
  PROVE  /\ HighestPosition(s) \in Nat
         /\ HighestPosition(s) = Cardinality(UpTo(events, s, Len(events)))
<1> DEFINE All == UpTo(events, s, Len(events))
           held == {0} \cup {events[i].pos : i \in RowsOf(s)}
           top == Cardinality(All)
<1>0. Len(events) \in Nat /\ DOMAIN events = 1 .. Len(events)
  OBVIOUS
<1>1. All = RowsOf(s) /\ All \subseteq DOMAIN events
  BY <1>0 DEF UpTo, RowsOf
<1>2. /\ IsFiniteSet(All) /\ top \in Nat
      /\ All \subseteq 0 .. Len(events)
  BY <1>0, UpToFinite
<1>3. ASSUME NEW i \in All
      PROVE  events[i].pos \in Nat /\ events[i].pos <= top
  <2>1. i \in DOMAIN events /\ i \in Nat /\ events[i].stream = s
    BY <1>0 DEF UpTo
  <2>2. UpTo(events, s, i) \in SUBSET All
    BY <1>0, <2>1 DEF UpTo
  <2>3. Cardinality(UpTo(events, s, i)) <= top
    <3> HIDE DEF All
    <3> QED BY <1>2, <2>2, FS_Subset
  <2>4. events[i].pos = Cardinality(UpTo(events, s, i))
    BY <2>1 DEF Counted
  <2> QED BY <2>1, <2>3, <2>4, UpToFinite
<1>4. top \in held
  <2>1. CASE All = {}
    <3> HIDE DEF All
    <3>1. top = 0
      BY <2>1, FS_EmptySet
    <3> QED BY <3>1
  <2>2. CASE All # {}
    <3>1. PICK m \in All : \A x \in All : x <= m
      <4> HIDE DEF All
      <4> QED BY <1>0, <1>2, <2>2, GreatestElement
    <3>2. UpTo(events, s, m) = All
      BY <1>0, <3>1 DEF UpTo
    <3>3. m \in DOMAIN events /\ events[m].stream = s
      BY DEF UpTo
    <3>4. events[m].pos = top
      BY <3>2, <3>3 DEF Counted
    <3> QED BY <1>1, <3>1, <3>4
  <2> QED BY <2>1, <2>2
<1>5. \A q \in held : q \in Nat /\ q <= top
  BY <1>1, <1>2, <1>3
<1>6. \E p \in held : \A q \in held : q <= p
  BY <1>4, <1>5
<1>7. HighestPosition(s) \in held /\ \A q \in held : q <= HighestPosition(s)
  <2>1. HighestPosition(s) = CHOOSE p \in held : \A q \in held : q <= p
    BY DEF HighestPosition
  <2> HIDE DEF held
  <2> QED BY <1>6, <2>1
<1>8. HighestPosition(s) <= top /\ top <= HighestPosition(s) /\ HighestPosition(s) \in Nat
  BY <1>4, <1>5, <1>7
<1> QED BY <1>2, <1>8

\* The migration numbers every row and touches nothing else; on a table that is
\* already counted it changes nothing at all.
LEMMA RenumberCounts ==
  ASSUME events \in Seq(Rows)
  PROVE  /\ Renumbered \in Seq(Rows)
         /\ DOMAIN Renumbered = DOMAIN events
         /\ \A i \in DOMAIN events :
              Renumbered[i] = [events[i] EXCEPT !.pos = Cardinality(UpTo(events, events[i].stream, i))]
         /\ Counted(Renumbered)
         /\ Counted(events) => Renumbered = events
<1>1. /\ Len(events) \in Nat /\ DOMAIN events = 1 .. Len(events)
      /\ \A i \in DOMAIN events : events[i] \in Rows
  OBVIOUS
<1>2. ASSUME NEW i \in DOMAIN events
      PROVE  UpTo(events, events[i].stream, i) = {j \in RowsOf(events[i].stream) : j <= i}
  BY DEF UpTo, RowsOf
<1>3. DOMAIN Renumbered = DOMAIN events
  BY DEF Renumbered
<1>4. ASSUME NEW i \in DOMAIN events
      PROVE  Renumbered[i] = [events[i] EXCEPT !.pos = Cardinality(UpTo(events, events[i].stream, i))]
  BY <1>2 DEF Renumbered
<1>5. ASSUME NEW i \in DOMAIN events
      PROVE  /\ Renumbered[i] \in Rows
             /\ Renumbered[i].stream = events[i].stream
             /\ Renumbered[i].pos = Cardinality(UpTo(events, events[i].stream, i))
  <2>1. Cardinality(UpTo(events, events[i].stream, i)) \in Nat
    BY <1>1, UpToFinite
  <2> QED BY <1>1, <1>4, <2>1 DEF Rows
<1>6. Renumbered \in Seq(Rows)
  <2>1. Renumbered \in [1 .. Len(events) -> Rows]
    BY <1>1, <1>3, <1>5 DEF Renumbered
  <2> QED BY <1>1, <2>1
<1>7. Counted(Renumbered)
  <2>1. ASSUME NEW i \in DOMAIN events
        PROVE  UpTo(Renumbered, events[i].stream, i) = UpTo(events, events[i].stream, i)
    BY <1>3, <1>5 DEF UpTo
  <2> QED BY <1>3, <1>5, <2>1 DEF Counted
<1>8. ASSUME Counted(events)
      PROVE  Renumbered = events
  <2>1. ASSUME NEW i \in DOMAIN events
        PROVE  Renumbered[i] = events[i]
    <3>1. events[i].pos = Cardinality(UpTo(events, events[i].stream, i))
      BY <1>8 DEF Counted
    <3>2. [events[i] EXCEPT !.pos = events[i].pos] = events[i]
      BY <1>1 DEF Rows
    <3> QED BY <1>4, <3>1, <3>2
  <2>2. Renumbered = [i \in DOMAIN events |-> Renumbered[i]]
    BY DEF Renumbered
  <2>3. events = [i \in DOMAIN events |-> events[i]]
    OBVIOUS
  <2> QED BY <2>1, <2>2, <2>3
<1> QED BY <1>3, <1>4, <1>6, <1>7, <1>8

-------------------------------------------------------------------------------
(* The inductive invariant *)

\* The write lock is held exactly while a transaction has inserted.
LockHeld == \A c \in Connections : lock = c <=> pc[c] = "inserted"

\* Whoever holds the lock read its position from the committed table.
LockedIsFresh == \A c \in Connections : pc[c] = "inserted" => fresh[c]
PositionRead ==
  \A c \in Connections :
    pc[c] \in {"positioned", "inserted"} /\ fresh[c]
      => position[c] = HighestPosition(req[c].stream) + 1

\* The table is counted from the first renumbering on.
Migrated == indexed \/ (\E c \in Connections : pc[c] = "renumbered") => Counted(events)

AttemptsLeft == \A c \in Connections : pc[c] # "failed" => tries[c] < STORE_OPEN_ATTEMPTS

IInv == /\ TypeOK
        /\ AppendedOnce
        /\ LockHeld
        /\ LockedIsFresh
        /\ PositionRead
        /\ Migrated
        /\ OpenMeansMigrated
        /\ AttemptsLeft

\* The append a connection starts with is an append.
LEMMA NoAppendType == NoAppend \in Appends
<1>1. PICK i \in EventIds, s \in Streams : TRUE
  BY NamesAssumption
<1>2. [id |-> i, key |-> NoKey, stream |-> s] \in Appends
  BY DEF Appends
<1> QED BY <1>2 DEF NoAppend

\* The row an insert writes is a row, and its position is one past the rows its
\* stream has, when the snapshot is fresh.
LEMMA NewRowIsNext ==
  ASSUME IInv, NEW c \in Connections, pc[c] = "inserted"
  PROVE  /\ NewRow(c) \in Rows
         /\ Counted(events)
         /\ NewRow(c).pos = Cardinality(UpTo(events, NewRow(c).stream, Len(events))) + 1
<1>1. events \in Seq(Rows) /\ req[c] \in Appends /\ position[c] \in Nat
  BY DEF IInv, TypeOK
<1>2. indexed
  BY DEF IInv, OpenMeansMigrated
<1>3. Counted(events)
  BY <1>2 DEF IInv, Migrated
<1>4. position[c] = HighestPosition(req[c].stream) + 1
  BY DEF IInv, LockedIsFresh, PositionRead
<1>5. req[c].stream \in Streams
  BY <1>1 DEF Appends
<1>6. HighestPosition(req[c].stream) = Cardinality(UpTo(events, req[c].stream, Len(events)))
  BY <1>1, <1>3, <1>5, HighestIsCount
<1>7. NewRow(c) \in Rows
  BY <1>1 DEF NewRow, Rows, Appends
<1> QED BY <1>3, <1>4, <1>6, <1>7 DEF NewRow

\* Every answer a connection can give is an outcome.
LEMMA OutcomeTypes ==
  /\ NoOutcome \in Outcomes
  /\ [status |-> "busy", seq |-> 0] \in Outcomes
  /\ [status |-> "refused", seq |-> 0] \in Outcomes
  /\ \A n \in Nat : /\ [status |-> "inserted", seq |-> n] \in Outcomes
                    /\ [status |-> "duplicate", seq |-> n] \in Outcomes
BY DEF NoOutcome, Outcomes

\* A database as the console may find it satisfies the invariant.
LEMMA InitInv == Init => IInv
<1> SUFFICES ASSUME Init PROVE IInv
  OBVIOUS
<1>1. TypeOK
  <2>1. events \in Seq(Rows)
    BY LegacyAssumption DEF Init
  <2>2. tries \in [Connections -> 0 .. STORE_OPEN_ATTEMPTS]
    BY DEF Init, STORE_OPEN_ATTEMPTS
  <2>3. pc \in [Connections -> Steps]
    BY DEF Init, Steps
  <2> QED BY <2>1, <2>2, <2>3, NoAppendType, OutcomeTypes DEF Init, TypeOK
<1>2. AppendedOnce
  BY LegacyAssumption DEF Init, AppendedOnce
<1>3. LockHeld /\ LockedIsFresh /\ PositionRead /\ OpenMeansMigrated /\ AttemptsLeft
  BY NamesAssumption DEF Init, LockHeld, LockedIsFresh, PositionRead, OpenMeansMigrated,
                         AttemptsLeft, STORE_OPEN_ATTEMPTS
<1>4. Migrated
  BY DEF Init, Migrated
<1> QED BY <1>1, <1>2, <1>3, <1>4 DEF IInv

\* Returning from an append keeps the types of what it sets.
LEMMA ReturnTypes ==
  ASSUME TypeOK, NEW c \in Connections, NEW result \in Outcomes, Return(c, result)
  PROVE  /\ pc' \in [Connections -> Steps]
         /\ outcome' \in [Connections -> Outcomes]
         /\ position' \in [Connections -> Nat]
         /\ req' \in [Connections -> Appends]
BY DEF TypeOK, Return, Steps

\* Every step keeps the types.
LEMMA TypeStep ==
  ASSUME IInv, Next
  PROVE  TypeOK'
<1>0. TypeOK
  BY DEF IInv
<1>1. CASE Stall
  BY <1>0, <1>1 DEF TypeOK, Stall, openVars, txVars
<1>2. ASSUME NEW c \in Connections,
             \/ FindIndex(c) \/ MissIndex(c) \/ CreateIndex(c)
             \/ IndexRefused(c) \/ WriteOtherTable(c)
      PROVE  TypeOK'
  <2>1. pc' \in [Connections -> Steps]
    BY <1>0, <1>2 DEF TypeOK, FindIndex, MissIndex, CreateIndex, IndexRefused, WriteOtherTable,
                      Opened, Steps
  <2>2. tries' \in [Connections -> 0 .. STORE_OPEN_ATTEMPTS]
    <3>1. 0 \in 0 .. STORE_OPEN_ATTEMPTS
      BY DEF STORE_OPEN_ATTEMPTS
    <3>2. tries' = tries \/ tries' = [tries EXCEPT ![c] = 0]
      BY <1>2 DEF FindIndex, MissIndex, CreateIndex, IndexRefused, WriteOtherTable,
                  Opened, openVars
    <3> QED BY <1>0, <3>1, <3>2 DEF TypeOK
  <2> QED BY <1>0, <1>2, <2>1, <2>2
             DEF TypeOK, FindIndex, MissIndex, CreateIndex, IndexRefused, WriteOtherTable,
                 Commit, openVars, lockVars, txVars
<1>3. ASSUME NEW c \in Connections, Renumber(c)
      PROVE  TypeOK'
  <2>1. events' \in Seq(Rows)
    BY <1>0, <1>3, RenumberCounts DEF TypeOK, Renumber, Commit
  <2>2. pc' \in [Connections -> Steps]
    BY <1>0, <1>3 DEF TypeOK, Renumber, Steps
  <2> QED BY <1>0, <1>3, <2>1, <2>2 DEF TypeOK, Renumber, Commit, openVars, lockVars, txVars
<1>4. ASSUME NEW c \in Connections, OpenBusy(c)
      PROVE  TypeOK'
  <2>1. tries[c] \in 0 .. STORE_OPEN_ATTEMPTS /\ tries[c] < STORE_OPEN_ATTEMPTS
    BY <1>0, <1>4 DEF IInv, TypeOK, AttemptsLeft, OpenBusy, StartsOver
  <2>2. tries[c] + 1 \in 0 .. STORE_OPEN_ATTEMPTS
    BY <2>1 DEF STORE_OPEN_ATTEMPTS
  <2>3. tries' \in [Connections -> 0 .. STORE_OPEN_ATTEMPTS]
    BY <1>0, <1>4, <2>2 DEF TypeOK, OpenBusy, StartsOver
  <2>4. pc' \in [Connections -> Steps]
    BY <1>0, <1>4 DEF TypeOK, OpenBusy, StartsOver, Steps
  <2> QED BY <1>0, <1>4, <2>3, <2>4 DEF TypeOK, OpenBusy, StartsOver, lockVars, txVars
<1>5. ASSUME NEW c \in Connections, NEW a \in Appends, BeginAppend(c, a)
      PROVE  TypeOK'
  <2>1. indexed /\ Counted(events) /\ events \in Seq(Rows)
    BY <1>5 DEF IInv, TypeOK, OpenMeansMigrated, Migrated, BeginAppend
  <2>2. HighestPosition(a.stream) + 1 \in Nat
    BY <2>1, HighestIsCount DEF Appends
  <2>3. pc' \in [Connections -> Steps]
    BY <1>0, <1>5 DEF TypeOK, BeginAppend, Steps
  <2> QED BY <1>0, <1>5, <2>2, <2>3, OutcomeTypes DEF TypeOK, BeginAppend, openVars, lockVars
<1>6. ASSUME NEW c \in Connections, InsertBusy(c)
      PROVE  TypeOK'
  BY <1>0, <1>6, ReturnTypes, OutcomeTypes DEF TypeOK, InsertBusy, openVars, lockVars
<1>7. ASSUME NEW c \in Connections, InsertRow(c)
      PROVE  TypeOK'
  <2>1. pc' \in [Connections -> Steps]
    BY <1>0, <1>7 DEF TypeOK, InsertRow, UpgradeFails, Steps
  <2> QED BY <1>0, <1>7, <2>1 DEF TypeOK, InsertRow, UpgradeFails, openVars, txVars
<1>8. ASSUME NEW c \in Connections, CommitInserted(c)
      PROVE  TypeOK'
  <2>1. NewRow(c) \in Rows /\ events \in Seq(Rows)
    BY <1>0, <1>8, NewRowIsNext DEF TypeOK, CommitInserted
  <2>2. events' \in Seq(Rows) /\ Len(events) + 1 \in Nat
    BY <1>8, <2>1 DEF CommitInserted, Commit
  <2>3. [status |-> "inserted", seq |-> Len(events) + 1] \in Outcomes
    BY <2>2, OutcomeTypes
  <2> QED BY <1>0, <1>8, <2>2, <2>3, ReturnTypes
             DEF TypeOK, CommitInserted, Release, Commit, openVars
<1>9. ASSUME NEW c \in Connections, CommitDuplicate(c)
      PROVE  TypeOK'
  <2>1. PICK i \in Existing(c) : Return(c, [status |-> "duplicate", seq |-> i])
    BY <1>9 DEF CommitDuplicate
  <2>2. i \in Nat
    BY <1>0 DEF TypeOK, Existing
  <2> QED BY <1>0, <1>9, <2>1, <2>2, ReturnTypes, OutcomeTypes
             DEF TypeOK, CommitDuplicate, Release, openVars
<1>10. ASSUME NEW c \in Connections, RefuseAppend(c)
       PROVE  TypeOK'
  BY <1>0, <1>10, ReturnTypes, OutcomeTypes DEF TypeOK, RefuseAppend, Release, openVars
<1>11. ASSUME NEW c \in Connections, Crash(c)
       PROVE  TypeOK'
  <2>1. pc' \in [Connections -> Steps] /\ tries' \in [Connections -> 0 .. STORE_OPEN_ATTEMPTS]
    BY <1>0, <1>11 DEF TypeOK, Crash, Steps, STORE_OPEN_ATTEMPTS
  <2>2. lock' \in Connections \cup {NoConnection} /\ stalled' \in BOOLEAN
    BY <1>0, <1>11 DEF TypeOK, Crash, Release, lockVars
  <2> QED BY <1>0, <1>11, <2>1, <2>2, NoAppendType, OutcomeTypes DEF TypeOK, Crash
<1> QED BY <1>1, <1>2, <1>3, <1>4, <1>5, <1>6, <1>7, <1>8, <1>9, <1>10, <1>11
           DEF Next, FinishAppend

\* One commit at a time, and never on a snapshot that has gone stale.
LEMMA LockStep ==
  ASSUME IInv, Next
  PROVE  LockHeld' /\ LockedIsFresh' /\ OpenMeansMigrated' /\ AttemptsLeft'
<1>0. TypeOK /\ LockHeld /\ LockedIsFresh /\ OpenMeansMigrated /\ AttemptsLeft
  BY DEF IInv
<1>1. CASE Stall
  BY <1>0, <1>1 DEF LockHeld, LockedIsFresh, OpenMeansMigrated, AttemptsLeft,
                    Stall, openVars, txVars
<1>2. ASSUME NEW c \in Connections,
             \/ FindIndex(c) \/ MissIndex(c) \/ IndexRefused(c) \/ OpenBusy(c)
      PROVE  LockHeld' /\ LockedIsFresh' /\ OpenMeansMigrated' /\ AttemptsLeft'
  BY <1>0, <1>2 DEF TypeOK, LockHeld, LockedIsFresh, OpenMeansMigrated, AttemptsLeft,
                    STORE_OPEN_ATTEMPTS, FindIndex, MissIndex, IndexRefused, OpenBusy, StartsOver,
                    Opened, openVars, lockVars, txVars
<1>3. ASSUME NEW c \in Connections, Renumber(c) \/ CreateIndex(c) \/ WriteOtherTable(c)
      PROVE  LockHeld' /\ LockedIsFresh' /\ OpenMeansMigrated' /\ AttemptsLeft'
  BY <1>0, <1>3, NamesAssumption
     DEF TypeOK, LockHeld, LockedIsFresh, OpenMeansMigrated, AttemptsLeft,
         STORE_OPEN_ATTEMPTS, Renumber, CreateIndex, WriteOtherTable,
         Opened, Commit, openVars, lockVars, txVars
<1>4. ASSUME NEW c \in Connections, NEW a \in Appends, BeginAppend(c, a)
      PROVE  LockHeld' /\ LockedIsFresh' /\ OpenMeansMigrated' /\ AttemptsLeft'
  BY <1>0, <1>4 DEF TypeOK, LockHeld, LockedIsFresh, OpenMeansMigrated, AttemptsLeft,
                    BeginAppend, openVars, lockVars
<1>5. ASSUME NEW c \in Connections, InsertBusy(c)
      PROVE  LockHeld' /\ LockedIsFresh' /\ OpenMeansMigrated' /\ AttemptsLeft'
  BY <1>0, <1>5 DEF TypeOK, LockHeld, LockedIsFresh, OpenMeansMigrated, AttemptsLeft,
                    InsertBusy, Return, openVars, lockVars
<1>6. ASSUME NEW c \in Connections, InsertRow(c)
      PROVE  LockHeld' /\ LockedIsFresh' /\ OpenMeansMigrated' /\ AttemptsLeft'
  BY <1>0, <1>6, NamesAssumption
     DEF TypeOK, LockHeld, LockedIsFresh, OpenMeansMigrated, AttemptsLeft,
         InsertRow, UpgradeFails, openVars, txVars
<1>7. ASSUME NEW c \in Connections, FinishAppend(c)
      PROVE  LockHeld' /\ LockedIsFresh' /\ OpenMeansMigrated' /\ AttemptsLeft'
  <2>1. /\ pc[c] = "inserted" /\ pc' = [pc EXCEPT ![c] = "idle"]
        /\ lock' = NoConnection /\ UNCHANGED <<indexed, tries>>
    BY <1>7 DEF FinishAppend, CommitInserted, CommitDuplicate, RefuseAppend, Return, Release,
                openVars
  <2>2. \A d \in Connections : pc[d] = "inserted" => d = c
    BY <1>0, <2>1 DEF LockHeld
  <2> QED BY <1>0, <2>1, <2>2, NamesAssumption
             DEF TypeOK, LockHeld, LockedIsFresh, OpenMeansMigrated, AttemptsLeft
<1>8. ASSUME NEW c \in Connections, Crash(c)
      PROVE  LockHeld' /\ LockedIsFresh' /\ OpenMeansMigrated' /\ AttemptsLeft'
  BY <1>0, <1>8, NamesAssumption
     DEF TypeOK, LockHeld, LockedIsFresh, OpenMeansMigrated, AttemptsLeft,
         STORE_OPEN_ATTEMPTS, Crash, Release, lockVars
<1> QED BY <1>1, <1>2, <1>3, <1>4, <1>5, <1>6, <1>7, <1>8 DEF Next

\* What each step may do to the table: nothing, renumber it, or add the next row.
LEMMA TableStep ==
  ASSUME Next
  PROVE  \/ UNCHANGED events
         \/ \E c \in Connections : Renumber(c)
         \/ \E c \in Connections : CommitInserted(c)
BY DEF Next, Stall, FindIndex, MissIndex, CreateIndex, IndexRefused, OpenBusy, StartsOver, BeginAppend,
       InsertBusy, InsertRow, UpgradeFails, FinishAppend, CommitDuplicate, RefuseAppend, WriteOtherTable,
       Crash, Commit

\* Renumbering gives every row a position and changes nothing else of it.
LEMMA RenumberKeepsEntries ==
  ASSUME events \in Seq(Rows), NEW c \in Connections, Renumber(c)
  PROVE  /\ DOMAIN events' = DOMAIN events
         /\ Len(events') = Len(events)
         /\ \A i \in DOMAIN events : /\ events'[i].id = events[i].id
                                      /\ events'[i].key = events[i].key
                                      /\ events'[i].stream = events[i].stream
                                      /\ [events'[i] EXCEPT !.pos = events[i].pos] = events[i]
<1>1. /\ events' \in Seq(Rows)
      /\ DOMAIN events' = DOMAIN events
      /\ \A i \in DOMAIN events :
           events'[i] = [events[i] EXCEPT !.pos = Cardinality(UpTo(events, events[i].stream, i))]
  BY RenumberCounts DEF Renumber, Commit
<1>2. Len(events') = Len(events)
  BY <1>1
<1>3. \A i \in DOMAIN events : events[i] \in Rows
  OBVIOUS
<1> QED BY <1>1, <1>2, <1>3 DEF Rows

\* No step stores an event id or a source key a second time.
LEMMA AppendedOnceStep ==
  ASSUME IInv, Next
  PROVE  AppendedOnce'
<1>0. events \in Seq(Rows) /\ AppendedOnce
  BY DEF IInv, TypeOK
<1>1. CASE UNCHANGED events
  BY <1>0, <1>1 DEF AppendedOnce, DistinctRows
<1>2. ASSUME NEW c \in Connections, Renumber(c)
      PROVE  AppendedOnce'
  BY <1>0, <1>2, RenumberKeepsEntries DEF AppendedOnce, DistinctRows
<1>3. ASSUME NEW c \in Connections, CommitInserted(c)
      PROVE  AppendedOnce'
  <2>1. /\ DOMAIN events' = 1 .. (Len(events) + 1)
        /\ DOMAIN events = 1 .. Len(events) /\ Len(events) \in Nat
        /\ events'[Len(events) + 1] = NewRow(c)
        /\ \A i \in DOMAIN events : events'[i] = events[i]
    BY <1>0, <1>3 DEF CommitInserted, Commit
  <2>2. \A i \in DOMAIN events :
          /\ events[i].id # NewRow(c).id
          /\ NewRow(c).key = NoKey \/ events[i].key # NewRow(c).key
    BY <1>3 DEF CommitInserted, Ignored, NewRow
  <2> QED BY <1>0, <2>1, <2>2 DEF AppendedOnce, DistinctRows
<1> QED BY <1>1, <1>2, <1>3, TableStep

\* Once counted, the table stays counted.
LEMMA MigratedStep ==
  ASSUME IInv, Next
  PROVE  Migrated'
<1>0. events \in Seq(Rows) /\ Migrated /\ OpenMeansMigrated
  BY DEF IInv, TypeOK
<1>1. ASSUME NEW c \in Connections, Renumber(c)
      PROVE  Migrated'
  BY <1>0, <1>1, RenumberCounts DEF Renumber, Commit, Migrated, Counted, UpTo
<1>2. ASSUME NEW c \in Connections, CommitInserted(c)
      PROVE  Migrated'
  <2>1. Counted(Append(events, NewRow(c)))
    BY <1>0, <1>2, NewRowIsNext, AppendKeepsCounted DEF CommitInserted
  <2> QED BY <1>2, <2>1 DEF CommitInserted, Commit, Migrated, Counted, UpTo
<1>3. ASSUME UNCHANGED events, ~ \E c \in Connections : Renumber(c)
      PROVE  Migrated'
  <2>1. SUFFICES ASSUME indexed' \/ \E c \in Connections : pc'[c] = "renumbered"
                 PROVE  Counted(events)
    BY <1>3 DEF Migrated, Counted, UpTo
  <2>2. indexed \/ \E c \in Connections : pc[c] = "renumbered"
    BY <1>3, <2>1 DEF IInv, TypeOK, Next, Stall, FindIndex, MissIndex, CreateIndex, IndexRefused,
         OpenBusy, StartsOver, BeginAppend, InsertBusy, InsertRow, UpgradeFails, FinishAppend, CommitInserted,
         CommitDuplicate, RefuseAppend, WriteOtherTable, Crash, Commit, Opened, Return, Release,
         openVars, lockVars, txVars
  <2> QED BY <1>0, <2>2 DEF Migrated
<1> QED BY <1>1, <1>2, <1>3, TableStep

\* A snapshot that nothing has invalidated still tells the truth.
LEMMA PositionStep ==
  ASSUME IInv, Next
  PROVE  PositionRead'
<1>0. TypeOK /\ PositionRead
  BY DEF IInv
<1>1. SUFFICES ASSUME NEW d \in Connections, pc'[d] \in {"positioned", "inserted"}, fresh'[d]
               PROVE  position'[d] = HighestPosition(req[d].stream)' + 1
  BY DEF PositionRead
<1>2. ASSUME UNCHANGED events, UNCHANGED <<position[d], req[d]>>,
             pc[d] \in {"positioned", "inserted"}, fresh[d]
      PROVE  position'[d] = HighestPosition(req[d].stream)' + 1
  <2>1. \A s : HighestPosition(s)' = HighestPosition(s)
    BY <1>2 DEF HighestPosition, RowsOf
  <2>2. HighestPosition(req[d].stream)' = HighestPosition(req[d].stream)
    BY <1>2, <2>1 DEF HighestPosition, RowsOf
  <2> QED BY <1>0, <1>2, <2>2 DEF PositionRead
<1>3. ASSUME NEW c \in Connections,
             Renumber(c) \/ CreateIndex(c) \/ CommitInserted(c) \/ WriteOtherTable(c)
      PROVE  FALSE
  BY <1>1, <1>3 DEF Renumber, CreateIndex, CommitInserted, WriteOtherTable, Commit
<1>4. ASSUME NEW c \in Connections, NEW a \in Appends, BeginAppend(c, a)
      PROVE  position'[d] = HighestPosition(req[d].stream)' + 1
  <2>1. CASE d = c
    BY <1>0, <1>4, <2>1 DEF TypeOK, BeginAppend, HighestPosition, RowsOf
  <2>2. CASE d # c
    <3>1. UNCHANGED events /\ UNCHANGED <<position[d], req[d], pc[d], fresh[d]>>
      BY <1>0, <1>4, <2>2 DEF TypeOK, BeginAppend
    <3> QED BY <1>1, <1>2, <3>1
  <2> QED BY <2>1, <2>2
<1>5. ASSUME NEW c \in Connections, InsertRow(c)
      PROVE  position'[d] = HighestPosition(req[d].stream)' + 1
  <2>1. UNCHANGED events /\ UNCHANGED <<position[d], req[d], fresh[d]>>
    BY <1>5 DEF InsertRow, UpgradeFails, txVars
  <2>2. pc[d] \in {"positioned", "inserted"}
    BY <1>0, <1>1, <1>5 DEF TypeOK, InsertRow, UpgradeFails
  <2> QED BY <1>1, <1>2, <2>1, <2>2
<1>6. ASSUME NEW c \in Connections,
             \/ InsertBusy(c) \/ CommitDuplicate(c) \/ RefuseAppend(c) \/ Crash(c)
      PROVE  position'[d] = HighestPosition(req[d].stream)' + 1
  <2>1. d # c
    BY <1>0, <1>1, <1>6 DEF TypeOK, InsertBusy, CommitDuplicate, RefuseAppend, Crash, Return
  <2>2. UNCHANGED events /\ UNCHANGED <<position[d], req[d], pc[d], fresh[d]>>
    BY <1>0, <1>6, <2>1 DEF TypeOK, InsertBusy, CommitDuplicate, RefuseAppend, Crash, Return
  <2> QED BY <1>1, <1>2, <2>2
<1>7. ASSUME NEW c \in Connections,
             FindIndex(c) \/ MissIndex(c) \/ IndexRefused(c) \/ OpenBusy(c)
      PROVE  position'[d] = HighestPosition(req[d].stream)' + 1
  <2>1. UNCHANGED <<events, position, req, fresh>>
    BY <1>7 DEF FindIndex, MissIndex, IndexRefused, OpenBusy, StartsOver, txVars
  <2>2. pc[d] \in {"positioned", "inserted"}
    BY <1>0, <1>1, <1>7 DEF TypeOK, FindIndex, MissIndex, IndexRefused, OpenBusy, StartsOver, Opened
  <2> QED BY <1>1, <1>2, <2>1, <2>2
<1>8. CASE Stall
  BY <1>1, <1>2, <1>8 DEF Stall, txVars
<1> QED BY <1>3, <1>4, <1>5, <1>6, <1>7, <1>8 DEF Next, FinishAppend

\* A step that changes nothing keeps the invariant.
LEMMA StutterInv == IInv /\ UNCHANGED vars => IInv'
<1> SUFFICES ASSUME IInv, UNCHANGED vars PROVE IInv'
  OBVIOUS
<1>1. TypeOK'
  BY DEF IInv, vars, TypeOK
<1>2. AppendedOnce'
  BY DEF IInv, vars, AppendedOnce, DistinctRows
<1>3. PositionRead'
  <2>1. ASSUME NEW d \in Connections
        PROVE  HighestPosition(req[d].stream)' = HighestPosition(req[d].stream)
    BY DEF vars, HighestPosition, RowsOf
  <2> QED BY <2>1 DEF IInv, vars, PositionRead
<1>4. Migrated'
  BY DEF IInv, vars, Migrated, Counted, UpTo
<1>5. LockHeld' /\ LockedIsFresh' /\ OpenMeansMigrated' /\ AttemptsLeft'
  BY DEF IInv, vars, LockHeld, LockedIsFresh, OpenMeansMigrated, AttemptsLeft
<1> QED BY <1>1, <1>2, <1>3, <1>4, <1>5 DEF IInv

\* The invariant holds in every reachable state.
THEOREM Invariance == Spec => []IInv
<1>1. IInv /\ [Next]_vars => IInv'
  <2>1. ASSUME IInv, Next PROVE IInv'
    BY <2>1, TypeStep, LockStep, AppendedOnceStep, MigratedStep, PositionStep DEF IInv
  <2> QED BY <2>1, StutterInv
<1> QED BY InitInv, <1>1, PTL DEF Spec

\* Every variable keeps its type, for every instance.
THEOREM TypeCorrect == Spec => []TypeOK
<1>1. IInv => TypeOK
  BY DEF IInv
<1> QED BY Invariance, <1>1, PTL

\* No event id and no source key is ever stored twice.
THEOREM AppendOnce == Spec => []AppendedOnce
<1>1. IInv => AppendedOnce
  BY DEF IInv
<1> QED BY Invariance, <1>1, PTL

\* On a migrated store, stream_seq is a gap-free position in log order.
THEOREM PositionsAreStreamPositions == Spec => []StreamPositions
<1>1. IInv => StreamPositions
  <2>1. SUFFICES ASSUME IInv, indexed PROVE PositionsAscend /\ PositionsHaveNoGap
    BY DEF StreamPositions
  <2>2. events \in Seq(Rows) /\ Counted(events)
    BY <2>1 DEF IInv, TypeOK, Migrated
  <2>3. PositionsAscend
    BY <2>2, CountedAscends DEF PositionsAscend
  <2>4. PositionsHaveNoGap
    BY <2>2, CountedHasNoGap DEF PositionsHaveNoGap, RowsOf
  <2> QED BY <2>3, <2>4
<1> QED BY Invariance, <1>1, PTL

-------------------------------------------------------------------------------
(* What a step may do to the rows *)

\* Rows are never removed or rewritten, and positions are final once indexed.
THEOREM RowsAreStable == Spec => LogStable
<1> DEFINE Stable == /\ Len(events) <= Len(events')
                     /\ \A i \in DOMAIN events :
                          /\ [events'[i] EXCEPT !.pos = events[i].pos] = events[i]
                          /\ indexed => events'[i].pos = events[i].pos
<1>1. ASSUME IInv, Next
      PROVE  Stable
  <2>0. /\ events \in Seq(Rows)
        /\ Len(events) \in Nat /\ DOMAIN events = 1 .. Len(events)
        /\ \A i \in DOMAIN events : [events[i] EXCEPT !.pos = events[i].pos] = events[i]
    <3>1. events \in Seq(Rows)
      BY <1>1 DEF IInv, TypeOK
    <3>2. \A r \in Rows : [r EXCEPT !.pos = r.pos] = r
      BY DEF Rows
    <3> QED BY <3>1, <3>2
  <2>1. CASE UNCHANGED events
    BY <2>0, <2>1
  <2>2. ASSUME NEW c \in Connections, Renumber(c)
        PROVE  Stable
    <3>1. indexed => events' = events
      BY <1>1, <2>0, <2>2, RenumberCounts DEF IInv, Migrated, Renumber, Commit
    <3> QED BY <2>0, <2>2, <3>1, RenumberKeepsEntries
  <2>3. ASSUME NEW c \in Connections, CommitInserted(c)
        PROVE  Stable
    <3>1. /\ Len(events') = Len(events) + 1
          /\ \A i \in DOMAIN events : events'[i] = events[i]
      BY <2>0, <2>3 DEF CommitInserted, Commit
    <3> QED BY <2>0, <3>1
  <2> QED BY <1>1, <2>1, <2>2, <2>3, TableStep
<1>2. IInv /\ [Next]_vars => [Stable]_vars
  BY <1>1 DEF vars
<1> QED BY Invariance, <1>2, PTL DEF Spec, LogStable

-------------------------------------------------------------------------------
(* What an answer means *)

\* An append refused by the unique constraints was refused for its event id.
LEMMA RefusalIsTakenId ==
  ASSUME IInv, NEW c \in Connections, RefuseAppend(c)
  PROVE  /\ req[c].key # NoKey
         /\ \E i \in DOMAIN events : events[i].id = req[c].id /\ events[i].key # req[c].key
<1>1. pc[c] = "inserted" /\ Ignored(c) /\ Existing(c) = {}
  BY DEF RefuseAppend
<1>2. PICK i \in DOMAIN events :
        \/ events[i].id = req[c].id
        \/ req[c].key # NoKey /\ events[i].key = req[c].key
        \/ indexed /\ events[i].stream = req[c].stream /\ events[i].pos = position[c]
  BY <1>1 DEF Ignored
<1>3. ~ (events[i].stream = req[c].stream /\ events[i].pos = position[c])
  <2>1. /\ Counted(events)
        /\ position[c] = Cardinality(UpTo(events, req[c].stream, Len(events))) + 1
    BY <1>1, NewRowIsNext DEF NewRow
  <2>2. events \in Seq(Rows) /\ Len(events) \in Nat /\ i \in 1 .. Len(events)
    BY DEF IInv, TypeOK
  <2>3. SUFFICES ASSUME events[i].stream = req[c].stream
                 PROVE  events[i].pos # position[c]
    OBVIOUS
  <2> DEFINE s == req[c].stream
  <2>4. UpTo(events, s, i) \in SUBSET UpTo(events, s, Len(events))
    BY <2>2 DEF UpTo
  <2>5. /\ IsFiniteSet(UpTo(events, s, Len(events)))
        /\ Cardinality(UpTo(events, s, Len(events))) \in Nat
        /\ Cardinality(UpTo(events, s, i)) \in Nat
    BY <2>2, UpToFinite
  <2>6. Cardinality(UpTo(events, s, i)) <= Cardinality(UpTo(events, s, Len(events)))
    <3> HIDE DEF s
    <3> QED BY <2>4, <2>5, FS_Subset
  <2>7. events[i].pos = Cardinality(UpTo(events, s, i))
    BY <2>1, <2>3 DEF Counted
  <2> QED BY <2>1, <2>5, <2>6, <2>7
<1>4. req[c].key # NoKey
  BY <1>1, <1>2, <1>3 DEF Existing
<1>5. events[i].key # req[c].key
  BY <1>1, <1>4 DEF Existing
<1> QED BY <1>2, <1>3, <1>4, <1>5

\* The committed rows an answer points at stay as they are.
LEMMA EntriesStay ==
  ASSUME IInv, Next
  PROVE  /\ DOMAIN events \subseteq DOMAIN events'
         /\ \A i \in DOMAIN events : /\ events'[i].id = events[i].id
                                     /\ events'[i].key = events[i].key
                                     /\ events'[i].stream = events[i].stream
<1>0. events \in Seq(Rows)
  BY DEF IInv, TypeOK
<1>1. ASSUME NEW c \in Connections, CommitInserted(c)
      PROVE  /\ DOMAIN events \subseteq DOMAIN events'
             /\ \A i \in DOMAIN events : events'[i] = events[i]
  BY <1>0, <1>1 DEF CommitInserted, Commit
<1> QED BY <1>0, <1>1, RenumberKeepsEntries, TableStep

Answered == AnswersHold /\ RefusedOnlyForTakenId

\* An answer that was true stays true, and a new one is true.
LEMMA AnsweredStep ==
  ASSUME IInv, Answered, Next
  PROVE  Answered'
<1>0. TypeOK
  BY DEF IInv
<1>1. SUFFICES ASSUME NEW d \in Connections
               PROVE  /\ outcome'[d].status = "inserted" =>
                           /\ outcome'[d].seq \in DOMAIN events'
                           /\ Entry(events'[outcome'[d].seq]) = req'[d]
                      /\ outcome'[d].status = "duplicate" => outcome'[d].seq \in Existing(d)'
                      /\ outcome'[d].status = "refused" =>
                           /\ req'[d].key # NoKey
                           /\ \E i \in DOMAIN events' : /\ events'[i].id = req'[d].id
                                                        /\ events'[i].key # req'[d].key
  BY DEF Answered, AnswersHold, RefusedOnlyForTakenId
<1> DEFINE Goal == /\ outcome'[d].status = "inserted" =>
                        /\ outcome'[d].seq \in DOMAIN events'
                        /\ Entry(events'[outcome'[d].seq]) = req'[d]
                   /\ outcome'[d].status = "duplicate" => outcome'[d].seq \in Existing(d)'
                   /\ outcome'[d].status = "refused" =>
                        /\ req'[d].key # NoKey
                        /\ \E i \in DOMAIN events' : /\ events'[i].id = req'[d].id
                                                     /\ events'[i].key # req'[d].key
<1>2. CASE outcome'[d] = NoOutcome
  BY <1>2 DEF NoOutcome
<1>3. ASSUME outcome'[d] = outcome[d], req'[d] = req[d]
      PROVE  Goal
  <2>1. /\ DOMAIN events \subseteq DOMAIN events'
        /\ \A i \in DOMAIN events : /\ events'[i].id = events[i].id
                                    /\ events'[i].key = events[i].key
                                    /\ events'[i].stream = events[i].stream
    BY EntriesStay
  <2>2. ASSUME outcome[d].status = "inserted"
        PROVE  outcome'[d].seq \in DOMAIN events' /\ Entry(events'[outcome'[d].seq]) = req'[d]
    <3>1. outcome[d].seq \in DOMAIN events /\ Entry(events[outcome[d].seq]) = req[d]
      BY <2>2 DEF Answered, AnswersHold
    <3> QED BY <1>3, <2>1, <3>1 DEF Entry
  <2>3. ASSUME outcome[d].status = "duplicate"
        PROVE  outcome'[d].seq \in Existing(d)'
    <3>1. outcome[d].seq \in Existing(d)
      BY <2>3 DEF Answered, AnswersHold
    <3> QED BY <1>3, <2>1, <3>1 DEF Existing
  <2>4. ASSUME outcome[d].status = "refused"
        PROVE  /\ req'[d].key # NoKey
               /\ \E i \in DOMAIN events' : /\ events'[i].id = req'[d].id
                                            /\ events'[i].key # req'[d].key
    BY <1>3, <2>1, <2>4 DEF Answered, RefusedOnlyForTakenId
  <2> QED BY <1>3, <2>2, <2>3, <2>4
<1>4. CASE outcome'[d].status = "busy"
  BY <1>4
<1>5. CASE CommitInserted(d)
  <2>1. /\ outcome'[d] = [status |-> "inserted", seq |-> Len(events) + 1]
        /\ req'[d] = req[d]
        /\ events' = Append(events, NewRow(d))
    BY <1>0, <1>5 DEF TypeOK, CommitInserted, Commit, Return
  <2>2. Len(events) + 1 \in DOMAIN events' /\ events'[Len(events) + 1] = NewRow(d)
    BY <1>0, <2>1 DEF TypeOK
  <2>3. Entry(NewRow(d)) = req[d]
    BY <1>0 DEF TypeOK, Entry, NewRow, Appends
  <2> QED BY <2>1, <2>2, <2>3
<1>6. CASE CommitDuplicate(d)
  <2>1. PICK i \in Existing(d) : outcome'[d] = [status |-> "duplicate", seq |-> i]
    BY <1>0, <1>6 DEF TypeOK, CommitDuplicate, Return
  <2>2. UNCHANGED <<events, req>>
    BY <1>6 DEF CommitDuplicate, Return
  <2>3. Existing(d)' = Existing(d)
    BY <2>2 DEF Existing
  <2> QED BY <2>1, <2>3
<1>7. CASE RefuseAppend(d)
  <2>1. /\ outcome'[d] = [status |-> "refused", seq |-> 0]
        /\ UNCHANGED <<events, req>>
    BY <1>0, <1>7 DEF TypeOK, RefuseAppend, Return
  <2> QED BY <1>7, <2>1, RefusalIsTakenId
<1>8. CASE Stall
  BY <1>3, <1>8 DEF Stall, txVars
<1>9. ASSUME NEW c \in Connections,
             \/ FindIndex(c) \/ MissIndex(c) \/ Renumber(c) \/ CreateIndex(c) \/ IndexRefused(c)
             \/ OpenBusy(c) \/ InsertRow(c) \/ WriteOtherTable(c)
      PROVE  Goal
  BY <1>3, <1>9 DEF FindIndex, MissIndex, Renumber, CreateIndex, IndexRefused, OpenBusy, StartsOver,
                    InsertRow, UpgradeFails, WriteOtherTable, txVars
<1>10. ASSUME NEW c \in Connections, NEW a \in Appends, BeginAppend(c, a)
       PROVE  Goal
  BY <1>0, <1>2, <1>3, <1>10 DEF TypeOK, BeginAppend
<1>11. ASSUME NEW c \in Connections, InsertBusy(c)
       PROVE  Goal
  BY <1>0, <1>3, <1>4, <1>11 DEF TypeOK, InsertBusy, Return
<1>12. ASSUME NEW c \in Connections, Crash(c)
       PROVE  Goal
  BY <1>0, <1>2, <1>3, <1>12 DEF TypeOK, Crash
<1>13. ASSUME NEW c \in Connections, c # d, FinishAppend(c)
       PROVE  Goal
  BY <1>0, <1>3, <1>13 DEF TypeOK, FinishAppend, CommitInserted, CommitDuplicate,
                           RefuseAppend, Return
<1> QED BY <1>5, <1>6, <1>7, <1>8, <1>9, <1>10, <1>11, <1>12, <1>13 DEF Next, FinishAppend

\* Whatever an append was answered is true, and stays true as long as the
\* caller can look at the answer.
THEOREM AnswersAreTrue == Spec => []AnswersHold /\ []RefusedOnlyForTakenId
<1>1. Init => Answered
  BY DEF Init, Answered, AnswersHold, RefusedOnlyForTakenId, NoOutcome
<1>2. IInv /\ Answered /\ [Next]_vars => Answered'
  <2>1. Answered /\ UNCHANGED vars => Answered'
    BY DEF Answered, AnswersHold, RefusedOnlyForTakenId, Existing, vars
  <2> QED BY <2>1, AnsweredStep
<1>3. Answered => AnswersHold /\ RefusedOnlyForTakenId
  BY DEF Answered
<1> QED BY Invariance, <1>1, <1>2, <1>3, PTL DEF Spec

\* An append is refused for a taken event id, never for a colliding position.
THEOREM RefusalsAreTrue == Spec => []RefusedOnlyForTakenId
BY AnswersAreTrue, PTL

-------------------------------------------------------------------------------
(* The event store implements the deduplicated log *)

\* The committed table, read as a log of accepted appends.
Accepted == [i \in DOMAIN events |-> Entry(events[i])]

\* The entry of a row, as the abstract log keeps it.
LEMMA AcceptedType ==
  ASSUME events \in Seq(Rows)
  PROVE  /\ Accepted \in Seq(Appends)
         /\ DOMAIN Accepted = DOMAIN events
         /\ Len(Accepted) = Len(events)
<1>1. /\ Len(events) \in Nat /\ DOMAIN events = 1 .. Len(events)
      /\ \A i \in DOMAIN events : events[i] \in Rows
  OBVIOUS
<1>2. \A i \in DOMAIN events : Entry(events[i]) \in Appends
  BY <1>1 DEF Entry, Rows, Appends
<1>3. Accepted \in [1 .. Len(events) -> Appends]
  BY <1>1, <1>2 DEF Accepted
<1> QED BY <1>1, <1>3

\* Every step of a connection is a step of the abstract log or a stutter.
LEMMA StepRefines ==
  ASSUME IInv, Next
  PROVE  Promise!Next \/ UNCHANGED <<Accepted, outcome>>
<1>0. TypeOK /\ events \in Seq(Rows)
  BY DEF IInv, TypeOK
<1>1. ASSUME UNCHANGED <<events, outcome>>
      PROVE  UNCHANGED <<Accepted, outcome>>
  BY <1>1 DEF Accepted
<1>2. CASE Stall
  BY <1>1, <1>2 DEF Stall
<1>3. ASSUME NEW c \in Connections,
             \/ FindIndex(c) \/ MissIndex(c) \/ CreateIndex(c) \/ IndexRefused(c)
             \/ OpenBusy(c) \/ InsertRow(c) \/ WriteOtherTable(c)
      PROVE  UNCHANGED <<Accepted, outcome>>
  BY <1>1, <1>3 DEF FindIndex, MissIndex, CreateIndex, IndexRefused, OpenBusy, StartsOver, InsertRow, UpgradeFails,
                    WriteOtherTable, Commit
<1>4. ASSUME NEW c \in Connections, Renumber(c)
      PROVE  UNCHANGED <<Accepted, outcome>>
  <2>1. /\ DOMAIN events' = DOMAIN events
        /\ \A i \in DOMAIN events : Entry(events'[i]) = Entry(events[i])
    BY <1>0, <1>4, RenumberKeepsEntries DEF Entry
  <2>2. Accepted' = Accepted
    BY <2>1 DEF Accepted
  <2> QED BY <1>4, <2>2 DEF Renumber
<1>5. ASSUME NEW c \in Connections, (\E a \in Appends : BeginAppend(c, a)) \/ Crash(c)
      PROVE  Promise!Next
  <2>1. UNCHANGED events /\ outcome' = [outcome EXCEPT ![c] = NoOutcome]
    BY <1>5 DEF BeginAppend, Crash
  <2>2. Accepted' = Accepted
    BY <2>1 DEF Accepted
  <2>3. Promise!Forget(c)
    BY <2>1, <2>2 DEF Promise!Forget, Promise!NoAnswer, NoOutcome, Accepted
  <2> QED BY <2>3 DEF Promise!Next
<1>6. ASSUME NEW c \in Connections, InsertBusy(c) \/ RefuseAppend(c)
      PROVE  Promise!Next
  <2>1. /\ UNCHANGED events
        /\ \/ outcome' = [outcome EXCEPT ![c] = [status |-> "busy", seq |-> 0]]
           \/ outcome' = [outcome EXCEPT ![c] = [status |-> "refused", seq |-> 0]]
    BY <1>6 DEF InsertBusy, RefuseAppend, Return
  <2>2. Accepted' = Accepted
    BY <2>1 DEF Accepted
  <2>3. Promise!Fail(c)
    BY <2>1, <2>2 DEF Promise!Fail, Promise!Failures, Accepted
  <2> QED BY <2>3 DEF Promise!Next
<1>7. ASSUME NEW c \in Connections, CommitDuplicate(c)
      PROVE  Promise!Next
  <2>1. PICK i \in Existing(c) :
          outcome' = [outcome EXCEPT ![c] = [status |-> "duplicate", seq |-> i]]
    BY <1>7 DEF CommitDuplicate, Return
  <2>2. Accepted' = Accepted
    BY <1>7 DEF CommitDuplicate, Accepted
  <2>3. i \in Promise!Twins(req[c])
    BY DEF Promise!Twins, Existing, Entry, Accepted
  <2>4. Promise!Repeat(c, req[c])
    BY <2>1, <2>2, <2>3 DEF Promise!Repeat, Accepted
  <2>5. req[c] \in Appends
    BY <1>0 DEF TypeOK
  <2> QED BY <2>4, <2>5 DEF Promise!Next
<1>8. ASSUME NEW c \in Connections, CommitInserted(c)
      PROVE  Promise!Next
  <2>1. /\ events' = Append(events, NewRow(c))
        /\ outcome' = [outcome EXCEPT ![c] = [status |-> "inserted", seq |-> Len(events) + 1]]
        /\ ~ Ignored(c)
    BY <1>8 DEF CommitInserted, Commit, Return
  <2>2. req[c] \in Appends /\ Entry(NewRow(c)) = req[c]
    BY <1>0 DEF TypeOK, Entry, NewRow, Appends
  <2>3. Accepted' = Append(Accepted, req[c])
    <3>1. /\ Accepted \in Seq(Appends) /\ Len(Accepted) = Len(events)
          /\ DOMAIN Accepted = DOMAIN events
      BY <1>0, AcceptedType
    <3>2. DOMAIN events' = 1 .. (Len(events) + 1) /\ Len(events) \in Nat
      BY <1>0, <2>1
    <3>3. \A i \in 1 .. Len(events) : events'[i] = events[i]
      BY <1>0, <2>1
    <3>4. events'[Len(events) + 1] = NewRow(c)
      BY <1>0, <2>1
    <3>5. Accepted' = [i \in 1 .. (Len(events) + 1) |-> Entry(events'[i])]
      BY <3>2 DEF Accepted
    <3>6. Append(Accepted, req[c])
            = [i \in 1 .. (Len(events) + 1) |-> IF i = Len(events) + 1 THEN req[c] ELSE Accepted[i]]
      BY <2>2, <3>1, <3>2
    <3>7. \A i \in 1 .. Len(events) : Accepted[i] = Entry(events[i])
      BY <1>0 DEF Accepted
    <3>8. ASSUME NEW i \in 1 .. (Len(events) + 1)
          PROVE  Entry(events'[i]) = IF i = Len(events) + 1 THEN req[c] ELSE Accepted[i]
      <4>1. CASE i = Len(events) + 1
        BY <2>2, <3>4, <4>1
      <4>2. CASE i \in 1 .. Len(events)
        BY <3>2, <3>3, <3>7, <4>2
      <4> QED BY <3>2, <4>1, <4>2
    <3> QED BY <3>5, <3>6, <3>8
  <2>4. ~ Promise!Clashes(req[c])
    BY <2>1 DEF Promise!Clashes, Ignored, Entry, Accepted
  <2>5. Promise!Accept(c, req[c])
    BY <1>0, <2>1, <2>3, <2>4, AcceptedType DEF Promise!Accept, Accepted
  <2> QED BY <2>2, <2>5 DEF Promise!Next
<1> QED BY <1>2, <1>3, <1>4, <1>5, <1>6, <1>7, <1>8 DEF Next, FinishAppend

\* The event store, with its connections, migration, lock and crashes, is a
\* deduplicated log: each step accepts an append, answers one, or is invisible.
THEOREM Refinement == Spec => ImplementsDedupLog
<1>1. Init => Promise!Init
  BY InitInv, AcceptedType DEF Init, IInv, TypeOK, Promise!Init, Promise!NoAnswer, NoOutcome, Accepted
<1>2. IInv /\ [Next]_vars => [Promise!Next]_(Promise!vars)
  <2>1. UNCHANGED vars => UNCHANGED <<Accepted, outcome>>
    BY DEF vars, Accepted
  <2> QED BY <2>1, StepRefines DEF Promise!vars, Accepted
<1> QED BY Invariance, <1>1, <1>2, PTL DEF Spec, ImplementsDedupLog, Promise!Spec
===============================================================================
