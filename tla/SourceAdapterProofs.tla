------------------------- MODULE SourceAdapterProofs -------------------------
(***************************************************************************)
(* Proofs about the polling of a source, for any consoles, items, versions *)
(* and causes.                                                             *)
(*                                                                         *)
(* The argument: until a poll's record is lost, the log Fits the           *)
(* checkpoint - no entry has a later epoch than the checkpoint has for its *)
(* marker or item, and an entry of that epoch says what the checkpoint     *)
(* says - and its epochs ascend.  A poll's own entries have the epochs of  *)
(* its checkpoint, so none that contradicts them comes after them.         *)
(***************************************************************************)
EXTENDS SourceAdapter, TLAPS

-------------------------------------------------------------------------------
(* Types *)

\* A poll saves a checkpoint, and appends events.
LEMMA NextCheckpointType ==
  ASSUME NEW ck \in Checkpoints, NEW view \in Views
  PROVE  NextCheckpoint(ck, view) \in Checkpoints
<1>1. /\ Transition(ck, "observed") \in Nat
      /\ Transition(ck, "not_observed") \in Nat
  BY DEF Transition, Checkpoints
<1>2. \A i \in Present(view) :
        Observe(ck.ledger[i], view.items[i])
          \in [version : Versions \cup {None}, epoch : Nat]
  BY DEF Present, Observe, Checkpoints, Views
<1>3. ck.ledger \in [Items -> [version : Versions \cup {None}, epoch : Nat]]
  BY DEF Checkpoints
<1> QED BY <1>1, <1>2, <1>3 DEF NextCheckpoint, Checkpoints

\* What a poll that found the source up says of the items it read.
LEMMA Observed ==
  ASSUME NEW ck \in Checkpoints, NEW view \in Views, Up(view),
         NEW i \in Present(view)
  PROVE  /\ NextCheckpoint(ck, view).ledger[i] = Observe(ck.ledger[i], view.items[i])
         /\ NextCheckpoint(ck, view).ledger[i].version = view.items[i]
         /\ view.items[i] \in Versions
<1>1. i \in Items /\ view.items[i] \in Versions
  BY DEF Present, Views
<1>2. NextCheckpoint(ck, view).ledger[i] = Observe(ck.ledger[i], view.items[i])
  BY <1>1 DEF NextCheckpoint
<1> QED BY <1>1, <1>2 DEF Observe

LEMMA ReportsType ==
  ASSUME NEW ck \in Checkpoints, NEW view \in Views
  PROVE  Reports(ck, view) \subseteq Events
<1> DEFINE next == NextCheckpoint(ck, view)
<1>1. next \in Checkpoints
  BY NextCheckpointType
<1>2. CASE Up(view)
  <2>1. ObservedMarker(next.epoch) \in Events
    BY <1>1 DEF ObservedMarker, Events, Checkpoints
  <2>2. ASSUME NEW i \in Present(view)
        PROVE  Snapshot(i, next.ledger[i]) \in Events
    <3>1. i \in Items /\ next.ledger[i].version \in Versions
      BY <1>2, Observed DEF Present
    <3>2. next.ledger[i].epoch \in Nat
      BY <1>1, <3>1 DEF Checkpoints
    <3> QED BY <3>1, <3>2 DEF Snapshot, Events
  <2> QED BY <1>2, <2>1, <2>2 DEF Reports
<1>3. CASE ~Up(view)
  <2>1. view.cause \in Causes
    BY <1>3 DEF Up, Views
  <2> QED BY <1>1, <1>3, <2>1 DEF Reports, NotObserved, Events, Checkpoints
<1> QED BY <1>2, <1>3

LEMMA NoPollType == NoPoll \in Polls /\ Cold \in Checkpoints
<1>1. Cold \in Checkpoints
  BY DEF Cold, Checkpoints
<1>2. [cause |-> None, items |-> [i \in Items |-> None]] \in Views
  BY DEF Views
<1> QED BY <1>1, <1>2 DEF NoPoll, Polls

\* Ending a poll keeps the types.
LEMMA RestType ==
  ASSUME TypeOK, NEW p \in Processes, Rest(p)
  PROVE  /\ pc' \in [Processes -> Steps]
         /\ \A b \in Backfills : pc'[b] \notin {"clocked", "ready"}
         /\ age' \in [Consoles -> 0 .. SweepTime]
         /\ poll' \in [Processes -> Polls]
<1>1. pc \in [Processes -> Steps] /\ "idle" \in Steps
  BY DEF TypeOK, Steps
<1>2. age \in [Consoles -> 0 .. SweepTime] /\ 0 \in 0 .. SweepTime
  BY BoundsAssumption DEF TypeOK, BoundsAssumption
<1>3. poll \in [Processes -> Polls]
  BY DEF TypeOK
<1>4. \A b \in Backfills : pc'[b] = "idle" \/ pc'[b] = pc[b]
  BY <1>1 DEF Rest, Processes
<1>5. \A b \in Backfills : pc[b] \notin {"clocked", "ready"}
  BY DEF TypeOK
<1> QED BY <1>1, <1>2, <1>3, <1>4, <1>5, NoPollType DEF Rest

LEMMA InitType == Init => TypeOK
<1> SUFFICES ASSUME Init PROVE TypeOK
  OBVIOUS
<1>1. log \in Seq(Events)
  BY DEF Init
<1>2. /\ age \in [Consoles -> 0 .. SweepTime]
      /\ lease \in [holder : Processes \cup {None, Gone}, age : 0 .. LeaseTTL + SweepTime]
      /\ changes \in 0 .. MaxChanges /\ faults \in 0 .. MaxFaults
  BY BoundsAssumption DEF Init, BoundsAssumption
<1>3. poll \in [Processes -> Polls] /\ checkpoint \in Checkpoints
  BY NoPollType DEF Init
<1>4. /\ pc \in [Processes -> Steps]
      /\ \A b \in Backfills : pc[b] \notin {"clocked", "ready"}
  BY DEF Init, Steps, Processes
<1> QED BY <1>1, <1>2, <1>3, <1>4 DEF Init, TypeOK

\* A step of the program counter that no backfill takes to the lease.
LEMMA StepType ==
  ASSUME TypeOK, NEW p \in Processes, NEW s \in Steps,
         p \in Backfills => s \notin {"clocked", "ready"},
         pc' = [pc EXCEPT ![p] = s]
  PROVE  /\ pc' \in [Processes -> Steps]
         /\ \A b \in Backfills : pc'[b] \notin {"clocked", "ready"}
<1>1. pc \in [Processes -> Steps] /\ \A b \in Backfills : pc[b] \notin {"clocked", "ready"}
  BY DEF TypeOK
<1>2. \A b \in Backfills : pc'[b] = pc[b] \/ (b = p /\ pc'[b] = s)
  BY <1>1 DEF Processes
<1> QED BY <1>1, <1>2

\* A process's poll becomes another poll.
LEMMA PollUpdate ==
  ASSUME TypeOK, NEW p \in Processes, NEW r \in Polls, poll' = [poll EXCEPT ![p] = r]
  PROVE  poll' \in [Processes -> Polls]
<1>1. poll \in [Processes -> Polls]
  BY DEF TypeOK
<1> QED BY <1>1

\* The steps before a poll has found anything.
LEMMA EarlyType ==
  ASSUME TypeOK, NEW p \in Processes,
         ReadClock(p) \/ TakeLease(p) \/ HeldOff(p) \/ Load(p)
  PROVE  TypeOK'
<1>1. CASE ReadClock(p)
  <2>1. p \notin Backfills /\ "clocked" \in Steps
    BY <1>1, NamesAssumption DEF ReadClock, NamesAssumption, Steps
  <2>2. /\ pc' \in [Processes -> Steps]
        /\ \A b \in Backfills : pc'[b] \notin {"clocked", "ready"}
    BY <1>1, <2>1, StepType DEF ReadClock
  <2> QED BY <1>1, <2>2 DEF ReadClock, TypeOK
<1>2. CASE TakeLease(p)
  <2>1. p \in Consoles /\ p \notin Backfills /\ "ready" \in Steps
    BY <1>2, NamesAssumption DEF TakeLease, TypeOK, NamesAssumption, Processes, Steps
  <2>2. /\ pc' \in [Processes -> Steps]
        /\ \A b \in Backfills : pc'[b] \notin {"clocked", "ready"}
    BY <1>2, <2>1, StepType DEF TakeLease
  <2>3. age[p] \in 0 .. LeaseTTL + SweepTime
    BY <2>1, BoundsAssumption DEF TypeOK, BoundsAssumption
  <2>4. lease' \in [holder : Processes \cup {None, Gone}, age : 0 .. LeaseTTL + SweepTime]
    BY <1>2, <2>3 DEF TakeLease
  <2> QED BY <1>2, <2>2, <2>4 DEF TakeLease, TypeOK
<1>3. CASE HeldOff(p)
  BY <1>3, RestType DEF HeldOff, TypeOK
<1>4. CASE Load(p)
  <2>1. /\ pc' \in [Processes -> Steps]
        /\ \A b \in Backfills : pc'[b] \notin {"clocked", "ready"}
    <3>1. "loaded" \in Steps
      BY DEF Steps
    <3> QED BY <1>4, <3>1, StepType DEF Load
  <2>2. poll' \in [Processes -> Polls]
    <3> DEFINE r == [poll[p] EXCEPT !.next = checkpoint]
    <3>1. poll[p] \in Polls /\ checkpoint \in Checkpoints
      BY DEF TypeOK
    <3>2. r \in Polls
      BY <3>1 DEF Polls
    <3>3. poll' = [poll EXCEPT ![p] = r]
      BY <1>4 DEF Load
    <3> QED BY <3>2, <3>3, PollUpdate
  <2> QED BY <1>4, <2>1, <2>2 DEF Load, TypeOK
<1> QED BY <1>1, <1>2, <1>3, <1>4

\* The steps of a poll that has been loaded.
LEMMA PollType ==
  ASSUME TypeOK, NEW p \in Processes,
         \/ Probe(p) \/ Save(p) \/ Abort(p) \/ Crash(p)
         \/ \E e \in poll[p].owed : Land(p, e) \/ Lose(p, e)
  PROVE  TypeOK'
<1> DEFINE q == poll[p]
<1>0. q \in Polls /\ q.owed \in SUBSET Events
  BY DEF TypeOK, Polls
<1>1. CASE Probe(p)
  <2>1. /\ pc' \in [Processes -> Steps]
        /\ \A b \in Backfills : pc'[b] \notin {"clocked", "ready"}
    <3>1. "append" \in Steps
      BY DEF Steps
    <3> QED BY <1>1, <3>1, StepType DEF Probe
  <2>2. q.next \in Checkpoints /\ source \in Views
    BY <1>0 DEF TypeOK, Polls
  <2>3. NextCheckpoint(q.next, source) \in Checkpoints /\ Reports(q.next, source) \in SUBSET Events
    BY <2>2, NextCheckpointType, ReportsType
  <2>4. poll' \in [Processes -> Polls]
    <3> DEFINE r == [q EXCEPT !.next = NextCheckpoint(q.next, source),
                              !.saw  = source,
                              !.owed = Reports(q.next, source)]
    <3>1. r \in Polls
      BY <1>0, <2>2, <2>3 DEF Polls
    <3>2. poll' = [poll EXCEPT ![p] = r]
      BY <1>1 DEF Probe
    <3> QED BY <3>1, <3>2, PollUpdate
  <2> QED BY <1>1, <2>1, <2>4 DEF Probe, TypeOK
<1>2. CASE Save(p)
  <2>1. q.next \in Checkpoints
    BY <1>0 DEF Polls
  <2> QED BY <1>2, <2>1, RestType DEF Save, TypeOK
<1>3. CASE Abort(p)
  <2>1. faults' \in 0 .. MaxFaults /\ diverged' \in BOOLEAN
    BY <1>3, BoundsAssumption DEF Abort, Unsaved, TypeOK, BoundsAssumption
  <2> QED BY <1>3, <2>1, RestType DEF Abort, Unsaved, TypeOK
<1>4. CASE Crash(p)
  <2>1. faults' \in 0 .. MaxFaults /\ diverged' \in BOOLEAN
    BY <1>4, BoundsAssumption DEF Crash, Unsaved, TypeOK, BoundsAssumption
  <2>2. lease' \in [holder : Processes \cup {None, Gone}, age : 0 .. LeaseTTL + SweepTime]
    BY <1>4 DEF Crash, TypeOK
  <2> QED BY <1>4, <2>1, <2>2, RestType DEF Crash, Unsaved, TypeOK
<1>5. ASSUME NEW e \in poll[p].owed, Land(p, e) PROVE TypeOK'
  <2>1. e \in Events
    BY <1>0
  <2>2. log' \in Seq(Events)
    <3>1. log \in Seq(Events) /\ (log' = log \/ log' = Append(log, e))
      BY <1>5 DEF Land, TypeOK
    <3> QED BY <2>1, <3>1
  <2>3. poll' \in [Processes -> Polls]
    <3>1. q.owed \ {e} \in SUBSET Events /\ (q.fresh \/ ~InLog(e)) \in BOOLEAN
      BY <1>0 DEF Polls
    <3> DEFINE r == [q EXCEPT !.owed = @ \ {e}, !.fresh = @ \/ ~InLog(e)]
    <3>2. r \in Polls
      BY <1>0, <3>1 DEF Polls
    <3>3. poll' = [poll EXCEPT ![p] = r]
      BY <1>5 DEF Land
    <3> QED BY <3>2, <3>3, PollUpdate
  <2> QED BY <1>5, <2>2, <2>3 DEF Land, TypeOK
<1>6. ASSUME NEW e \in poll[p].owed, Lose(p, e) PROVE TypeOK'
  <2>1. poll' \in [Processes -> Polls]
    <3>1. q.owed \ {e} \in SUBSET Events
      BY <1>0
    <3> DEFINE r == [q EXCEPT !.owed = @ \ {e}, !.lost = TRUE]
    <3>2. r \in Polls
      BY <1>0, <3>1 DEF Polls
    <3>3. poll' = [poll EXCEPT ![p] = r]
      BY <1>6 DEF Lose
    <3> QED BY <3>2, <3>3, PollUpdate
  <2>2. faults' \in 0 .. MaxFaults
    <3>1. faults' = faults + 1 /\ faults < MaxFaults /\ faults \in 0 .. MaxFaults
      BY <1>6 DEF Lose, TypeOK
    <3> QED BY <3>1, BoundsAssumption DEF BoundsAssumption
  <2> QED BY <1>6, <2>1, <2>2 DEF Lose, TypeOK
<1> QED BY <1>1, <1>2, <1>3, <1>4, <1>5, <1>6

\* The source and the clock keep the types.
LEMMA WorldType == ASSUME TypeOK, Change \/ Tick PROVE TypeOK'
<1>1. CASE Change
  <2>1. changes' \in 0 .. MaxChanges
    BY <1>1, BoundsAssumption DEF Change, TypeOK, BoundsAssumption
  <2>2. source' \in Views
    BY <1>1 DEF Change, TypeOK, Views
  <2> QED BY <1>1, <2>1, <2>2 DEF Change, TypeOK, procVars
<1>2. CASE Tick
  <2>1. age' \in [Consoles -> 0 .. SweepTime]
    <3>1. ASSUME NEW p \in Consoles PROVE age'[p] \in 0 .. SweepTime
      BY <1>2, BoundsAssumption DEF Tick, TypeOK, BoundsAssumption
    <3> QED BY <1>2, <3>1 DEF Tick
  <2>2. lease' \in [holder : Processes \cup {None, Gone}, age : 0 .. LeaseTTL + SweepTime]
    <3> DEFINE a == IF lease.age < LeaseTTL + SweepTime THEN lease.age + 1 ELSE lease.age
    <3>1. lease \in [holder : Processes \cup {None, Gone}, age : 0 .. LeaseTTL + SweepTime]
      BY DEF TypeOK
    <3>2. a \in 0 .. LeaseTTL + SweepTime
      BY <3>1, BoundsAssumption DEF BoundsAssumption
    <3>3. lease' = [lease EXCEPT !.age = a]
      BY <1>2 DEF Tick
    <3> QED BY <3>1, <3>2, <3>3
  <2> QED BY <1>2, <2>1, <2>2 DEF Tick, TypeOK
<1> QED BY <1>1, <1>2

\* The types of the source adapter's variables.
THEOREM TypeCorrect == Spec => []TypeOK
<1>1. TypeOK /\ [Next]_vars => TypeOK'
  <2> SUFFICES ASSUME TypeOK, [Next]_vars PROVE TypeOK'
    OBVIOUS
  <2>1. CASE UNCHANGED vars
    BY <2>1 DEF vars, procVars, TypeOK
  <2>2. CASE Next
    BY <2>2, EarlyType, PollType, WorldType DEF Next, Work
  <2> QED BY <2>1, <2>2
<1> QED BY InitType, <1>1, PTL DEF Spec

-------------------------------------------------------------------------------
(* The lease *)

\* A writing console is the holder, with a lease as old as its clock, or has been
\* displaced, and its clock is older than the lease by a lease's time.  A clock
\* that was read under one's own lease is not older than the lease.
Apart ==
  /\ \A p \in Consoles : pc[p] = "idle" => age[p] = 0
  /\ \A p \in Consoles : pc[p] = "clocked" /\ lease.holder = p => age[p] <= lease.age
  /\ lease.holder = None => \A p \in Consoles : ~Writing(p)
  /\ \A p \in Consoles : Writing(p) =>
       \/ lease.holder = p /\ lease.age = age[p]
       \/ age[p] >= lease.age + LeaseTTL
  /\ WritersApart

\* A step that leaves the lease alone, starts no writer and no clock keeps it.
LEMMA ApartKept ==
  ASSUME Apart, lease' = lease,
         \A p \in Consoles : \/ pc'[p] = "idle" /\ age'[p] = 0
                             \/ pc'[p] = pc[p] /\ age'[p] = age[p]
                             \/ Writing(p) /\ Writing(p)' /\ age'[p] = age[p]
  PROVE  Apart'
<1>1. \A p \in Consoles : Writing(p)' => Writing(p) /\ age'[p] = age[p]
  BY DEF Writing
<1>2. \A p \in Consoles : pc'[p] = "idle" => age'[p] = 0
  BY DEF Apart, Writing
<1>3. \A p \in Consoles : pc'[p] = "clocked" => pc[p] = "clocked" /\ age'[p] = age[p]
  BY DEF Writing
<1>4. WritersApart'
  BY <1>1 DEF Apart, WritersApart
<1> QED BY <1>1, <1>2, <1>3, <1>4 DEF Apart

\* Only TakeLease makes a writer, and only beside writers whose lease is stale by
\* its clock.
LEMMA TakeApart ==
  ASSUME TypeOK, Apart, NEW p \in Processes, TakeLease(p)
  PROVE  Apart'
<1>0. /\ pc \in [Processes -> Steps] /\ age \in [Consoles -> 0 .. SweepTime]
      /\ Consoles \subseteq Processes /\ SweepTime \in Nat /\ LeaseTTL \in Nat
      /\ lease.age \in 0 .. LeaseTTL + SweepTime
  BY BoundsAssumption DEF TypeOK, Processes, BoundsAssumption
<1>1. p \in Consoles /\ pc[p] = "clocked"
  BY DEF TakeLease, TypeOK, Processes
<1>2. /\ lease'.holder = p /\ lease'.age = age[p] /\ age' = age
      /\ pc'[p] = "ready" /\ \A c \in Consoles : c # p => pc'[c] = pc[c]
  BY <1>0, <1>1 DEF TakeLease
<1>3. p # None
  BY NamesAssumption DEF NamesAssumption, Processes
<1>4. ASSUME NEW c \in Consoles, c # p, Writing(c) PROVE age[c] >= age[p] + LeaseTTL
  <2>1. age[c] \in Nat /\ age[p] \in Nat /\ lease.age \in Nat
    BY <1>0, <1>1
  <2>2. CASE lease.holder = None
    BY <1>4, <2>2 DEF Apart
  <2>3. CASE lease.holder = p
    <3>1. age[c] >= lease.age + LeaseTTL /\ age[p] <= lease.age
      BY <1>1, <1>4, <2>3 DEF Apart
    <3> QED BY <1>0, <2>1, <3>1
  <2>4. CASE Stale(p)
    <3>1. lease.age >= LeaseTTL + age[p]
      BY <2>4 DEF Stale
    <3>2. age[c] >= lease.age
      <4>1. lease.age = age[c] \/ age[c] >= lease.age + LeaseTTL
        BY <1>4 DEF Apart
      <4> QED BY <1>0, <2>1, <4>1
    <3> QED BY <1>0, <2>1, <3>1, <3>2
  <2> QED BY <2>2, <2>3, <2>4 DEF TakeLease, MayWrite
<1>5. \A c \in Consoles : Writing(c)' => c = p \/ (c # p /\ Writing(c))
  BY <1>2 DEF Writing
<1>6. WritersApart'
  <2> SUFFICES ASSUME NEW c \in Consoles, NEW d \in Consoles, c # d, Writing(c)', Writing(d)'
               PROVE  age'[c] >= age'[d] + LeaseTTL \/ age'[d] >= age'[c] + LeaseTTL
    BY DEF WritersApart
  <2>1. CASE c = p
    BY <1>2, <1>4, <1>5, <2>1
  <2>2. CASE d = p
    BY <1>2, <1>4, <1>5, <2>2
  <2>3. CASE c # p /\ d # p
    BY <1>2, <1>5, <2>3 DEF Apart, WritersApart
  <2> QED BY <2>1, <2>2, <2>3
<1>7. \A c \in Consoles : pc'[c] = "idle" => age'[c] = 0
  BY <1>2 DEF Apart
<1>8. \A c \in Consoles : ~(pc'[c] = "clocked" /\ lease'.holder = c)
  BY <1>2
<1>9. \A c \in Consoles : Writing(c)' =>
        \/ lease'.holder = c /\ lease'.age = age'[c]
        \/ age'[c] >= lease'.age + LeaseTTL
  BY <1>2, <1>4, <1>5
<1> QED BY <1>2, <1>3, <1>6, <1>7, <1>8, <1>9 DEF Apart

\* Time widens no gap and narrows none.
LEMMA TickApart == ASSUME TypeOK, Apart, Tick PROVE Apart'
<1>0. /\ age \in [Consoles -> 0 .. SweepTime] /\ SweepTime \in Nat /\ LeaseTTL \in Nat
      /\ lease \in [holder : Processes \cup {None, Gone}, age : 0 .. LeaseTTL + SweepTime]
  BY BoundsAssumption DEF TypeOK, BoundsAssumption
<1>1. /\ lease'.holder = lease.holder /\ pc' = pc
      /\ lease'.age \in Nat /\ lease'.age <= lease.age + 1
      /\ lease'.age = lease.age + 1 \/ (lease'.age = lease.age /\ lease.age >= LeaseTTL + SweepTime)
  <2> DEFINE a == IF lease.age < LeaseTTL + SweepTime THEN lease.age + 1 ELSE lease.age
  <2>1. lease' = [lease EXCEPT !.age = a]
    BY DEF Tick
  <2>2. lease'.age = a /\ lease'.holder = lease.holder
    BY <1>0, <2>1
  <2> QED BY <1>0, <2>2 DEF Tick
<1>2. \A p \in Consoles : /\ pc[p] = "idle" => age'[p] = 0
                          /\ pc[p] # "idle" => age'[p] = age[p] + 1 /\ age[p] < SweepTime
  BY DEF Tick
<1>3. \A p \in Consoles : Writing(p)' => Writing(p) /\ pc[p] # "idle"
  BY <1>1 DEF Writing
<1>4. \A p \in Consoles : age[p] \in Nat /\ lease.age \in Nat
  BY <1>0
<1>5. ASSUME NEW p \in Consoles, pc'[p] = "clocked" /\ lease'.holder = p
      PROVE  age'[p] <= lease'.age
  <2>1. age[p] <= lease.age /\ age'[p] = age[p] + 1 /\ age[p] < SweepTime
    BY <1>1, <1>2, <1>5 DEF Apart
  <2> QED BY <1>0, <1>1, <1>4, <2>1
<1>6. ASSUME NEW p \in Consoles, Writing(p)'
      PROVE  \/ lease'.holder = p /\ lease'.age = age'[p]
             \/ age'[p] >= lease'.age + LeaseTTL
  <2>1. age'[p] = age[p] + 1 /\ age[p] < SweepTime /\ Writing(p)
    BY <1>2, <1>3, <1>6
  <2>2. CASE lease.holder = p /\ lease.age = age[p]
    BY <1>0, <1>1, <1>4, <2>1, <2>2
  <2>3. CASE age[p] >= lease.age + LeaseTTL
    BY <1>0, <1>1, <1>4, <2>1, <2>3
  <2> QED BY <2>1, <2>2, <2>3 DEF Apart
<1>7. WritersApart'
  <2> SUFFICES ASSUME NEW c \in Consoles, NEW d \in Consoles, c # d, Writing(c)', Writing(d)'
               PROVE  age'[c] >= age'[d] + LeaseTTL \/ age'[d] >= age'[c] + LeaseTTL
    BY DEF WritersApart
  <2>1. age[c] >= age[d] + LeaseTTL \/ age[d] >= age[c] + LeaseTTL
    BY <1>3 DEF Apart, WritersApart
  <2>2. age'[c] = age[c] + 1 /\ age'[d] = age[d] + 1
    BY <1>2, <1>3
  <2> QED BY <1>0, <1>4, <2>1, <2>2
<1>8. \A p \in Consoles : pc'[p] = "idle" => age'[p] = 0
  BY <1>1, <1>2
<1>9. lease'.holder = None => \A p \in Consoles : ~Writing(p)'
  BY <1>1, <1>3 DEF Apart
<1> QED BY <1>5, <1>6, <1>7, <1>8, <1>9 DEF Apart

LEMMA ApartStep == ASSUME TypeOK, Apart, [Next]_vars PROVE Apart'
<1>0. /\ pc \in [Processes -> Steps] /\ age \in [Consoles -> 0 .. SweepTime]
      /\ Consoles \subseteq Processes /\ LeaseTTL \in Nat
      /\ lease \in [holder : Processes \cup {None, Gone}, age : 0 .. LeaseTTL + SweepTime]
  BY BoundsAssumption DEF TypeOK, Processes, BoundsAssumption
<1>1. CASE UNCHANGED vars
  BY <1>1, ApartKept DEF vars, procVars
<1>2. ASSUME NEW p \in Processes, ReadClock(p) PROVE Apart'
  <2>1. /\ lease' = lease /\ age' = age /\ p \in Consoles
        /\ pc[p] = "idle" /\ pc'[p] = "clocked" /\ \A c \in Consoles : c # p => pc'[c] = pc[c]
    BY <1>0, <1>2 DEF ReadClock
  <2>2. age[p] = 0 /\ lease.age \in Nat
    BY <1>0, <2>1 DEF Apart
  <2>3. \A c \in Consoles : Writing(c)' => Writing(c)
    BY <2>1 DEF Writing
  <2>4. WritersApart'
    BY <2>1, <2>3 DEF Apart, WritersApart
  <2>5. \A c \in Consoles : pc'[c] = "clocked" /\ lease'.holder = c => age'[c] <= lease'.age
    BY <2>1, <2>2 DEF Apart
  <2> QED BY <2>1, <2>3, <2>4, <2>5 DEF Apart
<1>3. ASSUME NEW p \in Processes, Load(p) \/ Probe(p) PROVE Apart'
  <2>1. lease' = lease /\ age' = age /\ \A c \in Consoles : c # p => pc'[c] = pc[c]
    BY <1>0, <1>3 DEF Load, Probe
  <2>2. p \in Consoles => Writing(p) /\ Writing(p)'
    BY <1>0, <1>3, NamesAssumption DEF Load, Probe, Writing, NamesAssumption
  <2> QED BY <2>1, <2>2, ApartKept
<1>4. ASSUME NEW p \in Processes, TakeLease(p) PROVE Apart'
  BY <1>4, TakeApart
<1>5. ASSUME NEW p \in Processes, Rest(p)
      PROVE  \A c \in Consoles : \/ pc'[c] = "idle" /\ age'[c] = 0
                                 \/ c # p /\ pc'[c] = pc[c] /\ age'[c] = age[c]
  BY <1>0, <1>5 DEF Rest
<1>6. ASSUME NEW p \in Processes, HeldOff(p) \/ Save(p) \/ Abort(p) PROVE Apart'
  <2>1. lease' = lease /\ Rest(p)
    BY <1>6 DEF HeldOff, Save, Abort, Unsaved
  <2> QED BY <1>5, <2>1, ApartKept
<1>7. ASSUME NEW p \in Processes, Crash(p) PROVE Apart'
  <2>1. \A c \in Consoles : \/ pc'[c] = "idle" /\ age'[c] = 0
                            \/ c # p /\ pc'[c] = pc[c] /\ age'[c] = age[c]
    BY <1>5, <1>7 DEF Crash, Unsaved
  <2>2. /\ lease'.age = lease.age
        /\ lease'.holder = IF lease.holder = p THEN Gone ELSE lease.holder
    BY <1>0, <1>7 DEF Crash
  <2>3. Gone # None /\ Gone \notin Consoles
    BY NamesAssumption DEF NamesAssumption, Processes
  <2>4. \A c \in Consoles : Writing(c)' =>
          c # p /\ Writing(c) /\ age'[c] = age[c] /\ (lease'.holder = c <=> lease.holder = c)
    BY <2>1, <2>2, <2>3 DEF Writing
  <2>5. \A c \in Consoles : pc'[c] = "clocked" /\ lease'.holder = c =>
          pc[c] = "clocked" /\ lease.holder = c /\ age'[c] = age[c]
    BY <2>1, <2>2, <2>3
  <2>6. lease'.holder = None => lease.holder = None
    BY <2>2, <2>3
  <2>7. WritersApart'
    BY <2>4 DEF Apart, WritersApart
  <2>8. \A c \in Consoles : pc'[c] = "idle" => age'[c] = 0
    BY <2>1 DEF Apart
  <2>9. \A c \in Consoles : Writing(c)' =>
          \/ lease'.holder = c /\ lease'.age = age'[c]
          \/ age'[c] >= lease'.age + LeaseTTL
    BY <2>2, <2>4 DEF Apart
  <2>10. \A c \in Consoles : pc'[c] = "clocked" /\ lease'.holder = c => age'[c] <= lease'.age
    BY <2>2, <2>5 DEF Apart
  <2>11. lease'.holder = None => \A c \in Consoles : ~Writing(c)'
    BY <2>4, <2>6 DEF Apart
  <2> QED BY <2>7, <2>8, <2>9, <2>10, <2>11 DEF Apart
<1>8. ASSUME NEW p \in Processes, NEW e \in poll[p].owed, Land(p, e) \/ Lose(p, e)
      PROVE  Apart'
  BY <1>8, ApartKept DEF Land, Lose
<1>9. CASE Change
  BY <1>9, ApartKept DEF Change, procVars
<1>10. CASE Tick
  BY <1>10, TickApart
<1> QED BY <1>1, <1>2, <1>3, <1>4, <1>6, <1>7, <1>8, <1>9, <1>10 DEF Next, Work

\* However long sweeps last, however consoles crash and whatever lease a dead one
\* left, a console that writes beside another began a lease's time before or after.
THEOREM LeaseKeepsApart == Spec => []WritersApart
<1>1. Init => Apart
  BY DEF Init, Apart, Writing, WritersApart, Processes
<1>2. TypeOK /\ Apart /\ [Next]_vars => Apart'
  BY ApartStep
<1>3. Apart => WritersApart
  BY DEF Apart
<1> QED BY <1>1, <1>2, <1>3, TypeCorrect, PTL DEF Spec

-------------------------------------------------------------------------------
(* The log and the checkpoint *)

\* No entry is ahead of the checkpoint, and one of its epoch says what it says.  A
\* finding that an item was read after belongs to an epoch that is over.
Fits(l, ck) ==
  /\ \A n \in DOMAIN l : l[n].kind = "snapshot" =>
       LET entry == ck.ledger[l[n].item]
       IN  l[n].epoch <= entry.epoch /\ (l[n].epoch = entry.epoch => l[n].value = entry.version)
  /\ \A n \in DOMAIN l : l[n].kind # "snapshot" =>
       l[n].epoch <= ck.epoch /\ (l[n].epoch = ck.epoch => l[n].kind = ck.availability)
  /\ \A n, m \in DOMAIN l :
       n < m /\ l[n].kind = "not_observed" /\ l[m].kind = "snapshot" => l[n].epoch < ck.epoch

\* The epochs of an item, and those of the source, only ascend.
Ascends(l) ==
  /\ \A n, m \in DOMAIN l :
       n < m /\ l[n].kind = "snapshot" /\ l[m].kind = "snapshot" /\ l[n].item = l[m].item
         => l[n].epoch < l[m].epoch
  /\ \A n, m \in DOMAIN l :
       n < m /\ l[n].kind # "snapshot" /\ l[m].kind # "snapshot" => l[n].epoch <= l[m].epoch

LEMMA EventFields ==
  ASSUME NEW e \in Events
  PROVE  /\ e.epoch \in Nat
         /\ e.kind \in {"snapshot", "observed", "not_observed"}
         /\ e.kind = "snapshot" => e.item \in Items /\ e.value \in Versions
BY DEF Events

\* A poll saves a checkpoint that the log fits if it fitted the one before.
LEMMA FitsNext ==
  ASSUME NEW l \in Seq(Events), NEW ck \in Checkpoints, NEW view \in Views, Fits(l, ck)
  PROVE  Fits(l, NextCheckpoint(ck, view))
<1> DEFINE next == NextCheckpoint(ck, view)
<1>1. \A n \in DOMAIN l : l[n] \in Events
  OBVIOUS
<1>2. ck.epoch \in Nat /\ \A i \in Items : ck.ledger[i].epoch \in Nat
  BY DEF Checkpoints
<1>3. \/ next.epoch = ck.epoch /\ next.availability = ck.availability
      \/ next.epoch = ck.epoch + 1
  BY DEF NextCheckpoint, Transition, Checkpoints
<1>4. \A i \in Items : \/ next.ledger[i] = ck.ledger[i]
                       \/ /\ next.ledger[i].epoch = ck.ledger[i].epoch
                          /\ next.ledger[i].version = ck.ledger[i].version
                       \/ next.ledger[i].epoch = ck.ledger[i].epoch + 1
  BY DEF NextCheckpoint, Observe, Checkpoints
<1>5. ASSUME NEW n \in DOMAIN l, l[n].kind = "snapshot"
      PROVE  LET entry == next.ledger[l[n].item]
             IN  l[n].epoch <= entry.epoch
                 /\ (l[n].epoch = entry.epoch => l[n].value = entry.version)
  <2> DEFINE i == l[n].item
  <2>1. i \in Items /\ l[n].epoch \in Nat
    BY <1>1, <1>5, EventFields
  <2>2. /\ l[n].epoch <= ck.ledger[i].epoch
        /\ l[n].epoch = ck.ledger[i].epoch => l[n].value = ck.ledger[i].version
    BY <1>5 DEF Fits
  <2> HIDE DEF next, i
  <2>3. l[n].epoch <= next.ledger[i].epoch
        /\ (l[n].epoch = next.ledger[i].epoch => l[n].value = next.ledger[i].version)
    BY <1>2, <1>4, <2>1, <2>2
  <2> QED BY <2>3 DEF i
<1>6. ASSUME NEW n \in DOMAIN l, l[n].kind # "snapshot"
      PROVE  l[n].epoch <= next.epoch /\ (l[n].epoch = next.epoch => l[n].kind = next.availability)
  <2>1. l[n].epoch \in Nat
    BY <1>1, EventFields
  <2>2. l[n].epoch <= ck.epoch /\ (l[n].epoch = ck.epoch => l[n].kind = ck.availability)
    BY <1>6 DEF Fits
  <2> HIDE DEF next
  <2> QED BY <1>2, <1>3, <2>1, <2>2
<1>7. ASSUME NEW n \in DOMAIN l, NEW m \in DOMAIN l,
             n < m, l[n].kind = "not_observed", l[m].kind = "snapshot"
      PROVE  l[n].epoch < next.epoch
  <2>1. l[n].epoch \in Nat /\ l[n].epoch < ck.epoch
    BY <1>1, <1>7, EventFields DEF Fits
  <2> HIDE DEF next
  <2> QED BY <1>2, <1>3, <2>1
<1> HIDE DEF next
<1>8. Fits(l, next)
  BY <1>5, <1>6, <1>7 DEF Fits
<1> QED BY <1>8 DEF next

\* What a poll appends is what its checkpoint says.
LEMMA ReportFacts ==
  ASSUME NEW ck \in Checkpoints, NEW view \in Views, NEW e \in Reports(ck, view)
  PROVE  LET next == NextCheckpoint(ck, view)
         IN  /\ e \in Events
             /\ e.kind = "snapshot" => /\ e.epoch = next.ledger[e.item].epoch
                                       /\ e.value = next.ledger[e.item].version
                                       /\ next.availability = "observed"
             /\ e.kind # "snapshot" => /\ e.epoch = next.epoch
                                       /\ e.kind = next.availability
<1> DEFINE next == NextCheckpoint(ck, view)
<1>1. e \in Events
  BY ReportsType
<1>2. CASE Up(view)
  <2>1. next.availability = "observed"
    BY <1>2 DEF NextCheckpoint
  <2>2. \/ e = ObservedMarker(next.epoch)
        \/ \E i \in Present(view) : e = Snapshot(i, next.ledger[i])
    BY <1>2 DEF Reports
  <2> QED BY <1>1, <2>1, <2>2 DEF ObservedMarker, Snapshot
<1>3. CASE ~Up(view)
  <2>1. next.availability = "not_observed"
    BY <1>3 DEF NextCheckpoint, Checkpoints
  <2>2. e = NotObserved(view.cause, next.epoch)
    BY <1>3 DEF Reports
  <2> QED BY <1>1, <2>1, <2>2 DEF NotObserved
<1> QED BY <1>2, <1>3

\* An entry the log does not hold yet comes after all of its kind and item.
LEMMA LandKeeps ==
  ASSUME NEW l \in Seq(Events), NEW ck \in Checkpoints, NEW view \in Views,
         NEW e \in Reports(ck, view),
         Fits(l, NextCheckpoint(ck, view)), Ascends(l),
         \A n \in DOMAIN l : l[n] # e
  PROVE  Fits(Append(l, e), NextCheckpoint(ck, view)) /\ Ascends(Append(l, e))
<1> DEFINE next == NextCheckpoint(ck, view)
           a == Append(l, e)
           last == Len(l) + 1
<1>1. /\ e \in Events
      /\ e.kind = "snapshot" => /\ e.epoch = next.ledger[e.item].epoch
                                /\ e.value = next.ledger[e.item].version
                                /\ next.availability = "observed"
      /\ e.kind # "snapshot" => e.epoch = next.epoch /\ e.kind = next.availability
  BY ReportFacts
<1>2. /\ next.epoch \in Nat
      /\ \A i \in Items : next.ledger[i].epoch \in Nat
  BY NextCheckpointType DEF Checkpoints
<1>3. /\ Len(l) \in Nat /\ DOMAIN l = 1 .. Len(l)
      /\ \A n \in DOMAIN l : l[n] \in Events
  OBVIOUS
<1>4. /\ a[last] = e /\ \A n \in DOMAIN l : a[n] = l[n]
      /\ \A n \in DOMAIN a : n \in DOMAIN l \/ n = last
      /\ \A n, m \in DOMAIN a : n < m => n \in DOMAIN l
  BY <1>1, <1>3
<1>5. /\ \A n \in DOMAIN l : l[n].kind = "snapshot" =>
           /\ l[n].epoch <= next.ledger[l[n].item].epoch
           /\ l[n].epoch = next.ledger[l[n].item].epoch
                => l[n].value = next.ledger[l[n].item].version
      /\ \A n \in DOMAIN l : l[n].kind # "snapshot" =>
           /\ l[n].epoch <= next.epoch
           /\ l[n].epoch = next.epoch => l[n].kind = next.availability
      /\ \A n, m \in DOMAIN l :
           n < m /\ l[n].kind = "not_observed" /\ l[m].kind = "snapshot"
             => l[n].epoch < next.epoch
  BY DEF Fits
<1>6. /\ \A n, m \in DOMAIN l :
           n < m /\ l[n].kind = "snapshot" /\ l[m].kind = "snapshot"
             /\ l[n].item = l[m].item => l[n].epoch < l[m].epoch
      /\ \A n, m \in DOMAIN l :
           n < m /\ l[n].kind # "snapshot" /\ l[m].kind # "snapshot"
             => l[n].epoch <= l[m].epoch
  BY DEF Ascends
<1>7. \A n \in DOMAIN l : l[n] # e
  OBVIOUS
<1> HIDE DEF next, a, last
<1>8. ASSUME NEW n \in DOMAIN l, l[n].kind = "snapshot", e.kind = "snapshot",
             l[n].item = e.item
      PROVE  l[n].epoch < e.epoch
  <2>1. /\ l[n].epoch <= e.epoch
        /\ l[n].epoch = e.epoch => l[n].value = e.value
    BY <1>1, <1>5, <1>8
  <2>2. l[n].epoch = e.epoch /\ l[n].value = e.value => l[n] = e
    BY <1>1, <1>3, <1>8 DEF Events
  <2>3. l[n].epoch \in Nat /\ e.epoch \in Nat
    BY <1>1, <1>3, EventFields
  <2> QED BY <1>7, <2>1, <2>2, <2>3
<1>9. ASSUME NEW n \in DOMAIN l, l[n].kind # "snapshot", e.kind # "snapshot"
      PROVE  l[n].epoch <= e.epoch
  BY <1>1, <1>5, <1>9
<1>10. ASSUME NEW n \in DOMAIN l, l[n].kind = "not_observed", e.kind = "snapshot"
       PROVE  l[n].epoch < next.epoch
  <2>1. l[n].epoch <= next.epoch /\ l[n].epoch # next.epoch
    BY <1>1, <1>5, <1>10
  <2>2. l[n].epoch \in Nat
    BY <1>3, EventFields
  <2> QED BY <1>2, <2>1, <2>2
<1>11. Ascends(a)
  BY <1>4, <1>6, <1>8, <1>9 DEF Ascends
<1>12. Fits(a, next)
  <2>1. e.epoch \in Nat
    BY <1>1, EventFields
  <2>2. ASSUME NEW n \in DOMAIN a, a[n].kind = "snapshot"
        PROVE  /\ a[n].epoch <= next.ledger[a[n].item].epoch
               /\ a[n].epoch = next.ledger[a[n].item].epoch
                    => a[n].value = next.ledger[a[n].item].version
    <3>1. CASE n \in DOMAIN l
      BY <1>4, <1>5, <2>2, <3>1
    <3>2. CASE n = last
      <4>1. a[n] = e
        BY <1>4, <3>2
      <4> QED BY <1>1, <2>1, <2>2, <4>1
    <3> QED BY <1>4, <3>1, <3>2
  <2>3. ASSUME NEW n \in DOMAIN a, a[n].kind # "snapshot"
        PROVE  /\ a[n].epoch <= next.epoch
               /\ a[n].epoch = next.epoch => a[n].kind = next.availability
    <3>1. CASE n \in DOMAIN l
      BY <1>4, <1>5, <2>3, <3>1
    <3>2. CASE n = last
      <4>1. a[n] = e
        BY <1>4, <3>2
      <4> QED BY <1>1, <2>1, <2>3, <4>1
    <3> QED BY <1>4, <3>1, <3>2
  <2>4. ASSUME NEW n \in DOMAIN a, NEW m \in DOMAIN a,
               n < m, a[n].kind = "not_observed", a[m].kind = "snapshot"
        PROVE  a[n].epoch < next.epoch
    BY <1>4, <1>5, <1>10, <2>4
  <2> QED BY <2>2, <2>3, <2>4 DEF Fits
<1> QED BY <1>11, <1>12 DEF next, a

\* What it means for a log to hold a poll: it fits the poll's checkpoint, its epochs
\* ascend, and the poll's events are in it.
Holds(l, was, view) ==
  /\ Ascends(l) /\ Fits(l, NextCheckpoint(was, view))
  /\ \A e \in Reports(was, view) : \E n \in DOMAIN l : l[n] = e

\* Down: nothing comes after the finding but findings.
LEMMA HeldFinding ==
  ASSUME NEW l \in Seq(Events), NEW was \in Checkpoints, NEW view \in Views,
         Holds(l, was, view), ~Up(view)
  PROVE  \E n \in DOMAIN l :
           /\ l[n].kind = "not_observed"
           /\ \A m \in DOMAIN l : m > n => l[m].kind = "not_observed"
<1> DEFINE next == NextCheckpoint(was, view)
           e == NotObserved(view.cause, next.epoch)
<1>1. e \in Reports(was, view)
  BY DEF Reports
<1>2. PICK n \in DOMAIN l : l[n] = e
  BY <1>1 DEF Holds
<1>3. l[n].kind = "not_observed" /\ l[n].epoch = next.epoch
  BY <1>2 DEF NotObserved
<1>4. next.availability = "not_observed" /\ next.epoch \in Nat
  BY NextCheckpointType DEF NextCheckpoint, Checkpoints
<1>5. Fits(l, next) /\ Ascends(l)
  BY DEF Holds
<1> HIDE DEF next, e
<1>6. ASSUME NEW m \in DOMAIN l, m > n PROVE l[m].kind = "not_observed"
  <2>1. n < m /\ l[m].epoch \in Nat
    <3>1. l[m] \in Events /\ n \in Nat /\ m \in Nat
      OBVIOUS
    <3> QED BY <1>6, <3>1, EventFields
  <2>2. l[m].kind # "snapshot"
    BY <1>3, <1>4, <1>5, <2>1 DEF Fits
  <2>3. next.epoch <= l[m].epoch
    BY <1>3, <1>5, <2>1, <2>2 DEF Ascends
  <2>4. l[m].epoch <= next.epoch /\ (l[m].epoch = next.epoch => l[m].kind = next.availability)
    BY <1>5, <2>2 DEF Fits
  <2> QED BY <1>4, <2>1, <2>3, <2>4
<1> QED BY <1>3, <1>6

\* Up: the marker's epoch is the latest there is, so a finding that came after it
\* would contradict the checkpoint.
LEMMA HeldObservation ==
  ASSUME NEW l \in Seq(Events), NEW was \in Checkpoints, NEW view \in Views,
         Holds(l, was, view), Up(view), NEW k \in DOMAIN l,
         l[k].kind = "not_observed"
  PROVE  \E m \in DOMAIN l : m > k /\ l[m].kind # "not_observed"
<1> DEFINE next == NextCheckpoint(was, view)
           e == ObservedMarker(next.epoch)
<1>1. e \in Reports(was, view)
  BY DEF Reports
<1>2. PICK n \in DOMAIN l : l[n] = e
  BY <1>1 DEF Holds
<1>3. l[n].kind = "observed" /\ l[n].epoch = next.epoch
  BY <1>2 DEF ObservedMarker
<1>4. next.availability = "observed" /\ next.epoch \in Nat
  BY NextCheckpointType DEF NextCheckpoint, Checkpoints
<1>5. Fits(l, next) /\ Ascends(l)
  BY DEF Holds
<1> HIDE DEF next, e
<1>6. l[k].epoch \in Nat /\ n \in Nat /\ k \in Nat
  <2>1. l[k] \in Events /\ n \in Nat /\ k \in Nat
    OBVIOUS
  <2> QED BY <2>1, EventFields
<1>7. l[k].epoch <= next.epoch /\ l[k].epoch # next.epoch
  BY <1>4, <1>5 DEF Fits
<1>8. ~(n < k)
  <2>1. n < k => next.epoch <= l[k].epoch
    BY <1>3, <1>5 DEF Ascends
  <2> QED BY <1>4, <1>6, <1>7, <2>1
<1> QED BY <1>3, <1>6, <1>8

\* Up: the item's epoch is the latest there is, so the snapshot is its last.
LEMMA HeldSnapshot ==
  ASSUME NEW l \in Seq(Events), NEW was \in Checkpoints, NEW view \in Views,
         Holds(l, was, view), Up(view), NEW i \in Present(view)
  PROVE  \E n \in DOMAIN l :
           /\ l[n].kind = "snapshot" /\ l[n].item = i /\ l[n].value = view.items[i]
           /\ \A m \in DOMAIN l : m > n => ~(l[m].kind = "snapshot" /\ l[m].item = i)
<1> DEFINE next == NextCheckpoint(was, view)
           e == Snapshot(i, next.ledger[i])
<1>1. e \in Reports(was, view)
  BY DEF Reports
<1>2. PICK n \in DOMAIN l : l[n] = e
  BY <1>1 DEF Holds
<1>3. next.ledger[i].version = view.items[i]
  BY Observed
<1>4. /\ l[n].kind = "snapshot" /\ l[n].item = i /\ l[n].value = view.items[i]
      /\ l[n].epoch = next.ledger[i].epoch
  BY <1>2, <1>3 DEF Snapshot
<1>5. Fits(l, next) /\ Ascends(l)
  BY DEF Holds
<1>6. next.ledger[i].epoch \in Nat
  BY NextCheckpointType DEF Present, Checkpoints
<1> HIDE DEF next, e
<1>7. ASSUME NEW m \in DOMAIN l, m > n, l[m].kind = "snapshot", l[m].item = i
      PROVE  FALSE
  <2>1. n < m /\ l[m].epoch \in Nat
    <3>1. l[m] \in Events /\ n \in Nat /\ m \in Nat
      OBVIOUS
    <3> QED BY <1>7, <3>1, EventFields
  <2>2. next.ledger[i].epoch < l[m].epoch
    BY <1>4, <1>5, <1>7, <2>1 DEF Ascends
  <2>3. l[m].epoch <= next.ledger[i].epoch
    BY <1>5, <1>7 DEF Fits
  <2> QED BY <1>6, <2>1, <2>2, <2>3
<1> QED BY <1>4, <1>7

-------------------------------------------------------------------------------
(* Polls *)

\* A poll that has nothing to append yet has lost and added nothing.
Rested == \A p \in Processes : pc[p] # "append" => ~poll[p].fresh /\ ~poll[p].lost

\* A poll open at "append" decided from the saved checkpoint, still owes the events
\* the log lacks, and has left the log fit for what it will save.
Sound(p) ==
  LET q == poll[p]
  IN  /\ q.next = NextCheckpoint(checkpoint, q.saw)
      /\ q.owed \subseteq Reports(checkpoint, q.saw)
      /\ Fits(log, q.next)
      /\ ~q.lost => \A e \in Reports(checkpoint, q.saw) : e \in q.owed \/ InLog(e)

\* Until a poll's record is lost, polls come one at a time, each from the checkpoint
\* of the one before.
InOrder ==
  /\ Ascends(log)
  /\ \A p, q \in Processes : InPoll(p) /\ InPoll(q) => p = q
  /\ \A p \in Processes : pc[p] = "loaded" => poll[p].next = checkpoint
  /\ \A p \in Processes : pc[p] = "append" => Sound(p)
  /\ (\A p \in Processes : pc[p] = "append" => ~poll[p].fresh) => Fits(log, checkpoint)

DataInv == Rested /\ (~diverged => InOrder)

LEMMA RestPolls ==
  ASSUME TypeOK, NEW p \in Processes, Rest(p), NEW q \in Processes
  PROVE  \/ q # p /\ pc'[q] = pc[q] /\ poll'[q] = poll[q]
         \/ q = p /\ pc'[q] = "idle" /\ ~poll'[q].fresh /\ ~poll'[q].lost
<1>1. pc \in [Processes -> Steps] /\ poll \in [Processes -> Polls]
  BY DEF TypeOK
<1>2. CASE q = p
  BY <1>1, <1>2 DEF Rest, NoPoll
<1>3. CASE q # p
  BY <1>1, <1>3 DEF Rest
<1> QED BY <1>2, <1>3

LEMMA RestedStep == ASSUME TypeOK, Rested, [Next]_vars PROVE Rested'
<1>0. pc \in [Processes -> Steps] /\ poll \in [Processes -> Polls]
  BY DEF TypeOK
<1>1. CASE UNCHANGED vars \/ Change \/ Tick
  BY <1>1 DEF vars, procVars, Change, Tick, Rested
<1>2. ASSUME NEW p \in Processes, ReadClock(p) \/ TakeLease(p) PROVE Rested'
  BY <1>0, <1>2 DEF ReadClock, TakeLease, Rested
<1>3. ASSUME NEW p \in Processes, HeldOff(p) \/ Save(p) \/ Abort(p) \/ Crash(p)
      PROVE  Rested'
  <2>1. Rest(p)
    BY <1>3 DEF HeldOff, Save, Abort, Crash, Unsaved
  <2> QED BY <2>1, RestPolls DEF Rested
<1>4. ASSUME NEW p \in Processes, Load(p) PROVE Rested'
  <2>1. ASSUME NEW q \in Processes, pc'[q] # "append"
        PROVE  ~poll'[q].fresh /\ ~poll'[q].lost
    <3>1. pc[q] # "append"
      BY <1>0, <1>4, <2>1 DEF Load
    <3>2. poll'[q].fresh = poll[q].fresh /\ poll'[q].lost = poll[q].lost
      BY <1>0, <1>4 DEF Load, Polls
    <3> QED BY <3>1, <3>2 DEF Rested
  <2> QED BY <2>1 DEF Rested
<1>5. ASSUME NEW p \in Processes, Probe(p) PROVE Rested'
  BY <1>0, <1>5 DEF Probe, Rested
<1>6. ASSUME NEW p \in Processes, NEW e \in poll[p].owed, Land(p, e) \/ Lose(p, e)
      PROVE  Rested'
  <2>1. pc' = pc /\ pc[p] = "append" /\ \A q \in Processes : q # p => poll'[q] = poll[q]
    BY <1>0, <1>6 DEF Land, Lose, Due
  <2> QED BY <2>1 DEF Rested
<1> QED BY <1>1, <1>2, <1>3, <1>4, <1>5, <1>6 DEF Next, Work

\* A step that leaves the log, the checkpoint and every open poll alone, and closes
\* none that had added to the log.
LEMMA OrderKept ==
  ASSUME InOrder, log' = log, checkpoint' = checkpoint,
         \A q \in Processes : InPoll(q)' => pc'[q] = pc[q] /\ poll'[q] = poll[q],
         \A q \in Processes : pc[q] = "append" /\ ~InPoll(q)' =>
           ~poll[q].fresh \/ poll[q].next = checkpoint
  PROVE  InOrder'
<1>1. /\ Ascends(log')
      /\ \A p, q \in Processes : InPoll(p)' /\ InPoll(q)' => p = q
      /\ \A p \in Processes : pc'[p] = "loaded" => poll'[p].next = checkpoint'
  BY DEF InOrder, InPoll
<1>2. \A p \in Processes : pc'[p] = "append" => Sound(p)'
  <2> SUFFICES ASSUME NEW p \in Processes, pc'[p] = "append" PROVE Sound(p)'
    OBVIOUS
  <2>1. pc[p] = "append" /\ poll'[p] = poll[p]
    BY DEF InPoll
  <2>2. Sound(p)
    BY <2>1 DEF InOrder
  <2> QED BY <2>1, <2>2 DEF Sound, InLog
<1>3. ASSUME \A p \in Processes : pc'[p] = "append" => ~poll'[p].fresh
      PROVE  Fits(log', checkpoint')
  <2>1. CASE \E p \in Processes : pc[p] = "append" /\ poll[p].fresh
    <3>1. PICK p \in Processes : pc[p] = "append" /\ poll[p].fresh
      BY <2>1
    <3>2. ~InPoll(p)'
      BY <1>3, <3>1 DEF InPoll
    <3>3. poll[p].next = checkpoint /\ Fits(log, poll[p].next)
      BY <3>1, <3>2 DEF InOrder, Sound
    <3> QED BY <3>3
  <2>2. CASE \A p \in Processes : pc[p] = "append" => ~poll[p].fresh
    BY <2>2 DEF InOrder
  <2> QED BY <2>1, <2>2
<1> QED BY <1>1, <1>2, <1>3 DEF InOrder

\* The steps that open or end a poll without a record of it.
LEMMA EdgeOrder ==
  ASSUME TypeOK, Rested, InOrder, ~diverged', NEW p \in Processes,
         \/ ReadClock(p) \/ TakeLease(p) \/ HeldOff(p) \/ Abort(p) \/ Crash(p)
  PROVE  InOrder'
<1>0. pc \in [Processes -> Steps]
  BY DEF TypeOK
<1>1. CASE ReadClock(p) \/ TakeLease(p)
  <2>1. /\ log' = log /\ checkpoint' = checkpoint
        /\ \A q \in Processes : InPoll(q)' => pc'[q] = pc[q] /\ poll'[q] = poll[q]
        /\ \A q \in Processes : pc[q] = "append" => pc'[q] = "append"
    BY <1>0, <1>1 DEF ReadClock, TakeLease, InPoll
  <2> QED BY <2>1, OrderKept DEF InPoll
<1>2. CASE HeldOff(p) \/ Abort(p) \/ Crash(p)
  <2>1. /\ log' = log /\ checkpoint' = checkpoint /\ Rest(p)
        /\ pc[p] = "append" => ~poll[p].fresh \/ poll[p].next = checkpoint
    BY <1>2 DEF HeldOff, Abort, Crash, Unsaved
  <2>2. \A q \in Processes :
          \/ q # p /\ pc'[q] = pc[q] /\ poll'[q] = poll[q]
          \/ q = p /\ pc'[q] = "idle"
    BY <2>1, RestPolls
  <2>3. \A q \in Processes : InPoll(q)' => pc'[q] = pc[q] /\ poll'[q] = poll[q]
    BY <2>2 DEF InPoll
  <2>4. \A q \in Processes : pc[q] = "append" /\ ~InPoll(q)' =>
          ~poll[q].fresh \/ poll[q].next = checkpoint
    BY <2>1, <2>2 DEF InPoll
  <2> QED BY <2>1, <2>3, <2>4, OrderKept
<1> QED BY <1>1, <1>2

\* A poll that opens alone has the saved checkpoint, and decides from it.
LEMMA OpenOrder ==
  ASSUME TypeOK, Rested, InOrder, ~diverged', NEW p \in Processes, Load(p) \/ Probe(p)
  PROVE  InOrder'
<1>0. /\ pc \in [Processes -> Steps] /\ poll \in [Processes -> Polls]
      /\ log \in Seq(Events) /\ checkpoint \in Checkpoints /\ source \in Views
  BY DEF TypeOK
<1>1. CASE Load(p)
  <2>1. \A q \in Processes : ~InPoll(q)
    BY <1>1 DEF Load
  <2>2. \A q \in Processes : q # p => pc'[q] = pc[q]
    BY <1>0, <1>1 DEF Load
  <2>3. pc'[p] = "loaded" /\ poll'[p].next = checkpoint
    BY <1>0, <1>1 DEF Load, Polls
  <2>4. log' = log /\ checkpoint' = checkpoint
    BY <1>1 DEF Load
  <2>5. \A q \in Processes : pc[q] # "append" /\ pc'[q] # "append"
    BY <2>1, <2>2, <2>3 DEF InPoll
  <2>6. \A q \in Processes : pc'[q] = "loaded" => q = p
    BY <2>1, <2>2 DEF InPoll
  <2>7. Ascends(log) /\ Fits(log, checkpoint)
    BY <2>5 DEF InOrder
  <2>8. \A q \in Processes : InPoll(q)' => q = p
    BY <2>5, <2>6 DEF InPoll
  <2> QED BY <2>3, <2>4, <2>5, <2>6, <2>7, <2>8 DEF InOrder
<1>2. CASE Probe(p)
  <2> DEFINE next == NextCheckpoint(checkpoint, source)
  <2>1. pc[p] = "loaded" /\ poll[p].next = checkpoint
    BY <1>2 DEF Probe, InOrder
  <2>2. \A q \in Processes : q # p => ~InPoll(q) /\ pc'[q] = pc[q]
    BY <1>0, <1>2, <2>1 DEF Probe, InOrder, InPoll
  <2>3. /\ poll'[p].next = next /\ poll'[p].saw = source
        /\ poll'[p].owed = Reports(checkpoint, source)
        /\ poll'[p].fresh = poll[p].fresh
    BY <1>0, <1>2, <2>1 DEF Probe, Polls
  <2>4. ~poll'[p].fresh
    BY <2>1, <2>3 DEF Rested
  <2>5. Fits(log, checkpoint)
    BY <2>1, <2>2 DEF InOrder, InPoll
  <2>6. Fits(log, next)
    BY <1>0, <2>5, FitsNext
  <2>7. log' = log /\ checkpoint' = checkpoint /\ pc'[p] = "append"
    BY <1>0, <1>2 DEF Probe
  <2>8. Sound(p)'
    <3> HIDE DEF next
    <3>1. Fits(log', poll'[p].next)
      BY <2>3, <2>6, <2>7
    <3>2. poll'[p].next = NextCheckpoint(checkpoint', poll'[p].saw)
      BY <2>3, <2>7 DEF next
    <3>3. poll'[p].owed = Reports(checkpoint', poll'[p].saw)
      BY <2>3, <2>7
    <3> QED BY <3>1, <3>2, <3>3 DEF Sound
  <2>9. \A q \in Processes : InPoll(q)' => q = p
    BY <2>2 DEF InPoll
  <2>10. \A q \in Processes : pc'[q] # "loaded"
    BY <2>2, <2>7 DEF InPoll
  <2>11. \A q \in Processes : pc'[q] = "append" => Sound(q)'
    BY <2>8, <2>9 DEF InPoll
  <2>12. Ascends(log)
    BY DEF InOrder
  <2> QED BY <2>5, <2>7, <2>9, <2>10, <2>11, <2>12 DEF InOrder
<1> QED BY <1>1, <1>2

\* What is owed is appended, found in the log, or lost.
LEMMA AppendOrder ==
  ASSUME TypeOK, InOrder, NEW p \in Processes, NEW e \in poll[p].owed,
         Land(p, e) \/ Lose(p, e)
  PROVE  InOrder'
<1> DEFINE q == poll[p]
           r == poll'[p]
<1>0. /\ pc \in [Processes -> Steps] /\ poll \in [Processes -> Polls]
      /\ log \in Seq(Events) /\ checkpoint \in Checkpoints
      /\ q.saw \in Views
  BY DEF TypeOK, Polls
<1>1. pc[p] = "append" /\ pc' = pc /\ checkpoint' = checkpoint
  BY DEF Land, Lose, Due
<1>2. \A o \in Processes : o # p => ~InPoll(o)
  BY <1>1 DEF InOrder, InPoll
<1>3. Sound(p) /\ Ascends(log)
  BY <1>1 DEF InOrder
<1>4. e \in Reports(checkpoint, q.saw)
  BY <1>3 DEF Sound
<1>5. /\ r.next = q.next /\ r.saw = q.saw /\ r.owed = q.owed \ {e}
      /\ (Land(p, e) => r.lost = q.lost) /\ (Lose(p, e) => r.lost)
  BY <1>0 DEF Land, Lose, Polls
<1> HIDE DEF q, r
<1>6. CASE Land(p, e) /\ ~InLog(e)
  <2>1. log' = Append(log, e)
    BY <1>6 DEF Land
  <2>2. r.fresh
    BY <1>0, <1>6 DEF Land, Polls, r
  <2>3. Fits(log', q.next) /\ Ascends(log')
    <3>1. \A n \in DOMAIN log : log[n] # e
      BY <1>6 DEF InLog
    <3>2. q.next = NextCheckpoint(checkpoint, q.saw) /\ Fits(log, q.next)
      BY <1>3 DEF Sound, q
    <3> QED BY <1>0, <1>3, <1>4, <2>1, <3>1, <3>2, LandKeeps
  <2>4. \A d : InLog(d) => InLog(d)'
    <3>1. \A n \in DOMAIN log : n \in DOMAIN log' /\ log'[n] = log[n]
      BY <1>0, <1>4, <2>1, ReportsType
    <3> QED BY <3>1 DEF InLog
  <2>5. InLog(e)'
    <3>1. e \in Events
      BY <1>0, <1>4, ReportsType
    <3>2. Len(log) + 1 \in DOMAIN log' /\ log'[Len(log) + 1] = e
      BY <1>0, <2>1, <3>1
    <3> QED BY <3>2 DEF InLog
  <2>6. Sound(p)'
    BY <1>1, <1>3, <1>5, <1>6, <2>3, <2>4, <2>5 DEF Sound, q, r
  <2> QED BY <1>1, <1>2, <2>2, <2>3, <2>6 DEF InOrder, InPoll, r
<1>7. CASE (Land(p, e) /\ InLog(e)) \/ Lose(p, e)
  <2>1. log' = log
    BY <1>7 DEF Land, Lose
  <2>2. r.fresh = q.fresh
    BY <1>0, <1>7 DEF Land, Lose, Polls, q, r
  <2>3. Sound(p)'
    BY <1>1, <1>3, <1>5, <1>7, <2>1 DEF Sound, InLog, q, r
  <2>4. ASSUME \A o \in Processes : pc'[o] = "append" => ~poll'[o].fresh
        PROVE  Fits(log', checkpoint')
    <3>1. \A o \in Processes : pc[o] = "append" => ~poll[o].fresh
      BY <1>1, <1>2, <2>2, <2>4 DEF InPoll, q, r
    <3> QED BY <1>1, <2>1, <3>1 DEF InOrder
  <2> QED BY <1>1, <1>2, <1>3, <2>1, <2>3, <2>4 DEF InOrder, InPoll
<1> QED BY <1>6, <1>7

\* A saved poll leaves the log fit for the checkpoint it saved.
LEMMA SaveOrder ==
  ASSUME TypeOK, InOrder, NEW p \in Processes, Save(p)
  PROVE  InOrder'
<1>1. pc[p] = "append" /\ Sound(p) /\ Ascends(log)
  BY DEF Save, Appended, InOrder
<1>2. log' = log /\ checkpoint' = poll[p].next /\ Rest(p)
  BY DEF Save
<1>3. Fits(log', checkpoint') /\ Ascends(log')
  BY <1>1, <1>2 DEF Sound
<1>4. \A q \in Processes : ~InPoll(q)'
  <2>1. \A q \in Processes : q # p => ~InPoll(q)
    BY <1>1 DEF InOrder, InPoll
  <2> QED BY <1>2, <2>1, RestPolls DEF InPoll
<1> QED BY <1>3, <1>4 DEF InOrder, InPoll

LEMMA DataStep == ASSUME TypeOK, DataInv, [Next]_vars PROVE DataInv'
<1>1. Rested'
  BY RestedStep DEF DataInv
<1>2. ASSUME ~diverged' PROVE InOrder'
  <2>1. ~diverged
    <3>1. diverged' = diverged \/ diverged' = (diverged \/ \E q \in Processes : InPoll(q))
          \/ \E p \in Processes :
               diverged' = (diverged \/ (poll[p].fresh /\ poll[p].next # checkpoint))
      BY DEF Next, vars, ReadClock, TakeLease, HeldOff, Load, Probe, Land, Save, Work,
             Lose, Abort, Crash, Unsaved, Change, Tick
    <3> QED BY <1>2, <3>1 DEF TypeOK
  <2>2. Rested /\ InOrder
    BY <2>1 DEF DataInv
  <2>3. CASE UNCHANGED vars \/ Change \/ Tick
    <3>1. log' = log /\ checkpoint' = checkpoint /\ pc' = pc /\ poll' = poll
      BY <2>3 DEF vars, procVars, Change, Tick
    <3> QED BY <2>2, <3>1, OrderKept DEF InPoll
  <2>4. ASSUME NEW p \in Processes, Work(p) \/ Abort(p) \/ Crash(p) PROVE InOrder'
    BY <1>2, <2>2, <2>4, EdgeOrder, OpenOrder, AppendOrder, SaveOrder DEF Work
  <2>5. ASSUME NEW p \in Processes, NEW e \in poll[p].owed, Lose(p, e) PROVE InOrder'
    BY <2>2, <2>5, AppendOrder
  <2> QED BY <2>3, <2>4, <2>5 DEF Next
<1> QED BY <1>1, <1>2 DEF DataInv

LEMMA InitData == Init => DataInv
<1> SUFFICES ASSUME Init PROVE DataInv
  OBVIOUS
<1>1. Rested
  BY DEF Init, Rested, NoPoll
<1>2. DOMAIN log = {}
  BY DEF Init
<1>3. \A p \in Processes : pc[p] = "idle"
  BY DEF Init
<1>4. Ascends(log) /\ Fits(log, checkpoint)
  BY <1>2 DEF Ascends, Fits
<1> QED BY <1>1, <1>3, <1>4 DEF DataInv, InOrder, InPoll

\* The log holds a poll that is done and lost nothing.
LEMMA DoneHolds ==
  ASSUME TypeOK, DataInv, NEW p \in Processes, Appended(p), ~poll[p].lost, ~diverged
  PROVE  /\ Holds(log, checkpoint, poll[p].saw)
         /\ log \in Seq(Events) /\ checkpoint \in Checkpoints /\ poll[p].saw \in Views
<1>1. log \in Seq(Events) /\ checkpoint \in Checkpoints /\ poll[p].saw \in Views
  BY DEF TypeOK, Polls
<1>2. Sound(p) /\ Ascends(log) /\ poll[p].owed = {}
  BY DEF DataInv, InOrder, Appended
<1>3. \A e \in Reports(checkpoint, poll[p].saw) : InLog(e)
  BY <1>2 DEF Sound
<1>4. Holds(log, checkpoint, poll[p].saw)
  BY <1>2, <1>3 DEF Sound, Holds, InLog
<1> QED BY <1>1, <1>4

LEMMA DataCorrect == Spec => []DataInv
<1>1. TypeOK /\ DataInv /\ [Next]_vars => DataInv'
  BY DataStep
<1> QED BY <1>1, InitData, TypeCorrect, PTL DEF Spec

\* Until a poll's record is lost, the header shows what the latest poll found,
\* whatever the sequence of outages, causes, recoveries, crashes and failed appends.
THEOREM TallyIsTrue == Spec => []TallyFollowsPoll
<1>1. TypeOK /\ DataInv => TallyFollowsPoll
  <2> SUFFICES ASSUME TypeOK, DataInv, NEW p \in Processes,
                      Appended(p), ~poll[p].lost, ~diverged
               PROVE  Branded <=> ~Up(poll[p].saw)
    BY DEF TallyFollowsPoll
  <2>1. /\ Holds(log, checkpoint, poll[p].saw)
        /\ log \in Seq(Events) /\ checkpoint \in Checkpoints /\ poll[p].saw \in Views
    BY DoneHolds
  <2>2. CASE ~Up(poll[p].saw)
    BY <2>1, <2>2, HeldFinding DEF Branded
  <2>3. CASE Up(poll[p].saw)
    BY <2>1, <2>3, HeldObservation DEF Branded
  <2> QED BY <2>2, <2>3
<1> QED BY <1>1, TypeCorrect, DataCorrect, PTL

\* ... and the board shows every item as the latest poll found it.
THEOREM BoardIsTrue == Spec => []BoardFollowsPoll
<1>1. TypeOK /\ DataInv => BoardFollowsPoll
  <2> SUFFICES ASSUME TypeOK, DataInv, NEW p \in Processes,
                      Appended(p), ~poll[p].lost, ~diverged, Up(poll[p].saw),
                      NEW i \in Present(poll[p].saw)
               PROVE  Shows(i, poll[p].saw.items[i])
    BY DEF BoardFollowsPoll
  <2>1. /\ Holds(log, checkpoint, poll[p].saw)
        /\ log \in Seq(Events) /\ checkpoint \in Checkpoints /\ poll[p].saw \in Views
    BY DoneHolds
  <2> QED BY <2>1, HeldSnapshot DEF Shows
<1> QED BY <1>1, TypeCorrect, DataCorrect, PTL

===============================================================================
