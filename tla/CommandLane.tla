------------------------------ MODULE CommandLane ------------------------------
(***************************************************************************)
(* The persisted command queue and the lanes that consume it.  A console   *)
(* session appends an operator's command and wakes its command worker; for *)
(* every wake the worker spawns a factory lane on a thread of its own and  *)
(* then runs the control lane itself.  Consoles share the store, so any    *)
(* number of lanes of any console work on the same rows.                   *)
(*                                                                         *)
(* A lane runs handlers one after another (factory: the factory handler,   *)
(* then the two control handlers; control: the two control handlers).  A   *)
(* handler fails stale claims, lists the commands once, and then claims,   *)
(* executes and finalizes each pending one of its own, working from that   *)
(* list.  Every store access is a statement of its own.  The main thread   *)
(* of a process runs the three handlers too: when its session has ended,   *)
(* to flush what is left, or instead of a session, for a headless report.  *)
(***************************************************************************)
EXTENDS Naturals, Sequences

CONSTANTS Consoles,        \* console processes on one store
          FactoryThreads,  \* bound: live factory lanes of one console
          Commands,        \* command rows, numbered in the order of their ids
          NoCommand,
          Kind, Aggregate, \* of each command
          StaleAfter,      \* age at which an executing claim is failed
          MaxTime,         \* bound: the clock stops here
          MaxPresses,      \* bound: commands the operators press, repeats included
          MaxPasses,       \* bound: passes of the main threads
          MaxFaults        \* bound: crashes and failed store or port calls

Kinds == {"drain", "dispatch", "valve", "config"}
Handlers == {"none", "factory", "work_item", "config"}

ASSUME CommandsAssumption == /\ Commands \subseteq Nat
                             /\ NoCommand \notin Commands
                             /\ Kind \in [Commands -> Kinds]
ASSUME BoundsAssumption == /\ FactoryThreads \in Nat /\ StaleAfter \in Nat
                           /\ MaxTime \in Nat /\ MaxPresses \in Nat
                           /\ MaxPasses \in Nat /\ MaxFaults \in Nat

\* Lane 0 of a console is its command worker, the last one its main thread, the
\* others are its factory threads.
Lanes == Consoles \X (0 .. FactoryThreads + 1)
Main(k) == <<k, FactoryThreads + 1>>
IsMain(l) == l = Main(l[1])

VARIABLES status,     \* the commands table: status, requested_at,
          requested,
          stamp,      \* and updated_at, read of executing rows only (else 0)
          logged,     \* outcome events of each command in the event log
          invoked,    \* calls of a port made for each command
          performed,  \* commands whose side effect the port carried out
          issued,     \* the order in which the commands were appended
          session,    \* when each console's session began, 0 when none runs
          unsent,     \* the session has appended a command and not sent its wake
          wakes,      \* HandleNow messages queued at each console's worker
          pc,         \* the step each lane is at
          handler,    \* the handler it is in
          at,         \* the clock it read when it started
          ready,      \* the drain policy it read: there is ready work
          todo,       \* the listed commands it has still to try
          cmd,        \* the command it has claimed
          verdict,    \* the status it will finalize that command with
          now, presses, passes, faults

rowVars     == <<status, requested, stamp>>
portVars    == <<invoked, performed>>
consoleVars == <<session, unsent, wakes>>
laneVars    == <<pc, handler, at, ready, todo, cmd, verdict>>
worldVars   == <<now, presses, passes, faults>>
vars == <<rowVars, logged, portVars, issued, consoleVars, laneVars, worldVars>>

Steps == {"idle", "spawned", "recover", "list", "next", "claimed", "outcome", "ended"}
InFlight == {"pending", "executing"}
Terminal == {"completed", "failed", "rejected", "not_wired"}

IsFactory(c) == Kind[c] \in {"drain", "dispatch"}
Handles(h, c) == CASE h = "factory"   -> IsFactory(c)
                   [] h = "work_item" -> Kind[c] = "valve"
                   [] h = "config"    -> Kind[c] = "config"

\* list_commands: order by requested_at, command_id
ListedBefore(b, c) == \/ requested[b] < requested[c]
                      \/ requested[b] = requested[c] /\ b < c

\* Mutant of Blocked: a factory command that is executing blocks nothing.
BlockedByPending(c) == \E f \in Commands : /\ IsFactory(f)
                                           /\ Aggregate[f] = Aggregate[c]
                                           /\ ListedBefore(f, c)
                                           /\ status[f] = "pending"

\* older_factory_command_blocks_control_command
Blocked(c) == \E f \in Commands : /\ IsFactory(f)
                                  /\ Aggregate[f] = Aggregate[c]
                                  /\ ListedBefore(f, c)
                                  /\ status[f] \in InFlight

\* The outcome events of a verdict: accepted, started and the outcome itself; a
\* rejection is alone, a setting or an unwired port has no start.
EventsOf(c, v) == CASE v = "rejected" -> 1
                    [] v = "not_wired" \/ Kind[c] = "config" -> 2
                    [] OTHER -> 3

-------------------------------------------------------------------------------
(* The session *)

Init == /\ status = [c \in Commands |-> "absent"]
        /\ requested = [c \in Commands |-> 0]
        /\ stamp = [c \in Commands |-> 0]
        /\ logged = [c \in Commands |-> 0]
        /\ invoked = [c \in Commands |-> 0]
        /\ performed = {}
        /\ issued = <<>>
        /\ session = [k \in Consoles |-> 0]
        /\ unsent = [k \in Consoles |-> FALSE]
        /\ wakes = [k \in Consoles |-> 0]
        /\ pc = [l \in Lanes |-> "idle"]
        /\ handler = [l \in Lanes |-> "none"]
        /\ at = [l \in Lanes |-> 0]
        /\ ready = [l \in Lanes |-> FALSE]
        /\ todo = [l \in Lanes |-> {}]
        /\ cmd = [l \in Lanes |-> NoCommand]
        /\ verdict = [l \in Lanes |-> "none"]
        /\ now = 1
        /\ presses = 0
        /\ passes = 0
        /\ faults = 0

OpenSession(k) ==
  /\ session[k] = 0 /\ pc[Main(k)] = "idle"
  /\ session' = [session EXCEPT ![k] = now]
  /\ UNCHANGED <<rowVars, logged, portVars, issued, unsent, wakes, laneVars, worldVars>>

\* The session appends before it wakes, and takes no other key in between.
InSession(k) == session[k] # 0 /\ ~unsent[k] /\ pc[Main(k)] = "idle"

Press(k) == /\ InSession(k)
            /\ presses < MaxPresses
            /\ presses' = presses + 1
            /\ unsent' = [unsent EXCEPT ![k] = TRUE]

\* Every command of a session carries the time the session began.
Issue(k, c) ==
  /\ Press(k)
  /\ status[c] = "absent"
  /\ status' = [status EXCEPT ![c] = "pending"]
  /\ requested' = [requested EXCEPT ![c] = session[k]]
  /\ issued' = Append(issued, c)
  /\ UNCHANGED <<stamp, logged, portVars, session, wakes, laneVars, now, passes, faults>>

\* An approve or accept that was already issued is absorbed, and wakes again;
\* after a failed attempt it would be a row of its own.
IssueAgain(k, c) ==
  /\ Press(k)
  /\ Kind[c] = "valve" /\ status[c] \notin {"absent", "failed", "rejected"}
  /\ UNCHANGED <<rowVars, logged, portVars, issued, session, wakes, laneVars, now, passes, faults>>

SendWake(k) ==
  /\ unsent[k]
  /\ unsent' = [unsent EXCEPT ![k] = FALSE]
  /\ wakes' = [wakes EXCEPT ![k] = @ + 1]
  /\ UNCHANGED <<rowVars, logged, portVars, issued, session, laneVars, worldVars>>

-------------------------------------------------------------------------------
(* The lanes *)

\* The worker takes a wake, spawns a factory lane and runs its own.
TakeWake(k, t) ==
  LET spawned == {<<k, 0>>, <<k, t>>}
  IN  /\ wakes[k] > 0
      /\ \A l \in spawned : pc[l] = "idle"
      /\ wakes' = [wakes EXCEPT ![k] = @ - 1]
      /\ pc' = [l \in Lanes |-> IF l \in spawned THEN "spawned" ELSE pc[l]]
      /\ UNCHANGED <<rowVars, logged, portVars, issued, session, unsent, handler, at, ready,
                     todo, cmd, verdict, worldVars>>

Enter(l, h) == /\ pc' = [pc EXCEPT ![l] = "recover"]
               /\ handler' = [handler EXCEPT ![l] = h]
               /\ ready' = [ready EXCEPT ![l] = FALSE]

Idle(l) == IF IsMain(l) /\ session[l[1]] # 0 THEN "ended" ELSE "idle"

EndLane(l) == /\ pc' = [pc EXCEPT ![l] = Idle(l)]
              /\ handler' = [handler EXCEPT ![l] = "none"]
              /\ at' = [at EXCEPT ![l] = 0]
              /\ UNCHANGED ready

BeginLane(l) ==
  /\ pc[l] = "spawned"
  /\ at' = [at EXCEPT ![l] = now]
  /\ Enter(l, IF l[2] = 0 THEN "work_item" ELSE "factory")
  /\ UNCHANGED <<rowVars, logged, portVars, issued, consoleVars, todo, cmd, verdict, worldVars>>

\* The session ends: its main thread flushes what is pending, with the clock and
\* the ports of the session.
Quit(k) ==
  /\ InSession(k)
  /\ passes < MaxPasses
  /\ passes' = passes + 1
  /\ at' = [at EXCEPT ![Main(k)] = session[k]]
  /\ Enter(Main(k), "factory")
  /\ UNCHANGED <<rowVars, logged, portVars, issued, consoleVars, todo, cmd, verdict, now,
                 presses, faults>>

\* serve without a terminal: a process that runs no session, only the handlers.
Serve(k) ==
  /\ session[k] = 0 /\ pc[Main(k)] = "idle"
  /\ passes < MaxPasses
  /\ passes' = passes + 1
  /\ at' = [at EXCEPT ![Main(k)] = now]
  /\ Enter(Main(k), "factory")
  /\ UNCHANGED <<rowVars, logged, portVars, issued, consoleVars, todo, cmd, verdict, now,
                 presses, faults>>

\* updated_at < observed_at - 24 h
Stale(l) == {c \in Commands : status[c] = "executing" /\ stamp[c] + StaleAfter < at[l]}

\* Mutant of Recover: the stale command is offered again.
RecoverByReoffering(l) ==
  /\ pc[l] = "recover"
  /\ status' = [c \in Commands |-> IF c \in Stale(l) THEN "pending" ELSE status[c]]
  /\ stamp' = [c \in Commands |-> IF c \in Stale(l) THEN 0 ELSE stamp[c]]
  /\ pc' = [pc EXCEPT ![l] = "list"]
  /\ UNCHANGED <<requested, logged, portVars, issued, consoleVars, handler, at, ready, todo,
                 cmd, verdict, worldVars>>

Recover(l) ==
  /\ pc[l] = "recover"
  /\ status' = [c \in Commands |-> IF c \in Stale(l) THEN "failed" ELSE status[c]]
  /\ stamp' = [c \in Commands |-> IF c \in Stale(l) THEN 0 ELSE stamp[c]]
  /\ pc' = [pc EXCEPT ![l] = "list"]
  /\ UNCHANGED <<requested, logged, portVars, issued, consoleVars, handler, at, ready, todo,
                 cmd, verdict, worldVars>>

\* The one listing the handler works from.  A control handler leaves out the
\* commands that an older factory command of the list blocks.
List(l) ==
  /\ pc[l] = "list"
  /\ \E r \in IF handler[l] = "factory" THEN BOOLEAN ELSE {FALSE} :
       ready' = [ready EXCEPT ![l] = r]
  /\ todo' = [todo EXCEPT ![l] = {c \in Commands : /\ status[c] = "pending"
                                                   /\ Handles(handler[l], c)
                                                   /\ IsFactory(c) \/ ~Blocked(c)}]
  /\ pc' = [pc EXCEPT ![l] = "next"]
  /\ UNCHANGED <<rowVars, logged, portVars, issued, consoleVars, handler, at, cmd, verdict,
                 worldVars>>

\* Mutant of Claimable: the claim trusts the listing.
ClaimableAsListed(c) == TRUE

Claimable(c) == status[c] = "pending"

\* claim_command moves a row only out of "pending"; its time is the lane's.
Claim(l) ==
  /\ pc[l] = "next"
  /\ \E c \in todo[l] :
       /\ \A d \in todo[l] \ {c} : ListedBefore(c, d)
       /\ todo' = [todo EXCEPT ![l] = @ \ {c}]
       /\ IF Claimable(c)
            THEN /\ status' = [status EXCEPT ![c] = "executing"]
                 /\ stamp' = [stamp EXCEPT ![c] = at[l]]
                 /\ cmd' = [cmd EXCEPT ![l] = c]
                 /\ pc' = [pc EXCEPT ![l] = "claimed"]
            ELSE UNCHANGED <<status, stamp, cmd, pc>>
  /\ UNCHANGED <<requested, logged, portVars, issued, consoleVars, handler, at, ready, verdict,
                 worldVars>>

Decide(l, v) == /\ verdict' = [verdict EXCEPT ![l] = v]
                /\ pc' = [pc EXCEPT ![l] = "outcome"]

\* A drain is rejected by the policy the handler read, and no port is called.
Reject(l) ==
  /\ pc[l] = "claimed"
  /\ Kind[cmd[l]] = "drain" /\ ~ready[l]
  /\ Decide(l, "rejected")
  /\ UNCHANGED <<rowVars, logged, portVars, issued, consoleVars, handler, at, ready, todo, cmd,
                 worldVars>>

\* A setting that could not be written is reported as not wired.  A drain that
\* parked at a human valve is a status of its own, here among the completed.
PortVerdicts(c) == {"completed", "not_wired"} \cup (IF Kind[c] = "config" THEN {} ELSE {"failed"})

\* The flush of a session that ended has no port for a dispatch.
NoDispatchPort(l) == IsMain(l) /\ session[l[1]] # 0

LeaveUnwired(l) ==
  /\ pc[l] = "claimed"
  /\ Kind[cmd[l]] = "dispatch" /\ NoDispatchPort(l)
  /\ Decide(l, "not_wired")
  /\ UNCHANGED <<rowVars, logged, portVars, issued, consoleVars, handler, at, ready, todo, cmd,
                 worldVars>>

CallPort(l) ==
  /\ pc[l] = "claimed"
  /\ Kind[cmd[l]] = "drain" => ready[l]
  /\ Kind[cmd[l]] = "dispatch" => ~NoDispatchPort(l)
  /\ invoked' = [invoked EXCEPT ![cmd[l]] = @ + 1]
  /\ \E v \in PortVerdicts(cmd[l]) :
       /\ performed' = IF v = "completed" THEN performed \cup {cmd[l]} ELSE performed
       /\ Decide(l, v)
  /\ UNCHANGED <<rowVars, logged, issued, consoleVars, handler, at, ready, todo, cmd, worldVars>>

\* Mutants of AllLogged: one event too few, one too many.
AllButOneLogged(l) == logged[cmd[l]] + 1 >= EventsOf(cmd[l], verdict[l])
OneMoreLogged(l) == logged[cmd[l]] > EventsOf(cmd[l], verdict[l])

AllLogged(l) == logged[cmd[l]] >= EventsOf(cmd[l], verdict[l])

LogOutcome(l) ==
  /\ pc[l] = "outcome" /\ ~AllLogged(l)
  /\ logged' = [logged EXCEPT ![cmd[l]] = @ + 1]
  /\ UNCHANGED <<rowVars, portVars, issued, consoleVars, laneVars, worldVars>>

Drop(l) == /\ todo' = [todo EXCEPT ![l] = {}]
           /\ cmd' = [cmd EXCEPT ![l] = NoCommand]
           /\ verdict' = [verdict EXCEPT ![l] = "none"]

\* Mutant of Following: the factory lane leaves the control handlers out.
FollowingInControlLane(h) == IF h = "work_item" THEN "config" ELSE "none"

Following(h) == CASE h = "factory"   -> "work_item"
                  [] h = "work_item" -> "config"
                  [] OTHER           -> "none"

Proceed(l) == IF Following(handler[l]) = "none"
                THEN EndLane(l)
                ELSE Enter(l, Following(handler[l])) /\ UNCHANGED at

\* A handler that fails returns at once: a lane runs the control handlers after
\* a failed factory handler and ends after a failed control handler, a main
\* thread ends.
Leave(l) == IF handler[l] = "factory" /\ ~IsMain(l) THEN Proceed(l) ELSE EndLane(l)

Fail(l) == Drop(l) /\ Leave(l)

Finalize(l) ==
  /\ pc[l] = "outcome" /\ AllLogged(l)
  /\ IF status[cmd[l]] = "executing"
       THEN /\ status' = [status EXCEPT ![cmd[l]] = verdict[l]]
            /\ stamp' = [stamp EXCEPT ![cmd[l]] = 0]
            /\ cmd' = [cmd EXCEPT ![l] = NoCommand]
            /\ verdict' = [verdict EXCEPT ![l] = "none"]
            /\ pc' = [pc EXCEPT ![l] = "next"]
            /\ UNCHANGED <<handler, at, ready, todo>>
       ELSE Fail(l) /\ UNCHANGED <<status, stamp>>  \* CommandNotFound
  /\ UNCHANGED <<requested, logged, portVars, issued, consoleVars, worldVars>>

EndHandler(l) ==
  /\ pc[l] = "next" /\ todo[l] = {}
  /\ Proceed(l)
  /\ UNCHANGED <<rowVars, logged, portVars, issued, consoleVars, todo, cmd, verdict, worldVars>>

-------------------------------------------------------------------------------
(* What goes wrong *)

Tick == /\ now < MaxTime
        /\ now' = now + 1
        /\ UNCHANGED <<rowVars, logged, portVars, issued, consoleVars, laneVars, presses, passes, faults>>

\* A store access failed, or the port returned an error: nothing is retried.
\* A lane that could not open the store ends before its first handler; a flush
\* that found the store busy skips to its next handler.
Abort(l) ==
  /\ faults < MaxFaults
  /\ faults' = faults + 1
  /\ pc[l] \notin {"idle", "ended"}
  /\ Drop(l)
  /\ IF pc[l] = "spawned"
       THEN EndLane(l)
       ELSE \/ Leave(l)
            \/ IsMain(l) /\ session[l[1]] # 0 /\ pc[l] # "claimed" /\ Proceed(l)
  /\ UNCHANGED <<rowVars, logged, portVars, issued, consoleVars, now, presses, passes>>

\* A process ends, and its threads with it.
Stop(k) ==
  LET its == {k} \X (0 .. FactoryThreads + 1)
      Reset(f, empty) == [l \in Lanes |-> IF l \in its THEN empty ELSE f[l]]
  IN  /\ session' = [session EXCEPT ![k] = 0]
      /\ unsent' = [unsent EXCEPT ![k] = FALSE]
      /\ wakes' = [wakes EXCEPT ![k] = 0]
      /\ pc' = Reset(pc, "idle") /\ handler' = Reset(handler, "none")
      /\ at' = Reset(at, 0) /\ ready' = Reset(ready, FALSE)
      /\ todo' = Reset(todo, {}) /\ cmd' = Reset(cmd, NoCommand)
      /\ verdict' = Reset(verdict, "none")
      /\ UNCHANGED <<rowVars, logged, portVars, issued, now, presses, passes>>

\* The flush is over; lanes that are still at work are not waited for.
Exit(k) == pc[Main(k)] = "ended" /\ Stop(k) /\ UNCHANGED faults

Crash(k) ==
  /\ session[k] # 0 \/ pc[Main(k)] # "idle"
  /\ faults < MaxFaults
  /\ faults' = faults + 1
  /\ Stop(k)

Work(l) == \/ BeginLane(l) \/ Recover(l) \/ List(l) \/ Claim(l) \/ Reject(l)
           \/ LeaveUnwired(l) \/ CallPort(l) \/ LogOutcome(l) \/ Finalize(l) \/ EndHandler(l)

Wake(k) == SendWake(k) \/ \E t \in 1 .. FactoryThreads : TakeWake(k, t)

Next == \/ Tick
        \/ \E k \in Consoles : \/ OpenSession(k) \/ Quit(k) \/ Serve(k) \/ Exit(k)
                               \/ Crash(k) \/ Wake(k)
                               \/ \E c \in Commands : Issue(k, c) \/ IssueAgain(k, c)
        \/ \E l \in Lanes : Work(l) \/ Abort(l)

\* Threads run and ports return; nobody has to press a key, and the clock of a
\* bounded model may stop.
Fairness == /\ \A l \in Lanes : WF_vars(Work(l))
            /\ \A k \in Consoles : WF_vars(Wake(k)) /\ WF_vars(Exit(k))

Spec == Init /\ [][Next]_vars /\ Fairness

-------------------------------------------------------------------------------
(* Properties *)

\* Type invariant.
TypeOK ==
  /\ status \in [Commands -> {"absent"} \cup InFlight \cup Terminal]
  /\ requested \in [Commands -> Nat]
  /\ stamp \in [Commands -> Nat]
  /\ logged \in [Commands -> 0 .. 3]
  /\ invoked \in [Commands -> Nat]
  /\ performed \subseteq Commands
  /\ issued \in Seq(Commands)
  /\ session \in [Consoles -> Nat]
  /\ unsent \in [Consoles -> BOOLEAN]
  /\ wakes \in [Consoles -> Nat]
  /\ pc \in [Lanes -> Steps]
  /\ handler \in [Lanes -> Handlers]
  /\ at \in [Lanes -> Nat]
  /\ ready \in [Lanes -> BOOLEAN]
  /\ todo \in [Lanes -> SUBSET Commands]
  /\ cmd \in [Lanes -> Commands \cup {NoCommand}]
  /\ verdict \in [Lanes -> Terminal \cup {"none"}]
  /\ now \in Nat /\ presses \in 0 .. MaxPresses
  /\ passes \in 0 .. MaxPasses /\ faults \in 0 .. MaxFaults

\* However many lanes of however many consoles list the same pending row, and
\* whatever is recovered under them, its port is called at most once
\* (claim_command, Scenario 24).
RunOnce == \A c \in Commands : invoked[c] <= 1

\* A terminal status other than the recovery's "failed" is backed by what
\* happened and by the full set of its outcome events (finalize_pending_command).
HonestStatus ==
  \A c \in Commands :
    /\ status[c] = "completed" => c \in performed
    /\ status[c] = "not_wired" => c \notin performed
    /\ status[c] = "rejected"  => invoked[c] = 0
    /\ status[c] \in {"completed", "not_wired", "rejected"} => logged[c] = EventsOf(c, status[c])

IssuedBefore(b, c) == \E i, j \in DOMAIN issued : i < j /\ issued[i] = b /\ issued[j] = c

\* A claimed control command runs beside no factory command of its aggregate
\* that was appended before it and is listed before it: the listing it was
\* taken from may be old by now, what it decided is not.
QueueOrder ==
  \A l \in Lanes :
    LET c == cmd[l]
    IN  c # NoCommand /\ ~IsFactory(c) =>
          \A f \in Commands :
            /\ IsFactory(f) /\ Aggregate[f] = Aggregate[c]
            /\ IssuedBefore(f, c) /\ ListedBefore(f, c)
            => status[f] \notin InFlight

\* The lanes implement the queue's promise.
Queue == INSTANCE CommandQueue WITH row <- status, asked <- invoked, landed <- performed
ImplementsCommandQueue == Queue!Spec

\* While nothing fails, every command is handled: one that a lane had to leave
\* behind an executing factory command is picked up by the lane that ran it.
EveryCommandHandled ==
  \A c \in Commands : status[c] = "pending" ~> status[c] \in Terminal

\* No fault yet, no quit and no headless pass, and too early for a stale claim.
Undisturbed == faults = 0 /\ passes = 0 /\ now <= StaleAfter + 1

\* The lane has still to list the commands that c's handler takes.
YetToList(l, c) ==
  \/ pc[l] = "spawned" /\ (IsFactory(c) => l[2] # 0)
  \/ pc[l] \in {"recover", "list"} /\ Handles(handler[l], c)
  \/ handler[l] = "factory" /\ ~IsFactory(c)
  \/ handler[l] = "work_item" /\ Kind[c] = "config"

\* Its wake is still to be sent or taken, or a lane has still to list or try it.
Expected(c) == \/ \E k \in Consoles : unsent[k] \/ wakes[k] > 0
               \/ \E l \in Lanes : YetToList(l, c) \/ c \in todo[l]

\* What EveryCommandHandled rests on: while nothing fails, no pending command is
\* ever one that nobody is going to look at.  A valve left out of its own lane's
\* listing is behind a factory command, whose lane goes on to the valves
\* (handle_pending_factory_commands, then handle_pending_control_commands).
NothingStranded ==
  Undisturbed => \A c \in Commands : status[c] = "pending" => Expected(c)

\* contracts.md, the command queue: recovery never steals a live claim.
LiveClaimKept ==
  [][\A l \in Lanes : /\ pc[l] \in {"claimed", "outcome"} /\ status[cmd[l]] = "executing"
                      /\ pc'[l] = pc[l] /\ cmd'[l] = cmd[l]
                      => status'[cmd[l]] = "executing"]_vars

\* handle_pending_control_commands: a control command does not overtake an
\* older pending or executing factory command of its aggregate.
NoOvertaking ==
  \A l \in Lanes :
    LET c == cmd[l]
    IN  c # NoCommand /\ ~IsFactory(c) =>
          \A f \in Commands :
            IsFactory(f) /\ Aggregate[f] = Aggregate[c] /\ IssuedBefore(f, c)
              => status[f] \notin InFlight

\* contracts.md, per-item dispatch: what is forbidden is the unconditional
\* refusal; a dispatch is not wired only if its port was asked and said so.
DispatchIsAsked ==
  \A c \in Commands : Kind[c] = "dispatch" /\ status[c] = "not_wired" => invoked[c] = 1
===============================================================================
