--------------------------- MODULE CommandLaneProofs ---------------------------
(***************************************************************************)
(* Proofs about the command queue and its lanes, for any number of         *)
(* consoles, threads, commands and faults, any clock and any stale age.    *)
(*                                                                         *)
(* The argument: a claim moves a row out of "pending", and no row ever     *)
(* returns there, so a row has one claimant for ever (SoleClaimant); until *)
(* it is claimed nothing was done for it (Untouched), and from then on     *)
(* only its claimant calls its port and logs its outcome (Claims).         *)
(* While nothing disturbs, a factory command in flight is in the hands, or *)
(* before the eyes, of a lane that goes on to the control commands behind  *)
(* it (FactoryGoesOn), so that none of them is left over.                  *)
(***************************************************************************)
EXTENDS CommandLane, TLAPS

Backed(c, v) == /\ v = "completed" => c \in performed
                /\ v = "not_wired" => c \notin performed
                /\ v = "rejected"  => invoked[c] = 0

\* A lane holds a command from its claim to its status, and what it is about
\* to write is backed by what it did.
Claims ==
  \A l \in Lanes :
    /\ cmd[l] # NoCommand <=> pc[l] \in {"claimed", "outcome"}
    /\ cmd[l] # NoCommand => status[cmd[l]] \in {"executing", "failed"}
    /\ pc[l] = "claimed" => /\ invoked[cmd[l]] = 0
                            /\ logged[cmd[l]] = 0
                            /\ cmd[l] \notin performed
    /\ pc[l] = "outcome" => /\ verdict[l] \in Terminal
                            /\ logged[cmd[l]] <= EventsOf(cmd[l], verdict[l])
                            /\ Backed(cmd[l], verdict[l])

SoleClaimant ==
  \A l, m \in Lanes : cmd[l] = cmd[m] /\ cmd[l] # NoCommand => l = m

Untouched ==
  \A c \in Commands :
    status[c] \in {"absent", "pending"} =>
      invoked[c] = 0 /\ logged[c] = 0 /\ c \notin performed

\* The number of outcome events of a verdict is one, two or three.
LEMMA EventCount ==
  \A c, v : EventsOf(c, v) \in 1 .. 3
BY DEF EventsOf

\* A finite sequence grows by one element at its end.
LEMMA IssueType ==
  ASSUME NEW s \in Seq(Commands), NEW c \in Commands
  PROVE  Append(s, c) \in Seq(Commands)
OBVIOUS

\* The initial state is of the right type.
LEMMA InitType == Init => TypeOK
BY BoundsAssumption DEF BoundsAssumption, Init, TypeOK, Steps, Handlers, InFlight, Terminal

\* What a lane is given when it enters a handler, ends or leaves one.
LEMMA LeaveType ==
  ASSUME TypeOK, NEW l \in Lanes,
         \/ \E h \in Handlers : Enter(l, h) /\ UNCHANGED at
         \/ EndLane(l) \/ Leave(l) \/ Proceed(l)
  PROVE  /\ pc' \in [Lanes -> Steps] /\ handler' \in [Lanes -> Handlers]
         /\ at' \in [Lanes -> Nat] /\ ready' \in [Lanes -> BOOLEAN]
<1>1. ASSUME NEW h \in Handlers, Enter(l, h), UNCHANGED at
      PROVE  /\ pc' \in [Lanes -> Steps] /\ handler' \in [Lanes -> Handlers]
             /\ at' \in [Lanes -> Nat] /\ ready' \in [Lanes -> BOOLEAN]
  BY <1>1 DEF Enter, TypeOK, Steps
<1>2. ASSUME EndLane(l)
      PROVE  /\ pc' \in [Lanes -> Steps] /\ handler' \in [Lanes -> Handlers]
             /\ at' \in [Lanes -> Nat] /\ ready' \in [Lanes -> BOOLEAN]
  BY <1>2 DEF EndLane, Idle, TypeOK, Steps, Handlers
<1> QED BY <1>1, <1>2 DEF Leave, Proceed, Following, Handlers

\* Every step keeps every variable in its type.
LEMMA TypeStep == Claims /\ TypeOK /\ [Next]_vars => TypeOK'
<1> SUFFICES ASSUME Claims, TypeOK, [Next]_vars PROVE TypeOK'
  OBVIOUS
<1> USE DEF rowVars, portVars, consoleVars, laneVars, worldVars, Steps, Handlers, InFlight, Terminal
<1>0. UNCHANGED vars => TypeOK'
  BY DEF vars, TypeOK
<1>1. ASSUME Tick PROVE TypeOK'
  BY <1>1 DEF Tick, TypeOK
<1>2. ASSUME NEW k \in Consoles, OpenSession(k) PROVE TypeOK'
  BY <1>2 DEF OpenSession, TypeOK
<1>3. ASSUME NEW k \in Consoles, NEW c \in Commands, Issue(k, c) PROVE TypeOK'
  BY <1>3, BoundsAssumption, IssueType DEF BoundsAssumption, Issue, Press, TypeOK
<1>4. ASSUME NEW k \in Consoles, NEW c \in Commands, IssueAgain(k, c) PROVE TypeOK'
  BY <1>4, BoundsAssumption DEF BoundsAssumption, IssueAgain, Press, TypeOK
<1>5. ASSUME NEW k \in Consoles, SendWake(k) PROVE TypeOK'
  <2>1. wakes[k] + 1 \in Nat
    BY DEF TypeOK
  <2>2. wakes' = [wakes EXCEPT ![k] = wakes[k] + 1] /\ unsent' = [unsent EXCEPT ![k] = FALSE]
    BY <1>5 DEF SendWake
  <2>3. wakes' \in [Consoles -> Nat] /\ unsent' \in [Consoles -> BOOLEAN]
    BY <2>1, <2>2 DEF TypeOK
  <2> QED BY <1>5, <2>3 DEF SendWake, TypeOK
<1>6. ASSUME NEW k \in Consoles, NEW t \in 1 .. FactoryThreads, TakeWake(k, t) PROVE TypeOK'
  <2>1. wakes[k] - 1 \in Nat
    BY <1>6 DEF TakeWake, TypeOK
  <2>2. wakes' = [wakes EXCEPT ![k] = wakes[k] - 1]
    BY <1>6 DEF TakeWake
  <2>3. wakes' \in [Consoles -> Nat]
    BY <2>1, <2>2 DEF TypeOK
  <2>4. pc' = [l \in Lanes |-> IF l \in {<<k, 0>>, <<k, t>>} THEN "spawned" ELSE pc[l]]
    BY <1>6 DEF TakeWake
  <2>5. pc' \in [Lanes -> Steps]
    BY <2>4 DEF TypeOK
  <2> QED BY <1>6, <2>3, <2>5 DEF TakeWake, TypeOK
<1>7. ASSUME NEW l \in Lanes, BeginLane(l) PROVE TypeOK'
  BY <1>7 DEF BeginLane, Enter, TypeOK
<1>8. ASSUME NEW l \in Lanes, Recover(l) PROVE TypeOK'
  BY <1>8 DEF Recover, TypeOK
<1>9. ASSUME NEW l \in Lanes, List(l) PROVE TypeOK'
  BY <1>9 DEF List, TypeOK
<1>10. ASSUME NEW l \in Lanes, Claim(l) PROVE TypeOK'
  <2>1. PICK c \in todo[l] :
          /\ todo' = [todo EXCEPT ![l] = @ \ {c}]
          /\ IF Claimable(c)
               THEN /\ status' = [status EXCEPT ![c] = "executing"]
                    /\ stamp' = [stamp EXCEPT ![c] = at[l]]
                    /\ cmd' = [cmd EXCEPT ![l] = c]
                    /\ pc' = [pc EXCEPT ![l] = "claimed"]
               ELSE UNCHANGED <<status, stamp, cmd, pc>>
    BY <1>10 DEF Claim
  <2>2. c \in Commands /\ at[l] \in Nat /\ todo[l] \ {c} \in SUBSET Commands
    BY DEF TypeOK
  <2>3. todo' \in [Lanes -> SUBSET Commands]
    BY <2>1, <2>2 DEF TypeOK
  <2>4. CASE Claimable(c)
    <3>0. /\ status' = [status EXCEPT ![c] = "executing"]
          /\ stamp' = [stamp EXCEPT ![c] = at[l]]
          /\ cmd' = [cmd EXCEPT ![l] = c]
          /\ pc' = [pc EXCEPT ![l] = "claimed"]
      BY <2>1, <2>4
    <3>1. status' \in [Commands -> {"absent"} \cup InFlight \cup Terminal]
      BY <2>2, <3>0 DEF TypeOK
    <3>2. stamp' \in [Commands -> Nat]
      BY <2>2, <3>0 DEF TypeOK
    <3>3. cmd' \in [Lanes -> Commands \cup {NoCommand}]
      BY <2>2, <3>0 DEF TypeOK
    <3>4. pc' \in [Lanes -> Steps]
      BY <3>0 DEF TypeOK
    <3> QED BY <1>10, <2>3, <3>1, <3>2, <3>3, <3>4 DEF Claim, TypeOK
  <2>5. CASE ~Claimable(c)
    BY <1>10, <2>1, <2>3, <2>5 DEF Claim, TypeOK
  <2> QED BY <2>4, <2>5
<1>11. ASSUME NEW l \in Lanes, Reject(l) PROVE TypeOK'
  BY <1>11 DEF Reject, Decide, TypeOK
<1>12. ASSUME NEW l \in Lanes, CallPort(l) PROVE TypeOK'
  <2>1. cmd[l] \in Commands
    BY <1>12 DEF CallPort, TypeOK, Claims
  <2>2. PICK v \in PortVerdicts(cmd[l]) :
          /\ performed' = IF v = "completed" THEN performed \cup {cmd[l]} ELSE performed
          /\ Decide(l, v)
    BY <1>12 DEF CallPort
  <2>3. v \in Terminal
    BY DEF PortVerdicts
  <2>4. verdict' \in [Lanes -> Terminal \cup {"none"}] /\ pc' \in [Lanes -> Steps]
    BY <2>2, <2>3 DEF Decide, TypeOK
  <2>5. performed' \subseteq Commands
    BY <2>1, <2>2 DEF TypeOK
  <2>6. invoked' \in [Commands -> Nat]
    <3>1. invoked[cmd[l]] + 1 \in Nat
      BY <2>1 DEF TypeOK
    <3>2. invoked' = [invoked EXCEPT ![cmd[l]] = invoked[cmd[l]] + 1]
      BY <1>12 DEF CallPort
    <3> QED BY <3>1, <3>2 DEF TypeOK
  <2>7. UNCHANGED <<rowVars, logged, issued, consoleVars, handler, at, ready, todo, cmd, worldVars>>
    BY <1>12 DEF CallPort
  <2> QED BY <2>4, <2>5, <2>6, <2>7 DEF TypeOK
<1>13. ASSUME NEW l \in Lanes, LogOutcome(l) PROVE TypeOK'
  <2>1. cmd[l] \in Commands
    BY <1>13 DEF LogOutcome, TypeOK, Claims
  <2>2. EventsOf(cmd[l], verdict[l]) \in 1 .. 3 /\ logged[cmd[l]] \in 0 .. 3
    BY <2>1, EventCount DEF TypeOK
  <2>3. logged[cmd[l]] + 1 \in 0 .. 3
    BY <1>13, <2>2 DEF LogOutcome, AllLogged
  <2> QED BY <1>13, <2>1, <2>3 DEF LogOutcome, TypeOK
<1>14. ASSUME NEW l \in Lanes, Finalize(l) PROVE TypeOK'
  <2>1. cmd[l] \in Commands /\ verdict[l] \in Terminal
    BY <1>14 DEF Finalize, TypeOK, Claims
  <2>2. CASE status[cmd[l]] = "executing"
    <3>1. /\ status' = [status EXCEPT ![cmd[l]] = verdict[l]]
          /\ stamp' = [stamp EXCEPT ![cmd[l]] = 0]
          /\ cmd' = [cmd EXCEPT ![l] = NoCommand]
          /\ verdict' = [verdict EXCEPT ![l] = "none"]
          /\ pc' = [pc EXCEPT ![l] = "next"]
          /\ UNCHANGED <<handler, at, ready, todo>>
      BY <1>14, <2>2 DEF Finalize
    <3> QED BY <1>14, <2>1, <3>1 DEF Finalize, TypeOK
  <2>3. CASE status[cmd[l]] # "executing"
    <3>1. Drop(l) /\ Leave(l) /\ UNCHANGED <<status, stamp>>
      BY <1>14, <2>3 DEF Finalize, Fail
    <3> QED BY <1>14, <3>1, LeaveType DEF Finalize, Drop, TypeOK
  <2> QED BY <2>2, <2>3
<1>15. ASSUME NEW l \in Lanes, EndHandler(l) PROVE TypeOK'
  BY <1>15, LeaveType DEF EndHandler, TypeOK
<1>16. ASSUME NEW l \in Lanes, Abort(l) PROVE TypeOK'
  <2>1. Drop(l) /\ (Leave(l) \/ EndLane(l) \/ Proceed(l)) /\ faults' \in 0 .. MaxFaults
    BY <1>16, BoundsAssumption DEF BoundsAssumption, Abort, TypeOK
  <2> QED BY <1>16, <2>1, LeaveType DEF Abort, Drop, TypeOK
<1>17. ASSUME NEW k \in Consoles, Crash(k) \/ Exit(k) PROVE TypeOK'
  <2>0. Stop(k)
    BY <1>17 DEF Crash, Exit
  <2>1. /\ pc' \in [Lanes -> Steps] /\ handler' \in [Lanes -> Handlers]
        /\ at' \in [Lanes -> Nat] /\ ready' \in [Lanes -> BOOLEAN]
    BY <2>0 DEF Stop, TypeOK
  <2>2. /\ todo' \in [Lanes -> SUBSET Commands]
        /\ cmd' \in [Lanes -> Commands \cup {NoCommand}]
        /\ verdict' \in [Lanes -> Terminal \cup {"none"}]
    BY <2>0 DEF Stop, TypeOK
  <2>3. faults' \in 0 .. MaxFaults
    BY <1>17, BoundsAssumption DEF BoundsAssumption, Crash, Exit, TypeOK
  <2> QED BY <2>0, <2>1, <2>2, <2>3 DEF Stop, TypeOK
<1>18. ASSUME NEW k \in Consoles, Quit(k) \/ Serve(k) PROVE TypeOK'
  <2>1. Main(k) \in Lanes
    BY BoundsAssumption DEF BoundsAssumption, Main, Lanes
  <2>2. passes' \in 0 .. MaxPasses
    BY <1>18, BoundsAssumption DEF BoundsAssumption, Quit, Serve, TypeOK
  <2>3. \E n \in Nat : at' = [at EXCEPT ![Main(k)] = n]
    BY <1>18 DEF Quit, Serve, TypeOK
  <2>4. at' \in [Lanes -> Nat]
    BY <2>1, <2>3 DEF TypeOK
  <2>5. Enter(Main(k), "factory")
    BY <1>18 DEF Quit, Serve
  <2> QED BY <1>18, <2>1, <2>2, <2>4, <2>5 DEF Quit, Serve, Enter, TypeOK
<1>19. ASSUME NEW l \in Lanes, LeaveUnwired(l) PROVE TypeOK'
  BY <1>19 DEF LeaveUnwired, Decide, TypeOK
<1> QED
  BY <1>0, <1>1, <1>2, <1>3, <1>4, <1>5, <1>6, <1>7, <1>8, <1>9, <1>10, <1>11, <1>12, <1>13,
     <1>14, <1>15, <1>16, <1>17, <1>18, <1>19 DEF Next, Wake, Work

-------------------------------------------------------------------------------
(* Who holds a command, and what was done for it *)

Kept == Claims /\ SoleClaimant /\ Untouched /\ RunOnce /\ HonestStatus

\* The lane goes on with what it holds, or holds nothing any more.
Holds(l) == cmd'[l] = cmd[l] /\ pc'[l] = pc[l] /\ verdict'[l] = verdict[l]
LetsGo(l) == cmd'[l] = NoCommand /\ pc'[l] \notin {"claimed", "outcome"}

\* A step that touches neither rows nor ports, by which no lane comes to hold
\* a command, keeps all that was said of the held ones.
LEMMA LetGo ==
  ASSUME TypeOK, Kept, UNCHANGED <<status, logged, invoked, performed>>,
         \A l \in Lanes : Holds(l) \/ LetsGo(l)
  PROVE  Kept'
<1>1. Untouched' /\ RunOnce' /\ HonestStatus'
  BY DEF Kept, Untouched, RunOnce, HonestStatus
<1>2. Claims'
  BY DEF Kept, Claims, Backed, Holds, LetsGo
<1>3. SoleClaimant'
  BY DEF Kept, SoleClaimant, Holds, LetsGo
<1> QED BY <1>1, <1>2, <1>3 DEF Kept

\* The steps of that kind: everything but issuing, recovering, claiming,
\* calling, logging and finalizing.
LEMMA QuietStep ==
  ASSUME TypeOK, Kept,
         \/ UNCHANGED vars
         \/ Tick
         \/ \E k \in Consoles :
              \/ OpenSession(k) \/ SendWake(k) \/ Quit(k) \/ Serve(k) \/ Exit(k) \/ Crash(k)
              \/ \E t \in 1 .. FactoryThreads : TakeWake(k, t)
              \/ \E c \in Commands : IssueAgain(k, c)
         \/ \E l \in Lanes : BeginLane(l) \/ List(l) \/ EndHandler(l) \/ Abort(l)
  PROVE  Kept'
<1> USE DEF rowVars, portVars, laneVars, worldVars, consoleVars
<1>1. CASE \/ UNCHANGED vars \/ Tick
           \/ \E k \in Consoles : \/ OpenSession(k) \/ SendWake(k)
                                  \/ \E c \in Commands : IssueAgain(k, c)
  <2>1. UNCHANGED <<status, logged, invoked, performed, cmd, pc, verdict>>
    BY <1>1 DEF vars, Tick, OpenSession, SendWake, IssueAgain
  <2> QED BY <2>1, LetGo DEF Holds
<1>2. ASSUME NEW k \in Consoles, NEW t \in 1 .. FactoryThreads, TakeWake(k, t) PROVE Kept'
  <2>1. UNCHANGED <<status, logged, invoked, performed, cmd, verdict>>
    BY <1>2 DEF TakeWake
  <2>2. \A l \in Lanes : pc'[l] = pc[l] \/ (pc[l] = "idle" /\ pc'[l] = "spawned")
    BY <1>2 DEF TakeWake
  <2>3. \A l \in Lanes : pc[l] = "idle" => cmd[l] = NoCommand
    BY DEF Kept, Claims
  <2> QED BY <2>1, <2>2, <2>3, LetGo DEF Holds, LetsGo
<1>3. ASSUME NEW k \in Consoles, Exit(k) \/ Crash(k) PROVE Kept'
  <2>1. UNCHANGED <<status, logged, invoked, performed>> /\ Stop(k)
    BY <1>3 DEF Exit, Crash, Stop
  <2>2. \A l \in Lanes : Holds(l) \/ LetsGo(l)
    BY <2>1 DEF Stop, Holds, LetsGo
  <2> QED BY <2>1, <2>2, LetGo
<1>4. ASSUME NEW l \in Lanes, BeginLane(l) \/ List(l) \/ EndHandler(l) PROVE Kept'
  <2>1. UNCHANGED <<status, logged, invoked, performed, cmd, verdict>>
    BY <1>4 DEF BeginLane, List, EndHandler
  <2>2. pc[l] \notin {"claimed", "outcome"} /\ cmd[l] = NoCommand
    BY <1>4 DEF BeginLane, List, EndHandler, Kept, Claims
  <2>3. \E s \in {"idle", "ended", "recover", "next"} : pc' = [pc EXCEPT ![l] = s]
    BY <1>4 DEF BeginLane, List, EndHandler, Proceed, Enter, EndLane, Idle
  <2>4. pc \in [Lanes -> Steps]
    BY DEF TypeOK
  <2> QED BY <2>1, <2>2, <2>3, <2>4, LetGo DEF Holds, LetsGo
<1>5. ASSUME NEW l \in Lanes, Abort(l) PROVE Kept'
  <2>1. UNCHANGED <<status, logged, invoked, performed>> /\ Drop(l)
    BY <1>5 DEF Abort
  <2>2. \E s \in {"idle", "ended", "recover"} : pc' = [pc EXCEPT ![l] = s]
    BY <1>5 DEF Abort, Leave, Proceed, Enter, EndLane, Idle
  <2>3. \A m \in Lanes : Holds(m) \/ LetsGo(m)
    BY <2>1, <2>2 DEF Drop, Holds, LetsGo, TypeOK
  <2> QED BY <2>1, <2>3, LetGo
<1>6. ASSUME NEW k \in Consoles, Quit(k) \/ Serve(k) PROVE Kept'
  <2>1. UNCHANGED <<status, logged, invoked, performed, cmd, verdict>>
    BY <1>6 DEF Quit, Serve
  <2>2. Main(k) \in Lanes /\ pc[Main(k)] = "idle"
    BY <1>6, BoundsAssumption DEF BoundsAssumption, Main, Lanes, Quit, Serve, InSession
  <2>3. pc' = [pc EXCEPT ![Main(k)] = "recover"] /\ pc \in [Lanes -> Steps]
    BY <1>6 DEF Quit, Serve, Enter, TypeOK
  <2>4. cmd[Main(k)] = NoCommand
    BY <2>2 DEF Kept, Claims
  <2>5. PICK l \in Lanes : /\ pc' = [pc EXCEPT ![l] = "recover"]
                          /\ cmd[l] = NoCommand
    BY <2>2, <2>3, <2>4
  <2>6. \A m \in Lanes : Holds(m) \/ LetsGo(m)
    <3>1. pc'[l] = "recover"
      BY <2>3, <2>5
    <3>2. \A m \in Lanes : m # l => pc'[m] = pc[m]
      BY <2>3, <2>5
    <3> QED BY <2>1, <2>5, <3>1, <3>2 DEF Holds, LetsGo
  <2> QED BY <2>1, <2>6, LetGo
<1> QED BY <1>1, <1>2, <1>3, <1>4, <1>5, <1>6

\* A command is issued that nothing was done for.
LEMMA IssueStep ==
  ASSUME TypeOK, Kept, NEW k \in Consoles, NEW c \in Commands, Issue(k, c)
  PROVE  Kept'
<1>1. /\ status' = [status EXCEPT ![c] = "pending"] /\ status[c] = "absent"
      /\ UNCHANGED <<logged, invoked, performed, pc, cmd, verdict>>
  BY DEF Issue, portVars, laneVars
<1>2. \A l \in Lanes : cmd[l] # NoCommand => cmd[l] \in Commands /\ cmd[l] # c
  <2>1. \A l \in Lanes : cmd[l] \in Commands \cup {NoCommand}
    BY DEF TypeOK
  <2>2. \A l \in Lanes :
          cmd[l] # NoCommand => status[cmd[l]] \in {"executing", "failed"}
    BY DEF Kept, Claims
  <2> QED BY <1>1, <2>1, <2>2
<1>3. Claims'
  BY <1>1, <1>2 DEF Kept, Claims, Backed, TypeOK
<1>4. SoleClaimant'
  BY <1>1 DEF Kept, SoleClaimant
<1>5. Untouched' /\ RunOnce' /\ HonestStatus'
  BY <1>1 DEF Kept, Untouched, RunOnce, HonestStatus, TypeOK
<1> QED BY <1>3, <1>4, <1>5 DEF Kept

\* Recovery fails executing rows, under the lanes that may still hold them.
LEMMA RecoverStep ==
  ASSUME TypeOK, Kept, NEW l \in Lanes, Recover(l)
  PROVE  Kept'
<1>1. /\ \A c \in Commands : \/ status'[c] = status[c]
                             \/ status[c] = "executing" /\ status'[c] = "failed"
      /\ pc' = [pc EXCEPT ![l] = "list"] /\ pc[l] = "recover"
      /\ UNCHANGED <<logged, invoked, performed, cmd, verdict>>
  BY DEF Recover, Stale, portVars
<1>2. \A m \in Lanes : cmd[m] \in Commands \cup {NoCommand}
  BY DEF TypeOK
<1>3. \A m \in Lanes : pc'[m] = pc[m] \/ (m = l /\ pc'[m] = "list" /\ cmd[m] = NoCommand)
  <2>1. cmd[l] = NoCommand
    BY <1>1 DEF Kept, Claims
  <2>2. pc \in [Lanes -> Steps]
    BY DEF TypeOK
  <2> QED BY <1>1, <2>1, <2>2
<1>4. Claims'
  <2>1. SUFFICES ASSUME NEW m \in Lanes PROVE Claims!(m)'
    BY DEF Claims
  <2>2. Claims!(m)
    BY DEF Kept, Claims
  <2>3. cmd[m] # NoCommand /\ status[cmd[m]] \in {"executing", "failed"}
          => status'[cmd[m]] \in {"executing", "failed"}
    BY <1>1, <1>2
  <2> QED BY <1>1, <1>3, <2>2, <2>3 DEF Backed
<1>5. SoleClaimant'
  BY <1>1 DEF Kept, SoleClaimant
<1>6. Untouched' /\ RunOnce'
  BY <1>1 DEF Kept, Untouched, RunOnce
<1>7. HonestStatus'
  BY <1>1 DEF Kept, HonestStatus
<1> QED BY <1>4, <1>5, <1>6, <1>7 DEF Kept

\* A row is claimed out of "pending": by no other lane, and untouched.
LEMMA ClaimStep ==
  ASSUME TypeOK, Kept, NEW l \in Lanes, Claim(l)
  PROVE  Kept'
<1>1. PICK c \in todo[l] :
        IF Claimable(c)
          THEN /\ status' = [status EXCEPT ![c] = "executing"]
               /\ stamp' = [stamp EXCEPT ![c] = at[l]]
               /\ cmd' = [cmd EXCEPT ![l] = c]
               /\ pc' = [pc EXCEPT ![l] = "claimed"]
          ELSE UNCHANGED <<status, stamp, cmd, pc>>
  BY DEF Claim
<1>2. UNCHANGED <<logged, invoked, performed, verdict>> /\ pc[l] = "next"
  BY DEF Claim, portVars
<1>3. CASE ~Claimable(c)
  BY <1>1, <1>2, <1>3, LetGo DEF Holds
<1>4. CASE Claimable(c)
  <2>1. /\ status' = [status EXCEPT ![c] = "executing"]
        /\ cmd' = [cmd EXCEPT ![l] = c]
        /\ pc' = [pc EXCEPT ![l] = "claimed"]
        /\ status[c] = "pending" /\ c \in Commands
    BY <1>1, <1>4 DEF Claimable, TypeOK
  <2>2. invoked[c] = 0 /\ logged[c] = 0 /\ c \notin performed
    BY <2>1 DEF Kept, Untouched
  <2>3. c # NoCommand /\ \A m \in Lanes : cmd[m] # c
    BY <2>1, CommandsAssumption DEF CommandsAssumption, Kept, Claims
  <2>4. Claims'
    <3>1. SUFFICES ASSUME NEW m \in Lanes PROVE Claims!(m)'
      BY DEF Claims
    <3>2. CASE m = l
      BY <1>2, <2>1, <2>2, <2>3, <3>2 DEF TypeOK
    <3>3. CASE m # l
      <4>1. Claims!(m) /\ cmd[m] \in Commands \cup {NoCommand}
        BY DEF Kept, Claims, TypeOK
      <4>2. cmd'[m] = cmd[m] /\ pc'[m] = pc[m]
        BY <2>1, <3>3 DEF TypeOK
      <4>3. cmd[m] # NoCommand => status'[cmd[m]] = status[cmd[m]]
        BY <2>1, <2>3, <4>1 DEF TypeOK
      <4> QED BY <1>2, <4>1, <4>2, <4>3 DEF Backed
    <3> QED BY <3>2, <3>3
  <2>5. SoleClaimant'
    BY <2>1, <2>3 DEF Kept, SoleClaimant, TypeOK
  <2>6. Untouched' /\ RunOnce' /\ HonestStatus'
    BY <1>2, <2>1 DEF Kept, Untouched, RunOnce, HonestStatus, TypeOK
  <2> QED BY <2>4, <2>5, <2>6 DEF Kept
<1> QED BY <1>3, <1>4

\* A lane that holds a command is the only one the other steps concern.
LEMMA Held ==
  ASSUME TypeOK, Kept, NEW l \in Lanes, pc[l] \in {"claimed", "outcome"}
  PROVE  /\ cmd[l] \in Commands
         /\ status[cmd[l]] \in {"executing", "failed"}
         /\ \A m \in Lanes : m # l => cmd[m] # cmd[l]
BY DEF TypeOK, Kept, Claims, SoleClaimant

\* A rejection, or a dispatch without a port, calls none.
LEMMA RejectStep ==
  ASSUME TypeOK, Kept, NEW l \in Lanes, Reject(l) \/ LeaveUnwired(l)
  PROVE  Kept'
<1>1. PICK v \in {"rejected", "not_wired"} :
        /\ pc[l] = "claimed"
        /\ verdict' = [verdict EXCEPT ![l] = v]
        /\ pc' = [pc EXCEPT ![l] = "outcome"]
        /\ UNCHANGED <<status, logged, invoked, performed, cmd>>
  BY DEF Reject, LeaveUnwired, Decide, rowVars, portVars
<1>2. cmd[l] \in Commands
  BY <1>1, Held
<1>3. Claims'
  <2>1. SUFFICES ASSUME NEW m \in Lanes PROVE Claims!(m)'
    BY DEF Claims
  <2>2. Claims!(m) /\ Claims!(l)
    BY DEF Kept, Claims
  <2>3. CASE m = l
    <3>1. EventsOf(cmd[l], v) \in 1 .. 3
      BY EventCount
    <3> QED BY <1>1, <2>2, <2>3, <3>1 DEF Backed, TypeOK, Terminal
  <2>4. CASE m # l
    <3>1. pc'[m] = pc[m] /\ verdict'[m] = verdict[m]
      BY <1>1, <2>4 DEF TypeOK
    <3> QED BY <1>1, <2>2, <3>1 DEF Backed
  <2> QED BY <2>3, <2>4
<1>4. SoleClaimant' /\ Untouched' /\ RunOnce' /\ HonestStatus'
  BY <1>1 DEF Kept, SoleClaimant, Untouched, RunOnce, HonestStatus
<1> QED BY <1>3, <1>4 DEF Kept

\* The port is called for a command that was not called for before.
LEMMA CallStep ==
  ASSUME TypeOK, Kept, NEW l \in Lanes, CallPort(l)
  PROVE  Kept'
<1>1. PICK v \in PortVerdicts(cmd[l]) :
        /\ performed' = IF v = "completed" THEN performed \cup {cmd[l]} ELSE performed
        /\ Decide(l, v)
  BY DEF CallPort
<1>2. /\ pc[l] = "claimed"
      /\ invoked' = [invoked EXCEPT ![cmd[l]] = invoked[cmd[l]] + 1]
      /\ verdict' = [verdict EXCEPT ![l] = v]
      /\ pc' = [pc EXCEPT ![l] = "outcome"]
      /\ UNCHANGED <<status, logged, cmd>>
  BY <1>1 DEF CallPort, Decide, rowVars
<1>3. /\ cmd[l] \in Commands /\ status[cmd[l]] \in {"executing", "failed"}
      /\ \A m \in Lanes : m # l => cmd[m] # cmd[l]
  BY <1>2, Held
<1>4. invoked[cmd[l]] = 0 /\ logged[cmd[l]] = 0 /\ cmd[l] \notin performed
  BY <1>2 DEF Kept, Claims
<1>5. /\ \A c \in Commands : c # cmd[l] => /\ invoked'[c] = invoked[c]
                                         /\ c \in performed' <=> c \in performed
      /\ invoked'[cmd[l]] = 1
      /\ cmd[l] \in performed' <=> v = "completed"
  BY <1>1, <1>2, <1>3, <1>4 DEF TypeOK
<1>6. v \in {"completed", "failed", "not_wired"}
  BY DEF PortVerdicts
<1>7. Claims'
  <2>1. SUFFICES ASSUME NEW m \in Lanes PROVE Claims!(m)'
    BY DEF Claims
  <2>2. Claims!(m) /\ Claims!(l) /\ cmd[m] \in Commands \cup {NoCommand}
    BY DEF Kept, Claims, TypeOK
  <2>3. CASE m = l
    <3>1. EventsOf(cmd[l], v) \in 1 .. 3
      BY EventCount
    <3>2. pc'[l] = "outcome" /\ verdict'[l] = v
      BY <1>2 DEF TypeOK
    <3> QED BY <1>2, <1>3, <1>4, <1>5, <1>6, <2>2, <2>3, <3>1, <3>2 DEF Backed, Terminal
  <2>4. CASE m # l
    <3>1. pc'[m] = pc[m] /\ verdict'[m] = verdict[m]
      BY <1>2, <2>4 DEF TypeOK
    <3> QED BY <1>2, <1>3, <1>5, <2>2, <2>4, <3>1 DEF Backed
  <2> QED BY <2>3, <2>4
<1>8. SoleClaimant' /\ Untouched' /\ RunOnce'
  BY <1>2, <1>3, <1>5 DEF Kept, SoleClaimant, Untouched, RunOnce
<1>9. HonestStatus'
  BY <1>2, <1>3, <1>5 DEF Kept, HonestStatus
<1> QED BY <1>7, <1>8, <1>9 DEF Kept

\* One more outcome event, and never more than the verdict has.
LEMMA LogStep ==
  ASSUME TypeOK, Kept, NEW l \in Lanes, LogOutcome(l)
  PROVE  Kept'
<1>1. /\ pc[l] = "outcome" /\ logged[cmd[l]] < EventsOf(cmd[l], verdict[l])
      /\ logged' = [logged EXCEPT ![cmd[l]] = logged[cmd[l]] + 1]
      /\ UNCHANGED <<status, invoked, performed, cmd, pc, verdict>>
  <2>1. cmd[l] \in Commands
    BY Held DEF LogOutcome
  <2>2. EventsOf(cmd[l], verdict[l]) \in 1 .. 3 /\ logged[cmd[l]] \in 0 .. 3
    BY <2>1, EventCount DEF TypeOK
  <2> QED BY <2>2 DEF LogOutcome, AllLogged, rowVars, portVars, laneVars
<1>2. /\ cmd[l] \in Commands /\ status[cmd[l]] \in {"executing", "failed"}
      /\ \A m \in Lanes : m # l => cmd[m] # cmd[l]
  BY <1>1, Held
<1>3. \A c \in Commands : c # cmd[l] => logged'[c] = logged[c]
  BY <1>1 DEF TypeOK
<1>4. Claims'
  <2>1. SUFFICES ASSUME NEW m \in Lanes PROVE Claims!(m)'
    BY DEF Claims
  <2>2. Claims!(m) /\ cmd[m] \in Commands \cup {NoCommand}
    BY DEF Kept, Claims, TypeOK
  <2>3. CASE m = l
    <3>1. EventsOf(cmd[l], verdict[l]) \in 1 .. 3 /\ logged[cmd[l]] \in 0 .. 3
      BY <1>2, EventCount DEF TypeOK
    <3>2. logged'[cmd[l]] <= EventsOf(cmd[l], verdict[l])
      BY <1>1, <1>2, <3>1 DEF TypeOK
    <3> QED BY <1>1, <2>2, <2>3, <3>2 DEF Backed
  <2>4. CASE m # l
    BY <1>1, <1>2, <1>3, <2>2, <2>4 DEF Backed
  <2> QED BY <2>3, <2>4
<1>5. SoleClaimant' /\ Untouched' /\ RunOnce'
  BY <1>1, <1>2, <1>3 DEF Kept, SoleClaimant, Untouched, RunOnce
<1>6. HonestStatus'
  BY <1>1, <1>2, <1>3 DEF Kept, HonestStatus
<1> QED BY <1>4, <1>5, <1>6 DEF Kept

\* The status that is written is the backed one; a recovered row keeps its own.
LEMMA FinalizeStep ==
  ASSUME TypeOK, Kept, NEW l \in Lanes, Finalize(l)
  PROVE  Kept'
<1>1. pc[l] = "outcome" /\ AllLogged(l) /\ UNCHANGED <<logged, invoked, performed>>
  BY DEF Finalize, portVars
<1>2. /\ cmd[l] \in Commands /\ status[cmd[l]] \in {"executing", "failed"}
      /\ \A m \in Lanes : m # l => cmd[m] # cmd[l]
  BY <1>1, Held
<1>3. CASE status[cmd[l]] # "executing"
  <2>1. Drop(l) /\ Leave(l) /\ UNCHANGED status
    BY <1>3 DEF Finalize, Fail
  <2>2. \E s \in {"idle", "ended", "recover"} : pc' = [pc EXCEPT ![l] = s]
    BY <2>1 DEF Leave, Proceed, Enter, EndLane, Idle
  <2>3. \A m \in Lanes : Holds(m) \/ LetsGo(m)
    BY <2>1, <2>2 DEF Drop, Holds, LetsGo, TypeOK
  <2> QED BY <1>1, <2>1, <2>3, LetGo
<1>4. CASE status[cmd[l]] = "executing"
  <2>1. /\ status' = [status EXCEPT ![cmd[l]] = verdict[l]]
        /\ cmd' = [cmd EXCEPT ![l] = NoCommand]
        /\ verdict' = [verdict EXCEPT ![l] = "none"]
        /\ pc' = [pc EXCEPT ![l] = "next"]
    BY <1>4 DEF Finalize
  <2>2. /\ verdict[l] \in Terminal /\ Backed(cmd[l], verdict[l])
        /\ logged[cmd[l]] = EventsOf(cmd[l], verdict[l])
    <3>1. /\ verdict[l] \in Terminal /\ Backed(cmd[l], verdict[l])
          /\ logged[cmd[l]] <= EventsOf(cmd[l], verdict[l])
      BY <1>1 DEF Kept, Claims
    <3>2. EventsOf(cmd[l], verdict[l]) \in 1 .. 3 /\ logged[cmd[l]] \in 0 .. 3
      BY <1>2, EventCount DEF TypeOK
    <3> QED BY <1>1, <3>1, <3>2 DEF AllLogged
  <2>3. /\ status'[cmd[l]] = verdict[l]
        /\ \A c \in Commands : c # cmd[l] => status'[c] = status[c]
    BY <1>2, <2>1 DEF TypeOK
  <2>4. Claims'
    <3>1. SUFFICES ASSUME NEW m \in Lanes PROVE Claims!(m)'
      BY DEF Claims
    <3>2. Claims!(m) /\ cmd[m] \in Commands \cup {NoCommand}
      BY DEF Kept, Claims, TypeOK
    <3>3. CASE m = l
      BY <2>1, <3>3 DEF TypeOK
    <3>4. CASE m # l
      <4>1. pc'[m] = pc[m] /\ cmd'[m] = cmd[m] /\ verdict'[m] = verdict[m]
        BY <2>1, <3>4 DEF TypeOK
      <4> QED BY <1>1, <1>2, <2>3, <3>2, <3>4, <4>1 DEF Backed
    <3> QED BY <3>3, <3>4
  <2>5. SoleClaimant'
    BY <2>1 DEF Kept, SoleClaimant, TypeOK
  <2>6. Untouched' /\ RunOnce'
    BY <1>1, <1>2, <2>2, <2>3 DEF Kept, Untouched, RunOnce, Terminal
  <2>7. HonestStatus'
    BY <1>1, <1>2, <2>2, <2>3 DEF Kept, HonestStatus, Backed
  <2> QED BY <2>4, <2>5, <2>6, <2>7 DEF Kept
<1> QED BY <1>3, <1>4

\* Initially nothing is held and nothing was done.
LEMMA InitKept == Init => Kept
BY DEF Init, Kept, Claims, SoleClaimant, Untouched, RunOnce, HonestStatus

\* The inductive invariant, for every instance.
THEOREM Invariance == Spec => [](TypeOK /\ Kept)
<1>1. TypeOK /\ Kept /\ [Next]_vars => (TypeOK /\ Kept)'
  <2>1. SUFFICES ASSUME TypeOK, Kept, [Next]_vars PROVE Kept'
    BY TypeStep DEF Kept
  <2> QED BY <2>1, QuietStep, IssueStep, RecoverStep, ClaimStep, RejectStep, CallStep, LogStep,
             FinalizeStep DEF Next, Wake, Work
<1> QED BY InitType, InitKept, <1>1, PTL DEF Spec

\* Every variable keeps its type, for every instance.
THEOREM TypeCorrect == Spec => []TypeOK
BY Invariance, PTL

\* No command's port is called twice.
THEOREM ExactlyOneRun == Spec => []RunOnce
<1>1. Kept => RunOnce
  BY DEF Kept
<1> QED BY Invariance, <1>1, PTL

\* A status that claims an outcome is backed by it and by all its events.
THEOREM StatusIsHonest == Spec => []HonestStatus
<1>1. Kept => HonestStatus
  BY DEF Kept
<1> QED BY Invariance, <1>1, PTL

-------------------------------------------------------------------------------
(* The order of the queue *)

OlderInFlight(f, c) == /\ IsFactory(f) /\ Aggregate[f] = Aggregate[c]
                       /\ IssuedBefore(f, c) /\ ListedBefore(f, c)
                       /\ status[f] \in InFlight

\* A command that was issued and, unless it is a factory command, waits for no
\* older factory command: what the listing established of it.
Cleared(c) == /\ status[c] # "absent"
              /\ IsFactory(c) \/ \A f \in Commands : ~OlderInFlight(f, c)

Recorded == \A i \in DOMAIN issued : status[issued[i]] # "absent"
Ordered == \A l \in Lanes, c \in Commands : c \in todo[l] \/ cmd[l] = c => Cleared(c)

\* What every step other than issuing does to the rows: none is appended, and
\* none comes to be in flight.
Calm == /\ UNCHANGED <<requested, issued>>
        /\ \A c \in Commands : /\ status'[c] \in InFlight => status[c] \in InFlight
                               /\ status[c] # "absent" => status'[c] # "absent"

\* Cleared is for good: an issued command is younger than every one before it.
LEMMA ClearedStays ==
  ASSUME TypeOK, Recorded, NEW c \in Commands, Cleared(c),
         Calm \/ \E k \in Consoles, d \in Commands : Issue(k, d)
  PROVE  Cleared(c)'
<1>1. CASE Calm
  BY <1>1 DEF Calm, Cleared, OlderInFlight, IssuedBefore, ListedBefore
<1>2. ASSUME NEW k \in Consoles, NEW d \in Commands, Issue(k, d) PROVE Cleared(c)'
  <2>1. /\ status' = [status EXCEPT ![d] = "pending"] /\ status[d] = "absent"
        /\ requested' = [requested EXCEPT ![d] = session[k]]
        /\ issued' = Append(issued, d)
    BY <1>2 DEF Issue
  <2>2. c # d /\ status'[c] # "absent"
    BY <2>1 DEF Cleared, TypeOK
  <2>3. ASSUME NEW f \in Commands, OlderInFlight(f, c)'
        PROVE  OlderInFlight(f, c)
    <3>1. PICK i, j \in DOMAIN issued' : i < j /\ issued'[i] = f /\ issued'[j] = c
      BY <2>3 DEF OlderInFlight, IssuedBefore
    <3>2. /\ issued \in Seq(Commands) /\ Len(issued) \in Nat
          /\ DOMAIN issued = 1 .. Len(issued) /\ DOMAIN issued' = 1 .. (Len(issued) + 1)
          /\ issued'[Len(issued) + 1] = d
          /\ \A n \in 1 .. Len(issued) : issued'[n] = issued[n]
      <4>1. issued \in Seq(Commands) /\ issued' = Append(issued, d)
        BY <2>1 DEF TypeOK
      <4> QED BY <4>1
    <3>3. j \in 1 .. Len(issued)
      BY <2>2, <3>1, <3>2
    <3>4. i \in 1 .. Len(issued)
      BY <3>1, <3>2, <3>3
    <3>5. IssuedBefore(f, c) /\ f # d
      BY <2>1, <3>1, <3>2, <3>3, <3>4 DEF IssuedBefore, Recorded
    <3>6. requested'[f] = requested[f] /\ requested'[c] = requested[c] /\ status'[f] = status[f]
      BY <2>1, <2>2, <3>5 DEF TypeOK
    <3> QED BY <2>3, <3>5, <3>6 DEF OlderInFlight, ListedBefore
  <2> QED BY <2>2, <2>3 DEF Cleared
<1> QED BY <1>1, <1>2

\* Every step is calm or issues.
LEMMA CalmOrIssue ==
  ASSUME TypeOK, Kept, [Next]_vars
  PROVE  Calm \/ \E k \in Consoles, d \in Commands : Issue(k, d)
<1> USE DEF rowVars, portVars, consoleVars, laneVars, worldVars, InFlight
<1>1. CASE UNCHANGED vars \/ Tick
  BY <1>1 DEF vars, Tick, Calm
<1>2. ASSUME NEW k \in Consoles,
             \/ OpenSession(k) \/ Quit(k) \/ Serve(k) \/ Exit(k) \/ Crash(k) \/ SendWake(k)
             \/ \E t \in 1 .. FactoryThreads : TakeWake(k, t)
             \/ \E c \in Commands : IssueAgain(k, c)
      PROVE  Calm
  BY <1>2 DEF OpenSession, Quit, Serve, Exit, Crash, Stop, SendWake, TakeWake, IssueAgain, Calm
<1>3. ASSUME NEW l \in Lanes,
             \/ BeginLane(l) \/ List(l) \/ EndHandler(l) \/ Abort(l)
             \/ Reject(l) \/ LeaveUnwired(l) \/ CallPort(l) \/ LogOutcome(l)
      PROVE  Calm
  BY <1>3 DEF BeginLane, List, EndHandler, Abort, Reject, LeaveUnwired, CallPort, LogOutcome, Calm
<1>4. ASSUME NEW l \in Lanes, Recover(l) PROVE Calm
  BY <1>4 DEF Recover, Stale, Calm
<1>5. ASSUME NEW l \in Lanes, Claim(l) PROVE Calm
  <2>1. \/ UNCHANGED status
        \/ \E c \in Commands : /\ status[c] = "pending"
                               /\ status' = [status EXCEPT ![c] = "executing"]
    BY <1>5 DEF Claim, Claimable, TypeOK
  <2> QED BY <1>5, <2>1 DEF Claim, Calm, TypeOK
<1>6. ASSUME NEW l \in Lanes, Finalize(l) PROVE Calm
  <2>1. verdict[l] \in Terminal
    BY <1>6 DEF Finalize, Kept, Claims
  <2>2. UNCHANGED status \/ status' = [status EXCEPT ![cmd[l]] = verdict[l]]
    BY <1>6 DEF Finalize
  <2> QED BY <1>6, <2>1, <2>2 DEF Finalize, Calm, TypeOK, Terminal
<1> QED BY <1>1, <1>2, <1>3, <1>4, <1>5, <1>6 DEF Next, Wake, Work

\* Lanes only take up what they listed.
LEMMA OrderStep ==
  ASSUME TypeOK, Kept, Recorded, Ordered, [Next]_vars
  PROVE  Recorded' /\ Ordered'
<1>1. Recorded'
  <2>1. CASE Calm
    BY <2>1 DEF Calm, Recorded, TypeOK
  <2>2. ASSUME NEW k \in Consoles, NEW d \in Commands, Issue(k, d) PROVE Recorded'
    <3>1. /\ issued \in Seq(Commands) /\ issued' = Append(issued, d)
          /\ status' = [status EXCEPT ![d] = "pending"]
      BY <2>2 DEF Issue, TypeOK
    <3>2. /\ issued \in Seq(Commands) /\ Len(issued) \in Nat
          /\ DOMAIN issued = 1 .. Len(issued) /\ DOMAIN issued' = 1 .. (Len(issued) + 1)
          /\ issued'[Len(issued) + 1] = d
          /\ \A n \in 1 .. Len(issued) : issued'[n] = issued[n] /\ issued[n] \in Commands
      BY <3>1
    <3>3. \A c \in Commands : status'[c] = IF c = d THEN "pending" ELSE status[c]
      BY <3>1 DEF TypeOK
    <3> QED BY <3>2, <3>3 DEF Recorded
  <2> QED BY <2>1, <2>2, CalmOrIssue
<1>2. \A c \in Commands : Cleared(c) => Cleared(c)'
  BY ClearedStays, CalmOrIssue
<1>3. CASE \A l \in Lanes, c \in Commands :
             c \in todo'[l] \/ cmd'[l] = c => c \in todo[l] \/ cmd[l] = c
  BY <1>1, <1>2, <1>3 DEF Ordered
<1> USE DEF rowVars, portVars, consoleVars, laneVars, worldVars
<1>4. CASE \/ UNCHANGED vars \/ Tick
           \/ \E k \in Consoles :
                \/ OpenSession(k) \/ SendWake(k) \/ Quit(k) \/ Serve(k)
                \/ \E c \in Commands : Issue(k, c) \/ IssueAgain(k, c)
                \/ \E t \in 1 .. FactoryThreads : TakeWake(k, t)
           \/ \E l \in Lanes : \/ BeginLane(l) \/ Recover(l) \/ EndHandler(l) \/ Reject(l)
                               \/ LeaveUnwired(l) \/ CallPort(l) \/ LogOutcome(l)
  <2>1. UNCHANGED <<todo, cmd>>
    BY <1>4 DEF vars, Tick, OpenSession, SendWake, Quit, Serve, Issue, IssueAgain, TakeWake,
                BeginLane, Recover, EndHandler, Reject, LeaveUnwired, CallPort, LogOutcome
  <2> QED BY <1>3, <2>1
<1>5. ASSUME NEW k \in Consoles, Exit(k) \/ Crash(k) PROVE Ordered'
  <2>1. \A l \in Lanes : /\ todo'[l] = todo[l] \/ todo'[l] = {}
                         /\ cmd'[l] = cmd[l] \/ cmd'[l] = NoCommand
    BY <1>5 DEF Exit, Crash, Stop
  <2> QED BY <1>3, <2>1, CommandsAssumption DEF CommandsAssumption
<1>6. ASSUME NEW l \in Lanes, Abort(l) \/ Finalize(l) PROVE Ordered'
  <2>1. /\ todo' = todo \/ todo' = [todo EXCEPT ![l] = {}]
        /\ cmd' = [cmd EXCEPT ![l] = NoCommand]
    BY <1>6 DEF Abort, Finalize, Fail, Drop
  <2> QED BY <1>3, <2>1, CommandsAssumption DEF CommandsAssumption, TypeOK
<1>7. ASSUME NEW l \in Lanes, Claim(l) PROVE Ordered'
  <2>1. PICK c \in todo[l] : /\ todo' = [todo EXCEPT ![l] = todo[l] \ {c}]
                             /\ cmd' = cmd \/ cmd' = [cmd EXCEPT ![l] = c]
    BY <1>7 DEF Claim
  <2> QED BY <1>3, <2>1 DEF TypeOK
<1>8. ASSUME NEW l \in Lanes, List(l) PROVE Ordered'
  <2>1. /\ UNCHANGED <<status, requested, issued, cmd>>
        /\ todo' = [todo EXCEPT ![l] =
                     {c \in Commands : /\ status[c] = "pending"
                                       /\ Handles(handler[l], c)
                                       /\ IsFactory(c) \/ ~Blocked(c)}]
    BY <1>8 DEF List
  <2>2. todo'[l] \subseteq {c \in Commands : status[c] = "pending" /\ (IsFactory(c) \/ ~Blocked(c))}
    BY <2>1 DEF TypeOK
  <2>3. \A c \in todo'[l] : Cleared(c)
    BY <2>2 DEF Cleared, OlderInFlight, Blocked
  <2>4. \A m \in Lanes : m = l \/ todo'[m] = todo[m]
    BY <2>1 DEF TypeOK
  <2>5. \A m \in Lanes, c \in Commands : c \in todo'[m] \/ cmd'[m] = c => Cleared(c)
    BY <2>1, <2>3, <2>4 DEF Ordered
  <2> QED BY <1>2, <2>5 DEF Ordered
<1>9. Ordered'
  BY <1>1, <1>4, <1>5, <1>6, <1>7, <1>8 DEF Next, Wake, Work
<1> QED BY <1>1, <1>9

\* No control command is held beside an older factory command of its aggregate
\* in flight, however old the listing it was taken from is.
THEOREM OrderIsKept == Spec => []QueueOrder
<1>1. Init => Recorded /\ Ordered
  BY CommandsAssumption DEF CommandsAssumption, Init, Recorded, Ordered
<1>2. TypeOK /\ Kept /\ Recorded /\ Ordered /\ [Next]_vars => Recorded' /\ Ordered'
  BY OrderStep
<1>3. TypeOK /\ Ordered => QueueOrder
  <2>1. SUFFICES ASSUME TypeOK, Ordered, NEW l \in Lanes, cmd[l] # NoCommand, ~IsFactory(cmd[l]),
                        NEW f \in Commands, IsFactory(f), Aggregate[f] = Aggregate[cmd[l]],
                        IssuedBefore(f, cmd[l]), ListedBefore(f, cmd[l])
                 PROVE  status[f] \notin InFlight
    BY DEF QueueOrder
  <2>2. cmd[l] \in Commands
    BY <2>1 DEF TypeOK
  <2>3. Cleared(cmd[l])
    BY <2>1, <2>2 DEF Ordered
  <2> QED BY <2>1, <2>3 DEF Cleared, OlderInFlight
<1> QED BY Invariance, <1>1, <1>2, <1>3, PTL DEF Spec

-------------------------------------------------------------------------------
(* The lanes implement the queue *)

\* The steps that leave the rows and the ports alone are stutters of the queue.
LEMMA Stutters ==
  ASSUME \/ UNCHANGED vars \/ Tick
         \/ \E k \in Consoles :
              \/ OpenSession(k) \/ SendWake(k) \/ Quit(k) \/ Serve(k) \/ Exit(k) \/ Crash(k)
              \/ \E t \in 1 .. FactoryThreads : TakeWake(k, t)
              \/ \E c \in Commands : IssueAgain(k, c)
         \/ \E l \in Lanes : \/ BeginLane(l) \/ List(l) \/ EndHandler(l) \/ Abort(l)
                             \/ Reject(l) \/ LeaveUnwired(l) \/ LogOutcome(l)
  PROVE  UNCHANGED <<status, invoked, performed>>
BY DEF vars, rowVars, portVars, Tick, OpenSession, SendWake, Quit, Serve, Exit, Crash, Stop,
       TakeWake, IssueAgain, BeginLane, List, EndHandler, Abort, Reject, LeaveUnwired, LogOutcome

\* Every step of a lane is a step of the queue or a stutter.
LEMMA QueueStep ==
  ASSUME TypeOK, Kept, [Next]_vars
  PROVE  [Queue!Next]_(Queue!qvars)
<1>1. ASSUME UNCHANGED <<status, invoked, performed>> PROVE [Queue!Next]_(Queue!qvars)
  BY <1>1 DEF Queue!qvars
<1>2. ASSUME NEW k \in Consoles, NEW c \in Commands, Issue(k, c) PROVE Queue!Next
  <2>1. Queue!Request(c)
    BY <1>2 DEF Issue, portVars, Queue!Request
  <2> QED BY <2>1 DEF Queue!Next
<1>3. ASSUME NEW l \in Lanes, Recover(l) PROVE Queue!Next
  <2>1. Queue!GiveUp(Stale(l))
    BY <1>3 DEF Recover, Stale, portVars, Queue!GiveUp
  <2>2. Stale(l) \in SUBSET Commands
    BY DEF Stale
  <2> QED BY <2>1, <2>2 DEF Queue!Next
<1>4. ASSUME NEW l \in Lanes, Claim(l) PROVE [Queue!Next]_(Queue!qvars)
  <2>1. PICK c \in todo[l] : IF Claimable(c) THEN status' = [status EXCEPT ![c] = "executing"]
                                             ELSE UNCHANGED status
    BY <1>4 DEF Claim
  <2>2. c \in Commands /\ UNCHANGED <<invoked, performed>>
    BY <1>4 DEF Claim, portVars, TypeOK
  <2>3. CASE ~Claimable(c)
    BY <1>1, <2>1, <2>2, <2>3
  <2>4. CASE Claimable(c)
    <3>1. Queue!Claim(c)
      BY <2>1, <2>2, <2>4 DEF Claimable, Queue!Claim
    <3> QED BY <2>2, <3>1 DEF Queue!Next
  <2> QED BY <2>3, <2>4
<1>5. ASSUME NEW l \in Lanes, CallPort(l) PROVE Queue!Next
  <2>1. /\ cmd[l] \in Commands /\ status[cmd[l]] \in {"executing", "failed"}
        /\ invoked[cmd[l]] = 0
    BY <1>5, Held DEF CallPort, Kept, Claims
  <2>2. invoked' = [invoked EXCEPT ![cmd[l]] = 1]
    BY <1>5, <2>1 DEF CallPort, TypeOK
  <2>3. performed' \in {performed, performed \cup {cmd[l]}} /\ UNCHANGED status
    BY <1>5 DEF CallPort, rowVars
  <2>4. Queue!Ask(cmd[l])
    BY <2>1, <2>2, <2>3 DEF Queue!Ask
  <2> QED BY <2>1, <2>4 DEF Queue!Next
<1>6. ASSUME NEW l \in Lanes, Finalize(l) PROVE [Queue!Next]_(Queue!qvars)
  <2>1. UNCHANGED <<invoked, performed>>
    BY <1>6 DEF Finalize, portVars
  <2>2. CASE status[cmd[l]] # "executing"
    BY <1>1, <1>6, <2>1, <2>2 DEF Finalize
  <2>3. CASE status[cmd[l]] = "executing"
    <3>1. cmd[l] \in Commands /\ verdict[l] \in Terminal /\ Backed(cmd[l], verdict[l])
      BY <1>6, Held DEF Finalize, Kept, Claims
    <3>2. status' = [status EXCEPT ![cmd[l]] = verdict[l]]
      BY <1>6, <2>3 DEF Finalize
    <3>3. Queue!Finish(cmd[l], verdict[l])
      BY <2>1, <2>3, <3>1, <3>2 DEF Queue!Finish, Queue!Terminal, Backed, Terminal
    <3> QED BY <3>1, <3>3 DEF Queue!Next, Queue!Terminal, Terminal
  <2> QED BY <2>2, <2>3
<1> QED BY <1>1, <1>2, <1>3, <1>4, <1>5, <1>6, Stutters DEF Next, Wake, Work

\* The lanes implement the queue's promise, for every instance.
THEOREM Refinement == Spec => ImplementsCommandQueue
<1>1. Init => Queue!Init
  BY DEF Init, Queue!Init
<1>2. TypeOK /\ Kept /\ [Next]_vars => [Queue!Next]_(Queue!qvars)
  BY QueueStep
<1> QED BY Invariance, <1>1, <1>2, PTL DEF Spec, Queue!Spec, ImplementsCommandQueue

-------------------------------------------------------------------------------
(* Who is going to look at a pending command *)

Active(l) == pc[l] \notin {"idle", "spawned", "ended"}

\* Clocks that were read are of the past, and no clock is read at zero.
Clocks ==
  /\ now >= 1
  /\ \A k \in Consoles : session[k] <= now
  /\ \A l \in Lanes : at[l] <= now /\ (Active(l) => at[l] >= 1)
  /\ \A c \in Commands : status[c] = "executing" => stamp[c] >= 1

\* A lane at work is in a handler, and what it lists, tries and holds is that handler's.
Handling ==
  \A l \in Lanes :
    /\ Active(l) => handler[l] \in {"factory", "work_item", "config"}
    /\ \A c \in todo[l] : pc[l] \in {"next", "claimed", "outcome"} /\ Handles(handler[l], c)
    /\ cmd[l] # NoCommand => Handles(handler[l], cmd[l])

\* Undisturbed, a command is executing just while a lane holds it, and main threads
\* rest.
Attended ==
  Undisturbed =>
    /\ \A k \in Consoles : pc[Main(k)] = "idle"
    /\ \A l \in Lanes : cmd[l] # NoCommand => status[cmd[l]] = "executing"
    /\ \A c \in Commands : status[c] = "executing" => \E l \in Lanes : cmd[l] = c

\* How a lane goes on from a handler it has left.
LEMMA Leaving ==
  ASSUME TypeOK, NEW l \in Lanes, Leave(l) \/ Proceed(l) \/ EndLane(l)
  PROVE  /\ \A m \in Lanes \ {l} : pc'[m] = pc[m] /\ handler'[m] = handler[m] /\ at'[m] = at[m]
         /\ \/ pc'[l] \in {"idle", "ended"} /\ at'[l] = 0 /\ handler'[l] = "none"
            \/ /\ pc'[l] = "recover" /\ at'[l] = at[l]
               /\ \/ handler[l] = "factory" /\ handler'[l] = "work_item"
                  \/ handler[l] = "work_item" /\ handler'[l] = "config"
<1>1. Proceed(l) \/ EndLane(l)
  BY DEF Leave
<1>2. CASE EndLane(l)
  BY <1>2 DEF EndLane, Idle, TypeOK
<1>3. CASE Proceed(l) /\ ~EndLane(l)
  <2>1. Enter(l, Following(handler[l])) /\ UNCHANGED at /\ Following(handler[l]) # "none"
    BY <1>3 DEF Proceed
  <2>2. \/ handler[l] = "factory" /\ Following(handler[l]) = "work_item"
        \/ handler[l] = "work_item" /\ Following(handler[l]) = "config"
    BY <2>1 DEF Following, TypeOK, Handlers
  <2> QED BY <2>1, <2>2 DEF Enter, TypeOK
<1> QED BY <1>1, <1>2, <1>3

\* Every step keeps the clocks that were read in the past.
LEMMA ClocksStep == ASSUME TypeOK, Claims, Clocks, [Next]_vars PROVE Clocks'
<1> USE DEF rowVars, portVars, consoleVars, laneVars, worldVars
<1>0. now \in Nat /\ (\A k \in Consoles : session[k] \in Nat) /\ \A l \in Lanes : at[l] \in Nat
  BY DEF TypeOK
<1>1. CASE UNCHANGED vars \/ Tick
  BY <1>0, <1>1 DEF vars, Tick, Clocks, Active
<1>2. ASSUME NEW k \in Consoles,
             OpenSession(k) \/ SendWake(k) \/ \E c \in Commands : IssueAgain(k, c)
      PROVE  Clocks'
  <2>1. UNCHANGED <<now, at, pc, status, stamp>>
    BY <1>2 DEF OpenSession, SendWake, IssueAgain
  <2>2. session' = session \/ session' = [session EXCEPT ![k] = now]
    BY <1>2 DEF OpenSession, SendWake, IssueAgain
  <2>3. \A j \in Consoles : session'[j] \in {session[j], now}
    BY <2>2 DEF TypeOK
  <2> QED BY <1>0, <2>1, <2>3 DEF Clocks, Active
<1>3. ASSUME NEW k \in Consoles, NEW c \in Commands, Issue(k, c) PROVE Clocks'
  <2>1. \A d \in Commands : status'[d] = "executing" => status[d] = "executing"
    BY <1>3 DEF Issue, TypeOK
  <2> QED BY <1>3, <2>1 DEF Issue, Clocks, Active
<1>4. ASSUME NEW k \in Consoles, NEW t \in 1 .. FactoryThreads, TakeWake(k, t) PROVE Clocks'
  <2>1. \A l \in Lanes : pc'[l] = pc[l] \/ pc'[l] = "spawned"
    BY <1>4 DEF TakeWake
  <2> QED BY <1>4, <2>1 DEF TakeWake, Clocks, Active
<1>5. ASSUME NEW k \in Consoles, Quit(k) \/ Serve(k) PROVE Clocks'
  <2>1. Main(k) \in Lanes
    BY BoundsAssumption DEF BoundsAssumption, Main, Lanes
  <2>2. \E n \in {now, session[k]} : n # 0 /\ at' = [at EXCEPT ![Main(k)] = n]
    BY <1>5, <1>0 DEF Quit, Serve, InSession, Clocks
  <2>3. /\ pc' = [pc EXCEPT ![Main(k)] = "recover"]
        /\ UNCHANGED <<now, session, status, stamp>>
    BY <1>5 DEF Quit, Serve, Enter
  <2>4. \A l \in Lanes : /\ l # Main(k) => at'[l] = at[l] /\ pc'[l] = pc[l]
                         /\ l = Main(k) => at'[l] \in {now, session[k]} /\ at'[l] # 0
    BY <2>1, <2>2, <2>3 DEF TypeOK
  <2> QED BY <1>0, <2>3, <2>4 DEF Clocks, Active
<1>6. ASSUME NEW k \in Consoles, Crash(k) \/ Exit(k) PROVE Clocks'
  <2>1. Stop(k)
    BY <1>6 DEF Crash, Exit
  <2>2. UNCHANGED <<now, status, stamp>> /\ session' = [session EXCEPT ![k] = 0]
    BY <2>1 DEF Stop
  <2>3. \A l \in Lanes : \/ pc'[l] = pc[l] /\ at'[l] = at[l]
                         \/ pc'[l] = "idle" /\ at'[l] = 0
    BY <2>1 DEF Stop
  <2> QED BY <1>0, <2>2, <2>3 DEF Clocks, Active, TypeOK
<1>7. ASSUME NEW l \in Lanes, BeginLane(l) PROVE Clocks'
  <2>1. pc' = [pc EXCEPT ![l] = "recover"] /\ at' = [at EXCEPT ![l] = now]
        /\ UNCHANGED <<now, session, status, stamp>>
    BY <1>7 DEF BeginLane, Enter
  <2> QED BY <1>0, <2>1 DEF Clocks, Active, TypeOK
<1>8. ASSUME NEW l \in Lanes, Recover(l) PROVE Clocks'
  <2>1. \A c \in Commands :
          status'[c] = "executing" => status[c] = "executing" /\ stamp'[c] = stamp[c]
    BY <1>8 DEF Recover
  <2>2. UNCHANGED <<now, session, at>> /\ Active(l) /\ pc' = [pc EXCEPT ![l] = "list"]
    BY <1>8 DEF Recover, Active
  <2>3. \A m \in Lanes : Active(m)' => Active(m)
    BY <2>2 DEF Active, TypeOK
  <2> QED BY <2>1, <2>2, <2>3 DEF Clocks
<1>9. ASSUME NEW l \in Lanes, \/ List(l) \/ Reject(l) \/ LeaveUnwired(l)
                              \/ CallPort(l) \/ LogOutcome(l)
      PROVE  Clocks'
  <2>1. UNCHANGED <<now, session, at, status, stamp>> /\ Active(l)
    BY <1>9 DEF List, Reject, LeaveUnwired, CallPort, LogOutcome, Active
  <2>2. pc' = [pc EXCEPT ![l] = "next"] \/ pc' = [pc EXCEPT ![l] = "outcome"] \/ pc' = pc
    BY <1>9 DEF List, Reject, LeaveUnwired, CallPort, LogOutcome, Decide
  <2>3. \A m \in Lanes : Active(m)' => Active(m)
    BY <2>1, <2>2 DEF Active, TypeOK
  <2> QED BY <2>1, <2>3 DEF Clocks
<1>10. ASSUME NEW l \in Lanes, Claim(l) PROVE Clocks'
  <2>1. PICK c \in todo[l] :
          \/ /\ status' = [status EXCEPT ![c] = "executing"]
             /\ stamp' = [stamp EXCEPT ![c] = at[l]]
             /\ pc' = [pc EXCEPT ![l] = "claimed"]
          \/ UNCHANGED <<status, stamp, pc>>
    BY <1>10 DEF Claim
  <2>2. UNCHANGED <<now, session, at>> /\ Active(l)
    BY <1>10 DEF Claim, Active
  <2>3. \A m \in Lanes : Active(m)' => Active(m)
    BY <2>1, <2>2 DEF Active, TypeOK
  <2>4. at[l] >= 1
    BY <2>2 DEF Clocks
  <2>5. \A d \in Commands : status'[d] = "executing" => stamp'[d] >= 1
    BY <2>1, <2>4 DEF Clocks, TypeOK
  <2> QED BY <2>2, <2>3, <2>5 DEF Clocks
<1>11. ASSUME NEW l \in Lanes, Finalize(l) PROVE Clocks'
  <2>1. CASE status[cmd[l]] = "executing"
    <3>1. /\ status' = [status EXCEPT ![cmd[l]] = verdict[l]]
          /\ stamp' = [stamp EXCEPT ![cmd[l]] = 0]
          /\ pc' = [pc EXCEPT ![l] = "next"]
          /\ UNCHANGED <<now, session, at>> /\ Active(l)
          /\ verdict[l] \in Terminal
      BY <1>11, <2>1 DEF Finalize, Active, Claims
    <3>2. \A d \in Commands :
            status'[d] = "executing" => status[d] = "executing" /\ stamp'[d] = stamp[d]
      BY <3>1 DEF TypeOK, Terminal
    <3>3. \A m \in Lanes : Active(m)' => Active(m)
      BY <3>1 DEF Active, TypeOK
    <3> QED BY <3>1, <3>2, <3>3 DEF Clocks
  <2>2. CASE status[cmd[l]] # "executing"
    <3>1. Leave(l) /\ UNCHANGED <<now, session, status, stamp>> /\ Active(l)
      BY <1>11, <2>2 DEF Finalize, Fail, Active
    <3>2. \A m \in Lanes \ {l} : at'[m] = at[m] /\ (Active(m)' => Active(m))
      BY <3>1, Leaving DEF Active
    <3>3. at'[l] = at[l] \/ (at'[l] = 0 /\ ~Active(l)')
      BY <3>1, Leaving DEF Active
    <3> QED BY <1>0, <3>1, <3>2, <3>3 DEF Clocks
  <2> QED BY <2>1, <2>2
<1>12. ASSUME NEW l \in Lanes, EndHandler(l) \/ Abort(l) PROVE Clocks'
  <2>1. Leave(l) \/ Proceed(l) \/ EndLane(l)
    BY <1>12 DEF EndHandler, Abort
  <2>2. UNCHANGED <<now, session, status, stamp>>
    BY <1>12 DEF EndHandler, Abort
  <2>3. pc[l] = "spawned" => EndLane(l)
    BY <1>12 DEF EndHandler, Abort
  <2>4. Active(l) \/ EndLane(l)
    BY <1>12, <2>3 DEF EndHandler, Abort, Active
  <2>5. EndLane(l) => pc'[l] \in {"idle", "ended"} /\ at'[l] = 0
    BY DEF EndLane, Idle, TypeOK
  <2>6. \A m \in Lanes \ {l} : at'[m] = at[m] /\ (Active(m)' => Active(m))
    BY <2>1, Leaving DEF Active
  <2>7. (at'[l] = at[l] /\ Active(l)) \/ (at'[l] = 0 /\ ~Active(l)')
    BY <2>1, <2>4, <2>5, Leaving DEF Active
  <2> QED BY <1>0, <2>2, <2>6, <2>7 DEF Clocks
<1> QED
  BY <1>1, <1>2, <1>3, <1>4, <1>5, <1>6, <1>7, <1>8, <1>9, <1>10, <1>11, <1>12 DEF Next, Wake, Work

\* Handling says something of each lane alone: the lanes a step leaves alone keep it.
HandlingOf(l) ==
  /\ Active(l) => handler[l] \in {"factory", "work_item", "config"}
  /\ \A c \in todo[l] : pc[l] \in {"next", "claimed", "outcome"} /\ Handles(handler[l], c)
  /\ cmd[l] # NoCommand => Handles(handler[l], cmd[l])

\* A step of one lane keeps Handling if it keeps it of that lane.
LEMMA HandlingLane ==
  ASSUME Handling, NEW l \in Lanes, HandlingOf(l)',
         \A m \in Lanes \ {l} : /\ pc'[m] = pc[m] /\ handler'[m] = handler[m]
                                /\ todo'[m] = todo[m] /\ cmd'[m] = cmd[m]
  PROVE  Handling'
<1>1. \A m \in Lanes \ {l} : HandlingOf(m)'
  BY DEF Handling, HandlingOf, Active
<1> QED BY <1>1 DEF Handling, HandlingOf, Active

\* Every step keeps what lanes list, try and hold with their handlers.
LEMMA HandlingStep == ASSUME TypeOK, Claims, Handling, [Next]_vars PROVE Handling'
<1> USE DEF rowVars, portVars, consoleVars, laneVars, worldVars
<1>1. CASE \/ UNCHANGED vars \/ Tick
           \/ \E k \in Consoles : \/ OpenSession(k) \/ SendWake(k)
                                  \/ \E c \in Commands : IssueAgain(k, c) \/ Issue(k, c)
  <2>1. UNCHANGED laneVars
    BY <1>1 DEF vars, Tick, OpenSession, SendWake, IssueAgain, Issue
  <2> QED BY <2>1 DEF Handling, Active
<1>2. ASSUME NEW k \in Consoles, NEW t \in 1 .. FactoryThreads, TakeWake(k, t) PROVE Handling'
  <2>1. \A l \in Lanes : pc'[l] = pc[l] \/ (pc[l] = "idle" /\ pc'[l] = "spawned")
    BY <1>2 DEF TakeWake
  <2>2. UNCHANGED <<handler, todo, cmd>>
    BY <1>2 DEF TakeWake
  <2> QED BY <2>1, <2>2 DEF Handling, Active
<1>3. ASSUME NEW k \in Consoles, Quit(k) \/ Serve(k) PROVE Handling'
  <2>1. Main(k) \in Lanes /\ pc[Main(k)] = "idle"
    BY <1>3, BoundsAssumption DEF BoundsAssumption, Main, Lanes, Quit, Serve, InSession
  <2>2. UNCHANGED <<todo, cmd>> /\ Enter(Main(k), "factory")
    BY <1>3 DEF Quit, Serve
  <2>3. /\ pc' = [pc EXCEPT ![Main(k)] = "recover"]
        /\ handler' = [handler EXCEPT ![Main(k)] = "factory"]
    BY <2>2 DEF Enter
  <2>4. todo[Main(k)] = {} /\ cmd[Main(k)] = NoCommand
    BY <2>1 DEF Handling, Claims
  <2>5. pc'[Main(k)] = "recover" /\ handler'[Main(k)] = "factory"
    BY <2>1, <2>3 DEF TypeOK
  <2>6. HandlingOf(Main(k))'
    BY <2>2, <2>4, <2>5 DEF HandlingOf
  <2> QED BY <2>1, <2>2, <2>3, <2>6, HandlingLane DEF TypeOK
<1>4. ASSUME NEW k \in Consoles, Crash(k) \/ Exit(k) PROVE Handling'
  <2>1. Stop(k)
    BY <1>4 DEF Crash, Exit
  <2>2. \A l \in Lanes : \/ UNCHANGED <<pc[l], handler[l], todo[l], cmd[l]>>
                         \/ pc'[l] = "idle" /\ todo'[l] = {} /\ cmd'[l] = NoCommand
    BY <2>1 DEF Stop
  <2> QED BY <2>2 DEF Handling, Active
<1>5. ASSUME NEW l \in Lanes, BeginLane(l) PROVE Handling'
  <2>1. /\ pc' = [pc EXCEPT ![l] = "recover"] /\ UNCHANGED <<todo, cmd>> /\ pc[l] = "spawned"
        /\ handler' = [handler EXCEPT ![l] = IF l[2] = 0 THEN "work_item" ELSE "factory"]
    BY <1>5 DEF BeginLane, Enter
  <2>2. todo[l] = {} /\ cmd[l] = NoCommand
    BY <2>1 DEF Handling, Claims
  <2>3. handler'[l] \in {"work_item", "factory"}
    BY <2>1 DEF TypeOK
  <2>4. HandlingOf(l)'
    BY <2>1, <2>2, <2>3 DEF HandlingOf
  <2> QED BY <2>1, <2>4, HandlingLane DEF TypeOK
<1>6. ASSUME NEW l \in Lanes, \/ Recover(l) \/ Reject(l) \/ LeaveUnwired(l)
                              \/ CallPort(l) \/ LogOutcome(l)
      PROVE  Handling'
  <2>1. UNCHANGED <<handler, todo, cmd>> /\ Active(l)
    BY <1>6 DEF Recover, Reject, LeaveUnwired, CallPort, LogOutcome, Active
  <2>2. \/ pc' = [pc EXCEPT ![l] = "list"] /\ pc[l] = "recover"
        \/ pc' = [pc EXCEPT ![l] = "outcome"]
        \/ pc' = pc
    BY <1>6 DEF Recover, Reject, LeaveUnwired, CallPort, LogOutcome, Decide
  <2>3. \A m \in Lanes : /\ Active(m)' => Active(m)
                         /\ \/ pc'[m] = pc[m]
                            \/ pc[m] = "recover"
                            \/ pc'[m] = "outcome"
    BY <2>1, <2>2 DEF Active, TypeOK
  <2> QED BY <2>1, <2>3 DEF Handling
<1>7. ASSUME NEW l \in Lanes, List(l) PROVE Handling'
  <2>1. /\ pc' = [pc EXCEPT ![l] = "next"] /\ UNCHANGED <<handler, cmd>> /\ pc[l] = "list"
        /\ todo' = [todo EXCEPT ![l] = {c \in Commands : /\ status[c] = "pending"
                                                         /\ Handles(handler[l], c)
                                                         /\ IsFactory(c) \/ ~Blocked(c)}]
    BY <1>7 DEF List
  <2>2. pc'[l] = "next" /\ \A c \in todo'[l] : Handles(handler[l], c)
    BY <2>1 DEF TypeOK
  <2>3. handler[l] \in {"factory", "work_item", "config"} /\ cmd[l] = NoCommand
    BY <2>1 DEF Handling, Active, Claims
  <2>4. HandlingOf(l)'
    BY <2>1, <2>2, <2>3 DEF HandlingOf
  <2> QED BY <2>1, <2>4, HandlingLane DEF TypeOK
<1>8. ASSUME NEW l \in Lanes, Claim(l) PROVE Handling'
  <2>1. PICK c \in todo[l] :
          /\ todo' = [todo EXCEPT ![l] = @ \ {c}]
          /\ \/ cmd' = [cmd EXCEPT ![l] = c] /\ pc' = [pc EXCEPT ![l] = "claimed"]
             \/ UNCHANGED <<cmd, pc>>
    BY <1>8 DEF Claim
  <2>2. UNCHANGED handler /\ pc[l] = "next" /\ todo'[l] = todo[l] \ {c}
    BY <1>8, <2>1 DEF Claim, TypeOK
  <2>3. /\ pc'[l] \in {"next", "claimed"}
        /\ cmd'[l] \in {cmd[l], c}
    BY <2>1, <2>2 DEF TypeOK
  <2>4. HandlingOf(l)'
    BY <2>1, <2>2, <2>3 DEF Handling, HandlingOf, Active
  <2> QED BY <2>1, <2>2, <2>4, HandlingLane DEF TypeOK
<1>9. ASSUME NEW l \in Lanes, Finalize(l), status[cmd[l]] = "executing" PROVE Handling'
  <2>1. /\ cmd' = [cmd EXCEPT ![l] = NoCommand] /\ pc' = [pc EXCEPT ![l] = "next"]
        /\ UNCHANGED <<handler, todo>> /\ pc[l] = "outcome"
    BY <1>9 DEF Finalize
  <2>2. pc'[l] = "next" /\ cmd'[l] = NoCommand
    BY <2>1 DEF TypeOK
  <2>3. HandlingOf(l)'
    BY <2>1, <2>2 DEF Handling, HandlingOf, Active
  <2> QED BY <2>1, <2>3, HandlingLane DEF TypeOK
<1>10. ASSUME NEW l \in Lanes, \/ Finalize(l) /\ status[cmd[l]] # "executing"
                               \/ EndHandler(l) \/ Abort(l)
       PROVE  Handling'
  <2>1. Leave(l) \/ Proceed(l) \/ EndLane(l)
    BY <1>10 DEF Finalize, Fail, EndHandler, Abort
  <2>2. Drop(l) \/ (UNCHANGED <<todo, cmd>> /\ todo[l] = {} /\ pc[l] = "next")
    BY <1>10 DEF Finalize, Fail, EndHandler, Abort
  <2>3. /\ todo'[l] = {} /\ cmd'[l] = NoCommand
        /\ \A m \in Lanes \ {l} : todo'[m] = todo[m] /\ cmd'[m] = cmd[m]
    <3>1. CASE Drop(l)
      BY <3>1 DEF Drop, TypeOK
    <3>2. CASE UNCHANGED <<todo, cmd>> /\ todo[l] = {} /\ pc[l] = "next"
      BY <3>2 DEF Claims
    <3> QED BY <2>2, <3>1, <3>2
  <2>4. Active(l)' => handler'[l] \in {"factory", "work_item", "config"}
    BY <2>1, Leaving DEF Active
  <2>5. HandlingOf(l)'
    BY <2>3, <2>4 DEF HandlingOf
  <2> QED BY <2>1, <2>3, <2>5, Leaving, HandlingLane
<1> QED
  BY <1>1, <1>2, <1>3, <1>4, <1>5, <1>6, <1>7, <1>8, <1>9, <1>10 DEF Next, Wake, Work

\* No claim is stale while nothing disturbs.
LEMMA NothingStale ==
  ASSUME TypeOK, Clocks, Undisturbed, NEW l \in Lanes, Recover(l)
  PROVE  status' = status
<1>1. \A c \in Commands : status[c] = "executing" => stamp[c] + StaleAfter >= at[l]
  BY BoundsAssumption DEF BoundsAssumption, TypeOK, Clocks, Undisturbed
<1>2. Stale(l) = {}
  BY <1>1, BoundsAssumption DEF BoundsAssumption, Stale, TypeOK
<1> QED BY <1>2 DEF Recover, TypeOK

\* What is left of Next while nothing disturbs: no fault, no main thread, no late finalization.
OrdinaryWork(l) ==
  \/ BeginLane(l) \/ List(l) \/ Claim(l) \/ EndHandler(l)
  \/ Recover(l) /\ status' = status
  \/ Reject(l) \/ LeaveUnwired(l) \/ CallPort(l) \/ LogOutcome(l)
  \/ Finalize(l) /\ status[cmd[l]] = "executing"

\* A step after which nothing has disturbed is one of those.
LEMMA UndisturbedSteps ==
  ASSUME TypeOK, Claims, Clocks, Attended, [Next]_vars, Undisturbed'
  PROVE  /\ Undisturbed
         /\ \/ UNCHANGED vars \/ Tick
            \/ \E k \in Consoles :
                 \/ OpenSession(k) \/ SendWake(k)
                 \/ \E t \in 1 .. FactoryThreads : TakeWake(k, t)
                 \/ \E c \in Commands : Issue(k, c) \/ IssueAgain(k, c)
            \/ \E l \in Lanes : OrdinaryWork(l)
<1> USE DEF rowVars, portVars, consoleVars, laneVars, worldVars
<1>0. now \in Nat /\ faults \in Nat /\ passes \in Nat
  BY BoundsAssumption DEF BoundsAssumption, TypeOK
<1>1. ASSUME NEW l \in Lanes, Abort(l) PROVE FALSE
  BY <1>0, <1>1 DEF Abort, Undisturbed
<1>2. ASSUME NEW k \in Consoles, Quit(k) \/ Serve(k) \/ Crash(k) PROVE FALSE
  BY <1>0, <1>2 DEF Quit, Serve, Crash, Undisturbed
<1>3. /\ faults' = faults /\ passes' = passes
      /\ now' \in {now, now + 1}
  <2>1. CASE UNCHANGED vars \/ Tick
    BY <2>1 DEF vars, Tick
  <2>2. ASSUME NEW k \in Consoles,
               \/ OpenSession(k) \/ Exit(k) \/ Wake(k)
               \/ \E c \in Commands : Issue(k, c) \/ IssueAgain(k, c)
        PROVE  UNCHANGED <<faults, passes, now>>
    BY <2>2 DEF OpenSession, Exit, Stop, Wake, SendWake, TakeWake, Issue, IssueAgain, Press
  <2>3. ASSUME NEW l \in Lanes, Work(l)
        PROVE  UNCHANGED <<faults, passes, now>>
    BY <2>3 DEF Work, BeginLane, Recover, List, Claim, Reject, LeaveUnwired, CallPort, LogOutcome,
       Finalize, EndHandler
  <2> QED BY <1>1, <1>2, <2>1, <2>2, <2>3 DEF Next
<1>4. Undisturbed
  BY <1>0, <1>3, BoundsAssumption DEF BoundsAssumption, Undisturbed
<1>5. ASSUME NEW k \in Consoles, Exit(k) PROVE FALSE
  BY <1>4, <1>5 DEF Exit, Attended
<1>6. ASSUME NEW l \in Lanes, Work(l) PROVE OrdinaryWork(l)
  <2>1. Recover(l) => status' = status
    BY <1>4, NothingStale
  <2>2. Finalize(l) => status[cmd[l]] = "executing"
    BY <1>4 DEF Finalize, Attended, Claims
  <2> QED BY <1>6, <2>1, <2>2 DEF Work, OrdinaryWork
<1> QED BY <1>1, <1>2, <1>4, <1>5, <1>6 DEF Next, Wake

\* Undisturbed, what is claimed is held until it is finalized.
LEMMA AttendedStep ==
  ASSUME TypeOK, Claims, SoleClaimant, Clocks, Attended, [Next]_vars
  PROVE  Attended'
<1> SUFFICES ASSUME Undisturbed'
             PROVE  /\ \A k \in Consoles : pc'[Main(k)] = "idle"
                    /\ \A l \in Lanes : cmd'[l] # NoCommand => status'[cmd'[l]] = "executing"
                    /\ \A c \in Commands : status'[c] = "executing" => \E l \in Lanes : cmd'[l] = c
  BY DEF Attended, Main
<1> USE DEF rowVars, portVars, consoleVars, laneVars, worldVars
<1>0. Undisturbed
  BY UndisturbedSteps
<1>1. /\ \A k \in Consoles : Main(k) \in Lanes /\ pc[Main(k)] = "idle"
      /\ \A l \in Lanes : cmd[l] # NoCommand => status[cmd[l]] = "executing"
      /\ \A c \in Commands : status[c] = "executing" => \E l \in Lanes : cmd[l] = c
  BY <1>0, BoundsAssumption DEF BoundsAssumption, Attended, Main, Lanes
<1>2. CASE \/ UNCHANGED vars \/ Tick
           \/ \E k \in Consoles : \/ OpenSession(k) \/ SendWake(k)
                                  \/ \E c \in Commands : IssueAgain(k, c)
  <2>1. UNCHANGED <<pc, cmd, status>>
    BY <1>2 DEF vars, Tick, OpenSession, SendWake, IssueAgain
  <2> QED BY <1>1, <2>1
<1>3. ASSUME NEW k \in Consoles, NEW c \in Commands, Issue(k, c)
      PROVE  /\ \A j \in Consoles : pc'[Main(j)] = "idle"
             /\ \A l \in Lanes : cmd'[l] # NoCommand => status'[cmd'[l]] = "executing"
             /\ \A d \in Commands : status'[d] = "executing" => \E l \in Lanes : cmd'[l] = d
  <2>1. /\ status' = [status EXCEPT ![c] = "pending"] /\ status[c] = "absent"
        /\ UNCHANGED <<pc, cmd>>
    BY <1>3 DEF Issue
  <2> QED BY <1>1, <2>1 DEF TypeOK
<1>4. ASSUME NEW k \in Consoles, NEW t \in 1 .. FactoryThreads, TakeWake(k, t)
      PROVE  /\ \A j \in Consoles : pc'[Main(j)] = "idle"
             /\ \A l \in Lanes : cmd'[l] # NoCommand => status'[cmd'[l]] = "executing"
             /\ \A d \in Commands : status'[d] = "executing" => \E l \in Lanes : cmd'[l] = d
  <2>1. UNCHANGED <<cmd, status>>
    BY <1>4 DEF TakeWake
  <2>2. \A j \in Consoles : Main(j) # <<k, 0>> /\ Main(j) # <<k, t>>
    BY BoundsAssumption DEF BoundsAssumption, Main
  <2>3. \A j \in Consoles : pc'[Main(j)] = pc[Main(j)]
    BY <1>1, <1>4, <2>2 DEF TakeWake
  <2> QED BY <1>1, <2>1, <2>3
<1>5. ASSUME NEW l \in Lanes, OrdinaryWork(l)
      PROVE  /\ \A j \in Consoles : pc'[Main(j)] = "idle"
             /\ \A m \in Lanes : cmd'[m] # NoCommand => status'[cmd'[m]] = "executing"
             /\ \A d \in Commands : status'[d] = "executing" => \E m \in Lanes : cmd'[m] = d
  <2>1. pc[l] # "idle"
    BY <1>5 DEF OrdinaryWork, BeginLane, List, Claim, EndHandler, Recover, Reject, LeaveUnwired,
       CallPort, LogOutcome, Finalize
  <2>2. \A m \in Lanes \ {l} : pc'[m] = pc[m]
    <3>1. CASE EndHandler(l)
      BY <3>1, Leaving DEF EndHandler
    <3>2. CASE ~EndHandler(l)
      BY <1>5, <3>2 DEF OrdinaryWork, BeginLane, Enter, List, Claim, Recover, Reject, LeaveUnwired,
         CallPort, LogOutcome, Finalize, Decide, TypeOK
    <3> QED BY <3>1, <3>2
  <2>3. \A j \in Consoles : pc'[Main(j)] = "idle"
    BY <1>1, <2>1, <2>2
  <2>4. CASE Claim(l)
    <3>1. PICK c \in todo[l] :
            IF Claimable(c)
              THEN /\ status' = [status EXCEPT ![c] = "executing"] /\ cmd' = [cmd EXCEPT ![l] = c]
              ELSE UNCHANGED <<status, cmd>>
      BY <2>4 DEF Claim
    <3>2. c \in Commands /\ cmd[l] = NoCommand
      BY <2>4 DEF Claim, Claims, TypeOK
    <3>3. CASE ~Claimable(c)
      BY <1>1, <2>3, <3>1, <3>3
    <3>4. CASE Claimable(c)
      <4>1. /\ status' = [status EXCEPT ![c] = "executing"] /\ cmd' = [cmd EXCEPT ![l] = c]
            /\ status[c] = "pending"
        BY <3>1, <3>4 DEF Claimable
      <4>2. cmd'[l] = c /\ \A m \in Lanes \ {l} : cmd'[m] = cmd[m]
        BY <4>1 DEF TypeOK
      <4>3. status'[c] = "executing" /\ \A d \in Commands \ {c} : status'[d] = status[d]
        BY <3>2, <4>1 DEF TypeOK
      <4>4. \A m \in Lanes : cmd'[m] # NoCommand => status'[cmd'[m]] = "executing"
        <5> SUFFICES ASSUME NEW m \in Lanes, m # l, cmd[m] # NoCommand
                     PROVE  status'[cmd[m]] = "executing"
          BY <4>2, <4>3
        <5>1. cmd[m] \in Commands /\ status[cmd[m]] = "executing"
          BY <1>1 DEF TypeOK
        <5> QED BY <4>3, <5>1
      <4>5. \A d \in Commands : status'[d] = "executing" => \E m \in Lanes : cmd'[m] = d
        <5> SUFFICES ASSUME NEW d \in Commands, status'[d] = "executing", d # c
                     PROVE  \E m \in Lanes : cmd'[m] = d
          BY <4>2
        <5>1. PICK m \in Lanes : cmd[m] = d
          BY <1>1, <4>3
        <5>2. m # l
          BY <3>2, <5>1, CommandsAssumption DEF CommandsAssumption
        <5> QED BY <4>2, <5>1, <5>2
      <4> QED BY <2>3, <4>4, <4>5
    <3> QED BY <3>3, <3>4
  <2>5. CASE Finalize(l) /\ status[cmd[l]] = "executing"
    <3>1. /\ status' = [status EXCEPT ![cmd[l]] = verdict[l]] /\ verdict[l] \in Terminal
          /\ cmd' = [cmd EXCEPT ![l] = NoCommand] /\ cmd[l] # NoCommand
      BY <2>5 DEF Finalize, Claims
    <3>2. cmd[l] \in Commands
      BY <3>1 DEF TypeOK
    <3>3. cmd'[l] = NoCommand /\ \A m \in Lanes \ {l} : cmd'[m] = cmd[m]
      BY <3>1 DEF TypeOK
    <3>4. status'[cmd[l]] = verdict[l] /\ \A d \in Commands \ {cmd[l]} : status'[d] = status[d]
      BY <3>1, <3>2 DEF TypeOK
    <3>5. \A m \in Lanes : cmd'[m] # NoCommand => status'[cmd'[m]] = "executing"
      <4> SUFFICES ASSUME NEW m \in Lanes, cmd'[m] # NoCommand
                   PROVE  status'[cmd'[m]] = "executing"
        OBVIOUS
      <4>1. m # l /\ cmd'[m] = cmd[m]
        BY <3>3
      <4>2. cmd[m] # cmd[l] /\ cmd[m] \in Commands
        BY <4>1 DEF SoleClaimant, TypeOK
      <4> QED BY <1>1, <3>4, <4>1, <4>2
    <3>6. \A d \in Commands : status'[d] = "executing" => \E m \in Lanes : cmd'[m] = d
      <4> SUFFICES ASSUME NEW d \in Commands, status'[d] = "executing"
                   PROVE  \E m \in Lanes : cmd'[m] = d
        OBVIOUS
      <4>1. d # cmd[l]
        BY <3>1, <3>4 DEF Terminal
      <4>2. PICK m \in Lanes : cmd[m] = d
        BY <1>1, <3>4, <4>1
      <4> QED BY <3>3, <4>1, <4>2
    <3> QED BY <2>3, <3>5, <3>6
  <2>6. CASE ~Claim(l) /\ ~(Finalize(l) /\ status[cmd[l]] = "executing")
    <3>1. UNCHANGED <<status, cmd>>
      BY <1>5, <2>6 DEF OrdinaryWork, BeginLane, List, EndHandler, Recover, Reject, LeaveUnwired,
         CallPort, LogOutcome
    <3> QED BY <1>1, <2>3, <3>1
  <2> QED BY <1>5, <2>4, <2>5, <2>6 DEF OrdinaryWork
<1> QED BY <1>2, <1>3, <1>4, <1>5, UndisturbedSteps

\* What a handler takes, and where the lane of each kind of command begins.
LEMMA KindsHandled ==
  ASSUME NEW c \in Commands
  PROVE  /\ IsFactory(c) \/ Kind[c] = "valve" \/ Kind[c] = "config"
         /\ Handles("factory", c) <=> IsFactory(c)
         /\ Handles("work_item", c) <=> Kind[c] = "valve"
         /\ Handles("config", c) <=> Kind[c] = "config"
         /\ IsFactory(c) => Kind[c] # "valve" /\ Kind[c] # "config"
BY CommandsAssumption DEF CommandsAssumption, Kinds, IsFactory, Handles

\* A lane that is to look at a factory command is to look at every other, too.
LEMMA FactoryGoesOn ==
  ASSUME TypeOK, Handling, NEW f \in Commands, IsFactory(f), NEW m \in Lanes,
         YetToList(m, f) \/ f \in todo[m] \/ (cmd[m] = f /\ Active(m))
  PROVE  (pc[m] = "spawned" /\ m[2] # 0) \/ handler[m] = "factory"
<1>1. CASE pc[m] = "spawned"
  <2>1. f \notin todo[m] /\ handler[m] # "factory" => m[2] # 0
    BY <1>1, KindsHandled DEF YetToList, Active
  <2>2. f \notin todo[m]
    BY <1>1 DEF Handling
  <2> QED BY <1>1, <2>1, <2>2
<1>2. CASE pc[m] # "spawned"
  <2>1. Active(m) \/ handler[m] = "factory"
    BY <1>2, KindsHandled DEF YetToList, Handling, Active
  <2>2. Handles(handler[m], f) \/ handler[m] = "factory"
    BY <1>2, KindsHandled, CommandsAssumption DEF CommandsAssumption, YetToList, Handling
  <2>3. Active(m) => handler[m] \in {"factory", "work_item", "config"}
    BY DEF Handling
  <2> QED BY <2>1, <2>2, <2>3, KindsHandled
<1> QED BY <1>1, <1>2

\* A lane's own step leaves every other lane where it is.
LEMMA OthersRest ==
  ASSUME TypeOK, NEW l \in Lanes, OrdinaryWork(l)
  PROVE  /\ UNCHANGED <<unsent, wakes>>
         /\ \A m \in Lanes \ {l} : pc'[m] = pc[m] /\ handler'[m] = handler[m] /\ todo'[m] = todo[m]
<1> USE DEF rowVars, portVars, consoleVars, laneVars, worldVars
<1>1. CASE EndHandler(l)
  BY <1>1, Leaving DEF EndHandler
<1>2. CASE ~EndHandler(l)
  <2>1. UNCHANGED <<unsent, wakes>>
    BY <1>2 DEF OrdinaryWork, BeginLane, List, Claim, Recover, Reject, LeaveUnwired,
       CallPort, LogOutcome, Finalize
  <2>2. \A m \in Lanes \ {l} : pc'[m] = pc[m] /\ handler'[m] = handler[m]
    BY <1>2 DEF OrdinaryWork, BeginLane, Enter, List, Claim, Recover, Reject, LeaveUnwired,
       CallPort, LogOutcome, Finalize, Decide, TypeOK
  <2>3. \A m \in Lanes \ {l} : todo'[m] = todo[m]
    BY <1>2 DEF OrdinaryWork, BeginLane, List, Claim, Recover, Reject, LeaveUnwired,
       CallPort, LogOutcome, Finalize, TypeOK
  <2> QED BY <2>1, <2>2, <2>3
<1> QED BY <1>1, <1>2

\* What waits after a lane's step waited before it.
LEMMA PendingBefore ==
  ASSUME TypeOK, Claims, NEW l \in Lanes, OrdinaryWork(l),
         NEW c \in Commands, status'[c] = "pending"
  PROVE  status[c] = "pending"
<1> USE DEF rowVars, portVars, consoleVars, laneVars, worldVars
<1>1. CASE Claim(l)
  <2>1. PICK d \in todo[l] : status' = [status EXCEPT ![d] = "executing"] \/ status' = status
    BY <1>1 DEF Claim
  <2> QED BY <2>1 DEF TypeOK
<1>2. CASE Finalize(l) /\ status[cmd[l]] = "executing"
  <2>1. status' = [status EXCEPT ![cmd[l]] = verdict[l]] /\ verdict[l] \in Terminal
    BY <1>2 DEF Finalize, Claims
  <2> QED BY <2>1 DEF TypeOK, Terminal
<1>3. CASE ~Claim(l) /\ ~(Finalize(l) /\ status[cmd[l]] = "executing")
  <2>1. UNCHANGED status
    BY <1>3 DEF OrdinaryWork, BeginLane, List, EndHandler, Recover, Reject, LeaveUnwired,
       CallPort, LogOutcome
  <2> QED BY <2>1
<1> QED BY <1>1, <1>2, <1>3

\* The lane that is to look at a command goes on to it, tries it, or has left it
\* behind a factory command, whose own lane is then to look at both.
LEMMA LaneGoesOn ==
  ASSUME TypeOK, Claims, Handling, Attended, Undisturbed, NothingStranded,
         NEW l \in Lanes, OrdinaryWork(l), NEW c \in Commands, status'[c] = "pending",
         YetToList(l, c) \/ c \in todo[l]
  PROVE  Expected(c)'
<1> USE DEF rowVars, portVars, consoleVars, laneVars, worldVars
<1>1. status[c] = "pending"
  BY PendingBefore
<1>2. SUFFICES ASSUME ~(YetToList(l, c)' \/ c \in todo'[l])
               PROVE  \/ \E k \in Consoles : unsent[k] \/ wakes[k] > 0
                      \/ \E m \in Lanes \ {l} : YetToList(m, c)
  <2>1. \A m \in Lanes \ {l} : YetToList(m, c) => YetToList(m, c)'
    BY OthersRest DEF YetToList
  <2> QED BY <2>1, OthersRest DEF Expected
<1>3. CASE BeginLane(l)
  <2>1. pc[l] = "spawned" /\ pc'[l] = "recover"
        /\ handler'[l] = IF l[2] = 0 THEN "work_item" ELSE "factory"
    BY <1>3 DEF BeginLane, Enter, TypeOK
  <2>2. c \notin todo[l] /\ handler[l] \in Handlers
    BY <2>1 DEF Handling, TypeOK
  <2>3. CASE l[2] # 0
    BY <1>2, <2>1, <2>3, KindsHandled DEF YetToList
  <2>4. CASE l[2] = 0 /\ ~IsFactory(c)
    BY <1>2, <2>1, <2>4, KindsHandled DEF YetToList
  <2>5. CASE l[2] = 0 /\ IsFactory(c)
    BY <2>1, <2>2, <2>5, KindsHandled DEF YetToList
  <2> QED BY <2>3, <2>4, <2>5
<1>4. CASE Recover(l)
  <2>1. pc[l] = "recover" /\ pc'[l] = "list" /\ handler'[l] = handler[l] /\ todo'[l] = todo[l]
    BY <1>4 DEF Recover, TypeOK
  <2> QED BY <1>2, <2>1 DEF YetToList
<1>5. CASE List(l)
  <2>1. /\ pc[l] = "list" /\ handler'[l] = handler[l]
        /\ todo'[l] = {d \in Commands : /\ status[d] = "pending" /\ Handles(handler[l], d)
                                        /\ IsFactory(d) \/ ~Blocked(d)}
    BY <1>5 DEF List, TypeOK
  <2>2. Handles(handler[l], c) /\ ~IsFactory(c) /\ Blocked(c)
    BY <1>1, <1>2, <2>1 DEF YetToList, Handling
  <2>3. handler[l] # "factory" /\ cmd[l] = NoCommand
    BY <2>1, <2>2, KindsHandled DEF Claims
  <2>4. PICK f \in Commands : IsFactory(f) /\ status[f] \in InFlight
    BY <2>2 DEF Blocked
  <2>5. \/ \E k \in Consoles : unsent[k] \/ wakes[k] > 0
        \/ \E m \in Lanes : YetToList(m, f) \/ f \in todo[m] \/ (cmd[m] = f /\ Active(m))
    <3>1. CASE status[f] = "pending"
      BY <3>1 DEF NothingStranded, Expected
    <3>2. CASE status[f] = "executing"
      <4>1. PICK m \in Lanes : cmd[m] = f
        BY <3>2 DEF Attended
      <4>2. Active(m)
        BY <4>1, CommandsAssumption DEF CommandsAssumption, Claims, Active
      <4> QED BY <4>1, <4>2
    <3> QED BY <2>4, <3>1, <3>2 DEF InFlight
  <2>6. \A m \in Lanes : (pc[m] = "spawned" /\ m[2] # 0) \/ handler[m] = "factory"
                           => m # l /\ YetToList(m, c)
    BY <2>1, <2>2, <2>3 DEF YetToList
  <2> QED BY <2>4, <2>5, <2>6, FactoryGoesOn
<1>6. CASE Claim(l)
  <2>1. PICK d \in todo[l] : /\ todo' = [todo EXCEPT ![l] = @ \ {d}]
                             /\ IF status[d] = "pending"
                                  THEN status' = [status EXCEPT ![d] = "executing"]
                                  ELSE status' = status
    BY <1>6 DEF Claim, Claimable
  <2>2. pc[l] = "next" /\ handler'[l] = handler[l] /\ todo'[l] = todo[l] \ {d} /\ d \in Commands
    BY <1>6, <2>1 DEF Claim, TypeOK
  <2>3. d # c
    BY <1>1, <2>1, <2>2 DEF TypeOK
  <2> QED BY <1>2, <2>2, <2>3 DEF YetToList
<1>7. CASE EndHandler(l)
  <2>1. pc[l] = "next" /\ todo[l] = {} /\ Proceed(l)
    BY <1>7 DEF EndHandler
  <2>2. \/ handler[l] = "factory" /\ ~IsFactory(c)
        \/ handler[l] = "work_item" /\ Kind[c] = "config"
    BY <2>1 DEF YetToList
  <2>3. \/ handler[l] = "factory" /\ Following(handler[l]) = "work_item"
        \/ handler[l] = "work_item" /\ Following(handler[l]) = "config"
    <3>1. ASSUME NEW h, h = "factory" PROVE Following(h) = "work_item"
      BY <3>1 DEF Following
    <3>2. ASSUME NEW h, h = "work_item" PROVE Following(h) = "config"
      BY <3>2 DEF Following
    <3> QED BY <2>2, <3>1, <3>2
  <2>4. Following(handler[l]) # "none"
    BY <2>3
  <2>5. Enter(l, Following(handler[l]))
    BY <2>1, <2>4 DEF Proceed
  <2>6. pc'[l] = "recover" /\ handler'[l] = Following(handler[l])
    BY <2>5 DEF Enter, TypeOK
  <2>7. CASE handler[l] = "factory"
    <3>1. pc'[l] = "recover" /\ handler'[l] = "work_item" /\ ~IsFactory(c)
      BY <2>2, <2>3, <2>6, <2>7
    <3>2. YetToList(l, c)'
      BY <3>1, KindsHandled DEF YetToList
    <3> QED BY <1>2, <3>2
  <2>8. CASE handler[l] = "work_item"
    <3>1. pc'[l] = "recover" /\ handler'[l] = "config" /\ Kind[c] = "config"
      BY <2>2, <2>3, <2>6, <2>8
    <3>2. YetToList(l, c)'
      BY <3>1, KindsHandled DEF YetToList
    <3> QED BY <1>2, <3>2
  <2> QED BY <2>2, <2>7, <2>8
<1>8. CASE \/ Reject(l) \/ LeaveUnwired(l) \/ CallPort(l) \/ LogOutcome(l)
           \/ Finalize(l) /\ status[cmd[l]] = "executing"
  <2>1. pc[l] \in {"claimed", "outcome"} /\ UNCHANGED <<handler, todo>>
    BY <1>8 DEF Reject, LeaveUnwired, CallPort, LogOutcome, Finalize
  <2> QED BY <1>2, <2>1 DEF YetToList
<1> QED BY <1>3, <1>4, <1>5, <1>6, <1>7, <1>8 DEF OrdinaryWork

\* No step leaves a pending command behind.
LEMMA StrandedStep ==
  ASSUME TypeOK, Claims, Clocks, Handling, Attended, NothingStranded, [Next]_vars
  PROVE  NothingStranded'
<1> SUFFICES ASSUME Undisturbed', NEW c \in Commands, status'[c] = "pending"
             PROVE  Expected(c)'
  BY DEF NothingStranded
<1> USE DEF rowVars, portVars, consoleVars, laneVars, worldVars
<1>0. Undisturbed
  BY UndisturbedSteps
<1>1. CASE UNCHANGED vars \/ Tick \/ \E k \in Consoles : OpenSession(k)
  <2>1. UNCHANGED <<status, unsent, wakes, pc, handler, todo>>
    BY <1>1 DEF vars, Tick, OpenSession
  <2> QED BY <1>0, <2>1 DEF NothingStranded, Expected, YetToList
<1>2. ASSUME NEW k \in Consoles, \E d \in Commands : Issue(k, d) \/ IssueAgain(k, d)
      PROVE  Expected(c)'
  BY <1>2 DEF Issue, IssueAgain, Press, Expected, TypeOK
<1>3. ASSUME NEW k \in Consoles, SendWake(k) PROVE Expected(c)'
  <2>1. wakes'[k] > 0
    BY <1>3 DEF SendWake, TypeOK
  <2> QED BY <2>1 DEF Expected
<1>4. ASSUME NEW k \in Consoles, NEW t \in 1 .. FactoryThreads, TakeWake(k, t) PROVE Expected(c)'
  <2>1. <<k, t>> \in Lanes /\ t # 0
    BY BoundsAssumption DEF BoundsAssumption, Lanes
  <2>2. pc'[<<k, t>>] = "spawned"
    BY <1>4, <2>1 DEF TakeWake
  <2> QED BY <2>1, <2>2 DEF Expected, YetToList
<1>5. ASSUME NEW l \in Lanes, OrdinaryWork(l) PROVE Expected(c)'
  <2>1. Expected(c)
    BY <1>0, <1>5, PendingBefore DEF NothingStranded
  <2>2. CASE YetToList(l, c) \/ c \in todo[l]
    BY <1>0, <1>5, <2>2, LaneGoesOn
  <2>3. CASE ~(YetToList(l, c) \/ c \in todo[l])
    BY <1>5, <2>1, <2>3, OthersRest DEF Expected, YetToList
  <2> QED BY <2>2, <2>3
<1> QED BY <1>1, <1>2, <1>3, <1>4, <1>5, UndisturbedSteps

\* NothingStranded: for any consoles, threads, commands and interleavings.
THEOREM NobodyIsStranded == Spec => []NothingStranded
<1> DEFINE Inv == Clocks /\ Handling /\ Attended /\ NothingStranded
<1>1. Init => Inv
  BY BoundsAssumption DEF BoundsAssumption, Init, Clocks, Handling, Attended, NothingStranded,
     Active, Main, Lanes
<1>2. TypeOK /\ Kept /\ Inv /\ [Next]_vars => Inv'
  BY ClocksStep, HandlingStep, AttendedStep, StrandedStep DEF Kept
<1> HIDE DEF Inv
<1>3. Spec => []Inv
  BY <1>1, <1>2, Invariance, PTL DEF Spec
<1>4. Inv => NothingStranded
  BY DEF Inv
<1> QED BY <1>3, <1>4, PTL
===============================================================================
