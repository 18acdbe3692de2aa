--------------------------- MODULE SourcePollerProofs ---------------------------
(***************************************************************************)
(* Proofs about the poller, for any roster, cadence, grace and number of   *)
(* queued messages.                                                        *)
(*                                                                         *)
(* The argument: what the loop found left of its window, and what has      *)
(* passed of it, never come to less than a cadence (Window).  A loop that  *)
(* turns to a poll found nothing left, so that a cadence has passed.       *)
(* NothingForgotten is inductive as it stands: a message is taken from the *)
(* head of the channel only, and a turn keeps the rows it is woken with    *)
(* or begins their poll.                                                   *)
(***************************************************************************)
EXTENDS SourcePoller, TLAPS

\* What was left when the window was sized is still left or has passed since.
Window == at = "waiting" => left + since >= Cadence

\* The initial state is of the right type, and no window is open.
LEMMA InitPoller == Init => TypeOK /\ Window
BY BoundsAssumption DEF BoundsAssumption, Init, TypeOK, Window, Requests

\* What a turn of the loop leaves is of the right type.
LEMMA TurnType ==
  ASSUME TypeOK, NEW woken \in BOOLEAN, NEW named \in SUBSET Sources, Turn(woken, named)
  PROVE  /\ at' \in {"sizing", "polling"}
         /\ listed' \subseteq Sources
         /\ polling' = {Sweep} \/ polling' \subseteq Sources
         /\ owed' \subseteq Requests
BY DEF Turn, Wanted, TypeOK, Requests

\* Every step keeps every variable in its type.
LEMMA PollerType == TypeOK /\ [Next]_vars => TypeOK'
<1> SUFFICES ASSUME TypeOK, [Next]_vars PROVE TypeOK'
  OBVIOUS
<1>1. CASE Start
  BY <1>1, BoundsAssumption DEF BoundsAssumption, Start, TypeOK
<1>2. CASE StartFails
  BY <1>2 DEF StartFails, TypeOK
<1>3. CASE Size
  <2>1. left' \in 0 .. Cadence
    BY <1>3, BoundsAssumption DEF BoundsAssumption, Size, TypeOK
  <2> QED BY <1>3, <2>1 DEF Size, TypeOK
<1>4. CASE Receive
  <2>1. queue' \in Seq(Requests \cup {Shutdown}) /\ Head(queue) \in Requests \cup {Shutdown}
    BY <1>4 DEF Receive, TypeOK
  <2>2. CASE Head(queue) = Shutdown
    BY <1>4, <2>1, <2>2 DEF Receive, TypeOK
  <2>3. CASE Head(queue) # Shutdown
    <3>1. Named(Head(queue)) \in SUBSET Sources /\ TRUE \in BOOLEAN
      BY <2>1, <2>3 DEF Named, TypeOK, Requests
    <3>2. Turn(TRUE, Named(Head(queue)))
      BY <1>4, <2>3 DEF Receive
    <3>3. /\ at' \in {"sizing", "polling"}
          /\ listed' \subseteq Sources
          /\ polling' = {Sweep} \/ polling' \subseteq Sources
          /\ owed' \subseteq Requests
      BY <3>1, <3>2, TurnType
    <3> QED BY <1>4, <2>1, <3>3 DEF Receive, TypeOK
  <2> QED BY <2>2, <2>3
<1>5. CASE TimeOut
  <2>1. listed \in SUBSET Sources /\ FALSE \in BOOLEAN /\ Turn(FALSE, listed)
    BY <1>5 DEF TimeOut, TypeOK
  <2>2. /\ at' \in {"sizing", "polling"}
        /\ listed' \subseteq Sources
        /\ polling' = {Sweep} \/ polling' \subseteq Sources
        /\ owed' \subseteq Requests
    BY <2>1, TurnType
  <2> QED BY <1>5, <2>2 DEF TimeOut, TypeOK
<1>6. CASE EndPoll
  BY <1>6, BoundsAssumption DEF BoundsAssumption, EndPoll, TypeOK
<1>7. ASSUME NEW r \in Requests, Request(r) PROVE TypeOK'
  BY <1>7 DEF Request, TypeOK
<1>8. CASE Quit
  BY <1>8 DEF Quit, TypeOK
<1>9. CASE Exit
  BY <1>9 DEF Exit, TypeOK
<1>10. CASE Tick
  <2>1. since' \in 0 .. Cadence /\ waited' \in 0 .. Grace
    BY <1>10, BoundsAssumption DEF BoundsAssumption, Tick, TypeOK
  <2> QED BY <1>10, <2>1 DEF Tick, TypeOK
<1>11. CASE UNCHANGED vars
  BY <1>11 DEF vars, TypeOK
<1> QED BY <1>1, <1>2, <1>3, <1>4, <1>5, <1>6, <1>7, <1>8, <1>9, <1>10, <1>11 DEF Next, Loop

\* TypeOK holds for any roster and any bounds.
THEOREM PollerTypeCorrect == Spec => []TypeOK
<1>1. Init => TypeOK
  BY InitPoller
<1> QED BY <1>1, PollerType, PTL DEF Spec

\* The window is what it was, or is sized anew, or is over.
LEMMA WindowStep == TypeOK /\ Window /\ [Next]_vars => Window'
<1> SUFFICES ASSUME TypeOK, Window, [Next]_vars PROVE Window'
  OBVIOUS
<1> USE DEF Window
<1>1. CASE Size
  BY <1>1, BoundsAssumption DEF BoundsAssumption, Size, TypeOK
<1>2. CASE Tick
  BY <1>2, BoundsAssumption DEF BoundsAssumption, Tick, TypeOK
<1>3. CASE Start \/ StartFails \/ EndPoll
  BY <1>3 DEF Start, StartFails, EndPoll
<1>4. CASE Receive \/ TimeOut
  BY <1>4 DEF Receive, TimeOut, Turn
<1>5. CASE (\E r \in Requests : Request(r)) \/ Quit \/ Exit
  BY <1>5 DEF Request, Quit, Exit
<1>6. CASE UNCHANGED vars
  BY <1>6 DEF vars
<1> QED BY <1>1, <1>2, <1>3, <1>4, <1>5, <1>6 DEF Next, Loop

\* A step that begins a poll begins it a cadence after the one before.
LEMMA PollIsPaced ==
  TypeOK /\ Window /\ [Next]_vars => [at # "polling" /\ at' = "polling" => since = Cadence]_vars
<1> SUFFICES ASSUME TypeOK, Window, Next, at # "polling", at' = "polling"
             PROVE  since = Cadence
  OBVIOUS
<1>1. CASE Receive \/ TimeOut
  <2>1. at = "waiting" /\ ~(left > 0)
    BY <1>1 DEF Receive, TimeOut, Turn, Coalesces
  <2> QED BY <2>1, BoundsAssumption DEF BoundsAssumption, Window, TypeOK
<1>2. CASE Start \/ StartFails \/ Size \/ EndPoll
  BY <1>2 DEF Start, StartFails, Size, EndPoll
<1>3. CASE (\E r \in Requests : Request(r)) \/ Quit \/ Exit \/ Tick
  BY <1>3 DEF Request, Quit, Exit, Tick
<1> QED BY <1>1, <1>2, <1>3 DEF Next, Loop

\* PacedPolls: no request and no delay of the loop brings a poll before its time.
THEOREM PollsArePaced == Spec => PacedPolls
<1>1. Init => TypeOK /\ Window
  BY InitPoller
<1>2. TypeOK /\ Window /\ [Next]_vars => (TypeOK /\ Window)'
  BY PollerType, WindowStep
<1> QED BY <1>1, <1>2, PollIsPaced, PTL DEF Spec, PacedPolls

-------------------------------------------------------------------------------
(* What waits in the channel *)

Waits(m) == \E n \in DOMAIN queue : queue[n] = m

\* A message that is received leaves the others where they were.
LEMMA OthersWait ==
  ASSUME TypeOK, queue # <<>>, queue' = Tail(queue), NEW m, Waits(m)
  PROVE  m = Head(queue) \/ Waits(m)'
<1>1. PICK n \in 1 .. Len(queue) : queue[n] = m
  BY DEF Waits, TypeOK
<1>2. CASE n = 1
  BY <1>1, <1>2 DEF TypeOK
<1>3. CASE n > 1
  <2>1. n - 1 \in 1 .. Len(queue) - 1 /\ Len(queue') = Len(queue) - 1
    BY <1>1, <1>3 DEF TypeOK
  <2>2. n - 1 \in DOMAIN queue' /\ queue'[n - 1] = queue[n]
    BY <1>1, <1>3, <2>1 DEF TypeOK
  <2> QED BY <1>1, <2>2 DEF Waits
<1> QED BY <1>1, <1>2, <1>3

\* A message that is sent waits after those that do.
LEMMA SentWaits ==
  ASSUME TypeOK, NEW m, queue' = Append(queue, m)
  PROVE  Waits(m)' /\ \A other : Waits(other) => Waits(other)'
<1>1. /\ Len(queue) + 1 \in DOMAIN queue' /\ queue'[Len(queue) + 1] = m
      /\ \A n \in DOMAIN queue : n \in DOMAIN queue' /\ queue'[n] = queue[n]
  BY DEF TypeOK
<1> QED BY <1>1 DEF Waits

\* A turn keeps the rows it was woken with, or polls them.
LEMMA TurnKeeps ==
  ASSUME TypeOK, NEW woken, NEW named \in SUBSET Sources, Turn(woken, named), NEW s \in Sources,
         s \in owed'
  PROVE  s \in owed /\ (s \in named => s \in listed')
BY DEF Turn, Wanted

\* Every step forgets neither a row nor the shutdown.
LEMMA ForgottenStep == ASSUME TypeOK, NothingForgotten, [Next]_vars PROVE NothingForgotten'
<1> SUFFICES ASSUME at' # "ended"
             PROVE  /\ \A s \in owed' \cap Sources : s \in listed' \/ Waits(s)'
                    /\ session' # "running" => Waits(Shutdown)'
  BY DEF NothingForgotten, Waits
<1>0. at # "ended" => /\ \A s \in owed \cap Sources : s \in listed \/ Waits(s)
                      /\ session # "running" => Waits(Shutdown)
  BY DEF NothingForgotten, Waits
<1>1. CASE UNCHANGED <<queue, listed, owed, session>> /\ at # "ended"
  BY <1>0, <1>1 DEF Waits
<1>2. CASE Receive
  <2>1. /\ queue # <<>> /\ queue' = Tail(queue) /\ at = "waiting" /\ session' = session
        /\ Head(queue) # Shutdown
    BY <1>2 DEF Receive
  <2>5. Head(queue) \in Requests \cup {Shutdown}
    BY <2>1 DEF TypeOK
  <2>2. Turn(TRUE, Named(Head(queue))) /\ Named(Head(queue)) \in SUBSET Sources
    BY <1>2, <2>1, <2>5 DEF Receive, Named, TypeOK, Requests
  <2>3. ASSUME NEW s \in owed' \cap Sources PROVE s \in listed' \/ Waits(s)'
    <3>1. s \in owed /\ (s \in Named(Head(queue)) => s \in listed')
      BY <2>2, TurnKeeps
    <3>2. CASE s \in listed \/ s = Head(queue)
      BY <3>1, <3>2, MessagesAssumption DEF MessagesAssumption, Named
    <3>3. CASE Waits(s) /\ s # Head(queue)
      BY <2>1, <3>3, OthersWait
    <3> QED BY <1>0, <2>1, <3>1, <3>2, <3>3
  <2>4. ASSUME session # "running" PROVE Waits(Shutdown)'
    BY <1>0, <2>1, <2>4, OthersWait
  <2> QED BY <2>1, <2>3, <2>4
<1>3. CASE TimeOut
  <2>1. /\ Turn(FALSE, listed) /\ listed \in SUBSET Sources /\ UNCHANGED <<queue, session>>
        /\ at = "waiting"
    BY <1>3 DEF TimeOut, TypeOK
  <2> QED BY <1>0, <2>1, TurnKeeps DEF Waits
<1>4. CASE Quit
  <2>1. queue' = Append(queue, Shutdown) /\ UNCHANGED <<at, listed, owed>>
    BY <1>4 DEF Quit
  <2> QED BY <1>0, <2>1, SentWaits
<1>5. ASSUME NEW r \in Requests, Request(r)
      PROVE  /\ \A s \in owed' \cap Sources : s \in listed' \/ Waits(s)'
             /\ session' # "running" => Waits(Shutdown)'
  <2>1. /\ queue' = Append(queue, r) /\ owed' = owed \cup {r}
        /\ UNCHANGED <<at, listed, session>>
    BY <1>5 DEF Request
  <2>2. Waits(r)' /\ \A other : Waits(other) => Waits(other)'
    BY <2>1, SentWaits
  <2> QED BY <1>0, <2>1, <2>2
<1>6. CASE Exit
  BY <1>0, <1>6 DEF Exit, Waits
<1> QED BY <1>1, <1>2, <1>3, <1>4, <1>5, <1>6
        DEF Next, Loop, Start, StartFails, Size, EndPoll, Tick, vars

\* NothingForgotten: no moment of the loop, and no order of requests, loses a row
\* the operator named or the shutdown.
THEOREM NothingIsForgotten == Spec => []NothingForgotten
<1>1. Init => TypeOK /\ NothingForgotten
  BY InitPoller, MessagesAssumption DEF MessagesAssumption, Init, NothingForgotten
<1>2. TypeOK /\ NothingForgotten /\ [Next]_vars => (TypeOK /\ NothingForgotten)'
  BY PollerType, ForgottenStep
<1> QED BY <1>1, <1>2, PTL DEF Spec
===============================================================================
