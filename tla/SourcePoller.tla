------------------------------ MODULE SourcePoller ------------------------------
(***************************************************************************)
(* The poller thread of a console session, and how the session ends it.    *)
(* The loop sizes what is left of the cadence since the previous poll,     *)
(* waits that long for a message, and polls when the window has closed.    *)
(* The interface thread sends requests through a channel: for a sweep of   *)
(* every source, or for one source of the roster.  At quit it sends the    *)
(* shutdown, joins the thread for a grace, and leaves it behind after.     *)
(* A poll shells programs that may never return.                           *)
(***************************************************************************)
EXTENDS Naturals, Sequences

CONSTANTS Sources,   \* the rows of the Event sources roster
          Sweep,     \* a request for a poll of every source
          Shutdown,
          Cadence,   \* POLLER_CADENCE
          Grace,     \* POLLER_SHUTDOWN_GRACE
          MaxQueue   \* bound: messages waiting in the channel

Requests == Sources \cup {Sweep}

ASSUME MessagesAssumption == Sweep \notin Sources /\ Shutdown \notin Requests
ASSUME BoundsAssumption ==
  Cadence \in Nat \ {0} /\ Grace \in Nat /\ MaxQueue \in Nat \ {0}

VARIABLES queue,    \* the channel to the poller
          at,       \* where the poller is
          left,     \* what it found left of the window when it sized it
          since,    \* time since the previous poll ended, up to the cadence
          listed,   \* requested_sources
          polling,  \* what the poll under way is for
          loading,  \* first_ingest_pending, the header's loading tell
          session,  \* the interface thread: running, joining the poller, gone
          waited,   \* how long it has been joining
          owed      \* history: what was asked for and no poll has begun for since

vars == <<queue, at, left, since, listed, polling, loading, session, waited, owed>>

-------------------------------------------------------------------------------
(* The loop *)

Init == /\ queue = <<>>
        /\ at = "starting" /\ left = 0 /\ since = 0
        /\ listed = {} /\ polling = {}
        /\ loading = TRUE
        /\ session = "running" /\ waited = 0
        /\ owed = {Sweep}

Alive == session # "gone"

\* The thread resolves its programs and opens its store, and the window begins.
Start ==
  /\ Alive /\ at = "starting"
  /\ at' = "sizing" /\ since' = 0
  /\ UNCHANGED <<queue, left, listed, polling, loading, session, waited, owed>>

\* ... or it reports that it could not, and ends.
StartFails ==
  /\ Alive /\ at = "starting"
  /\ at' = "ended"
  /\ UNCHANGED <<queue, left, since, listed, polling, loading, session, waited, owed>>

\* Mutant of Size: an instant too many.
SizeInclusive ==
  /\ Alive /\ at = "sizing"
  /\ left' = Cadence - since + 1
  /\ at' = "waiting"
  /\ UNCHANGED <<queue, since, listed, polling, loading, session, waited, owed>>

Size ==
  /\ Alive /\ at = "sizing"
  /\ left' = Cadence - since
  /\ at' = "waiting"
  /\ UNCHANGED <<queue, since, listed, polling, loading, session, waited, owed>>

\* poll_sources: the rows the operator named, if any, and nothing else.
Wanted(named) == IF named = {} THEN {Sweep} ELSE named

\* Mutant of Coalesces: a request starts a poll at once.
CoalescesTimeouts(woken) == left > 0 /\ ~woken

\* Mutant of Coalesces: a request is always for the next turn.
CoalescesRequests(woken) == left > 0 \/ woken

\* The window was open when it was sized: whatever woke the loop waits for it.
Coalesces(woken) == left > 0

\* The loop is awake, with these sources named: on to the next turn or to a poll.
Turn(woken, named) ==
  \/ /\ Coalesces(woken)
     /\ at' = "sizing" /\ listed' = named
     /\ UNCHANGED <<polling, owed>>
  \/ /\ ~Coalesces(woken)
     /\ at' = "polling" /\ listed' = {}
     /\ polling' = Wanted(named)
     /\ owed' = owed \ Wanted(named)

\* Mutant of Named: the last row named is the one that is polled.
NamedLast(m) == {m} \ {Sweep}

\* The sources named, with this message.
Named(m) == listed \cup ({m} \ {Sweep})

Receive ==
  /\ Alive /\ at = "waiting" /\ queue # <<>>
  /\ queue' = Tail(queue)
  /\ \/ /\ Head(queue) = Shutdown
        /\ at' = "ended"
        /\ UNCHANGED <<listed, polling, owed>>
     \/ /\ Head(queue) # Shutdown
        /\ Turn(TRUE, Named(Head(queue)))
  /\ UNCHANGED <<left, since, loading, session, waited>>

TimeOut ==
  /\ Alive /\ at = "waiting" /\ queue = <<>>
  /\ left = 0 \/ since = Cadence
  /\ Turn(FALSE, listed)
  /\ UNCHANGED <<queue, left, since, loading, session, waited>>

\* A poll ends as soon or as late as the programs it shells.
EndPoll ==
  /\ Alive /\ at = "polling"
  /\ at' = "sizing" /\ since' = 0 /\ polling' = {}
  /\ loading' = (loading /\ Sweep \notin polling)
  /\ UNCHANGED <<queue, left, listed, session, waited, owed>>

-------------------------------------------------------------------------------
(* The interface thread, and time *)

Request(r) ==
  /\ session = "running" /\ Len(queue) < MaxQueue
  /\ queue' = Append(queue, r)
  /\ owed' = owed \cup {r}
  /\ UNCHANGED <<at, left, since, listed, polling, loading, session, waited>>

Quit ==
  /\ session = "running"
  /\ session' = "joining"
  /\ queue' = Append(queue, Shutdown)
  /\ UNCHANGED <<at, left, since, listed, polling, loading, waited, owed>>

\* Mutant of Released: the join is unconditional.
ReleasedWhenEnded == at = "ended"

\* join_poller_or_detach
Released == at = "ended" \/ waited >= Grace

Exit ==
  /\ session = "joining" /\ Released
  /\ session' = "gone"
  /\ UNCHANGED <<queue, at, left, since, listed, polling, loading, waited, owed>>

Tick ==
  /\ Alive
  /\ since' = IF since < Cadence THEN since + 1 ELSE since
  /\ waited' = IF session = "joining" /\ waited < Grace THEN waited + 1 ELSE waited
  /\ UNCHANGED <<queue, at, left, listed, polling, loading, session, owed>>

Loop == Start \/ StartFails \/ Size \/ Receive \/ TimeOut

Next == \/ Loop \/ EndPoll
        \/ \E r \in Requests : Request(r)
        \/ Quit \/ Exit \/ Tick

\* The threads run and time passes.  Nobody has to press a key, and a poll need
\* not return.
Spec == /\ Init /\ [][Next]_vars
        /\ WF_vars(Loop) /\ WF_vars(Exit) /\ WF_vars(Tick)

-------------------------------------------------------------------------------
(* Properties *)

TypeOK ==
  /\ queue \in Seq(Requests \cup {Shutdown})
  /\ at \in {"starting", "sizing", "waiting", "polling", "ended"}
  /\ left \in 0 .. Cadence /\ since \in 0 .. Cadence
  /\ listed \subseteq Sources
  /\ polling = {Sweep} \/ polling \subseteq Sources
  /\ loading \in BOOLEAN
  /\ session \in {"running", "joining", "gone"} /\ waited \in 0 .. Grace
  /\ owed \subseteq Requests

\* However requests arrive, and however long ago the loop sized its window, a
\* poll begins no sooner than a cadence after the end of the one before
\* (run_paced_source_poll_loop: a request never bypasses the cadence).
PacedPolls == [][at # "polling" /\ at' = "polling" => since = Cadence]_vars

\* At quit the process ends, though a poll may never return and any number of
\* requests may be queued before the shutdown (join_poller_or_detach).
QuitEnds == session = "joining" ~> session = "gone"

PollsReturn == []<>(at # "polling")
Ended == at = "ended" \/ session = "gone"

\* A row the operator names is polled, while polls return and whatever else is asked.
NamedSourcesPolled ==
  PollsReturn => \A s \in Sources : (s \in owed) ~> (s \notin owed \/ Ended)

\* What NamedSourcesPolled and QuitEnds rest on: until its poll begins, a row that
\* was named is in the channel or on the list, whatever the loop was doing when it
\* came; and the shutdown stays in the channel until the loop ends of it.
NothingForgotten ==
  at # "ended" =>
    /\ \A s \in owed \cap Sources : s \in listed \/ \E n \in DOMAIN queue : queue[n] = s
    /\ session # "running" => \E n \in DOMAIN queue : queue[n] = Shutdown

NothingNamed == listed = {} /\ \A n \in DOMAIN queue : queue[n] \notin Sources

\* The first sweep is made, and one after every request for it, once the operator
\* leaves the rows alone: further requests for a sweep do not put it off.
SweepsMade ==
  PollsReturn /\ <>[]NothingNamed => ((Sweep \in owed) ~> (Sweep \notin owed \/ Ended))

\* main.rs, poll_sources: the ordinary sweep is never skipped by a re-poll of a
\* row, the next turn is a full poll.
SweepNeverSkipped ==
  PollsReturn => ((Sweep \in owed) ~> (Sweep \notin owed \/ Ended))
===============================================================================
