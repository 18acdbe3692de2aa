------------------------------- MODULE DedupLog -------------------------------
(***************************************************************************)
(* What the event store promises its callers, with no database in sight:   *)
(* a log that only grows, that never holds one event id or one source key  *)
(* twice, and that answers an append in the same step that applies it.     *)
(***************************************************************************)
EXTENDS Naturals, Sequences

CONSTANTS Clients,    \* the callers of the store
          Appends,    \* the appends a caller may ask for: [id, key, stream]
          NoKey       \* the key of an append that carries no source event id

VARIABLES log,        \* the accepted appends, in order
          answer      \* the last answer each client was given

vars == <<log, answer>>

NoAnswer  == [status |-> "none", seq |-> 0]
Failures  == {[status |-> s, seq |-> 0] : s \in {"busy", "refused"}}

\* The entries an append is answered with when it is a repeat: those of its
\* source key when it has one, those of its event id otherwise.
Twins(a) == {i \in DOMAIN log : IF a.key # NoKey THEN log[i].key = a.key
                                                 ELSE log[i].id = a.id}

Clashes(a) == \E i \in DOMAIN log : \/ log[i].id = a.id
                                    \/ a.key # NoKey /\ log[i].key = a.key

Init == /\ log \in Seq(Appends)
        /\ answer = [c \in Clients |-> NoAnswer]

Accept(c, a) ==
  /\ ~Clashes(a)
  /\ log' = Append(log, a)
  /\ answer' = [answer EXCEPT ![c] = [status |-> "inserted", seq |-> Len(log) + 1]]

Repeat(c, a) ==
  /\ \E i \in Twins(a) :
       answer' = [answer EXCEPT ![c] = [status |-> "duplicate", seq |-> i]]
  /\ UNCHANGED log

Fail(c) ==
  /\ answer' \in {[answer EXCEPT ![c] = f] : f \in Failures}
  /\ UNCHANGED log

Forget(c) ==
  /\ answer' = [answer EXCEPT ![c] = NoAnswer]
  /\ UNCHANGED log

Next == \E c \in Clients :
          \/ \E a \in Appends : Accept(c, a) \/ Repeat(c, a)
          \/ Fail(c)
          \/ Forget(c)

Spec == Init /\ [][Next]_vars
===============================================================================
