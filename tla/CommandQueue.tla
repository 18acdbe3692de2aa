----------------------------- MODULE CommandQueue -----------------------------
(***************************************************************************)
(* What the persisted command queue promises, whoever consumes it: a       *)
(* command is claimed once, its side effect is asked for at most once, and *)
(* a terminal status is final and no better than what happened.            *)
(***************************************************************************)
EXTENDS Naturals

CONSTANT Commands

VARIABLES row,     \* what the queue says of each command
          asked,   \* how often its side effect was asked for
          landed   \* the commands whose side effect landed

qvars == <<row, asked, landed>>

Terminal == {"completed", "failed", "rejected", "not_wired"}

Init == /\ row = [c \in Commands |-> "absent"]
        /\ asked = [c \in Commands |-> 0]
        /\ landed = {}

Request(c) == /\ row[c] = "absent"
              /\ row' = [row EXCEPT ![c] = "pending"]
              /\ UNCHANGED <<asked, landed>>

Claim(c) == /\ row[c] = "pending"
            /\ row' = [row EXCEPT ![c] = "executing"]
            /\ UNCHANGED <<asked, landed>>

\* The consumer that claimed a command may be slow enough to find it given up.
Ask(c) == /\ row[c] \in {"executing", "failed"}
          /\ asked[c] = 0
          /\ asked' = [asked EXCEPT ![c] = 1]
          /\ landed' \in {landed, landed \cup {c}}
          /\ UNCHANGED row

Finish(c, verdict) ==
  /\ row[c] = "executing"
  /\ verdict \in Terminal
  /\ verdict = "completed" => c \in landed
  /\ verdict = "rejected" => asked[c] = 0
  /\ verdict = "not_wired" => c \notin landed
  /\ row' = [row EXCEPT ![c] = verdict]
  /\ UNCHANGED <<asked, landed>>

\* Claims recognised as stale fail together.
GiveUp(stale) ==
  /\ \A c \in stale : row[c] = "executing"
  /\ row' = [c \in Commands |-> IF c \in stale THEN "failed" ELSE row[c]]
  /\ UNCHANGED <<asked, landed>>

Next == \/ \E c \in Commands : \/ Request(c) \/ Claim(c) \/ Ask(c)
                               \/ \E verdict \in Terminal : Finish(c, verdict)
        \/ \E stale \in SUBSET Commands : GiveUp(stale)

Spec == Init /\ [][Next]_qvars
===============================================================================
