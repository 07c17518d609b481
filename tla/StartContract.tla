---------------------------- MODULE StartContract ----------------------------
(***************************************************************************)
(* What startSession promises the phone that asks for a session, whatever  *)
(* attaches, polls, exits, stops and retries do meanwhile:                 *)
(*   - it is answered once, and the answer is final;                       *)
(*   - a session that was there already is one the agent lists as alive;   *)
(*   - a session that was attached is recorded, in that very directory,    *)
(*     by the time the phone hears of it, so that it can be stopped;       *)
(*   - "somebody else has it" is said only while somebody drives it.       *)
(* Entries come and go beside it, in any way.                              *)
(***************************************************************************)
CONSTANT Calls  \* the starts

VARIABLES
  answer,   \* call -> "none", "pending", or what it was answered
  listed,   \* calls whose session has an entry that is alive
  linked,   \* calls whose session and directory have an attached entry
  driven    \* calls whose session's CLI has a control peer

vars == <<answer, listed, linked, driven>>

Init ==
  /\ answer = [c \in Calls |-> "none"]
  /\ listed = {} /\ linked = {} /\ driven = {}

Answered(c, how) == answer' = [answer EXCEPT ![c] = how]

Ask(c) == answer[c] = "none" /\ Answered(c, "pending")

FindListed(c) == answer[c] = "none" /\ c \in listed' /\ Answered(c, "deduped")

Attach(c) == answer[c] = "pending" /\ c \in linked' /\ Answered(c, "attached")

Report(c) == answer[c] = "pending" /\ c \in driven /\ Answered(c, "reported")

Reject(c) == answer[c] = "pending" /\ Answered(c, "rejected")

Next ==
  \/ \E c \in Calls :
       Ask(c) \/ FindListed(c) \/ Attach(c) \/ Report(c) \/ Reject(c)
  \/ UNCHANGED answer

Spec == Init /\ [][Next]_vars
=============================================================================
