--------------------------- MODULE SessionContract ---------------------------
(***************************************************************************)
(* What the list of sessions says about a process over its life, whatever  *)
(* starts, adopts, stops, sweeps and timers do meanwhile:                  *)
(*   - a terminal is listed as live from its spawn for as long as it runs, *)
(*     so that it can be stopped; no stop forgets it before it has ended;  *)
(*   - a CLI that was spawned without a terminal is listed for as long as  *)
(*     it runs, first as live, then as attached, or, when it was released, *)
(*     as one to adopt;                                                    *)
(*   - a child that has ended may stay in the history, is never live       *)
(*     again, and when it has left the list it does not come back;         *)
(*   - another CLI is there to be adopted before it is attached, as often  *)
(*     as it is released, and never listed as a child of ours.             *)
(***************************************************************************)
CONSTANT Pids

VARIABLES
  terminals,  \* pids of our terminals that run
  headless,   \* pids of CLIs that run as children of ours
  listed      \* pid -> what the list says of it

vars == <<terminals, headless, listed>>

Listings == {"none", "live", "ended", "gone", "adoptable", "attached"}

Init == terminals = {} /\ headless = {} /\ listed = [p \in Pids |-> "none"]

Turns(p, from, to) == listed[p] \in from /\ listed'[p] = to

Spawn(p) == Turns(p, {"none"}, "live")
End(p) == Turns(p, {"live", "attached"}, "ended")
Leave(p) == Turns(p, {"live", "ended", "attached", "adoptable"}, "gone")
Publish(p) == Turns(p, {"none"}, "adoptable")
Attach(p) == Turns(p, {"adoptable"}, "attached")
Claim(p) == p \in headless /\ Turns(p, {"live"}, "attached")
Release(p) == Turns(p, {"attached"}, "adoptable")
Vanish(p) == Turns(p, {"attached", "adoptable"}, "none")

\* A step may be about several processes: the reaper takes all that ended.
Next ==
  /\ listed' \in [Pids -> Listings]
  /\ \A p \in Pids :
       \/ listed'[p] = listed[p]
       \/ Spawn(p) \/ End(p) \/ Leave(p)
       \/ Publish(p) \/ Attach(p) \/ Claim(p) \/ Release(p) \/ Vanish(p)
  /\ \A p \in terminals' :
       listed'[p] = "live" /\ (p \in terminals \/ listed[p] = "none")
  /\ \A p \in headless' :
       /\ listed'[p] \in {"live", "attached", "adoptable"}
       /\ p \in headless \/ listed[p] = "none"

Spec == Init /\ [][Next]_vars
=============================================================================
