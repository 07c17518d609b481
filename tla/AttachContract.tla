--------------------------- MODULE AttachContract ---------------------------
(***************************************************************************)
(* What AttachClient.attach promises its caller, whatever the CLI does and *)
(* however its frames are cut into reads:                                  *)
(*   - it is fulfilled or rejected, once, and that is final;               *)
(*   - the auth token goes to the CLI that was asked for and to no other;  *)
(*   - it is fulfilled only after that CLI had its orchestrator WebSocket  *)
(*     up, which takes the token;                                          *)
(*   - a rejected attach keeps no connection, and a connection that is     *)
(*     lost stays lost.                                                    *)
(* A fulfilled attach may already have lost its connection: the promise    *)
(* says that the desktop came up, not that it is still there.              *)
(***************************************************************************)
VARIABLES
  outcome,  \* of the promise: "pending", "fulfilled" or "rejected"
  link,     \* the control connection: "held" or "lost"
  told,     \* identity of the CLI that got the token, or "none"
  desktop   \* the CLI had its WebSocket up at some time

vars == <<outcome, link, told, desktop>>

Init == outcome = "pending" /\ link = "held" /\ told = "none"
          /\ desktop = FALSE

Disclose ==
  /\ outcome = "pending" /\ link = "held" /\ told = "none"
  /\ told' = "asked"
  /\ UNCHANGED <<outcome, link, desktop>>

DesktopUp ==
  /\ told = "asked" /\ ~desktop
  /\ desktop' = TRUE
  /\ UNCHANGED <<outcome, link, told>>

Fulfil ==
  /\ outcome = "pending" /\ desktop
  /\ outcome' = "fulfilled"
  /\ UNCHANGED <<link, told, desktop>>

Reject ==
  /\ outcome = "pending"
  /\ outcome' = "rejected" /\ link' = "lost"
  /\ UNCHANGED <<told, desktop>>

Lose ==
  /\ link = "held"
  /\ link' = "lost"
  /\ UNCHANGED <<outcome, told, desktop>>

Next == Disclose \/ DesktopUp \/ Fulfil \/ Reject \/ Lose

Spec == Init /\ [][Next]_vars
=============================================================================
