---------------------------- MODULE MCAgentTools ----------------------------
(***************************************************************************)
(* AgentTools on small instances.                                          *)
(***************************************************************************)
EXTENDS AgentTools, TLC

\* Which request, call and content is which does not matter to safety.
MCSymmetry ==
  Permutations(Requests) \cup Permutations(Calls) \cup Permutations(Contents)
=============================================================================
