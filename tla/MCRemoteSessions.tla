-------------------------- MODULE MCRemoteSessions --------------------------
(***************************************************************************)
(* RemoteSessions on small instances.                                      *)
(***************************************************************************)
EXTENDS RemoteSessions, TLC

\* Which pid the system gives out, and which of two calls is which, does not
\* matter to a safety property.
MCSymmetry == Permutations(Pids) \cup Permutations(Calls)
=============================================================================
