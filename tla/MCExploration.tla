---------------------------- MODULE MCExploration ----------------------------
(***************************************************************************)
(* CodeExecution with an exploration, on a small instance.                 *)
(***************************************************************************)
EXTENDS Exploration

MCCalls == {"k1", "k2", "x1"}
MCExplores == {"x1"}
=============================================================================
