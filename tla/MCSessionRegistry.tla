-------------------------- MODULE MCSessionRegistry --------------------------
(***************************************************************************)
(* SessionRegistry on a small instance.                                    *)
(***************************************************************************)
EXTENDS SessionRegistry, TLC
=============================================================================
