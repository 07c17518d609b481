------------------------------ MODULE MCCodeTask ------------------------------
(***************************************************************************)
(* CodeTask on small instances.                                            *)
(***************************************************************************)
EXTENDS CodeTask

MCFiles == {"f1", "f2"}
MCContents == {"c1", "c2", "c3"}
=============================================================================
