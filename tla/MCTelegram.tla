----------------------------- MODULE MCTelegram -----------------------------
(***************************************************************************)
(* Telegram on small instances.                                            *)
(***************************************************************************)
EXTENDS Telegram

MCClients == {"g1", "g2"}
MCSubs == {"s1", "s2"}
=============================================================================
