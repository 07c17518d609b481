--------------------------- MODULE MCAttachClient ---------------------------
(* AttachClient with the two error codes remote-sessions.js tells apart.   *)
EXTENDS AttachClient

MCCodes == {"already_attached", "consent_denied"}
=============================================================================
