------------------------------ MODULE MCPcAgent ------------------------------
(***************************************************************************)
(* PcAgent, and with it BaseAgent, on a small instance.  Its run checks    *)
(* liveness, so requests and uploads are not made symmetric.               *)
(***************************************************************************)
EXTENDS PcAgent

MCRequests == {"r1", "r2"}
MCUploads == {"u1"}
=============================================================================
