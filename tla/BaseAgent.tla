------------------------------ MODULE BaseAgent ------------------------------
(***************************************************************************)
(* BaseAgent (sdk/base-agent.js): the WebSocket that an agent keeps to the *)
(* orchestrator -- connect, register, ping, reconnect, shut down -- and    *)
(* the requests it answers over whichever socket is open by then.          *)
(*                                                                         *)
(* One action is one callback.  connect() is called by start() and by the  *)
(* reconnect timer only, so this.ws is the one socket there is and the     *)
(* tests for a stale socket are never true; they are left out.  The delay  *)
(* of the reconnect ladder is a timer that fires at some time.             *)
(*                                                                         *)
(* External: the network, the orchestrator, and the ws library's sockets.  *)
(***************************************************************************)
EXTENDS Naturals, Sequences

CONSTANTS Requests,   \* requests the orchestrator may send
          MaxWire     \* bound: health and status frames of one connection

ASSUME WireAssumption ==
  MaxWire \in Nat /\ Requests \cap {"register", "health", "status"} = {}

VARIABLES
  ws,                \* readyState of this.ws, or "none"
  peer,              \* the orchestrator still has this connection
  connected,
  reconnectTimer,    \* armed
  pingInterval,      \* armed
  pongReceived,
  shutdownRequested, \* and process.exit: nothing runs any more
  pingOut,           \* a ping of this connection has no pong yet
  wire,              \* frames written to this connection
  handling,          \* request -> "new", "running", "late" (timed out), "done"
  answers            \* request -> responses handed to send()

socket == <<ws, peer, connected, reconnectTimer, pingInterval, pongReceived>>
vars == <<socket, shutdownRequested, pingOut, wire, handling, answers>>

Frames == {"register", "health", "status"} \cup Requests

TypeOK ==
  /\ ws \in {"none", "connecting", "open", "closing", "closed"}
  /\ peer \in BOOLEAN /\ connected \in BOOLEAN /\ reconnectTimer \in BOOLEAN
  /\ pingInterval \in BOOLEAN /\ pongReceived \in BOOLEAN
  /\ shutdownRequested \in BOOLEAN /\ pingOut \in BOOLEAN
  /\ wire \in Seq(Frames)
  /\ handling \in [Requests -> {"new", "running", "late", "done"}]
  /\ answers \in [Requests -> Nat]

Init ==
  /\ ws = "none" /\ peer = FALSE /\ connected = FALSE
  /\ reconnectTimer = FALSE /\ pingInterval = FALSE /\ pongReceived = TRUE
  /\ shutdownRequested = FALSE /\ pingOut = FALSE /\ wire = <<>>
  /\ handling = [r \in Requests |-> "new"]
  /\ answers = [r \in Requests |-> 0]

----------------------------------------------------------------------------
(* connect() and the handlers of the socket.                               *)

\* connect(): a pending reconnect is cancelled; a socket that is connecting
\* or open is kept.
Connect ==
  /\ reconnectTimer' = FALSE
  /\ IF ws \in {"connecting", "open"}
     THEN UNCHANGED <<ws, wire, pingOut>>
     ELSE ws' = "connecting" /\ wire' = <<>> /\ pingOut' = FALSE
  /\ UNCHANGED <<peer, connected, pingInterval, pongReceived,
                 shutdownRequested, handling, answers>>

Start == ~shutdownRequested /\ ws = "none" /\ Connect

ReconnectFires == ~shutdownRequested /\ reconnectTimer /\ Connect

\* Mutant: pongReceived keeps what the last connection left it.
OpenedWithOldPong ==
  /\ ~shutdownRequested /\ ws = "connecting"
  /\ ws' = "open" /\ peer' = TRUE /\ connected' = TRUE
  /\ wire' = Append(wire, "register")
  /\ pingInterval' = TRUE
  /\ UNCHANGED <<pongReceived, reconnectTimer, shutdownRequested, pingOut,
                 handling, answers>>

\* 'open': register, and start to ping.
Opened ==
  /\ ~shutdownRequested /\ ws = "connecting"
  /\ ws' = "open" /\ peer' = TRUE /\ connected' = TRUE /\ pongReceived' = TRUE
  /\ wire' = Append(wire, "register")
  /\ pingInterval' = TRUE
  /\ UNCHANGED <<reconnectTimer, shutdownRequested, pingOut, handling, answers>>

\* Mutant: no reconnect is scheduled when the handshake failed.
DownUnlessConnecting ==
  /\ ws' = "closed" /\ peer' = FALSE /\ connected' = FALSE
  /\ pingInterval' = FALSE
  /\ reconnectTimer' = (ws # "connecting")

\* 'close': the interval is cleared and a reconnect scheduled.
Down ==
  /\ ws' = "closed" /\ peer' = FALSE /\ connected' = FALSE
  /\ pingInterval' = FALSE
  /\ reconnectTimer' = TRUE

\* The handshake is refused, or runs into handshakeTimeout.
HandshakeFails ==
  /\ ~shutdownRequested /\ ws = "connecting"
  /\ Down
  /\ UNCHANGED <<pongReceived, shutdownRequested, pingOut, wire, handling,
                 answers>>

\* A socket that is terminated or closed by the peer reports 'close'.
CloseReported ==
  /\ ~shutdownRequested /\ ws = "closing"
  /\ Down
  /\ UNCHANGED <<pongReceived, shutdownRequested, pingOut, wire, handling,
                 answers>>

\* Mutant: a missing pong is not looked at.
PingBlindly ==
  /\ ~shutdownRequested /\ pingInterval
  /\ pongReceived' = FALSE /\ pingOut' = TRUE
  /\ UNCHANGED <<ws, peer, connected, reconnectTimer, pingInterval,
                 shutdownRequested, wire, handling, answers>>

\* Every 20s: the last ping without a pong ends the connection; otherwise
\* the next one goes out (a closing socket takes none).
PingTick ==
  /\ ~shutdownRequested /\ pingInterval
  /\ IF ~pongReceived
     THEN ws' = "closing" /\ UNCHANGED <<pongReceived, pingOut>>
     ELSE /\ pongReceived' = FALSE
          /\ pingOut' = (ws = "open" \/ pingOut)
          /\ UNCHANGED ws
  /\ UNCHANGED <<peer, connected, reconnectTimer, pingInterval,
                 shutdownRequested, wire, handling, answers>>

Pong ==
  /\ ~shutdownRequested /\ ws = "open" /\ peer /\ pingOut
  /\ pongReceived' = TRUE /\ pingOut' = FALSE
  /\ UNCHANGED <<ws, peer, connected, reconnectTimer, pingInterval,
                 shutdownRequested, wire, handling, answers>>

\* SIGINT, SIGTERM.
Shutdown ==
  /\ ~shutdownRequested
  /\ shutdownRequested' = TRUE
  /\ reconnectTimer' = FALSE /\ pingInterval' = FALSE
  /\ ws' = IF ws = "none" THEN ws ELSE "closing"
  /\ UNCHANGED <<peer, connected, pongReceived, pingOut, wire, handling,
                 answers>>

----------------------------------------------------------------------------
(* Requests.                                                               *)

\* send(): a message with no open socket is dropped.
Send(frame) ==
  IF ws = "open" THEN wire' = Append(wire, frame) ELSE UNCHANGED wire

Hears == ~shutdownRequested /\ ws = "open" /\ peer

\* onMessage of a request: handle() starts; requests run side by side.
OnRequest(r) ==
  /\ Hears /\ handling[r] = "new"
  /\ handling' = [handling EXCEPT ![r] = "running"]
  /\ UNCHANGED <<socket, shutdownRequested, pingOut, wire, answers>>

Answer(r) ==
  /\ answers' = [answers EXCEPT ![r] = @ + 1]
  /\ Send(r)

\* Mutant: a late result is sent after the timeout's error.
HandleEndsAgain(r) ==
  /\ ~shutdownRequested /\ handling[r] \in {"running", "late"}
  /\ handling' = [handling EXCEPT ![r] = "done"]
  /\ Answer(r)
  /\ UNCHANGED <<socket, shutdownRequested, pingOut>>

\* handle() returned or threw, which is answered unless the timeout was.
HandleEnds(r) ==
  /\ ~shutdownRequested
  /\ handling' = [handling EXCEPT ![r] = "done"]
  /\ \/ handling[r] = "running" /\ Answer(r)
     \/ handling[r] = "late" /\ UNCHANGED <<answers, wire>>
  /\ UNCHANGED <<socket, shutdownRequested, pingOut>>

\* Mutant: handle() is awaited without a limit.
HandleNeverTimesOut(r) == FALSE /\ UNCHANGED vars

\* HANDLE_TIMEOUT_MS won the race: an error is sent and handle() runs on.
HandleTimesOut(r) ==
  /\ ~shutdownRequested /\ handling[r] = "running"
  /\ handling' = [handling EXCEPT ![r] = "late"]
  /\ Answer(r)
  /\ UNCHANGED <<socket, shutdownRequested, pingOut>>

OnHealth ==
  /\ Hears /\ Len(wire) < MaxWire
  /\ Send("health")
  /\ UNCHANGED <<socket, shutdownRequested, pingOut, handling, answers>>

\* sendToolStatus, sendToolComplete: from a handler, also a late one.
ToolStatus(r) ==
  /\ ~shutdownRequested /\ handling[r] \in {"running", "late"}
  /\ Len(wire) < MaxWire
  /\ Send("status")
  /\ UNCHANGED <<socket, shutdownRequested, pingOut, handling, answers>>

----------------------------------------------------------------------------
(* The network.                                                            *)

\* The other end goes without a word: the connection is half open.
PeerVanishes ==
  /\ Hears
  /\ peer' = FALSE
  /\ UNCHANGED <<ws, connected, reconnectTimer, pingInterval, pongReceived,
                 shutdownRequested, pingOut, wire, handling, answers>>

\* A close frame, or an error of the socket.
PeerCloses ==
  /\ ~shutdownRequested /\ ws = "open"
  /\ ws' = "closing"
  /\ UNCHANGED <<peer, connected, reconnectTimer, pingInterval, pongReceived,
                 shutdownRequested, pingOut, wire, handling, answers>>

----------------------------------------------------------------------------

Next ==
  \/ Start \/ ReconnectFires \/ Opened \/ HandshakeFails \/ CloseReported
  \/ PingTick \/ Pong \/ Shutdown \/ OnHealth \/ PeerVanishes \/ PeerCloses
  \/ \E r \in Requests : \/ OnRequest(r) \/ HandleEnds(r)
                         \/ HandleTimesOut(r) \/ ToolStatus(r)

Spec == Init /\ [][Next]_vars

\* Timers fire, a handshake succeeds or fails within handshakeTimeout, a
\* socket that is closing reports it.  Nothing is assumed of the network, of
\* the orchestrator, or of handle().
FairSpec ==
  /\ Spec
  /\ WF_vars(Start) /\ WF_vars(ReconnectFires)
  /\ WF_vars(Opened \/ HandshakeFails) /\ WF_vars(CloseReported)
  /\ WF_vars(PingTick)
  /\ \A r \in Requests : WF_vars(HandleTimesOut(r))

----------------------------------------------------------------------------
(* Properties.                                                             *)

\* On every connection the manifest is the first frame and goes out once,
\* whatever handlers of earlier connections send meanwhile.
RegisterFirst ==
  \A i \in 1 .. Len(wire) : (wire[i] = "register") <=> (i = 1)

\* A request is answered once: by its result or by the timeout, never by
\* both, however late the result comes.
AnsweredOnce ==
  \A r \in Requests :
    answers[r] = IF handling[r] \in {"late", "done"} THEN 1 ELSE 0

\* The reconnect ladder neither stalls nor doubles: exactly a socket that is
\* down has the reconnect timer behind it.
LadderHolds == ~shutdownRequested => (reconnectTimer <=> ws = "closed")

\* Exactly a socket that was opened and has not reported its end is pinged.
PingedWhileUp ==
  ~shutdownRequested => (pingInterval <=> ws \in {"open", "closing"})

\* A connection is not cut for a pong that an earlier one did not get.
OnlyUnansweredCut == ws = "open" /\ ~pongReceived => pingOut

\* The socket, its timers, its pings and what it carried fit together.
SocketInStep ==
  LadderHolds /\ PingedWhileUp /\ OnlyUnansweredCut /\ RegisterFirst

\* A half-open connection is given up, not trusted for ever.
HalfOpenNoticed == ws = "open" /\ ~peer ~> ws # "open"

\* A request that was taken is answered though its handler hangs.
RequestEnds ==
  \A r \in Requests :
    handling[r] = "running" ~> answers[r] > 0 \/ shutdownRequested
=============================================================================
