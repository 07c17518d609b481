---------------------------- MODULE AttachClient ----------------------------
(***************************************************************************)
(* One AttachClient (src/attach-client.js): the control connection over    *)
(* which pc-agent takes a live interactive CLI as the desktop of a         *)
(* session, from net.connect to the end of the connection, together with   *)
(* the map entry its caller _attachToLiveSession keeps for it.             *)
(*                                                                         *)
(* Node runs one callback at a time and drains the promise continuations   *)
(* (microtasks) before the next one.  Both boundaries are kept:            *)
(*   chunk > 0        _onData is in the loop over the frames of one read;  *)
(*   settled # Unset  the awaited promise is settled and the continuation  *)
(*                    of attach() has not run yet.                         *)
(* Quiet holds between callbacks, when the next event may be taken.        *)
(*                                                                         *)
(* The CLI end is not in the repository: its actions are the answers that  *)
(* attach-client.js and tests/attach.test.js are written against.          *)
(***************************************************************************)
EXTENDS Naturals, Sequences

CONSTANTS Codes,     \* error codes of an attach_error frame
          MaxChunk,  \* bound: complete frames one read may hold
          MaxInbox,  \* bound: unread frames from the CLI
          MaxOutbox  \* bound: frames to the CLI it has not read

ASSUME BoundsAssumption == /\ MaxChunk \in Nat \ {0}
                           /\ MaxInbox \in Nat \ {0}
                           /\ MaxOutbox \in Nat \ {0}

\* What the CLI says it is: the session and directory asked for, or not.
Identities == {"asked", "otherSession", "otherDir"}

Generic == "failure"    \* an Error without a code
ASSUME CodesAssumption == Generic \notin Codes /\ "none" \notin Codes

Frame(type, arg) == [type |-> type, arg |-> arg]

Frames == {Frame("hello_ok", who) : who \in Identities}
             \cup {Frame("attach_error", c) : c \in Codes}
             \cup {Frame("ws_state", s) : s \in {"open", "closed"}}
             \cup {Frame(t, "none") :
                     t \in {"attach_ok", "detached", "pong", "garbage"}}

Requests == {"hello", "attach", "ping", "set_permission_mode", "detach"}

Waits == {"hello_ok", "attach_ok"}

\* A settled promise: value of a frame, or an error.
Unset == [ok |-> FALSE, arg |-> "unset"]
Fulfilled(v) == [ok |-> TRUE, arg |-> v]
Failed(e) == [ok |-> FALSE, arg |-> e]
RefusalUncoded(code) == Failed(Generic)   \* mutant: the code is dropped
Refusal(code) == Failed(code)
Settlements == {Unset} \cup {Fulfilled(v) : v \in Identities \cup {"none"}}
                       \cup {Failed(e) : e \in Codes \cup {Generic}}

VARIABLES
  pc,        \* where attach() is: connect, hello, attach, up or failed
  waiter,    \* the one entry of _waiters, or "none"
  settled,   \* outcome of the awaited promise, until attach() resumes
  closed,    \* this.closed
  ping,      \* a ping interval is armed
  err,       \* code of the error attach() threw
  entry,     \* the sessions map holds the attached entry of this client
  notices,   \* how often 'detached' was emitted
  token,     \* identity of the CLI the auth token was written to, or "none"
  chunk,     \* frames left of the read being processed
  inbox,     \* frames the CLI wrote that are not read yet
  outbox,    \* frames written to the CLI that it has not read
  identity,  \* what the CLI at the other end is
  cliUp,     \* the CLI process runs
  eof,       \* the CLI closed its end of the socket
  greeted,   \* the CLI accepted the secret
  desk,      \* the CLI's orchestrator WebSocket for this attach
  mishap     \* history: a timer, the socket or a bad frame ended the attach

client == <<pc, waiter, settled, closed, ping, err, entry, notices, token>>
cli == <<identity, cliUp, eof, greeted, desk>>
vars == <<client, chunk, inbox, outbox, cli, mishap>>

Desks == {"none", "dialing", "failed", "up", "down"}

TypeOK ==
  /\ pc \in {"connect", "hello", "attach", "up", "failed"}
  /\ waiter \in Waits \cup {"none"}
  /\ settled \in Settlements
  /\ closed \in BOOLEAN /\ ping \in BOOLEAN /\ entry \in BOOLEAN
  /\ err \in Codes \cup {Generic, "none"}
  /\ notices \in Nat
  /\ token \in Identities \cup {"none"}
  /\ chunk \in 0 .. MaxChunk /\ chunk <= Len(inbox)
  /\ inbox \in Seq(Frames)
  /\ outbox \in Seq(Requests)
  /\ identity \in Identities
  /\ cliUp \in BOOLEAN /\ eof \in BOOLEAN /\ greeted \in BOOLEAN
  /\ desk \in Desks /\ mishap \in BOOLEAN

Init ==
  /\ pc = "connect" /\ waiter = "none" /\ settled = Unset
  /\ closed = FALSE /\ ping = FALSE /\ err = "none" /\ entry = FALSE
  /\ notices = 0 /\ token = "none"
  /\ chunk = 0 /\ inbox = <<>> /\ outbox = <<>>
  /\ identity \in Identities
  /\ cliUp \in BOOLEAN /\ eof = ~cliUp
  /\ greeted = FALSE /\ desk = "none" /\ mishap = FALSE

----------------------------------------------------------------------------
\* Neither a frame loop nor a continuation is in progress.
Quiet == chunk = 0 /\ settled = Unset

\* this.socket is set and not destroyed.
SocketOpen == pc # "connect" /\ ~closed

\* _settle(type, value, err): only a registered waiter hears of it.
Settle(type, outcome) ==
  IF waiter = type
  THEN waiter' = "none" /\ settled' = outcome
  ELSE UNCHANGED <<waiter, settled>>

\* _fail(reason), for the fields it sets: nothing the second time.
Close ==
  IF closed THEN UNCHANGED <<closed, ping, notices>>
  ELSE closed' = TRUE /\ ping' = FALSE /\ notices' = notices + 1

\* The listener registered with the entry deletes it when 'detached' is
\* emitted, which a client that is closed already never does again.
Fail == Close /\ entry' = (entry /\ closed)

NoFail == UNCHANGED <<closed, ping, notices, entry>>

\* _fail rejects whatever waiter there is.
FailAndReject ==
  /\ Fail
  /\ IF closed \/ waiter = "none" THEN UNCHANGED <<waiter, settled>>
     ELSE Settle(waiter, Failed(Generic))

ThrowWithoutDestroy(code) ==   \* mutant: no destroy() in the catch
  /\ pc' = "failed" /\ err' = code /\ waiter' = "none" /\ settled' = Unset
  /\ NoFail

\* The catch of attach(): destroy(), rethrow.
Throw(code) ==
  /\ pc' = "failed" /\ err' = code /\ waiter' = "none" /\ settled' = Unset
  /\ Fail

\* _send: dropped when the socket is gone.
Send(req) ==
  IF SocketOpen THEN outbox' = Append(outbox, req) ELSE UNCHANGED outbox

----------------------------------------------------------------------------
(* attach(): the connection and the two awaited answers.                   *)

\* net.connect succeeded; the continuation runs _hello: the secret is read,
\* the waiter registered, the hello written.
Connected ==
  /\ pc = "connect" /\ ~eof
  /\ pc' = "hello" /\ waiter' = "hello_ok" /\ outbox' = <<"hello">>
  /\ UNCHANGED <<settled, closed, ping, err, entry, notices, token,
                 chunk, inbox, cli, mishap>>

\* The socket refused the connection, or the secret file cannot be read.
ConnectFails ==
  /\ pc = "connect"
  /\ Throw(Generic)
  /\ mishap' = TRUE
  /\ UNCHANGED <<token, chunk, inbox, outbox, cli>>

\* The CLI's own answer wins over the registry file.
VerifiedSessionOnly == settled.arg # "otherSession"   \* mutant
Verified == settled.arg = "asked"

\* `await _hello()` returned: identity check, then _attach, whose waiter is
\* registered whether or not the frame could be written.
HelloAnswered ==
  /\ pc = "hello" /\ chunk = 0 /\ settled.ok
  /\ IF ~Verified
     THEN Throw(Generic) /\ UNCHANGED <<token, outbox>>
     ELSE /\ pc' = "attach" /\ waiter' = "attach_ok" /\ settled' = Unset
          /\ Send("attach")
          /\ token' = IF SocketOpen THEN identity ELSE token
          /\ UNCHANGED <<err, closed, ping, entry, notices>>
  /\ UNCHANGED <<chunk, inbox, cli, mishap>>

\* The frame that fulfils a wait has arrived.
Answered == chunk = 0 /\ settled.ok

\* `await _attach()` returned: _startPing, attach() returns, and
\* _attachToLiveSession records the entry and listens for 'detached'.
AttachAnswered ==
  /\ pc = "attach" /\ Answered
  /\ pc' = "up" /\ settled' = Unset /\ ping' = TRUE /\ entry' = TRUE
  /\ UNCHANGED <<waiter, closed, err, notices, token, chunk, inbox, outbox,
                 cli, mishap>>

\* The awaited promise was rejected.
AnswerFailed ==
  /\ pc \in {"hello", "attach"} /\ chunk = 0
  /\ ~settled.ok /\ settled # Unset
  /\ Throw(settled.arg)
  /\ UNCHANGED <<token, chunk, inbox, outbox, cli, mishap>>

TimeLimitedHelloOnly == {"hello_ok"}   \* mutant: no ATTACH_TIMEOUT_MS
TimeLimited == {"hello_ok", "attach_ok"}

\* HELLO_TIMEOUT_MS / ATTACH_TIMEOUT_MS expired.
Timeout ==
  /\ Quiet /\ waiter \in TimeLimited
  /\ waiter' = "none" /\ settled' = Failed(Generic)
  /\ mishap' = TRUE
  /\ UNCHANGED <<pc, closed, ping, err, entry, notices, token,
                 chunk, inbox, outbox, cli>>

----------------------------------------------------------------------------
(* Events of the socket.                                                   *)

Readable(n) == n <= Len(inbox)

\* One read: the kernel hands over what the CLI wrote so far.
Read(n) ==
  /\ Quiet /\ SocketOpen /\ Readable(n)
  /\ chunk' = n
  /\ UNCHANGED <<client, inbox, outbox, cli, mishap>>

\* _onFrame for the next frame of the read.
OnFrame ==
  /\ chunk > 0
  /\ LET f == Head(inbox) IN
       /\ inbox' = Tail(inbox)
       /\ chunk' = IF f.type = "garbage" THEN 0 ELSE chunk - 1
       /\ mishap' = (mishap \/ f.type \in {"garbage", "detached"}
                      \/ f = Frame("ws_state", "closed"))
       /\ \/ /\ f \in {Frame("ws_state", "closed"), Frame("garbage", "none")}
             /\ FailAndReject
          \/ /\ f \in {Frame("ws_state", "open"), Frame("pong", "none")}
             /\ NoFail /\ UNCHANGED <<waiter, settled>>
          \/ /\ f.type = "detached"
             /\ Fail
             /\ IF closed \/ waiter = "none"
                THEN Settle("attach_ok", Failed(Generic))
                ELSE Settle(waiter, Failed(Generic))
          \/ /\ f.type = "attach_error"
             /\ Settle("attach_ok", Refusal(f.arg)) /\ NoFail
          \/ /\ f.type \in Waits
             /\ Settle(f.type, Fulfilled(f.arg)) /\ NoFail
  /\ UNCHANGED <<pc, err, token, outbox, cli>>

\* 'close' or 'error' of the socket, after everything readable was read.
SocketClosed ==
  /\ Quiet /\ SocketOpen /\ eof /\ inbox = <<>>
  /\ FailAndReject
  /\ mishap' = TRUE
  /\ UNCHANGED <<pc, err, token, chunk, inbox, outbox, cli>>

----------------------------------------------------------------------------
(* The holder of the client.                                               *)

PingTick ==
  /\ Quiet /\ ping
  /\ IF SocketOpen
     THEN /\ Len(outbox) < MaxOutbox /\ Send("ping")
          /\ UNCHANGED <<waiter, settled>> /\ NoFail
     ELSE FailAndReject /\ UNCHANGED outbox
  /\ UNCHANGED <<pc, err, token, chunk, inbox, cli, mishap>>

SetPermissionMode ==
  /\ Quiet /\ entry /\ Len(outbox) < MaxOutbox
  /\ Send("set_permission_mode")
  /\ UNCHANGED <<client, chunk, inbox, cli, mishap>>

\* stopSession of the attached entry: detach() and sessions.delete.
Detach ==
  /\ Quiet /\ entry /\ Len(outbox) < MaxOutbox
  /\ Send("detach")
  /\ Close /\ entry' = FALSE
  /\ UNCHANGED <<pc, waiter, settled, err, token, chunk, inbox, cli, mishap>>

\* The reaper finds the CLI's pid gone: destroy() and sessions.delete.
Reap ==
  /\ Quiet /\ entry /\ ~cliUp
  /\ Close /\ entry' = FALSE
  /\ UNCHANGED <<pc, waiter, settled, err, token, chunk, inbox, outbox, cli, mishap>>

----------------------------------------------------------------------------
(* The CLI.                                                                *)

CliWrites(fs) ==
  /\ Len(inbox) + Len(fs) <= MaxInbox
  /\ inbox' = inbox \o fs

CliReads == cliUp /\ ~eof /\ outbox # <<>> /\ outbox' = Tail(outbox)

CliHello ==
  /\ CliReads /\ Head(outbox) = "hello"
  /\ CliWrites(<<Frame("hello_ok", identity)>>)
  /\ greeted' = TRUE
  /\ UNCHANGED <<client, chunk, identity, cliUp, eof, desk, mishap>>

CliRefusesAttach(code) ==
  /\ CliReads /\ Head(outbox) = "attach"
  /\ CliWrites(<<Frame("attach_error", code)>>)
  /\ UNCHANGED <<client, chunk, cli, mishap>>

CliDials ==
  /\ CliReads /\ Head(outbox) = "attach" /\ desk = "none"
  /\ desk' = "dialing"
  /\ UNCHANGED <<client, chunk, inbox, identity, cliUp, eof, greeted, mishap>>

CliDialed ==
  /\ cliUp /\ ~eof /\ desk = "dialing"
  /\ desk' = "up"
  /\ CliWrites(<<Frame("ws_state", "open"), Frame("attach_ok", "none")>>)
  /\ UNCHANGED <<client, chunk, outbox, identity, cliUp, eof, greeted, mishap>>

CliDialFails(code) ==
  /\ cliUp /\ ~eof /\ desk = "dialing"
  /\ desk' = "failed"
  /\ CliWrites(<<Frame("attach_error", code)>>)
  /\ UNCHANGED <<client, chunk, outbox, identity, cliUp, eof, greeted, mishap>>

\* The desktop goes: the orchestrator closes the WebSocket, or the user
\* revokes the attach at the terminal.
CliDesktopLost ==
  /\ cliUp /\ ~eof /\ desk = "up"
  /\ desk' = "down"
  /\ \E f \in {Frame("ws_state", "closed"), Frame("detached", "none")} :
        CliWrites(<<f>>)
  /\ UNCHANGED <<client, chunk, outbox, identity, cliUp, eof, greeted, mishap>>

CliPong ==
  /\ CliReads /\ Head(outbox) = "ping"
  /\ CliWrites(<<Frame("pong", "none")>>)
  /\ UNCHANGED <<client, chunk, cli, mishap>>

CliSetsMode ==
  /\ CliReads /\ Head(outbox) = "set_permission_mode"
  /\ UNCHANGED <<client, chunk, inbox, cli, mishap>>

CliDetached ==
  /\ CliReads /\ Head(outbox) = "detach"
  /\ desk' = IF desk = "up" THEN "down" ELSE desk
  /\ UNCHANGED <<client, chunk, inbox, identity, cliUp, eof, greeted, mishap>>

\* A line that is not JSON, or a line that never ends.
CliGarbage ==
  /\ cliUp /\ ~eof /\ greeted
  /\ CliWrites(<<Frame("garbage", "none")>>)
  /\ UNCHANGED <<client, chunk, outbox, cli, mishap>>

\* The CLI hangs up: wrong secret, protocol error, shutdown, or it dies.
CliHangsUp ==
  /\ ~eof
  /\ eof' = TRUE /\ cliUp' \in {cliUp, FALSE}
  /\ desk' = IF desk = "up" THEN "down" ELSE
             IF desk = "dialing" THEN "failed" ELSE desk
  /\ UNCHANGED <<client, chunk, inbox, outbox, identity, greeted, mishap>>

\* The process ends after it closed this connection.
CliDies ==
  /\ cliUp /\ eof
  /\ cliUp' = FALSE
  /\ UNCHANGED <<client, chunk, inbox, outbox, identity, eof, greeted, desk, mishap>>

Attaching == Connected \/ ConnectFails \/ HelloAnswered \/ AttachAnswered
               \/ AnswerFailed \/ Timeout
SocketEvent == (\E n \in 1 .. MaxChunk : Read(n)) \/ OnFrame \/ SocketClosed
Holder == PingTick \/ SetPermissionMode \/ Detach \/ Reap
Cli == \/ CliHello \/ CliDials \/ CliDialed \/ CliDesktopLost \/ CliPong
       \/ CliSetsMode \/ CliDetached \/ CliGarbage \/ CliHangsUp \/ CliDies
       \/ \E code \in Codes : CliRefusesAttach(code) \/ CliDialFails(code)

Next == Attaching \/ SocketEvent \/ Holder \/ Cli

Spec == Init /\ [][Next]_vars

\* The event loop runs what is ready, and the timers of _wait expire.  A
\* connect on a unix socket succeeds or fails.  Nothing is assumed of the CLI.
Fairness ==
  /\ WF_vars(Connected \/ ConnectFails)
  /\ WF_vars(OnFrame)
  /\ WF_vars(HelloAnswered \/ AttachAnswered \/ AnswerFailed)
  /\ WF_vars(Timeout)

FairSpec == Spec /\ Fairness

----------------------------------------------------------------------------
(* Properties.                                                             *)

\* The auth token is written only to a CLI that is on the conversation and
\* in the directory the caller asked for (attach(), the check after _hello).
TokenOnlyToAskedCli == token # "none" => token = "asked" /\ identity = "asked"

\* An entry is recorded, and attach() returns, only for a CLI that had its
\* orchestrator WebSocket up (the promise of attach() and of
\* _attachToLiveSession).
RecordedOnlyWithDesktop == pc = "up" \/ entry => desk \in {"up", "down"}

\* A failed attach leaves nothing behind: no socket, waiter or ping timer.
NothingLeaked == pc = "failed" => closed /\ ~ping /\ waiter = "none" /\ ~entry

\* 'detached' is emitted when the client closes and never a second time.
NotifiedOnce == notices = IF closed THEN 1 ELSE 0

\* Unless a timer, the socket or a bad frame ended it, an attach refused by
\* the CLI it asked for is reported with the CLI's code, on which the caller
\* decides between reporting the live session and spawning a rival.
RefusalKeepsItsCode ==
  pc = "failed" /\ ~mishap /\ identity = "asked" => err \in Codes

\* The map entry goes with the client: once the callback that closes the
\* client is over, no entry stands for it ("Synchronous teardown of the map
\* entry", _attachToLiveSession; "Synchronous: the caller deletes its map
\* entry here", _fail).
EntryGoneWithClient == Quiet /\ entry => ~closed

\* attach() never waits for an answer on a socket that is destroyed.
NoWaitOnDeadSocket == Quiet /\ waiter # "none" => ~closed

\* attach() is settled whatever the CLI does or fails to do.
AttachSettles == <>(pc \in {"up", "failed"})

----------------------------------------------------------------------------
(* The inductive invariant behind the safety properties.                   *)

\* Frames under way say what is so.
FramesTruthful ==
  \A i \in 1 .. Len(inbox) :
    /\ inbox[i].type = "hello_ok" => inbox[i].arg = identity
    /\ inbox[i].type = "attach_ok" => desk \in {"up", "down"}

\* An attach request under way carried the token.
RequestsTruthful ==
  \A i \in 1 .. Len(outbox) : outbox[i] = "attach" => token = "asked"

\* What each phase of attach() knows.
PhaseKnows ==
  /\ waiter # "none" => settled = Unset
  /\ waiter = "hello_ok" => pc = "hello"
  /\ waiter = "attach_ok" => pc = "attach"
  /\ pc \in {"connect", "up", "failed"} => settled = Unset
  /\ pc = "hello" /\ settled.ok => settled.arg = identity
  /\ pc = "attach" /\ settled.ok => desk \in {"up", "down"}
  /\ pc = "attach" => identity = "asked"
  /\ pc \in {"connect", "hello"} => token = "none"
  /\ desk # "none" => token = "asked"
  /\ entry \/ ping => pc = "up"

\* The invariant that is inductive: frames, requests, phases, and the four
\* properties of a state that follow the handshake.
HandshakeInv ==
  /\ FramesTruthful /\ RequestsTruthful /\ PhaseKnows
  /\ TokenOnlyToAskedCli /\ RecordedOnlyWithDesktop
  /\ NothingLeaked /\ NotifiedOnce

\* When every read holds a single frame, a client is never lost between the
\* answer and the continuation that acts on it.
LostIsSettled ==
  /\ chunk > 0 => ~closed /\ settled = Unset
  /\ closed => waiter = "none" /\ ~entry /\ ~settled.ok
  /\ pc = "connect" => ~closed /\ chunk = 0

----------------------------------------------------------------------------
Contract == INSTANCE AttachContract WITH
  outcome <- CASE pc = "up" -> "fulfilled"
               [] pc = "failed" -> "rejected"
               [] OTHER -> "pending",
  link <- IF closed THEN "lost" ELSE "held",
  told <- token,
  desktop <- desk \in {"up", "down"}

\* attach() keeps its contract (AttachContract).
KeepsContract == Contract!Spec
=============================================================================
