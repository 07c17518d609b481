---------------------------- MODULE CodeExecution ----------------------------
(***************************************************************************)
(* One PTCClient.execute (sdk/ptc-client.js) over the CodeExecutionEngine  *)
(* (sdk/code-engine.js): rounds of an LLM call and a Python process whose  *)
(* tool calls come back over a temporary HTTP server.  Each round has its  *)
(* own server, process and criticalError.  What outlives its round does    *)
(* so here too: server.close() waits for requests that are already being   *)
(* served, so a tool may end, or even begin, when its round is over.       *)
(*                                                                         *)
(* External: the LLM, the Python code, which may call tools from several   *)
(* threads and catch what they raise, and the tools themselves.            *)
(***************************************************************************)
EXTENDS Naturals

CONSTANTS
  MaxRounds,    \* maxRounds of execute
  Calls         \* bound: the tool calls the code of all rounds makes

ASSUME RoundsAssumption == MaxRounds \in Nat \ {0}

Rounds == 1 .. MaxRounds

VARIABLES
  pc,        \* what execute awaits: "llm", "listen", "python"; or its end
  why,       \* why it ended
  round,     \* round + 1 of the code
  server,    \* round -> its tool server
  proc,      \* round -> its Python process
  critical,  \* rounds whose criticalError is set
  call       \* tool call -> its round and where it is

vars == <<pc, why, round, server, proc, critical, call>>

Ended == {"returned", "threw"}
CallStates == {"idle", "sent", "executing", "answered", "raised", "lost"}

TypeOK ==
  /\ pc \in {"llm", "listen", "python"} \cup Ended
  /\ why \in {"open", "answer", "exhausted", "delegation", "failure"}
  /\ round \in Rounds
  /\ server \in [Rounds -> {"none", "up", "closed"}]
  /\ proc \in [Rounds -> {"none", "running", "exited", "killed"}]
  /\ critical \subseteq Rounds
  /\ call \in [Calls -> [round : Rounds, st : CallStates]]

Init ==
  /\ pc = "llm" /\ why = "open" /\ round = 1
  /\ server = [r \in Rounds |-> "none"]
  /\ proc = [r \in Rounds |-> "none"]
  /\ critical = {}
  /\ call = [k \in Calls |-> [round |-> 1, st |-> "idle"]]

----------------------------------------------------------------------------
(* execute: the LLM's turn.                                                *)

\* The LLM answered without a tool call, or called a tool it was not given.
LLMAnswers ==
  /\ pc = "llm"
  /\ pc' = "returned" /\ why' = "answer"
  /\ UNCHANGED <<round, server, proc, critical, call>>

\* An HTTP error, a response without a message, 120s without one; or an
\* execute_code call without code: parseResponse makes arguments that do not
\* parse an empty object, and `code.length` throws.
LLMFails ==
  /\ pc = "llm"
  /\ pc' = "threw" /\ why' = "failure"
  /\ UNCHANGED <<round, server, proc, critical, call>>

LLMCallsCode ==
  /\ pc = "llm"
  /\ pc' = "listen"
  /\ UNCHANGED <<why, round, server, proc, critical, call>>

\* The output, or the error, of the code goes to the LLM -- or to the caller
\* after the last round.
NextRound ==
  IF round = MaxRounds
  THEN pc' = "returned" /\ why' = "exhausted" /\ UNCHANGED round
  ELSE pc' = "llm" /\ round' = round + 1 /\ UNCHANGED why

----------------------------------------------------------------------------
(* CodeExecutionEngine.execute                                             *)

\* The tool server listens and python3 is spawned, if there is one.
Listening ==
  /\ pc = "listen"
  /\ server' = [server EXCEPT ![round] = "up"]
  /\ \E p \in {"running", "none"} : proc' = [proc EXCEPT ![round] = p]
  /\ pc' = "python"
  /\ UNCHANGED <<why, round, critical, call>>

ListenFails ==
  /\ pc = "listen"
  /\ NextRound
  /\ UNCHANGED <<server, proc, critical, call>>

\* Mutant: the server is closed only when the code ended by itself.
CloseServerAfterExit ==
  server' = IF proc[round] = "exited"
            THEN [server EXCEPT ![round] = "closed"] ELSE server

\* The finally of execute.
CloseServer == server' = [server EXCEPT ![round] = "closed"]

\* spawn emitted 'error'.
SpawnFails ==
  /\ pc = "python" /\ proc[round] = "none"
  /\ CloseServer
  /\ NextRound
  /\ UNCHANGED <<proc, critical, call>>

\* 'close' of the process, up to the next LLM call.
PythonCloses ==
  /\ pc = "python" /\ proc[round] = "exited"
  /\ CloseServer
  /\ IF round \in critical
     THEN pc' = "threw" /\ why' = "delegation" /\ UNCHANGED round
     ELSE NextRound
  /\ UNCHANGED <<proc, critical, call>>

\* Mutant: there is no time limit.
PythonHasNoTimeout == FALSE /\ UNCHANGED vars

\* codeTimeoutMs: the process is killed and the promise rejected, also when
\* the process has ended and its 'close' is still to come.  What its tools
\* raised is not looked at.
PythonTimesOut ==
  /\ pc = "python" /\ proc[round] \in {"running", "exited"}
  /\ proc' = [proc EXCEPT ![round] = IF @ = "running" THEN "killed" ELSE @]
  /\ CloseServer
  /\ NextRound
  /\ UNCHANGED <<critical, call>>

----------------------------------------------------------------------------
(* A tool call: the Python stub, the server's handler, wrappedToolExecutor. *)

\* The stub posts it; without its server it gets an error at once.
CodeCalls(k) ==
  /\ call[k].st = "idle"
  /\ \E r \in Rounds :
       /\ proc[r] = "running" /\ server[r] = "up"
       /\ call' = [call EXCEPT ![k] = [round |-> r, st |-> "sent"]]
  /\ UNCHANGED <<pc, why, round, server, proc, critical>>

\* The request is complete: the executor is called, whatever became of the
\* round.
ToolBegins(k) ==
  /\ call[k].st = "sent"
  /\ call' = [call EXCEPT ![k].st = "executing"]
  /\ UNCHANGED <<pc, why, round, server, proc, critical>>

\* A process that ended sent half a request, or its server never saw it.
RequestLost(k) ==
  /\ call[k].st = "sent" /\ proc[call[k].round] # "running"
  /\ call' = [call EXCEPT ![k].st = "lost"]
  /\ UNCHANGED <<pc, why, round, server, proc, critical>>

\* Mutant: criticalError is what the last call left, null if it succeeded.
ToolAnswersForgetting(k) ==
  /\ call[k].st = "executing"
  /\ call' = [call EXCEPT ![k].st = "answered"]
  /\ critical' = critical \ {call[k].round}
  /\ UNCHANGED <<pc, why, round, server, proc>>

\* A result or an error; the code goes on with either.
ToolAnswers(k) ==
  /\ call[k].st = "executing"
  /\ call' = [call EXCEPT ![k].st = "answered"]
  /\ UNCHANGED <<pc, why, round, server, proc, critical>>

\* Mutant: criticalError is a field of the engine, which execute resets.
ToolRaisesInEngine(k) ==
  /\ call[k].st = "executing"
  /\ call' = [call EXCEPT ![k].st = "raised"]
  /\ critical' = critical \cup {round}
  /\ UNCHANGED <<pc, why, round, server, proc>>

\* A DelegationError or a DeviceInputError: noted for the end of the code,
\* and answered to the code as an error that it may catch.
ToolRaises(k) ==
  /\ call[k].st = "executing"
  /\ call' = [call EXCEPT ![k].st = "raised"]
  /\ critical' = critical \cup {call[k].round}
  /\ UNCHANGED <<pc, why, round, server, proc>>

\* The code ends, with or without answers to all its calls.
CodeEnds(r) ==
  /\ proc[r] = "running"
  /\ proc' = [proc EXCEPT ![r] = "exited"]
  /\ UNCHANGED <<pc, why, round, server, critical, call>>

----------------------------------------------------------------------------

LLMStep == LLMAnswers \/ LLMFails \/ LLMCallsCode
EngineStep ==
  Listening \/ ListenFails \/ SpawnFails \/ PythonCloses \/ PythonTimesOut
ToolStep(k) ==
  \/ CodeCalls(k) \/ ToolBegins(k) \/ RequestLost(k)
  \/ ToolAnswers(k) \/ ToolRaises(k)

Next ==
  \/ LLMStep \/ EngineStep
  \/ \E k \in Calls : ToolStep(k)
  \/ \E r \in Rounds : CodeEnds(r)

Spec == Init /\ [][Next]_vars

\* The abort signal of the LLM call and the time limit of the code end what
\* does not end by itself; neither the code nor a tool owes anything.
FairSpec == Spec /\ WF_vars(LLMStep) /\ WF_vars(EngineStep)

----------------------------------------------------------------------------
(* Properties.                                                             *)

\* No Python process and no tool server outlives the round that started it:
\* when execute asks the LLM again or has ended, none is left, whichever of
\* exit, time limit and spawn error ended the code.
NothingLeftRunning ==
  \A r \in Rounds :
    proc[r] = "running" \/ server[r] = "up" => r = round /\ pc = "python"

RaisedIn(r) == \E k \in Calls : call[k] = [round |-> r, st |-> "raised"]

\* execute throws a delegation only if a tool call of the very round it is
\* in asked for one: a call of an earlier round that raises late, when its
\* code was killed long ago, does not end the run.
DelegationIsOwn == why = "delegation" => RaisedIn(round)

\* Code that ends by itself after one of its calls asked for a delegation
\* ends the run with it, also if the code caught the exception.
DelegationIsThrown ==
  [][PythonCloses /\ RaisedIn(round) => why' = "delegation"]_vars

\* execute ends, whatever the LLM, the code and the tools do or fail to do.
ExecuteEnds == <>(pc \in Ended)

=============================================================================
