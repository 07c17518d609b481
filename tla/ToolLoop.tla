------------------------------ MODULE ToolLoop ------------------------------
(***************************************************************************)
(* explore (src/tools/explore.js): the loop of ToolCallingClient.execute   *)
(* (sdk/tool-calling-client.js) with the searching tools as its executor.  *)
(* Each run has a transcript of its own and nothing else.                  *)
(*                                                                         *)
(* A transcript is a sequence of messages; a tool call in it is known by   *)
(* its place in the LLM's answer.  Whether a tool found something, failed, *)
(* threw or was refused makes a different text of the same message.        *)
(*                                                                         *)
(* External: the LLM, and the file system the tools look at.  The branch   *)
(* for DelegationError and DeviceInputError is left out: no tool of        *)
(* explore throws one.                                                     *)
(***************************************************************************)
EXTENDS Naturals, Sequences, SequencesExt

CONSTANTS
  Explores,        \* the runs of explore
  ExploreRounds,   \* maxRounds of ToolCallingClient.execute
  MaxToolCalls     \* bound: tool calls in one answer

ASSUME LoopAssumption == ExploreRounds \in Nat \ {0} /\ MaxToolCalls \in Nat

VARIABLE loop      \* run -> where it is, round, transcript, calls left

Prompt == [role |-> "prompt"]
Assistant(n, says) == [role |-> "assistant", calls |-> n, says |-> says]
Tool(id) == [role |-> "tool", id |-> id]
Messages == {Prompt} \cup [role : {"tool"}, id : 1 .. MaxToolCalls]
            \cup [role : {"assistant"}, calls : 1 .. MaxToolCalls, says : BOOLEAN]

Idle == [at |-> "idle", round |-> 0, msgs |-> <<>>, todo |-> <<>>]
LoopEnds == {"answer", "last text", "fallback", "error"}

LoopTypeOK ==
  loop \in [Explores -> [at : {"idle", "llm", "tools"} \cup LoopEnds,
                         round : 0 .. ExploreRounds,
                         msgs : Seq(Messages), todo : Seq(1 .. MaxToolCalls)]]

LoopInit == loop = [k \in Explores |-> Idle]

\* run of explore.js, up to the first LLM call.  Without a task, a project or
\* a communicator there is none.
Explore(k) ==
  \/ loop' = [loop EXCEPT ![k] = [Idle EXCEPT !.at = "llm", !.msgs = <<Prompt>>]]
  \/ loop' = [loop EXCEPT ![k].at = "error"]

\* No tool calls: "this is the only exit".
LoopAnswers(k) ==
  /\ loop[k].at = "llm"
  /\ loop' = [loop EXCEPT ![k].at = "answer"]

\* An HTTP error, a response without a message, 120s without one: explore
\* catches what execute throws.
LoopFails(k) ==
  /\ loop[k].at = "llm"
  /\ loop' = [loop EXCEPT ![k].at = "error"]

\* The answer, in either format, with its calls in their order; arguments that
\* do not parse are an empty object.
LoopCalls(k) ==
  /\ loop[k].at = "llm"
  /\ \E n \in 1 .. MaxToolCalls, says \in BOOLEAN :
       loop' = [loop EXCEPT ![k].at = "tools",
                            ![k].msgs = Append(@, Assistant(n, says)),
                            ![k].todo = [i \in 1 .. n |-> i]]

\* What execute returns when its rounds are used up.
LastText(msgs) ==
  LET said == SelectLastInSeq(msgs, LAMBDA m : m.role = "assistant") IN
  IF msgs[said].says THEN "last text" ELSE "fallback"

\* The round of which this was the last call.
EndRound(l) ==
  IF l.todo # <<>> THEN l
  ELSE [l EXCEPT !.round = @ + 1,
                 !.at = IF l.round + 1 < ExploreRounds THEN "llm" ELSE LastText(l.msgs)]

\* Mutant: a tool that throws leaves no message.
ToolEndsOrThrows(k) ==
  /\ loop[k].at = "tools"
  /\ \E said \in {<<>>, <<Tool(Head(loop[k].todo))>>} :
       loop' = [loop EXCEPT ![k] =
         EndRound([loop[k] EXCEPT !.msgs = @ \o said, !.todo = Tail(@)])]

\* Mutant: the second tool of an answer has no time limit, and hangs.
ToolEndsIfFirst(k) ==
  /\ loop[k].at = "tools" /\ Head(loop[k].todo) = 1
  /\ loop' = [loop EXCEPT ![k] =
       EndRound([loop[k] EXCEPT !.msgs = Append(@, Tool(1)), !.todo = Tail(@)])]

\* toolExecutor answers the next call: a result, an error in words, or the
\* message of what it threw.
ToolEnds(k) ==
  /\ loop[k].at = "tools"
  /\ loop' = [loop EXCEPT ![k] =
       EndRound([loop[k] EXCEPT !.msgs = Append(@, Tool(Head(loop[k].todo))),
                                !.todo = Tail(@)])]

LoopStep(k) == LoopAnswers(k) \/ LoopFails(k) \/ LoopCalls(k) \/ ToolEnds(k)

LoopOver(k) == loop[k].at \in LoopEnds

----------------------------------------------------------------------------
(* Properties.                                                             *)

\* Every tool call of an answer has one result, in the order of the calls and
\* before anything else is said, whatever became of the tool: what the LLM is
\* asked with is a transcript its API accepts.
TranscriptWellFormed ==
  \A k \in Explores :
    LET m == loop[k].msgs
        Answers(i) == [j \in 1 .. m[i].calls |-> Tool(j)] IN
    loop[k].at = "llm" =>
      \A i \in DOMAIN m :
        /\ m[i].role = "assistant" => IsPrefix(Answers(i), SubSeq(m, i + 1, Len(m)))
        /\ m[i].role = "tool" => \E a \in 1 .. i - 1 :
             m[a].role = "assistant" /\ i <= a + m[a].calls

\* A run of explore that began ends, at the latest when its rounds are used
\* up, also when the code that called it has long been killed.
ExploreEnds == \A k \in Explores : loop[k].at # "idle" ~> LoopOver(k)

=============================================================================
