----------------------------- MODULE Exploration -----------------------------
(***************************************************************************)
(* CodeExecution whose code calls explore: executeTool (src/agent.js) runs *)
(* the loop of ToolLoop inside a tool call.  The loop has up to 15 LLM     *)
(* calls of up to 120s each; the code that waits for it is killed after    *)
(* 120s, so it goes on when its round, and even the execute, is over.      *)
(***************************************************************************)
EXTENDS CodeExecution, ToolLoop

ASSUME ExploresAssumption == Explores \subseteq Calls

allVars == <<vars, loop>>

ExplorationInit == Init /\ LoopInit

\* The tool call starts the loop, and is answered with what it ended with;
\* nobody else touches it.
ExploreBegins(k) == ToolBegins(k) /\ Explore(k)
ExploreAnswers(k) == ToolAnswers(k) /\ LoopOver(k) /\ UNCHANGED loop

ExploreCall(k) ==
  \/ (CodeCalls(k) \/ RequestLost(k)) /\ UNCHANGED loop
  \/ ExploreBegins(k) \/ ExploreAnswers(k)
  \/ LoopStep(k) /\ UNCHANGED vars

ExplorationNext ==
  \/ (LLMStep \/ EngineStep \/ \E r \in Rounds : CodeEnds(r)) /\ UNCHANGED loop
  \/ \E k \in Calls \ Explores : ToolStep(k) /\ UNCHANGED loop
  \/ \E k \in Explores : ExploreCall(k)

ExplorationSpec == ExplorationInit /\ [][ExplorationNext]_allVars

\* As in CodeExecution.  The abort signal ends an LLM call of a loop; grep and
\* bash are killed after 15s, and the file system answers glob and read.
FairExplorationSpec ==
  /\ ExplorationSpec
  /\ WF_vars(LLMStep) /\ WF_vars(EngineStep)
  /\ \A k \in Explores : WF_allVars(LoopStep(k) /\ UNCHANGED vars)

----------------------------------------------------------------------------
(* Properties.                                                             *)

\* The execute and every exploration that its code began end.
RunsEnd == ExecuteEnds /\ ExploreEnds

=============================================================================
