-------------------------- MODULE Exploration_proofs --------------------------
(***************************************************************************)
(* Proofs about CodeExecution and about Exploration: that no process or    *)
(* server outlives its round, that a delegation that was asked for is      *)
(* thrown, and is of the round it ends, that explorations leave these      *)
(* properties of CodeExecution alone, and that the LLM is asked with       *)
(* complete transcripts only.  For any calls, rounds and tool calls in an  *)
(* answer.                                                                 *)
(***************************************************************************)
EXTENDS Exploration, TLAPS, SequenceTheorems

----------------------------------------------------------------------------
(* CodeExecution.                                                          *)

\* Every variable of a code execution keeps its type; the round in
\* particular never passes maxRounds.
THEOREM TypeCorrect == Spec => []TypeOK
<1>1. Init => TypeOK
  <2>1. 1 \in Rounds  BY RoundsAssumption, SMT DEF Rounds
  <2> QED  BY <2>1 DEF Init, TypeOK, CallStates, Ended
<1>2. TypeOK /\ [Next]_vars => TypeOK'
  <2> SUFFICES ASSUME TypeOK, [Next]_vars PROVE TypeOK'  OBVIOUS
  <2> USE DEF TypeOK, CallStates, Ended
  <2>1. CASE LLMStep
    BY <2>1 DEF LLMStep, LLMAnswers, LLMFails, LLMCallsCode
  <2>2. NextRound => /\ pc' \in {"llm", "returned"}
                     /\ why' \in {why, "exhausted"}
                     /\ round' \in Rounds
    BY RoundsAssumption, SMT DEF NextRound, Rounds
  <2>3. CloseServer => server' \in [Rounds -> {"none", "up", "closed"}]
    BY DEF CloseServer
  <2>4. CASE EngineStep
    <3>1. CASE Listening  BY <3>1 DEF Listening
    <3>2. CASE ListenFails  BY <2>2, <3>2 DEF ListenFails
    <3>3. CASE SpawnFails  BY <2>2, <2>3, <3>3 DEF SpawnFails
    <3>4. CASE PythonCloses  BY <2>2, <2>3, <3>4 DEF PythonCloses
    <3>5. CASE PythonTimesOut  BY <2>2, <2>3, <3>5 DEF PythonTimesOut
    <3> QED  BY <2>4, <3>1, <3>2, <3>3, <3>4, <3>5 DEF EngineStep
  <2>5. ASSUME NEW k \in Calls, ToolStep(k) PROVE TypeOK'
    BY <2>5 DEF ToolStep, CodeCalls, ToolBegins, RequestLost, ToolAnswers,
                ToolRaises
  <2>6. ASSUME NEW r \in Rounds, CodeEnds(r) PROVE TypeOK'
    BY <2>6 DEF CodeEnds
  <2>7. CASE UNCHANGED vars  BY <2>7 DEF vars
  <2> QED  BY <2>1, <2>4, <2>5, <2>6, <2>7 DEF Next
<1> QED  BY <1>1, <1>2, PTL DEF Spec

----------------------------------------------------------------------------

\* No process and no tool server outlives the round that started it.
THEOREM RoundsCleanUp == Spec => []NothingLeftRunning
<1>1. Init => NothingLeftRunning
  BY DEF Init, NothingLeftRunning
<1>2. TypeOK /\ NothingLeftRunning /\ [Next]_vars => NothingLeftRunning'
  <2> SUFFICES ASSUME TypeOK, NothingLeftRunning, [Next]_vars
               PROVE  NothingLeftRunning'
    OBVIOUS
  <2> USE DEF TypeOK, NothingLeftRunning
  <2>1. CASE LLMStep
    BY <2>1 DEF LLMStep, LLMAnswers, LLMFails, LLMCallsCode
  <2>2. CASE Listening  BY <2>2 DEF Listening
  <2>3. CASE ListenFails  BY <2>3 DEF ListenFails, NextRound
  <2>4. CASE SpawnFails  BY <2>4 DEF SpawnFails, CloseServer, NextRound
  <2>5. CASE PythonCloses  BY <2>5 DEF PythonCloses, CloseServer, NextRound
  <2>6. CASE PythonTimesOut
    BY <2>6 DEF PythonTimesOut, CloseServer, NextRound
  <2>7. ASSUME NEW k \in Calls, ToolStep(k) PROVE NothingLeftRunning'
    BY <2>7 DEF ToolStep, CodeCalls, ToolBegins, RequestLost, ToolAnswers,
                ToolRaises
  <2>8. ASSUME NEW r \in Rounds, CodeEnds(r) PROVE NothingLeftRunning'
    BY <2>8 DEF CodeEnds
  <2>9. CASE UNCHANGED vars  BY <2>9 DEF vars
  <2> QED
    BY <2>1, <2>2, <2>3, <2>4, <2>5, <2>6, <2>7, <2>8, <2>9
       DEF Next, EngineStep
<1> QED  BY <1>1, <1>2, TypeCorrect, PTL DEF Spec

----------------------------------------------------------------------------

\* What makes DelegationIsOwn inductive: a criticalError stands for a call
\* of its own round, and the round stays where the run ended.
DelegationInv ==
  /\ \A r \in critical : RaisedIn(r)
  /\ why = "delegation" => pc = "threw" /\ round \in critical

LEMMA RaisedStays ==
  ASSUME TypeOK, NEW k \in Calls, ToolStep(k), NEW r \in Rounds, RaisedIn(r)
  PROVE  RaisedIn(r)'
<1>1. PICK j \in Calls : call[j] = [round |-> r, st |-> "raised"]
  BY DEF RaisedIn
<1>2. call'[j] = call[j]
  BY <1>1 DEF TypeOK, ToolStep, CodeCalls, ToolBegins, RequestLost,
              ToolAnswers, ToolRaises
<1> QED  BY <1>1, <1>2 DEF RaisedIn

\* A delegation that execute throws was asked for in the round it is in.
THEOREM DelegationSafe == Spec => []DelegationIsOwn
<1>1. Init => DelegationInv
  BY DEF Init, DelegationInv
<1>2. TypeOK /\ DelegationInv /\ [Next]_vars => DelegationInv'
  <2> SUFFICES ASSUME TypeOK, DelegationInv, [Next]_vars
               PROVE  DelegationInv'
    OBVIOUS
  <2> USE DEF DelegationInv
  <2>1. CASE LLMStep
    BY <2>1 DEF LLMStep, LLMAnswers, LLMFails, LLMCallsCode, RaisedIn
  <2>2. CASE EngineStep
    BY <2>2 DEF EngineStep, Listening, ListenFails, SpawnFails, PythonCloses,
                PythonTimesOut, NextRound, RaisedIn
  <2>3. ASSUME NEW k \in Calls, ToolStep(k) PROVE DelegationInv'
    <3>1. UNCHANGED <<pc, why, round>>
      BY <2>3 DEF ToolStep, CodeCalls, ToolBegins, RequestLost, ToolAnswers,
                  ToolRaises
    <3>2. critical \subseteq critical'
      BY <2>3 DEF ToolStep, CodeCalls, ToolBegins, RequestLost, ToolAnswers,
                  ToolRaises
    <3>3. ASSUME NEW r \in critical' PROVE RaisedIn(r)'
      <4>1. CASE r \in critical
        BY <2>3, <4>1, RaisedStays DEF TypeOK
      <4>2. CASE r \notin critical
        <5>1. ToolRaises(k) /\ r = call[k].round
          BY <2>3, <3>3, <4>2
             DEF ToolStep, CodeCalls, ToolBegins, RequestLost, ToolAnswers,
                 ToolRaises
        <5>2. call'[k] = [round |-> r, st |-> "raised"]
          BY <5>1 DEF ToolRaises, TypeOK
        <5> QED  BY <5>2 DEF RaisedIn
      <4> QED  BY <4>1, <4>2
    <3> QED  BY <3>1, <3>2, <3>3
  <2>4. ASSUME NEW r \in Rounds, CodeEnds(r) PROVE DelegationInv'
    BY <2>4 DEF CodeEnds, RaisedIn
  <2>5. CASE UNCHANGED vars  BY <2>5 DEF vars, RaisedIn
  <2> QED  BY <2>1, <2>2, <2>3, <2>4, <2>5 DEF Next
<1>3. DelegationInv => DelegationIsOwn
  BY DEF DelegationInv, DelegationIsOwn
<1> QED  BY <1>1, <1>2, <1>3, TypeCorrect, PTL DEF Spec

\* What DelegationIsThrown needs: whatever a call raised is noted for its round.
RaisedIsNoted == \A r \in Rounds : RaisedIn(r) => r \in critical

\* Code that ends by itself after one of its calls asked for a delegation ends
\* the run with it: criticalError is set with the answer that raises, and no
\* other call, of this or an earlier round, takes it back (code-engine.js).
THEOREM DelegationThrown == Spec => DelegationIsThrown
<1>1. Init => RaisedIsNoted
  BY DEF Init, RaisedIsNoted, RaisedIn
<1>2. TypeOK /\ RaisedIsNoted /\ [Next]_vars => RaisedIsNoted'
  <2> SUFFICES ASSUME TypeOK, RaisedIsNoted, [Next]_vars,
                      NEW r \in Rounds, RaisedIn(r)'
               PROVE  r \in critical'
    BY DEF RaisedIsNoted
  <2>1. PICK j \in Calls : call'[j] = [round |-> r, st |-> "raised"]
    BY DEF RaisedIn
  <2>2. CASE UNCHANGED <<call, critical>>
    BY <2>1, <2>2 DEF RaisedIsNoted, RaisedIn
  <2>3. ASSUME NEW k \in Calls, ToolStep(k) PROVE r \in critical'
    <3>1. CASE call[j] = call'[j]
      <4>1. critical \subseteq critical'
        BY <2>3 DEF ToolStep, CodeCalls, ToolBegins, RequestLost, ToolAnswers,
                    ToolRaises
      <4> QED  BY <2>1, <3>1, <4>1 DEF RaisedIsNoted, RaisedIn
    <3>2. CASE call[j] # call'[j]
      <4>1. ToolRaises(k) /\ j = k
        BY <2>1, <2>3, <3>2
           DEF TypeOK, ToolStep, CodeCalls, ToolBegins, RequestLost, ToolAnswers,
               ToolRaises
      <4> QED  BY <2>1, <4>1 DEF TypeOK, ToolRaises
    <3> QED  BY <3>1, <3>2
  <2> QED
    BY <2>2, <2>3
       DEF Next, vars, LLMStep, LLMAnswers, LLMFails, LLMCallsCode, EngineStep,
           Listening, ListenFails, SpawnFails, PythonCloses, PythonTimesOut,
           CodeEnds
<1>3. TypeOK /\ RaisedIsNoted
      => [PythonCloses /\ RaisedIn(round) => why' = "delegation"]_vars
  BY DEF TypeOK, RaisedIsNoted, PythonCloses
<1> QED
  BY <1>1, <1>2, <1>3, TypeCorrect, PTL DEF Spec, DelegationIsThrown

----------------------------------------------------------------------------
(* What is proved of CodeExecution holds with explorations.                *)

LEMMA StepImplements == [ExplorationNext]_allVars => [Next]_vars
<1>1. ASSUME NEW k \in Explores, ExploreCall(k) PROVE [Next]_vars
  <2>1. k \in Calls
    BY ExploresAssumption
  <2> QED
    BY <1>1, <2>1 DEF ExploreCall, ExploreBegins, ExploreAnswers, Next, ToolStep
<1> QED
  BY <1>1 DEF ExplorationNext, allVars, Next

\* No process or server outlives its round, a delegation is of the round it
\* ends, and is thrown when the code ends, also when tool calls go on as explorations of their own
\* (sdk/ptc-client.js and code-engine.js with tools/explore.js).
THEOREM RoundsCleanUpBesideLoops ==
  ExplorationSpec => /\ []NothingLeftRunning /\ []DelegationIsOwn
                     /\ DelegationIsThrown
<1>1. ExplorationSpec => Spec
  BY StepImplements, PTL DEF ExplorationSpec, ExplorationInit, Spec
<1> QED
  BY <1>1, RoundsCleanUp, DelegationSafe, DelegationThrown, PTL

----------------------------------------------------------------------------
(* Transcripts.                                                            *)

\* The first n messages are complete: what an answer asks for is there in
\* order, and nothing else is said by a tool.
Complete(m, n) ==
  \A i \in 1 .. n :
    /\ m[i].role = "assistant" =>
         /\ m[i].calls \in Nat /\ i + m[i].calls <= n
         /\ \A j \in 1 .. m[i].calls : m[i + j] = Tool(j)
    /\ m[i].role = "tool" =>
         \E a \in 1 .. i - 1 : m[a].role = "assistant" /\ i <= a + m[a].calls

\* The last answer is at a, its first d calls have results, todo are the rest.
Answering(m, todo, a, d) ==
  /\ a \in DOMAIN m /\ m[a].role = "assistant" /\ Complete(m, a - 1)
  /\ m[a].calls \in Nat /\ d < m[a].calls /\ Len(m) = a + d
  /\ \A j \in 1 .. d : m[a + j] = Tool(j)
  /\ todo \in Seq(Nat) /\ Len(todo) = m[a].calls - d
  /\ \A j \in 1 .. Len(todo) : todo[j] = d + j

Transcript(l) ==
  /\ l.at = "llm" => Complete(l.msgs, Len(l.msgs))
  /\ l.at = "tools" => \E a, d \in Nat : Answering(l.msgs, l.todo, a, d)

Loops ==
  [at : {"idle", "llm", "tools"} \cup LoopEnds, round : Nat,
   msgs : Seq(Messages), todo : Seq(Nat)]

LoopInv ==
  /\ loop \in [Explores -> Loops]
  /\ \A k \in Explores : Transcript(loop[k])

\* The result of the next call goes behind those of the calls before it.
LEMMA OneMoreResult ==
  ASSUME NEW m \in Seq(Messages), NEW todo, NEW a \in Nat, NEW d \in Nat,
         Answering(m, todo, a, d)
  PROVE  /\ Append(m, Tool(Head(todo))) \in Seq(Messages)
         /\ Tail(todo) # <<>> =>
              Answering(Append(m, Tool(Head(todo))), Tail(todo), a, d + 1)
         /\ Tail(todo) = <<>> =>
              Complete(Append(m, Tool(Head(todo))), Len(m) + 1)
<1> DEFINE n == m[a].calls  r == Append(m, Tool(d + 1))
<1>1. /\ n \in Nat /\ d < n /\ a \in 1 .. Len(m) /\ Len(m) = a + d
      /\ m[a].role = "assistant" /\ Complete(m, a - 1)
      /\ \A j \in 1 .. d : m[a + j] = Tool(j)
      /\ todo \in Seq(Nat) /\ Len(todo) = n - d
      /\ \A j \in 1 .. Len(todo) : todo[j] = d + j
  BY DEF Answering
<1> HIDE DEF n
<1>2. Len(todo) \in Nat /\ Len(todo) # 0
  BY <1>1
<1>2a. todo # <<>> /\ Head(todo) = d + 1
  BY <1>1, <1>2
<1>3. /\ Tail(todo) \in Seq(Nat) /\ Len(Tail(todo)) = n - (d + 1)
      /\ \A j \in 1 .. Len(Tail(todo)) : Tail(todo)[j] = (d + 1) + j
  <2>1. /\ Tail(todo) \in Seq(Nat) /\ Len(Tail(todo)) = Len(todo) - 1
        /\ \A j \in 1 .. Len(Tail(todo)) : Tail(todo)[j] = todo[j + 1]
    BY <1>1, <1>2a
  <2>2. ASSUME NEW j \in 1 .. Len(Tail(todo)) PROVE Tail(todo)[j] = (d + 1) + j
    <3>1. j + 1 \in 1 .. Len(todo)
      BY <1>2, <2>1
    <3> QED
      BY <1>1, <2>1, <3>1
  <2> QED
    BY <1>1, <2>1, <2>2
<1>4. m[a] \in Messages
  BY <1>1
<1>5. n \in 1 .. MaxToolCalls
  BY <1>1, <1>4 DEF Messages, Prompt, n
<1>6. Tool(d + 1) \in Messages
  <2>1. d + 1 \in 1 .. MaxToolCalls
    BY <1>1, <1>5, LoopAssumption
  <2> QED
    BY <2>1 DEF Messages, Tool
<1>7. /\ r \in Seq(Messages) /\ Len(r) = Len(m) + 1
      /\ \A i \in 1 .. Len(m) : r[i] = m[i]
      /\ r[Len(m) + 1] = Tool(d + 1)
  BY <1>6
<1> HIDE DEF r
<1>8. Complete(r, a - 1)
  <2> SUFFICES ASSUME NEW i \in 1 .. a - 1
               PROVE  /\ r[i].role = "assistant" =>
                           /\ r[i].calls \in Nat /\ i + r[i].calls <= a - 1
                           /\ \A j \in 1 .. r[i].calls : r[i + j] = Tool(j)
                      /\ r[i].role = "tool" =>
                           \E b \in 1 .. i - 1 :
                             r[b].role = "assistant" /\ i <= b + r[b].calls
    BY DEF Complete
  <2>1. ASSUME NEW h \in 1 .. a - 1 PROVE r[h] = m[h]
    <3>1. h \in 1 .. Len(m)
      BY <1>1
    <3> QED
      BY <1>7, <3>1
  <2>2. ASSUME r[i].role = "assistant"
        PROVE  /\ r[i].calls \in Nat /\ i + r[i].calls <= a - 1
               /\ \A j \in 1 .. r[i].calls : r[i + j] = Tool(j)
    <3>1. /\ m[i].calls \in Nat /\ i + m[i].calls <= a - 1
          /\ \A j \in 1 .. m[i].calls : m[i + j] = Tool(j)
      BY <1>1, <2>1, <2>2 DEF Complete
    <3>2. \A j \in 1 .. m[i].calls : i + j \in 1 .. a - 1
      BY <1>1, <3>1
    <3> QED
      BY <2>1, <3>1, <3>2
  <2>3. ASSUME r[i].role = "tool"
        PROVE  \E b \in 1 .. i - 1 : r[b].role = "assistant" /\ i <= b + r[b].calls
    <3>1. PICK b \in 1 .. i - 1 : m[b].role = "assistant" /\ i <= b + m[b].calls
      BY <1>1, <2>1, <2>3 DEF Complete
    <3>2. b \in 1 .. a - 1
      BY <1>1
    <3> QED
      BY <2>1, <3>1, <3>2
  <2> QED
    BY <2>2, <2>3
<1>9. ASSUME NEW j \in 1 .. d + 1 PROVE r[a + j] = Tool(j)
  <2>1. CASE j = d + 1
    <3>1. a + j = Len(m) + 1
      BY <1>1, <2>1
    <3> QED
      BY <1>7, <2>1, <3>1
  <2>2. CASE j # d + 1
    <3>1. j \in 1 .. d /\ a + j \in 1 .. Len(m)
      BY <1>1, <2>2
    <3> QED
      BY <1>1, <1>7, <3>1
  <2> QED
    BY <2>1, <2>2
<1>10. r[a] = m[a] /\ a \in DOMAIN r
  BY <1>1, <1>7
<1>11. ASSUME Tail(todo) # <<>> PROVE Answering(r, Tail(todo), a, d + 1)
  <2>1. d + 1 < n
    BY <1>1, <1>3, <1>11
  <2> QED
    BY <1>1, <1>3, <1>7, <1>8, <1>9, <1>10, <2>1 DEF Answering, n
<1>12. ASSUME Tail(todo) = <<>> PROVE Complete(r, Len(m) + 1)
  <2>1. n = d + 1
    <3>1. Len(Tail(todo)) = 0
      BY <1>12, EmptySeq
    <3>2. n \in Nat /\ n - (d + 1) = 0
      BY <1>1, <1>3, <3>1
    <3> QED
      BY <3>2
  <2> SUFFICES ASSUME NEW i \in 1 .. Len(m) + 1
               PROVE  /\ r[i].role = "assistant" =>
                           /\ r[i].calls \in Nat /\ i + r[i].calls <= Len(m) + 1
                           /\ \A j \in 1 .. r[i].calls : r[i + j] = Tool(j)
                      /\ r[i].role = "tool" =>
                           \E b \in 1 .. i - 1 :
                             r[b].role = "assistant" /\ i <= b + r[b].calls
    BY DEF Complete
  <2>2. CASE i < a
    <3>1. i \in 1 .. a - 1 /\ a - 1 <= Len(m) + 1
      BY <1>1, <2>2
    <3>2. /\ r[i].role = "assistant" =>
               /\ r[i].calls \in Nat /\ i + r[i].calls <= a - 1
               /\ \A j \in 1 .. r[i].calls : r[i + j] = Tool(j)
          /\ r[i].role = "tool" =>
               \E b \in 1 .. i - 1 : r[b].role = "assistant" /\ i <= b + r[b].calls
      BY <1>8, <3>1 DEF Complete
    <3> QED
      BY <1>1, <3>1, <3>2
  <2>3. CASE i = a
    BY <1>1, <1>7, <1>9, <1>10, <2>1, <2>3 DEF n
  <2>4. CASE i > a
    <3>1. i - a \in 1 .. d + 1 /\ a + (i - a) = i
      BY <1>1, <2>4
    <3>2. r[i] = Tool(i - a)
      BY <1>9, <3>1
    <3>3. r[i].role = "tool"
      BY <3>2 DEF Tool
    <3>4. a \in 1 .. i - 1 /\ i <= a + r[a].calls
      BY <1>1, <1>10, <2>1, <2>4 DEF n
    <3> QED
      BY <1>1, <1>10, <3>3, <3>4
  <2> QED
    BY <1>1, <2>2, <2>3, <2>4
<1> QED
  BY <1>2a, <1>7, <1>11, <1>12 DEF r

\* What is said behind complete messages leaves them so.
LEMMA CompleteBefore ==
  ASSUME NEW m \in Seq(Messages), NEW s \in Messages, Complete(m, Len(m))
  PROVE  Complete(Append(m, s), Len(m))
<1> DEFINE r == Append(m, s)
<1>1. \A i \in 1 .. Len(m) : r[i] = m[i]
  OBVIOUS
<1>2. Len(m) \in Nat
  OBVIOUS
<1> HIDE DEF r
<1> SUFFICES ASSUME NEW i \in 1 .. Len(m)
             PROVE  /\ r[i].role = "assistant" =>
                         /\ r[i].calls \in Nat /\ i + r[i].calls <= Len(m)
                         /\ \A j \in 1 .. r[i].calls : r[i + j] = Tool(j)
                    /\ r[i].role = "tool" =>
                         \E b \in 1 .. i - 1 :
                           r[b].role = "assistant" /\ i <= b + r[b].calls
  BY DEF Complete, r
<1>3. ASSUME r[i].role = "assistant"
      PROVE  /\ r[i].calls \in Nat /\ i + r[i].calls <= Len(m)
             /\ \A j \in 1 .. r[i].calls : r[i + j] = Tool(j)
  <2>1. /\ m[i].calls \in Nat /\ i + m[i].calls <= Len(m)
        /\ \A j \in 1 .. m[i].calls : m[i + j] = Tool(j)
    BY <1>1, <1>3 DEF Complete
  <2>2. \A j \in 1 .. m[i].calls : i + j \in 1 .. Len(m)
    BY <1>2, <2>1
  <2> QED
    BY <1>1, <2>1, <2>2
<1>4. ASSUME r[i].role = "tool"
      PROVE  \E b \in 1 .. i - 1 : r[b].role = "assistant" /\ i <= b + r[b].calls
  <2>1. PICK b \in 1 .. i - 1 : m[b].role = "assistant" /\ i <= b + m[b].calls
    BY <1>1, <1>4 DEF Complete
  <2>2. b \in 1 .. Len(m)
    BY <1>2
  <2> QED
    BY <1>1, <2>1, <2>2
<1> QED
  BY <1>3, <1>4

LEMMA LoopInitially == LoopInit => LoopInv
<1>1. Idle \in Loops
  BY EmptySeq DEF Idle, Loops
<1>2. Transcript(Idle)
  BY DEF Idle, Transcript
<1> QED
  BY <1>1, <1>2 DEF LoopInit, LoopInv

\* A step of one run leaves the others alone.
LEMMA OneLoop ==
  ASSUME LoopInv, NEW k \in Explores, loop' = [loop EXCEPT ![k] = loop'[k]],
         loop'[k] \in Loops, Transcript(loop'[k])
  PROVE  LoopInv'
<1>1. loop' \in [Explores -> Loops]
  BY DEF LoopInv
<1>2. ASSUME NEW j \in Explores PROVE Transcript(loop'[j])
  <2>1. CASE j = k
    BY <2>1
  <2>2. CASE j # k
    <3>1. loop'[j] = loop[j]
      BY <2>2 DEF LoopInv
    <3> QED
      BY <3>1 DEF LoopInv
  <2> QED
    BY <2>1, <2>2
<1> QED
  BY <1>1, <1>2 DEF LoopInv

LEMMA ExploreKeeps ==
  ASSUME LoopInv, NEW k \in Explores, Explore(k)
  PROVE  LoopInv'
<1>0. loop \in [Explores -> Loops]
  BY DEF LoopInv
<1>1. CASE loop' = [loop EXCEPT ![k] = [Idle EXCEPT !.at = "llm", !.msgs = <<Prompt>>]]
  <2>1. Prompt \in Messages /\ <<Prompt>> \in Seq(Messages)
    BY DEF Messages
  <2>2. loop'[k] = [at |-> "llm", round |-> 0, msgs |-> <<Prompt>>, todo |-> <<>>]
    BY <1>0, <1>1 DEF Idle
  <2>3. loop'[k] \in Loops
    BY <2>1, <2>2, EmptySeq DEF Loops
  <2>4. Complete(<<Prompt>>, Len(<<Prompt>>))
    <3>1. Prompt.role = "prompt"
      BY DEF Prompt
    <3>2. Len(<<Prompt>>) = 1 /\ \A i \in 1 .. 1 : <<Prompt>>[i] = Prompt
      OBVIOUS
    <3> QED
      BY <3>1, <3>2 DEF Complete
  <2>5. Transcript(loop'[k])
    BY <2>2, <2>4 DEF Transcript
  <2> QED
    BY <1>0, <1>1, <2>3, <2>5, OneLoop
<1>2. CASE loop' = [loop EXCEPT ![k].at = "error"]
  <2>1. loop'[k] = [loop[k] EXCEPT !.at = "error"]
    BY <1>0, <1>2
  <2>2. loop'[k] \in Loops /\ loop'[k].at = "error"
    BY <1>0, <2>1 DEF Loops, LoopEnds
  <2> QED
    BY <1>0, <1>2, <2>2, OneLoop DEF Transcript
<1> QED
  BY <1>1, <1>2 DEF Explore

LEMMA LoopStepKeeps ==
  ASSUME LoopInv, NEW k \in Explores, LoopStep(k)
  PROVE  LoopInv'
<1> DEFINE l == loop[k]  m == loop[k].msgs
<1>0. loop \in [Explores -> Loops] /\ Transcript(l)
  BY DEF LoopInv
<1>a. l \in Loops /\ m \in Seq(Messages) /\ Len(m) \in Nat
  BY <1>0 DEF Loops
<1>b. l.round \in Nat /\ l.round + 1 \in Nat
  BY <1>a DEF Loops
<1>1. CASE LoopAnswers(k) \/ LoopFails(k)
  <2>1. PICK e \in {"answer", "error"} : loop' = [loop EXCEPT ![k].at = e]
    BY <1>1 DEF LoopAnswers, LoopFails
  <2>2. loop'[k] = [l EXCEPT !.at = e]
    BY <1>0, <2>1
  <2>3. loop'[k] \in Loops /\ loop'[k].at \in {"answer", "error"}
    BY <1>a, <2>2 DEF Loops, LoopEnds
  <2> QED
    BY <1>0, <2>1, <2>3, OneLoop DEF Transcript
<1>2. CASE LoopCalls(k)
  <2>1. PICK n \in 1 .. MaxToolCalls, says \in BOOLEAN :
          loop' = [loop EXCEPT ![k].at = "tools",
                               ![k].msgs = Append(@, Assistant(n, says)),
                               ![k].todo = [i \in 1 .. n |-> i]]
    BY <1>2 DEF LoopCalls
  <2> DEFINE s == Assistant(n, says)  r == Append(m, s)  todo == [i \in 1 .. n |-> i]
  <2>2. loop'[k] = [l EXCEPT !.at = "tools", !.msgs = r, !.todo = todo]
    BY <1>0, <2>1
  <2>3. n \in Nat /\ n > 0
    BY LoopAssumption
  <2>4. s \in Messages /\ s.role = "assistant" /\ s.calls = n
    BY DEF Messages, Assistant
  <2>5. /\ r \in Seq(Messages) /\ Len(r) = Len(m) + 1 /\ r[Len(m) + 1] = s
    BY <1>a, <2>4
  <2>6. /\ todo \in Seq(Nat) /\ Len(todo) = n /\ \A j \in 1 .. Len(todo) : todo[j] = 0 + j
    BY <2>3
  <2>7. Complete(r, Len(m))
    <3>1. Complete(m, Len(m))
      BY <1>0, <1>2 DEF LoopCalls, Transcript
    <3> QED
      BY <1>a, <2>4, <3>1, CompleteBefore
  <2> HIDE DEF s, r, todo
  <2>8. Answering(r, todo, Len(m) + 1, 0)
    BY <1>a, <2>3, <2>4, <2>5, <2>6, <2>7 DEF Answering
  <2>9. /\ loop'[k].at = "tools" /\ loop'[k].msgs = r /\ loop'[k].todo = todo
        /\ loop'[k] \in Loops
    BY <1>a, <2>2, <2>5, <2>6 DEF Loops
  <2>10. Transcript(loop'[k])
    <3>1. \E a, d \in Nat : Answering(loop'[k].msgs, loop'[k].todo, a, d)
      BY <1>a, <2>8, <2>9
    <3> QED
      BY <2>9, <3>1 DEF Transcript
  <2>11. loop' = [loop EXCEPT ![k] = loop'[k]]
    BY <1>0, <2>1
  <2> QED
    BY <2>9, <2>10, <2>11, OneLoop
<1>3. CASE ToolEnds(k)
  <2> DEFINE r == Append(m, Tool(Head(l.todo)))  rest == Tail(l.todo)
             next == [l EXCEPT !.msgs = r, !.todo = rest]
  <2>1. loop' = [loop EXCEPT ![k] = EndRound(next)]
    <3>1. loop' = [loop EXCEPT ![k] = EndRound([l EXCEPT
             !.msgs = Append(l.msgs, Tool(Head(l.todo))), !.todo = Tail(l.todo)])]
      BY <1>0, <1>3 DEF ToolEnds
    <3> QED
      BY <3>1
  <2>2. PICK a, d \in Nat : Answering(m, l.todo, a, d)
    BY <1>0, <1>3 DEF ToolEnds, Transcript
  <2>3. /\ r \in Seq(Messages)
        /\ rest # <<>> => Answering(r, rest, a, d + 1)
        /\ rest = <<>> => Complete(r, Len(m) + 1)
    BY <1>a, <2>2, OneMoreResult
  <2>4. Len(r) = Len(m) + 1
    BY <1>a
  <2>5. rest \in Seq(Nat)
    <3>1. l.todo \in Seq(Nat) /\ l.todo # <<>>
      <4>1. l.todo \in Seq(Nat) /\ Len(l.todo) # 0
        BY <2>2 DEF Answering
      <4> QED
        BY <4>1, EmptySeq
    <3> QED
      BY <3>1
  <2> HIDE DEF r, rest
  <2>6. next \in Loops /\ next.msgs = r /\ next.todo = rest
             /\ next.at = "tools" /\ next.round = l.round /\ l.round \in Nat
    BY <1>a, <1>3, <2>3, <2>5 DEF Loops, ToolEnds
  <2> HIDE DEF next
  <2>7. loop'[k] = EndRound(next)
    BY <1>0, <2>1
  <2>8. CASE rest # <<>>
    <3>1. loop'[k] = next
      BY <2>6, <2>7, <2>8 DEF EndRound
    <3>2. Transcript(next)
      BY <2>3, <2>6, <2>8 DEF Transcript
    <3> QED
      BY <1>0, <2>1, <2>6, <2>7, <3>1, <3>2, OneLoop
  <2>9. CASE rest = <<>>
    <3>0. PICK i : i \in Nat /\ i = l.round + 1
      BY <1>b
    <3>1. PICK at : /\ at \in {"llm", "last text", "fallback"}
                    /\ EndRound(next) = [next EXCEPT !.round = i, !.at = at]
      BY <2>6, <2>9, <3>0 DEF EndRound, LastText
    <3>2. /\ loop'[k] \in Loops /\ loop'[k].at = at /\ loop'[k].msgs = r
      <4>1. at \in {"idle", "llm", "tools"} \cup LoopEnds
        BY <3>1 DEF LoopEnds
      <4>2. loop'[k] = [at |-> at, round |-> i, msgs |-> r, todo |-> rest]
        BY <2>6, <2>7, <3>1 DEF Loops
      <4> QED
        BY <2>3, <2>5, <3>0, <4>1, <4>2 DEF Loops
    <3>3. Transcript(loop'[k])
      BY <2>3, <2>4, <2>9, <3>1, <3>2 DEF Transcript
    <3> QED
      BY <1>0, <2>1, <2>7, <3>2, <3>3, OneLoop
  <2> QED
    BY <2>8, <2>9
<1> QED
  BY <1>1, <1>2, <1>3 DEF LoopStep

LEMMA LoopKept == LoopInv /\ [ExplorationNext]_allVars => LoopInv'
<1> SUFFICES ASSUME LoopInv, [ExplorationNext]_allVars PROVE LoopInv'
  OBVIOUS
<1>1. CASE UNCHANGED loop
  BY <1>1 DEF LoopInv, Transcript
<1>2. ASSUME NEW k \in Explores, ExploreCall(k) PROVE LoopInv'
  BY <1>1, <1>2, ExploreKeeps, LoopStepKeeps
     DEF ExploreCall, ExploreBegins, ExploreAnswers
<1> QED
  BY <1>1, <1>2 DEF ExplorationNext, allVars

\* A complete transcript is one the API accepts.
LEMMA CompleteIsWellFormed ==
  ASSUME NEW m \in Seq(Messages), Complete(m, Len(m)), NEW i \in DOMAIN m,
         m[i].role = "assistant"
  PROVE  IsPrefix([j \in 1 .. m[i].calls |-> Tool(j)], SubSeq(m, i + 1, Len(m)))
<1> DEFINE n == m[i].calls  s == [j \in 1 .. n |-> Tool(j)]
           t == SubSeq(m, i + 1, Len(m))
<1>1. /\ i \in 1 .. Len(m) /\ n \in Nat /\ i + n <= Len(m) /\ Len(m) \in Nat
      /\ \A j \in 1 .. n : m[i + j] = Tool(j)
  BY DEF Complete
<1>2. m[i] \in Messages
  BY <1>1
<1>3. n \in 1 .. MaxToolCalls
  BY <1>2 DEF Messages, Prompt
<1> HIDE DEF n
<1>4. s \in Seq(Messages) /\ Len(s) = n /\ \A j \in 1 .. n : s[j] = Tool(j)
  <2>1. ASSUME NEW j \in 1 .. n PROVE Tool(j) \in Messages
    <3>1. j \in 1 .. MaxToolCalls
      BY <1>1, <1>3, LoopAssumption
    <3> QED
      BY <3>1 DEF Messages, Tool
  <2> QED
    BY <1>1, <2>1
<1>5. t \in Seq(Messages) /\ Len(t) = Len(m) - i /\ \A j \in 1 .. n : t[j] = m[i + j]
  BY <1>1
<1> HIDE DEF s, t
<1>6. n <= Len(t) /\ Len(t) \in Nat
  BY <1>1, <1>5
<1>7. SubSeq(s, 1, n) = SubSeq(t, 1, n)
  <2>1. SubSeq(s, 1, n) = [j \in 1 .. n |-> s[j]]
    BY <1>1, <1>4, SubSeqProperties
  <2>2. SubSeq(t, 1, n) = [j \in 1 .. n |-> t[j]]
    BY <1>1, <1>5, <1>6, SubSeqProperties
  <2>3. \A j \in 1 .. n : s[j] = t[j]
    BY <1>1, <1>4, <1>5
  <2> QED
    BY <2>1, <2>2, <2>3
<1> QED
  BY <1>4, <1>6, <1>7 DEF IsPrefix, s, t, n

\* Whatever becomes of a tool, each call of an answer has its result, in
\* order, when the LLM is asked again (sdk/tool-calling-client.js).
THEOREM TranscriptsComplete == ExplorationSpec => []TranscriptWellFormed
<1>1. LoopInv => TranscriptWellFormed
  <2> SUFFICES ASSUME LoopInv, NEW k \in Explores, loop[k].at = "llm",
                      NEW i \in DOMAIN loop[k].msgs
               PROVE  /\ loop[k].msgs[i].role = "assistant" =>
                           IsPrefix([j \in 1 .. loop[k].msgs[i].calls |-> Tool(j)],
                                    SubSeq(loop[k].msgs, i + 1, Len(loop[k].msgs)))
                      /\ loop[k].msgs[i].role = "tool" =>
                           \E a \in 1 .. i - 1 :
                             /\ loop[k].msgs[a].role = "assistant"
                             /\ i <= a + loop[k].msgs[a].calls
    BY DEF TranscriptWellFormed
  <2>1. loop[k].msgs \in Seq(Messages)
    BY DEF LoopInv, Loops
  <2>2. Complete(loop[k].msgs, Len(loop[k].msgs)) /\ i \in 1 .. Len(loop[k].msgs)
    BY <2>1 DEF LoopInv, Transcript
  <2> QED
    BY <2>1, <2>2, CompleteIsWellFormed DEF Complete
<1> QED
  BY <1>1, LoopInitially, LoopKept, PTL DEF ExplorationSpec, ExplorationInit
=============================================================================
