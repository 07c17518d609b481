--------------------------- MODULE CodeTask_proofs ---------------------------
(***************************************************************************)
(* A task replaces no content it has not cached, for any number of turns,  *)
(* files and contents, and whoever else changes files meanwhile.           *)
(***************************************************************************)
EXTENDS CodeTask, TLAPS

FileSteps == {"read", "reread", "access", "compare", "fetch", "put", "update"}

\* What each await of a tool call knows of the call and of the turn.
CallKnows ==
  /\ pc \in Steps \ {"turn"} => turn < MaxTurns
  /\ pc \in FileSteps => cur.file \in Files
  /\ pc \in {"reread", "update"} => cur.seen \in Contents
  /\ pc = "access" => cur.tool = "write"
  /\ pc = "compare" => cur.tool \in {"write", "edit"}
  /\ pc = "fetch" => cur.tool = "edit"
  /\ pc = "compare" => cache[cur.file] # None

\* What the cache holds is known, and so is what a write is about to replace.
CacheKnown ==
  /\ \A f \in Files : cache[f] # None => <<f, cache[f].raw>> \in known
  /\ pc = "put" /\ cur.tool = "write" /\ cur.seen # Missing
       => <<cur.file, cur.seen>> \in known

TaskInv == TypeOK /\ CallKnows

----------------------------------------------------------------------------
(* Types.                                                                  *)

\* Appending an answer and its result to the conversation of a turn.
LEMMA AnswerFits ==
  ASSUME TypeOK, turn < MaxTurns, Answered, turn' = turn + 1
  PROVE  turn' \in 0 .. MaxTurns /\ messages' \in Seq(Kinds)
<1>1. <<"assistant", "result">> \in Seq(Kinds)
  BY DEF Kinds
<1>2. messages \in Seq(Kinds)
  BY DEF TypeOK
<1>3. messages' \in Seq(Kinds)
  BY <1>1, <1>2 DEF Answered
<1>4. turn \in 0 .. MaxTurns
  BY DEF TypeOK
<1>5. turn' \in 0 .. MaxTurns
  BY <1>4, TurnsAssumption
<1> QED BY <1>3, <1>5

LEMMA TaskInit == Init => TaskInv
<1> SUFFICES ASSUME Init PROVE TaskInv
  OBVIOUS
<1>1. messages = <<"system", "task">> /\ turn = 0
  BY DEF Init
<1>2. messages \in Seq(Kinds)
  BY <1>1 DEF Kinds
<1>3. turn \in 0 .. MaxTurns
  BY <1>1, TurnsAssumption
<1>4. cur \in Calls
  BY DEF Init, Calls, NoCall
<1>5. /\ mode \in {"acceptEdits", "plan"} /\ pc \in Steps \cup Ended
      /\ full \in BOOLEAN /\ summary \in {"", "done", "invalid", "max turns"}
      /\ cache \in [Files -> {None} \cup Cached]
      /\ file \in [Files -> Contents \cup {Missing}]
      /\ known \subseteq Files \X Contents /\ foreign \subseteq Files
  BY DEF Init, Steps
<1>6. CallKnows
  BY DEF Init, CallKnows, Steps, FileSteps
<1> QED BY <1>2, <1>3, <1>4, <1>5, <1>6 DEF TaskInv, TypeOK

\* The end of a turn, however the tool ended.
LEMMA EndOfTurn ==
  ASSUME TypeOK, turn < MaxTurns, EndTurn
  PROVE  /\ mode' \in {"acceptEdits", "plan"} /\ full' \in BOOLEAN
         /\ pc' = "turn" /\ turn' \in 0 .. MaxTurns
         /\ messages' \in Seq(Kinds)
         /\ summary' \in {"", "done", "invalid", "max turns"}
         /\ cur' \in Calls
<1>1. cur' \in Calls
  BY DEF EndTurn, Calls, NoCall
<1>2. turn' \in 0 .. MaxTurns /\ messages' \in Seq(Kinds)
  BY AnswerFits DEF EndTurn
<1> QED BY <1>1, <1>2 DEF EndTurn, TypeOK

\* Every step keeps types and what the awaits know.
LEMMA TaskStepKeeps ==
  ASSUME TaskInv, [Next]_vars
  PROVE  TaskInv'
<1> USE DEF TaskInv
<1>1. CASE Turn
  <2>turn. turn \in 0 .. MaxTurns
    BY DEF TypeOK
  <2>1. turn # MaxTurns => turn < MaxTurns
    BY <2>turn, TurnsAssumption
  <2>2. /\ pc' \in Steps \cup Ended /\ pc' \notin FileSteps
        /\ pc' \in Steps => turn # MaxTurns
    BY <1>1 DEF Turn, Steps, FileSteps, Ended
  <2> QED BY <1>1, <2>1, <2>2 DEF Turn, TypeOK, CallKnows, task, files, Steps,
                                  FileSteps, Ended
<1>2. CASE Compacted
  <2>1. <<"system", "summary">> \in Seq(Kinds)
    BY DEF Kinds
  <2>2. messages' \in Seq(Kinds)
    BY <1>2, <2>1 DEF Compacted, TypeOK
  <2> QED BY <1>2, <2>2 DEF Compacted, TypeOK, CallKnows, files, Steps,
                            FileSteps, Ended
<1>3. CASE LLMFails
  BY <1>3 DEF LLMFails, TypeOK, CallKnows, task, files, Steps, FileSteps, Ended
<1>4. CASE LLMEnds
  BY <1>4 DEF LLMEnds, Usage, TypeOK, CallKnows, files, Steps, FileSteps, Ended
<1>5. CASE PlanRejects
  <2>1. turn' \in 0 .. MaxTurns /\ messages' \in Seq(Kinds)
    BY <1>5, AnswerFits DEF PlanRejects, CallKnows, Steps
  <2> QED BY <1>5, <2>1 DEF PlanRejects, Usage, TypeOK, CallKnows, files,
                            Steps, FileSteps, Ended
<1>6. CASE LLMCallsTool
  <2>1. ASSUME NEW tool \in {"read", "write", "edit"}, NEW f \in Files,
               NEW step \in {"read", "access", "compare"},
               step = "access" => tool = "write",
               step = "compare" => tool = "edit" /\ cache[f] # None,
               LLMCalls(tool, f, step)
        PROVE  TaskInv'
    <3>1. cur' \in Calls /\ cur'.file = f /\ cur'.tool = tool
      BY <2>1 DEF LLMCalls, Calls
    <3> QED BY <2>1, <3>1 DEF LLMCalls, Usage, TypeOK, CallKnows, files,
                              Steps, FileSteps, Ended
  <2>2. ASSUME LLMCalls("other", None, "other")
        PROVE  TaskInv'
    <3>1. cur' \in Calls
      BY <2>2 DEF LLMCalls, Calls
    <3> QED BY <2>2, <3>1 DEF LLMCalls, Usage, TypeOK, CallKnows, files,
                              Steps, FileSteps, Ended
  <2> QED BY <1>6, <2>1, <2>2 DEF LLMCallsTool
<1>7. ASSUME EndTurn, pc \in Steps \ {"turn"}, UNCHANGED files
      PROVE  TaskInv'
  <2>1. turn < MaxTurns
    BY <1>7 DEF CallKnows
  <2>2. UNCHANGED <<cache, file, known, foreign>>
    BY <1>7 DEF files
  <2> QED BY <1>7, <2>1, <2>2, EndOfTurn
          DEF TypeOK, CallKnows, Steps, FileSteps, Ended
<1>8. ASSUME Throws PROVE TaskInv'
  BY <1>8 DEF Throws, TypeOK, CallKnows, task, files, Steps, FileSteps, Ended
<1>9. ASSUME NEW step \in Steps \ {"turn"}, pc \in FileSteps,
             NEW content \in Contents \cup {Missing, None}, Goes(step, content)
      PROVE  /\ turn' < MaxTurns /\ cur' \in Calls
             /\ cur'.file = cur.file /\ cur.file \in Files
             /\ cur'.tool = cur.tool /\ cur'.seen = content
             /\ pc' = step /\ UNCHANGED <<mode, turn, full, messages, summary>>
  BY <1>9 DEF Goes, TypeOK, CallKnows, Calls, task, Steps, FileSteps
<1>10. ASSUME NEW f \in Files, NEW raw \in Contents, NEW shown \in Contents,
              Cache(f, raw, shown)
       PROVE  /\ cache' \in [Files -> {None} \cup Cached]
              /\ known' \subseteq Files \X Contents
  <2>1. [raw |-> raw, shown |-> shown] \in Cached
    BY DEF Cached
  <2>2. cache \in [Files -> {None} \cup Cached] /\ known \subseteq Files \X Contents
    BY DEF TypeOK
  <2>3. cache' \in [Files -> {None} \cup Cached]
    BY <1>10, <2>1, <2>2 DEF Cache
  <2>4. known' \subseteq Files \X Contents
    BY <1>10, <2>2 DEF Cache
  <2> QED BY <2>3, <2>4
<1>file. pc \in FileSteps => file[cur.file] \in Contents \cup {Missing}
  BY DEF TypeOK, CallKnows
<1>11. CASE Read
  <2>1. CASE Refused
    BY <1>11, <2>1, <1>7 DEF Read, Refused, Steps
  <2>2. CASE ~Refused
    <3>1. /\ file[cur.file] \in Contents /\ Goes("reread", file[cur.file])
          /\ foreign' = foreign \ {cur.file}
          /\ UNCHANGED <<cache, file, known>>
      BY <1>11, <2>2, <1>file DEF Read, FileSteps
    <3> QED BY <1>11, <3>1, <1>9 DEF Read, TypeOK, CallKnows, Steps,
                                     FileSteps, Ended
  <2> QED BY <2>1, <2>2
<1>12. CASE Reread
  <2>1. /\ cur.file \in Files /\ cur.seen \in Contents /\ turn < MaxTurns
    BY <1>12 DEF Reread, CallKnows, Steps, FileSteps
  <2>2. /\ cache' \in [Files -> {None} \cup Cached]
        /\ known' \subseteq Files \X Contents
    <3>1. CASE file[cur.file] = Missing
      BY <1>12, <3>1 DEF Reread, TypeOK
    <3>2. CASE file[cur.file] # Missing
      BY <1>12, <3>2, <2>1, <1>10 DEF Reread, TypeOK
    <3> QED BY <3>1, <3>2
  <2> QED BY <1>12, <2>1, <2>2, EndOfTurn
          DEF Reread, TypeOK, CallKnows, Steps, FileSteps, Ended
<1>13. CASE Access
  <2>1. CASE Refused
    BY <1>13, <2>1, <1>7 DEF Access, Refused, Steps
  <2>2. ASSUME Goes("put", Missing), UNCHANGED files
        PROVE  TaskInv'
    BY <1>13, <2>2, <1>9 DEF Access, TypeOK, CallKnows, files, Steps,
                             FileSteps, Ended
  <2>3. ASSUME cache[cur.file] # None, Goes("compare", None), UNCHANGED files
        PROVE  TaskInv'
    <3>1. cur.tool = "write"
      BY <1>13 DEF Access, CallKnows
    <3>2. CallKnows'
      BY <1>13, <2>3, <3>1, <1>9 DEF Access, CallKnows, files, Steps, FileSteps
    <3> QED BY <1>13, <2>3, <3>2, <1>9 DEF Access, TypeOK, files, Steps,
                                           FileSteps
  <2> QED BY <1>13, <2>1, <2>2, <2>3 DEF Access
<1>14. CASE Compare
  <2>1. CASE Refused
    BY <1>14, <2>1, <1>7 DEF Compare, Refused, Steps
  <2>2. CASE Throws
    BY <1>8, <2>2
  <2>3. ASSUME NEW step \in {"put", "fetch"}, Goes(step, file[cur.file]),
               step = "fetch" => cur.tool # "write", UNCHANGED files
        PROVE  TaskInv'
    <3>1. file[cur.file] \in Contents \cup {Missing}
      BY <1>14, <1>file DEF Compare, FileSteps
    <3>2. step = "fetch" => cur.tool = "edit"
      BY <1>14, <2>3 DEF Compare, CallKnows
    <3> QED BY <1>14, <2>3, <3>1, <3>2, <1>9
            DEF Compare, TypeOK, CallKnows, files, Steps, FileSteps, Ended
  <2> QED BY <1>14, <2>1, <2>2, <2>3 DEF Compare
<1>15. CASE Fetch
  <2>1. CASE Refused
    BY <1>15, <2>1, <1>7 DEF Fetch, Refused, Steps
  <2>2. CASE Goes("put", file[cur.file]) /\ UNCHANGED files
    <3>1. file[cur.file] \in Contents \cup {Missing}
      BY <1>15, <1>file DEF Fetch, FileSteps
    <3>2. CallKnows'
      BY <1>15, <2>2, <3>1, <1>9 DEF Fetch, CallKnows, files, Steps, FileSteps
    <3> QED BY <1>15, <2>2, <3>1, <3>2, <1>9
            DEF Fetch, TypeOK, files, Steps, FileSteps
  <2> QED BY <1>15, <2>1, <2>2 DEF Fetch
<1>16. CASE Put
  <2> PICK c \in Contents : /\ file' = [file EXCEPT ![cur.file] = c]
                            /\ Goes("update", c)
    BY <1>16 DEF Put
  <2>1. cur.file \in Files
    BY <1>16 DEF Put, CallKnows, FileSteps
  <2>2. /\ file' \in [Files -> Contents \cup {Missing}]
        /\ foreign' \subseteq Files /\ UNCHANGED <<cache, known>>
    BY <1>16, <2>1 DEF Put, TypeOK
  <2>3. CallKnows'
    BY <1>16, <1>9 DEF Put, CallKnows, Steps, FileSteps
  <2> QED BY <1>16, <2>2, <2>3, <1>9 DEF Put, TypeOK, Steps, FileSteps
<1>17. CASE PutFails
  <2>1. cur.file \in Files /\ turn < MaxTurns
    BY <1>17 DEF PutFails, CallKnows, Steps, FileSteps
  <2>2. /\ file' \in [Files -> Contents \cup {Missing}]
        /\ foreign' \subseteq Files /\ UNCHANGED <<cache, known>>
    BY <1>17, <2>1 DEF PutFails, TypeOK
  <2> QED BY <1>17, <2>1, <2>2, EndOfTurn
          DEF PutFails, TypeOK, CallKnows, Steps, FileSteps, Ended
<1>18. CASE Update
  <2>1. cur.file \in Files /\ cur.seen \in Contents /\ turn < MaxTurns
    BY <1>18 DEF Update, CallKnows, Steps, FileSteps
  <2>2. CASE Throws
    BY <1>8, <2>2
  <2>3. ASSUME NEW c \in Contents, Cache(cur.file, c, c), EndTurn,
               UNCHANGED <<file, foreign>>
        PROVE  TaskInv'
    BY <2>1, <2>3, <1>10, EndOfTurn
       DEF TypeOK, CallKnows, Steps, FileSteps, Ended
  <2> QED BY <1>18, <2>1, <2>2, <2>3 DEF Update, TypeOK
<1>19. CASE OtherTool
  BY <1>19, <1>7, <1>8 DEF OtherTool, Refused, Steps
<1>20. ASSUME NEW f \in Files, FileChanges(f) PROVE TaskInv'
  <2>1. file' \in [Files -> Contents \cup {Missing}] /\ foreign' \subseteq Files
    BY <1>20 DEF FileChanges, TypeOK
  <2> QED BY <1>20, <2>1 DEF FileChanges, TypeOK, CallKnows, task
<1>21. CASE UNCHANGED vars
  BY <1>21 DEF vars, task, TypeOK, CallKnows
<1> QED BY <1>1, <1>2, <1>3, <1>4, <1>5, <1>6, <1>11, <1>12, <1>13, <1>14,
           <1>15, <1>16, <1>17, <1>18, <1>19, <1>20, <1>21
        DEF Next, TaskStep, LLMStep, ToolStep

\* Every variable of the task keeps its type, and each await of a tool
\* call has what it works on: a file, the content it saw, a cached file.
THEOREM TypeCorrect == Spec => [](TypeOK /\ CallKnows)
<1>1. TaskInv /\ [Next]_vars => TaskInv'
  BY TaskStepKeeps
<1> QED BY TaskInit, <1>1, PTL DEF Spec, TaskInv

----------------------------------------------------------------------------
(* The guard of write.                                                     *)

LEMMA KnownStepKeeps ==
  ASSUME TaskInv, CacheKnown, [Next]_vars
  PROVE  CacheKnown'
<1> USE DEF TaskInv
<1>1. ASSUME UNCHANGED <<cache, known>>, pc' # "put" PROVE CacheKnown'
  BY <1>1 DEF CacheKnown
<1>2. ASSUME NEW f \in Files, NEW raw, NEW shown, Cache(f, raw, shown),
             pc' # "put"
      PROVE  CacheKnown'
  BY <1>2 DEF CacheKnown, Cache, TypeOK
<1>3. CASE Access
  BY <1>1, <1>3, NamesAssumption
     DEF Access, Goes, Refused, EndTurn, files, CacheKnown, CallKnows, TypeOK,
         Calls, FileSteps
<1>4. CASE Compare
  <2>1. cur.file \in Files /\ cache[cur.file] # None
    BY <1>4 DEF Compare, CallKnows, FileSteps
  <2>2. <<cur.file, cache[cur.file].raw>> \in known
    BY <2>1 DEF CacheKnown
  <2>3. CASE Refused \/ Throws
    BY <1>1, <2>3 DEF Refused, EndTurn, Throws, files
  <2>4. CASE /\ file[cur.file] = cache[cur.file].raw
             /\ Goes(IF cur.tool = "write" THEN "put" ELSE "fetch",
                     file[cur.file])
             /\ UNCHANGED files
    BY <2>2, <2>4 DEF Goes, files, CacheKnown, TypeOK, Calls
  <2> QED BY <1>4, <2>3, <2>4 DEF Compare
<1>5. CASE Fetch
  BY <1>1, <1>5 DEF Fetch, Goes, Refused, EndTurn, files, CacheKnown,
     CallKnows, TypeOK, Calls
<1>6. CASE Reread
  BY <1>1, <1>2, <1>6 DEF Reread, EndTurn, CallKnows, FileSteps
<1>7. CASE Update
  BY <1>1, <1>2, <1>7 DEF Update, EndTurn, Throws, files, CallKnows, FileSteps
<1>8. ASSUME NEW f \in Files, FileChanges(f) PROVE CacheKnown'
  BY <1>8 DEF FileChanges, CacheKnown
<1>9. CASE Turn \/ Compacted \/ LLMFails \/ LLMEnds \/ PlanRejects
  BY <1>1, <1>9 DEF Turn, Compacted, LLMFails, LLMEnds, PlanRejects, files
<1>10. CASE LLMCallsTool
  BY <1>1, <1>10 DEF LLMCallsTool, LLMCalls, files
<1>11. CASE Read \/ Put \/ PutFails \/ OtherTool
  BY <1>1, <1>11 DEF Read, Put, PutFails, OtherTool, Goes, Refused, Throws,
     EndTurn, files
<1>12. CASE UNCHANGED vars
  BY <1>12 DEF vars, CacheKnown
<1> QED BY <1>3, <1>4, <1>5, <1>6, <1>7, <1>8, <1>9, <1>10, <1>11, <1>12
        DEF Next, TaskStep, LLMStep, ToolStep

\* The task writes over a content it compared only if its cache has held that
\* content of that file, for any number of turns, files and contents, and
\* whoever changes files between its awaits.
THEOREM GuardKnows == Spec => OverwritesKnown
<1>1. Init => CacheKnown
  BY DEF Init, CacheKnown
<1>2. TaskInv /\ CacheKnown /\ [Next]_vars => CacheKnown'
  BY KnownStepKeeps
<1>3. CacheKnown => [ pc = "put" /\ pc' = "update" /\ cur.tool = "write"
                      /\ file[cur.file] # Missing /\ file[cur.file] = cur.seen
                      => <<cur.file, cur.seen>> \in known ]_vars
  BY DEF CacheKnown
<1>4. TaskInv /\ [Next]_vars => TaskInv'
  BY TaskStepKeeps
<1> QED BY TaskInit, <1>1, <1>2, <1>3, <1>4, PTL DEF Spec, OverwritesKnown
----------------------------------------------------------------------------
(* The conversation.                                                       *)

\* The conversation is well formed at every await of the task, not only when
\* the LLM is asked: a tool call leaves it alone until its result is known.
Conversation ==
  /\ Len(messages) \in Nat \ {0, 1} /\ Len(messages) % 2 = 0
  /\ messages[1] = "system" /\ messages[2] \in {"task", "summary"}
  /\ \A i \in 3 .. Len(messages) :
       messages[i] = IF i % 2 = 1 THEN "assistant" ELSE "result"

\* An answer and its result keep the alternation.
LEMMA AnsweredKeeps ==
  ASSUME messages \in Seq(Kinds), Conversation, Answered
  PROVE  Conversation'
<1> DEFINE n == Len(messages)
<1>0. n \in Nat \ {0, 1} /\ n % 2 = 0
  BY DEF Conversation
<1>1. /\ Len(messages') = n + 2
      /\ messages'[n + 1] = "assistant" /\ messages'[n + 2] = "result"
      /\ \A i \in 1 .. n : messages'[i] = messages[i]
  <2>1. <<"assistant", "result">> \in Seq(Kinds)
    BY DEF Kinds
  <2> QED BY <1>0, <2>1 DEF Answered
<1>2. (n + 2) % 2 = 0 /\ (n + 1) % 2 = 1 /\ n + 2 \in Nat \ {0, 1}
  BY <1>0
<1>3. messages'[1] = "system" /\ messages'[2] \in {"task", "summary"}
  BY <1>0, <1>1 DEF Conversation
<1>4. ASSUME NEW i \in 3 .. n + 2
      PROVE  messages'[i] = IF i % 2 = 1 THEN "assistant" ELSE "result"
  <2>1. CASE i <= n
    BY <1>0, <1>1, <2>1 DEF Conversation
  <2>2. CASE i = n + 1
    BY <1>1, <1>2, <2>2
  <2>3. CASE i = n + 2
    BY <1>1, <1>2, <2>3
  <2> QED BY <1>0, <2>1, <2>2, <2>3
<1> HIDE DEF n
<1> QED BY <1>1, <1>2, <1>3, <1>4 DEF Conversation

LEMMA ConversationStepKeeps ==
  ASSUME TaskInv, Conversation, [Next]_vars
  PROVE  Conversation'
<1> USE DEF TaskInv
<1>1. CASE UNCHANGED messages
  BY <1>1 DEF Conversation
<1>2. CASE Answered
  BY <1>2, AnsweredKeeps DEF TypeOK
<1>3. CASE Compacted
  <2>1. CASE messages' = <<"system", "summary">>
    BY <2>1 DEF Conversation
  <2> QED BY <1>1, <1>3, <2>1 DEF Compacted
<1>4. CASE Turn \/ LLMStep
  BY <1>1, <1>2, <1>4
     DEF Turn, LLMStep, LLMFails, LLMEnds, PlanRejects, LLMCallsTool, LLMCalls,
         task
<1>5. CASE ToolStep
  BY <1>1, <1>2, <1>5
     DEF ToolStep, Read, Reread, Access, Compare, Fetch, Put, PutFails, Update,
         OtherTool, Refused, Throws, EndTurn, Goes, task
<1>6. ASSUME NEW f \in Files, FileChanges(f) PROVE Conversation'
  BY <1>1, <1>6 DEF FileChanges, task
<1>7. CASE UNCHANGED vars
  BY <1>1, <1>7 DEF vars, task
<1> QED BY <1>3, <1>4, <1>5, <1>6, <1>7 DEF Next, TaskStep

\* Whatever the LLM answers, however often the conversation is compacted or
\* its compaction fails, and for any number of turns, what the LLM is asked
\* next is the system prompt, the task or its summary, and whole turns.
THEOREM ConversationStays == Spec => []PromptWellFormed
<1>1. Init => Conversation
  <2> SUFFICES ASSUME messages = <<"system", "task">> PROVE Conversation
    BY DEF Init
  <2>1. Len(messages) = 2 /\ messages[1] = "system" /\ messages[2] = "task"
    OBVIOUS
  <2>2. 2 % 2 = 0 /\ 2 \in Nat \ {0, 1} /\ 3 .. 2 = {}
    OBVIOUS
  <2> QED BY <2>1, <2>2 DEF Conversation
<1>2. Conversation => PromptWellFormed
  BY DEF Conversation, PromptWellFormed
<1>3. TaskInv /\ [Next]_vars => TaskInv'
  BY TaskStepKeeps
<1>4. TaskInv /\ Conversation /\ [Next]_vars => Conversation'
  BY ConversationStepKeeps
<1> QED BY TaskInit, <1>1, <1>2, <1>3, <1>4, PTL DEF Spec

----------------------------------------------------------------------------
(* The Open Files section.                                                 *)

\* The prompt would show f as it is, or somebody else changed f.
Shows(f) ==
  cache[f] # None /\ f \notin foreign
    => cache[f] = [raw |-> file[f], shown |-> file[f]]

\* Between the reading or writing of a file and the caching of it the cache
\* may lag behind, for that file alone; what the call saw is then the file's
\* content, unless somebody else changed it since.
FilesCurrent ==
  /\ \A f \in Files : (pc \in {"reread", "update"} => f # cur.file) => Shows(f)
  /\ pc \in {"reread", "update"} /\ cur.file \notin foreign
       => file[cur.file] = cur.seen

LEMMA FilesStepKeeps ==
  ASSUME TaskInv, FilesCurrent, [Next]_vars
  PROVE  FilesCurrent'
<1> USE DEF TaskInv
<1> DEFINE Lagging == pc \in {"reread", "update"}
<1>1. ASSUME UNCHANGED files, ~Lagging, ~Lagging' PROVE FilesCurrent'
  BY <1>1 DEF FilesCurrent, Shows, files
<1>2. ASSUME NEW f \in Files, NEW c \in Contents, Cache(f, c, c),
             Lagging, f = cur.file, ~Lagging', UNCHANGED <<file, foreign>>,
             f \notin foreign => c = file[f]
      PROVE  FilesCurrent'
  <2>1. ASSUME NEW g \in Files PROVE Shows(g)'
    <3>1. cache'[g] = IF g = f THEN [raw |-> c, shown |-> c] ELSE cache[g]
      BY <1>2 DEF Cache, TypeOK
    <3>2. CASE g = f
      BY <1>2, <3>1, <3>2 DEF Shows
    <3>3. CASE g # f
      BY <1>2, <3>1, <3>3 DEF FilesCurrent, Shows
    <3> QED BY <3>2, <3>3
  <2> QED BY <1>2, <2>1 DEF FilesCurrent
<1>3. ASSUME NEW f \in Files, Lagging, f = cur.file, f \in foreign, ~Lagging',
             UNCHANGED files
      PROVE  FilesCurrent'
  BY <1>3 DEF FilesCurrent, Shows, files
<1>4. CASE Turn \/ LLMFails \/ LLMEnds \/ PlanRejects \/ Compacted
  BY <1>1, <1>4
     DEF Turn, LLMFails, LLMEnds, PlanRejects, Compacted
<1>5. CASE LLMCallsTool
  BY <1>1, <1>5 DEF LLMCallsTool, LLMCalls
<1>6. CASE Access \/ Compare \/ Fetch \/ OtherTool
  BY <1>1, <1>6
     DEF Access, Compare, Fetch, OtherTool, Refused, Throws, EndTurn, Goes
<1>7. CASE Read
  <2>1. CASE Refused
    BY <1>1, <1>7, <2>1 DEF Read, Refused, EndTurn
  <2>2. CASE /\ Goes("reread", file[cur.file])
             /\ foreign' = foreign \ {cur.file} /\ UNCHANGED <<cache, file>>
    <3>1. pc' = "reread" /\ cur'.file = cur.file /\ cur'.seen = file[cur.file]
      BY <2>2 DEF Goes, TypeOK, Calls
    <3>2. ASSUME NEW f \in Files, f # cur.file PROVE Shows(f)'
      BY <1>7, <2>2, <3>2 DEF Read, FilesCurrent, Shows
    <3> QED BY <2>2, <3>1, <3>2 DEF FilesCurrent
  <2> QED BY <1>7, <2>1, <2>2 DEF Read
<1>8. CASE Reread
  <2>0. cur.file \in Files /\ cur.seen \in Contents /\ pc = "reread"
        /\ pc' = "turn" /\ UNCHANGED <<file, foreign>>
    BY <1>8 DEF Reread, EndTurn, CallKnows, FileSteps
  <2>1. CASE file[cur.file] = Missing
    <3>1. cur.file \in foreign
      BY <2>0, <2>1, NamesAssumption DEF FilesCurrent
    <3> QED BY <1>3, <1>8, <2>0, <2>1, <3>1 DEF Reread, files
  <2>2. CASE file[cur.file] # Missing
    <3>1. file[cur.file] \in Contents
      BY <2>0, <2>2 DEF TypeOK
    <3>2. CASE cur.file \in foreign
      <4>1. ASSUME NEW g \in Files PROVE Shows(g)'
        BY <1>8, <2>0, <2>2, <3>2 DEF Reread, Cache, TypeOK, FilesCurrent, Shows
      <4> QED BY <2>0, <4>1 DEF FilesCurrent
    <3>3. CASE cur.file \notin foreign
      <4>1. Cache(cur.file, file[cur.file], file[cur.file])
        BY <1>8, <2>0, <2>2, <3>3 DEF Reread, FilesCurrent
      <4> QED BY <1>2, <2>0, <3>1, <4>1
    <3> QED BY <3>2, <3>3
  <2> QED BY <2>1, <2>2
<1>9. CASE Put
  <2>0. cur.file \in Files
    BY <1>9 DEF Put, CallKnows, FileSteps
  <2> PICK c \in Contents : /\ file' = [file EXCEPT ![cur.file] = c]
                            /\ Goes("update", c)
    BY <1>9 DEF Put
  <2>1. /\ pc' = "update" /\ cur'.file = cur.file /\ cur'.seen = c
        /\ file'[cur.file] = c
    BY <2>0 DEF Goes, TypeOK, Calls
  <2>2. ASSUME NEW f \in Files, f # cur.file PROVE Shows(f)'
    BY <1>9, <2>0, <2>2 DEF Put, FilesCurrent, Shows, TypeOK
  <2> QED BY <2>1, <2>2 DEF FilesCurrent
<1>10. ASSUME NEW f \in Files, NEW c, file' = [file EXCEPT ![f] = c],
              foreign' = foreign \cup {f}, UNCHANGED cache,
              (~Lagging /\ ~Lagging') \/ UNCHANGED <<pc, cur>>
       PROVE  FilesCurrent'
  <2>1. ASSUME NEW g \in Files, (Lagging => g # cur.file) PROVE Shows(g)'
    BY <1>10, <2>1 DEF FilesCurrent, Shows, TypeOK
  <2>2. Lagging => cur.file \in Files
    BY DEF CallKnows, FileSteps
  <2>3. CASE ~Lagging /\ ~Lagging'
    BY <2>1, <2>3 DEF FilesCurrent
  <2>4. CASE UNCHANGED <<pc, cur>>
    <3>1. Lagging /\ cur.file \notin foreign' => file'[cur.file] = cur.seen
      BY <1>10, <2>2 DEF FilesCurrent, TypeOK
    <3> QED BY <2>1, <2>4, <3>1 DEF FilesCurrent
  <2> QED BY <1>10, <2>3, <2>4
<1>11. CASE PutFails
  BY <1>10, <1>11 DEF PutFails, EndTurn, CallKnows, FileSteps
<1>12. ASSUME NEW f \in Files, FileChanges(f) PROVE FilesCurrent'
  BY <1>10, <1>12 DEF FileChanges
<1>13. CASE Update
  <2>0. /\ cur.file \in Files /\ cur.seen \in Contents /\ pc = "update"
        /\ cur.file \notin foreign => file[cur.file] = cur.seen
    BY <1>13 DEF Update, CallKnows, FileSteps, FilesCurrent
  <2>1. CASE Throws
    <3>1. CASE cur.file \in foreign
      BY <1>3, <2>0, <2>1, <3>1 DEF Throws
    <3>2. CASE cur.file \notin foreign
      <4>1. ~(cur.tool = "write" /\ cur.seen = Missing) /\ file[cur.file] # Missing
        BY <2>0, <3>2, NamesAssumption
      <4>2. EndTurn
        BY <1>13, <2>0, <4>1, NamesAssumption DEF Update
      <4> QED BY <2>1, <4>2 DEF EndTurn, Throws
    <3> QED BY <3>1, <3>2
  <2>2. ASSUME NEW c, c = IF cur.tool = "write" THEN cur.seen ELSE file[cur.file],
               c # Missing, Cache(cur.file, c, c), EndTurn,
               UNCHANGED <<file, foreign>>
        PROVE  FilesCurrent'
    <3>1. c \in Contents
      BY <2>0, <2>2 DEF TypeOK
    <3> QED BY <1>2, <2>0, <2>2, <3>1 DEF EndTurn
  <2> QED BY <1>13, <2>1, <2>2 DEF Update
<1>14. CASE UNCHANGED vars
  BY <1>14 DEF vars, FilesCurrent, Shows
<1> QED BY <1>4, <1>5, <1>6, <1>7, <1>8, <1>9, <1>11, <1>12, <1>13, <1>14
        DEF Next, TaskStep, LLMStep, ToolStep

\* The Open Files section shows every cached file as it is, but for what
\* somebody else changed since the task touched it: for any number of files,
\* and whatever comes between a reading, a writing and the caching.
THEOREM OpenFilesStayCurrent == Spec => []OpenFilesCurrent
<1>1. Init => FilesCurrent
  BY DEF Init, FilesCurrent, Shows
<1>2. FilesCurrent => OpenFilesCurrent
  BY DEF FilesCurrent, OpenFilesCurrent, Shows
<1>3. TaskInv /\ [Next]_vars => TaskInv'
  BY TaskStepKeeps
<1>4. TaskInv /\ FilesCurrent /\ [Next]_vars => FilesCurrent'
  BY FilesStepKeeps
<1> QED BY TaskInit, <1>1, <1>2, <1>3, <1>4, PTL DEF Spec
=============================================================================
