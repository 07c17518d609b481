------------------------------- MODULE CodeTask -------------------------------
(***************************************************************************)
(* One executeCodeTask (src/code_task.js): turns of an LLM call and one    *)
(* tool call, the file cache behind the prompt's Open Files section, with  *)
(* its guard against overwriting what was not read, and the compaction of  *)
(* the conversation.                                                       *)
(*                                                                         *)
(* A file's content is an abstract value; equal values are equal texts.    *)
(* The prompt shows for a cached file what file_read returned ("shown");   *)
(* the guard compares with a second reading of the same file ("raw").      *)
(*                                                                         *)
(* External: the LLM, and whoever else changes files: the user, shell      *)
(* commands, other tasks.                                                  *)
(***************************************************************************)
EXTENDS Naturals, Sequences

CONSTANTS
  MaxTurns,     \* codeTaskMaxTurns
  Files,
  Contents,     \* bound: the contents a file takes
  Missing,      \* there is no such file
  None

ASSUME TurnsAssumption == MaxTurns \in Nat \ {0}
ASSUME NamesAssumption ==
  Missing \notin Contents /\ None \notin Contents \cup {Missing}

VARIABLES
  mode,      \* codeTaskPermissionMode
  pc,        \* what the task awaits; or how it ended
  turn,      \* i
  full,      \* lastPromptTokens >= COMPACTION_THRESHOLD
  messages,  \* the conversation, as the kinds of its messages
  summary,   \* finalSummary: "" or what it is about
  cache,     \* fileCache: file -> None or what it holds
  cur,       \* the tool call: tool, file, content it saw last
  file,      \* file -> its content
  known,     \* history: the <<file, content>> the cache has held
  foreign    \* history: files others changed since the task touched them

task == <<mode, turn, full, messages, summary>>
vars == <<task, pc, cache, cur, file, known, foreign>>

Ended == {"returned", "threw"}
Steps == {"turn", "compact", "llm", "read", "reread", "access", "compare",
          "fetch", "put", "update", "other"}
Kinds == {"system", "task", "summary", "assistant", "result"}
Cached == [raw : Contents, shown : Contents]
Calls == [tool : {"none", "read", "write", "edit", "other"},
          file : Files \cup {None}, seen : Contents \cup {Missing, None}]
NoCall == [tool |-> "none", file |-> None, seen |-> None]

TypeOK ==
  /\ mode \in {"acceptEdits", "plan"}
  /\ pc \in Steps \cup Ended
  /\ turn \in 0 .. MaxTurns
  /\ full \in BOOLEAN
  /\ messages \in Seq(Kinds)
  /\ summary \in {"", "done", "invalid", "max turns"}
  /\ cache \in [Files -> {None} \cup Cached]
  /\ cur \in Calls
  /\ file \in [Files -> Contents \cup {Missing}]
  /\ known \subseteq Files \X Contents
  /\ foreign \subseteq Files

Init ==
  /\ mode \in {"acceptEdits", "plan"}
  /\ pc = "turn" /\ turn = 0 /\ full = FALSE
  /\ messages = <<"system", "task">>
  /\ summary = ""
  /\ cache = [f \in Files |-> None]
  /\ cur = NoCall
  /\ file \in [Files -> Contents \cup {Missing}]
  /\ known = {} /\ foreign = {}

files == <<cache, file, known, foreign>>

----------------------------------------------------------------------------
(* The turn up to the LLM's answer.                                        *)

\* The next turn begins, or the loop is over.
Turn ==
  /\ pc = "turn"
  /\ pc' = IF turn = MaxTurns THEN "returned"
           ELSE IF full THEN "compact" ELSE "llm"
  /\ UNCHANGED <<task, cur, files>>

\* Mutant: the conversation is emptied before the summary is asked for.
CompactedEagerly ==
  /\ pc = "compact"
  /\ messages' \in {<<"system">>, <<"system", "summary">>}
  /\ full' = FALSE /\ pc' = "llm"
  /\ UNCHANGED <<mode, turn, summary, cur, files>>

\* compactMessages: the summary takes the conversation's place, unless its
\* call failed.
Compacted ==
  /\ pc = "compact"
  /\ messages' \in {messages, <<"system", "summary">>}
  /\ full' = FALSE /\ pc' = "llm"
  /\ UNCHANGED <<mode, turn, summary, cur, files>>

\* The response has no usage, or says how long the prompt was.
Usage == full' \in BOOLEAN

\* An HTTP error, 120s without an answer, or the answer null.
LLMFails ==
  /\ pc = "llm"
  /\ pc' = "threw"
  /\ UNCHANGED <<task, cur, files>>

\* break: the task is done, or the answer has no JSON, or no tool.
LLMEnds ==
  /\ pc = "llm"
  /\ summary' \in {"done", "invalid"}
  /\ pc' = "returned"
  /\ Usage
  /\ UNCHANGED <<mode, turn, messages, cur, files>>

Answered == messages' = messages \o <<"assistant", "result">>

\* Mutant: a rejected call does not count.
PlanRejectsFree ==
  /\ pc = "llm" /\ mode = "plan"
  /\ pc' = "turn"
  /\ Usage
  /\ UNCHANGED <<mode, turn, messages, summary, cur, files>>

\* Plan mode has no such tool; `continue` skips the end of the turn.
PlanRejects ==
  /\ pc = "llm" /\ mode = "plan"
  /\ turn' = turn + 1 /\ pc' = "turn"
  /\ Answered /\ Usage
  /\ UNCHANGED <<mode, summary, cur, files>>

\* The LLM calls a tool: where its first await is.
LLMCalls(tool, f, step) ==
  /\ pc = "llm"
  /\ tool \in {"read", "other"} \/ mode # "plan"
  /\ cur' = [tool |-> tool, file |-> f, seen |-> None]
  /\ pc' = step
  /\ Usage
  /\ UNCHANGED <<mode, turn, messages, summary, files>>

LLMCallsTool ==
  \/ \E f \in Files :
       \/ LLMCalls("read", f, "read")
       \/ LLMCalls("write", f, "access")
       \/ cache[f] # None /\ LLMCalls("edit", f, "compare")
  \* bash, glob, grep; a call with missing arguments; an edit of a file that
  \* is not cached.
  \/ LLMCalls("other", None, "other")

----------------------------------------------------------------------------
(* executeCodingTool                                                       *)

\* The tool returned: its result, or its error, goes into the conversation.
EndTurn ==
  /\ turn' = turn + 1 /\ pc' = "turn"
  /\ Answered
  /\ summary' = IF turn = MaxTurns - 1 THEN "max turns" ELSE summary
  /\ cur' = NoCall
  /\ UNCHANGED <<mode, full>>

Refused == EndTurn /\ UNCHANGED files

\* A reading of the file that nobody catches.
Throws ==
  /\ pc' = "threw"
  /\ UNCHANGED <<task, cur, files>>

Goes(step, content) ==
  /\ pc' = step
  /\ cur' = [cur EXCEPT !.seen = content]
  /\ UNCHANGED task

Cache(f, raw, shown) ==
  /\ cache' = [cache EXCEPT ![f] = [raw |-> raw, shown |-> shown]]
  /\ known' = known \cup {<<f, raw>>}

\* file_read inside read: no such file, or the content that will be shown.
Read ==
  /\ pc = "read"
  /\ LET c == file[cur.file] IN
       \/ Refused
       \/ /\ c # Missing
          /\ Goes("reread", c)
          /\ foreign' = foreign \ {cur.file}
          /\ UNCHANGED <<cache, file, known>>

\* The second reading, for the comparisons; an error is passed over.
Reread ==
  /\ pc = "reread"
  /\ LET c == file[cur.file] IN
       IF c = Missing THEN UNCHANGED <<cache, known>>
       ELSE Cache(cur.file, c, cur.seen)
  /\ EndTurn
  /\ UNCHANGED <<file, foreign>>

\* Mutant: the cache is not asked.
AccessUnguarded ==
  /\ pc = "access"
  /\ LET c == file[cur.file] IN Goes("put", c) /\ UNCHANGED files

\* write: a file that exists must be in the cache.
Access ==
  /\ pc = "access"
  /\ LET f == cur.file IN
       \/ file[f] = Missing /\ Goes("put", Missing) /\ UNCHANGED files
       \/ file[f] # Missing /\ cache[f] = None /\ Refused
       \/ file[f] # Missing /\ cache[f] # None
            /\ Goes("compare", None) /\ UNCHANGED files

\* write and edit: the disk's content must be the cached one.
Compare ==
  /\ pc = "compare"
  /\ LET f == cur.file IN
       \/ file[f] = Missing /\ Throws
       \/ file[f] # Missing /\ file[f] # cache[f].raw /\ Refused
       \/ /\ file[f] # Missing /\ file[f] = cache[f].raw
          /\ Goes(IF cur.tool = "write" THEN "put" ELSE "fetch", file[f])
          /\ UNCHANGED files

\* file_edit inside edit reads the file itself; old_string may not be there.
Fetch ==
  /\ pc = "fetch"
  /\ \/ Refused
     \/ /\ file[cur.file] # Missing
        /\ Goes("put", file[cur.file])
        /\ UNCHANGED files

\* writeFile of file_write or file_edit.
Put ==
  /\ pc = "put"
  /\ \E c \in Contents :
       /\ file' = [file EXCEPT ![cur.file] = c]
       /\ Goes("update", c)
  /\ foreign' = foreign \ {cur.file}
  /\ UNCHANGED <<cache, known>>

\* mkdir or writeFile failed, perhaps half way.
PutFails ==
  /\ pc = "put"
  /\ \E c \in Contents \cup {file[cur.file]} :
       file' = [file EXCEPT ![cur.file] = c]
  /\ foreign' = foreign \cup {cur.file}
  /\ EndTurn
  /\ UNCHANGED <<cache, known>>

\* Mutant: an edit leaves the cache as it is.
UpdateWritesOnly ==
  /\ pc = "update"
  /\ IF cur.tool = "write" THEN Cache(cur.file, cur.seen, cur.seen)
     ELSE UNCHANGED <<cache, known>>
  /\ EndTurn
  /\ UNCHANGED <<file, foreign>>

\* write caches what it wrote, edit what is there now.
Update ==
  /\ pc = "update"
  /\ LET f == cur.file
         c == IF cur.tool = "write" THEN cur.seen ELSE file[f] IN
       \/ c = Missing /\ Throws
       \/ c # Missing /\ Cache(f, c, c) /\ EndTurn /\ UNCHANGED <<file, foreign>>

\* An argument of the wrong type throws.
OtherTool == pc = "other" /\ (Refused \/ Throws)

----------------------------------------------------------------------------

\* Somebody else changes, creates or deletes a file.
FileChanges(f) ==
  /\ pc \notin Ended
  /\ \E c \in (Contents \cup {Missing}) \ {file[f]} :
       file' = [file EXCEPT ![f] = c]
  /\ foreign' = foreign \cup {f}
  /\ UNCHANGED <<task, pc, cur, cache, known>>

ToolStep ==
  \/ Read \/ Reread \/ Access \/ Compare \/ Fetch
  \/ Put \/ PutFails \/ Update \/ OtherTool

LLMStep == LLMFails \/ LLMEnds \/ PlanRejects \/ LLMCallsTool

TaskStep == Turn \/ Compacted \/ LLMStep \/ ToolStep

Next == TaskStep \/ \E f \in Files : FileChanges(f)

Spec == Init /\ [][Next]_vars

\* An LLM call is aborted after 120s, a shell command killed after 120s, and
\* the calls of the file system return.
FairSpec == Spec /\ WF_vars(TaskStep)

----------------------------------------------------------------------------
(* Properties.                                                             *)

\* What the LLM is asked is a conversation: the system prompt, the task or
\* its summary, then answers and results in turn, a result last -- also after
\* a compaction, and after one that failed.
PromptWellFormed ==
  pc = "llm" =>
    /\ Len(messages) % 2 = 0
    /\ messages[1] = "system" /\ messages[2] \in {"task", "summary"}
    /\ \A i \in 3 .. Len(messages) :
         messages[i] = IF i % 2 = 1 THEN "assistant" ELSE "result"

\* When the LLM is asked, the Open Files section shows each cached file as it
\* is, unless somebody else changed it since the task touched it.
OpenFilesCurrent ==
  pc = "llm" => \A f \in Files : cache[f] # None /\ f \notin foreign =>
    cache[f] = [raw |-> file[f], shown |-> file[f]]

\* The task writes over a content it compared only if the cache has held
\* that very content of that file: what it never read, it never replaces,
\* but for changes that come between comparison and write.
OverwritesKnown ==
  [][ pc = "put" /\ pc' = "update" /\ cur.tool = "write"
      /\ file[cur.file] # Missing /\ file[cur.file] = cur.seen
      => <<cur.file, cur.seen>> \in known ]_vars

\* The task ends, whatever the LLM answers.
TaskEnds == <>(pc \in Ended)
=============================================================================
