------------------------------ MODULE AgentTools ------------------------------
(***************************************************************************)
(* The state that the requests of PCAgent share (src/agent.js) and the     *)
(* tools that read and write it: file_read, file_write, file_edit          *)
(* (src/tools) and bash with git.  The agent has one _fileContext, one     *)
(* _gitAllowed and one list of allowed commands, which handle() sets for   *)
(* the request that came last.  Calls of a request may overlap (its code   *)
(* has threads), and a call may begin after its request was answered.      *)
(*                                                                         *)
(* The md5 of a content stands for the content.  Which text an edit makes  *)
(* of what it read is FileTexts'.                                          *)
(*                                                                         *)
(* External: whoever else changes, restores or removes files at any time:  *)
(* the user, and commands of bash and git.                                 *)
(***************************************************************************)
EXTENDS Naturals, FiniteSets

CONSTANTS
  Requests,     \* bound: the requests for the LLM path of handle()
  Calls,        \* bound: the tool calls of all requests
  Files,
  Contents,     \* what may be in a file
  NoRequest, NoFile, Missing, Unread

ASSUME NamesAssumption ==
  /\ NoRequest \notin Requests /\ NoFile \notin Files
  /\ Missing \notin Contents /\ Unread \notin Contents \cup {Missing}

VARIABLES
  state,       \* request -> "new", "open", "done"
  asked,       \* requests whose text has the word git
  context,     \* the request whose _fileContext the agent has
  gitAllowed,  \* _gitAllowed
  allowed,     \* how often git is in executor.allowedCommands
  readFiles,   \* request -> file -> content of the hash its context holds
  files,       \* file -> content, or Missing
  call,        \* call -> what it does and where it is
  shown,       \* history: request -> the <<file, content>> it was shown or wrote
  raced,       \* history: calls whose file changed after they read or wrote it
  outdated,    \* history: <<request, file>> where the file changed after its
               \* context recorded it, or before it did, but after it was read
  latest,      \* history: the request that arrived last
  overlapped   \* history: requests that had not the agent to themselves

agent == <<context, gitAllowed, allowed, readFiles>>
requests == <<state, asked, latest, overlapped>>
disk == <<files, raced, outdated>>
vars == <<agent, requests, disk, call, shown>>

Tools == {"read", "write", "edit", "git"}
Idle == [req |-> NoRequest, tool |-> "none", file |-> NoFile,
         ctx |-> NoRequest, at |-> "idle", seen |-> Missing]

TypeOK ==
  /\ state \in [Requests -> {"new", "open", "done"}]
  /\ asked \subseteq Requests /\ overlapped \subseteq Requests
  /\ latest \in Requests \cup {NoRequest}
  /\ context \in Requests \cup {NoRequest}
  /\ gitAllowed \in BOOLEAN /\ allowed \in 0 .. Cardinality(Calls)
  /\ readFiles \in [Requests -> [Files -> {Unread} \cup Contents]]
  /\ files \in [Files -> Contents \cup {Missing}]
  /\ call \in [Calls ->
       [req : Requests \cup {NoRequest}, tool : Tools \cup {"none"},
        file : Files \cup {NoFile}, ctx : Requests \cup {NoRequest},
        at : {"idle", "stat", "fetch", "fetched", "put", "wrote", "bash", "threw", "end"},
        seen : Contents \cup {Missing}]]
  /\ shown \in [Requests -> SUBSET (Files \X Contents)]
  /\ raced \subseteq Calls /\ outdated \subseteq Requests \X Files

Init ==
  /\ state = [r \in Requests |-> "new"] /\ asked = {}
  /\ latest = NoRequest /\ overlapped = {}
  /\ context = NoRequest /\ gitAllowed = FALSE /\ allowed = 0
  /\ readFiles = [r \in Requests |-> [f \in Files |-> Unread]]
  /\ files \in [Files -> Contents \cup {Missing}]
  /\ call = [k \in Calls |-> Idle]
  /\ shown = [r \in Requests |-> {}]
  /\ raced = {} /\ outdated = {}

----------------------------------------------------------------------------
(* handle                                                                  *)

CallsOf(r) == {k \in Calls : call[k].req = r /\ call[k].at \notin {"threw", "end"}}

\* The requests other than r that are open, or answered with a call still
\* at work.
Others(r) == {q \in Requests \ {r} : state[q] = "open" \/ CallsOf(q) # {}}
\* The history overlapped after r did something while all of qs were there.
Overlap(r, qs) ==
  overlapped' = overlapped \cup IF qs = {} THEN {} ELSE qs \cup {r}

Arrives(r, git) ==
  /\ state[r] = "new"
  /\ state' = [state EXCEPT ![r] = "open"]
  /\ asked' = IF git THEN asked \cup {r} ELSE asked
  /\ latest' = r
  /\ Overlap(r, Others(r))

\* Mutants: the context is kept; git stays allowed.
HandleKeepingContext(r, git) ==
  /\ Arrives(r, git)
  /\ context' = IF context = NoRequest THEN r ELSE context
  /\ gitAllowed' = git
  /\ UNCHANGED <<allowed, readFiles, disk, call, shown>>
HandleKeepingGit(r, git) ==
  /\ Arrives(r, git)
  /\ context' = r
  /\ gitAllowed' = (gitAllowed \/ git)
  /\ UNCHANGED <<allowed, readFiles, disk, call, shown>>

\* The LLM path of handle(), up to the first LLM call: a new _fileContext,
\* and git if the text says so.
Handle(r, git) ==
  /\ Arrives(r, git)
  /\ context' = r
  /\ gitAllowed' = git
  /\ UNCHANGED <<allowed, readFiles, disk, call, shown>>

\* ptcClient.execute ended: handle() returns.
Answer(r) ==
  /\ state[r] = "open"
  /\ state' = [state EXCEPT ![r] = "done"]
  /\ UNCHANGED <<agent, asked, latest, overlapped, disk, call, shown>>

----------------------------------------------------------------------------
(* executeTool                                                             *)

\* A call of request r begins; it works with the context the agent has now.
Begin(k, r, tool, f, at) ==
  /\ call[k] = Idle /\ state[r] # "new"
  /\ call' = [call EXCEPT ![k] =
                [req |-> r, tool |-> tool, file |-> f, ctx |-> context,
                 at |-> at, seen |-> Missing]]
  /\ Overlap(r, Others(r) \cup ({latest} \ {r}))
  /\ UNCHANGED <<state, asked, latest, disk, shown>>

Goes(k, at) == call' = [call EXCEPT ![k].at = at]
\* A call that ended holds nothing.
Ends(k) ==
  call' = [call EXCEPT ![k].at = "end", ![k].tool = "none", ![k].seen = Missing]

FileTool(k, r, tool, f) ==
  /\ Begin(k, r, tool, f, IF tool = "write" THEN "stat" ELSE "fetch")
  /\ UNCHANGED agent

\* bash with a git command: rejected unless the request allows git.
GitRejected(k, r) ==
  /\ ~gitAllowed
  /\ Begin(k, r, "git", NoFile, "end")
  /\ UNCHANGED agent

\* git is listed and the command run; exec may throw at once, and executeTool's
\* catch leaves the list as it is.
GitRuns(k, r) ==
  /\ gitAllowed
  /\ \E at \in {"bash", "threw"} : Begin(k, r, "git", NoFile, at)
  /\ allowed' = allowed + 1
  /\ UNCHANGED <<context, gitAllowed, readFiles>>

\* Mutant: every git is taken from the list.
GitEndsForAll(k) ==
  /\ call[k].at = "bash"
  /\ allowed' = IF gitAllowed THEN 0 ELSE allowed
  /\ Ends(k)
  /\ UNCHANGED <<context, gitAllowed, readFiles, requests, disk, shown>>

\* The command ended; _gitAllowed is looked at again.
GitEnds(k) ==
  /\ call[k].at = "bash"
  /\ allowed' = IF gitAllowed /\ allowed > 0 THEN allowed - 1 ELSE allowed
  /\ Ends(k)
  /\ UNCHANGED <<context, gitAllowed, readFiles, requests, disk, shown>>

----------------------------------------------------------------------------
(* file_read, file_write, file_edit                                        *)

\* File f becomes c by call k, or by others (k is in "by", or it is empty).
Becomes(f, c, by) ==
  /\ files' = [files EXCEPT ![f] = c]
  /\ raced' = (raced \cup {j \in Calls : call[j].file = f /\ call[j].at \in {"fetched", "wrote"}})
              \ by
  /\ outdated' = outdated \cup ({r \in Requests : readFiles[r][f] # Unread} \X {f})

\* readFile took the content: of file_read, file_edit, and file_write where
\* it compares.
Fetch(k) ==
  /\ call[k].at = "fetch" /\ files[call[k].file] # Missing
  /\ call' = [call EXCEPT ![k].at = "fetched",
                           ![k].seen = files[call[k].file]]
  /\ UNCHANGED <<agent, requests, disk, shown>>

\* No such file, a directory, an I/O error.
FetchFails(k) ==
  /\ call[k].at = "fetch"
  /\ Ends(k)
  /\ UNCHANGED <<agent, requests, disk, shown>>

\* What the call read or wrote becomes known to its context and its request.
Known(k) ==
  LET c == call[k]  place == {<<c.ctx, c.file>>} IN
  /\ shown' = [shown EXCEPT ![c.req] = @ \cup {<<c.file, c.seen>>}]
  /\ outdated' = IF k \in raced THEN outdated \cup place ELSE outdated \ place
  /\ UNCHANGED <<files, raced>>

\* The hash that readFiles keeps of it.
Record(k) == readFiles' = [readFiles EXCEPT ![call[k].ctx][call[k].file] = call[k].seen]

\* Mutant: the hash is that of the lines that are shown.
ReadEndsHashingPage(k) ==
  /\ call[k].at = "fetched" /\ call[k].tool = "read"
  /\ \E page \in Contents : readFiles' = [readFiles EXCEPT ![call[k].ctx][call[k].file] = page]
  /\ Known(k)
  /\ Ends(k)
  /\ UNCHANGED <<context, gitAllowed, allowed, requests>>

\* file_read hands the content to the code and records its hash.
ReadEnds(k) ==
  /\ call[k].at = "fetched" /\ call[k].tool = "read"
  /\ Record(k) /\ Known(k)
  /\ Ends(k)
  /\ UNCHANGED <<context, gitAllowed, allowed, requests>>

\* A binary file is not shown, and not recorded.
ReadRefused(k) ==
  /\ call[k].at = "fetched" /\ call[k].tool = "read"
  /\ Ends(k)
  /\ UNCHANGED <<agent, requests, disk, shown>>

\* file_write after its stat: a file that exists must have been read.
WriteStat(k) ==
  /\ call[k].at = "stat"
  /\ LET f == call[k].file IN
       \/ files[f] = Missing /\ Goes(k, "put")
       \/ files[f] # Missing /\ readFiles[call[k].ctx][f] = Unread /\ Ends(k)
       \/ files[f] # Missing /\ readFiles[call[k].ctx][f] # Unread /\ Goes(k, "fetch")
  /\ UNCHANGED <<agent, requests, disk, shown>>

\* The hash of what is there now against the recorded one.
WriteCompare(k) ==
  /\ call[k].at = "fetched" /\ call[k].tool = "write"
  /\ IF call[k].seen = readFiles[call[k].ctx][call[k].file]
     THEN Goes(k, "put") ELSE Ends(k)
  /\ UNCHANGED <<agent, requests, disk, shown>>

\* mkdir and writeFile.
WritePuts(k) ==
  /\ call[k].at = "put"
  /\ \E c \in Contents :
       /\ Becomes(call[k].file, c, {k})
       /\ call' = [call EXCEPT ![k].at = "wrote", ![k].seen = c]
  /\ UNCHANGED <<agent, requests, shown>>

\* The new content counts as read.
WriteEnds(k) ==
  /\ call[k].at = "wrote"
  /\ Record(k) /\ Known(k)
  /\ Ends(k)
  /\ UNCHANGED <<context, gitAllowed, allowed, requests>>

\* file_edit found its old_string, once or with replace_all, and writes the
\* file.  It gets no context: what it made is recorded nowhere.
EditPuts(k) ==
  /\ call[k].at = "fetched" /\ call[k].tool = "edit"
  /\ \E c \in Contents : Becomes(call[k].file, c, {})
  /\ Ends(k)
  /\ UNCHANGED <<agent, requests, shown>>

\* old_string is not there, or more than once.
EditRefused(k) ==
  /\ call[k].at = "fetched" /\ call[k].tool = "edit"
  /\ Ends(k)
  /\ UNCHANGED <<agent, requests, disk, shown>>

\* mkdir or writeFile failed: the file is as it was, or half written.
PutFails(k) ==
  /\ \/ call[k].at = "put"
     \/ call[k].at = "fetched" /\ call[k].tool = "edit"
  /\ \/ UNCHANGED disk
     \/ \E c \in Contents : Becomes(call[k].file, c, {})
  /\ Ends(k)
  /\ UNCHANGED <<agent, requests, shown>>

FileChanges(f) ==
  /\ \E c \in (Contents \cup {Missing}) \ {files[f]} : Becomes(f, c, {})
  /\ UNCHANGED <<agent, requests, call, shown>>

----------------------------------------------------------------------------

RequestStep(r) == (\E git \in BOOLEAN : Handle(r, git)) \/ Answer(r)

CallBegins(k) ==
  \E r \in Requests :
    \/ GitRejected(k, r) \/ GitRuns(k, r)
    \/ \E tool \in {"read", "write", "edit"}, f \in Files :
         FileTool(k, r, tool, f)

CallStep(k) ==
  \/ GitEnds(k) \/ Fetch(k) \/ FetchFails(k)
  \/ ReadEnds(k) \/ ReadRefused(k)
  \/ WriteStat(k) \/ WriteCompare(k) \/ WritePuts(k) \/ WriteEnds(k)
  \/ EditPuts(k) \/ EditRefused(k) \/ PutFails(k)

Next ==
  \/ \E r \in Requests : RequestStep(r)
  \/ \E k \in Calls : CallBegins(k) \/ CallStep(k)
  \/ \E f \in Files : FileChanges(f)

Spec == Init /\ [][Next]_vars

----------------------------------------------------------------------------
(* Properties.                                                             *)

Approved(k) ==
  call[k].tool = "write" /\ call[k].at = "put" /\ call[k].seen # Missing

\* file_write overwrites only what the request was shown or wrote itself:
\* what it approved is never a version that only an earlier request saw, nor
\* one that an edit made unseen.
\* (For a request that has the agent to itself, with any threads.)
ApprovedWasRead ==
  \A k \in Calls : Approved(k) /\ call[k].req \notin overlapped
    => <<call[k].file, call[k].seen>> \in shown[call[k].req]

\* A request that has the agent to itself runs git only if its text says so.
GitOnlyOnRequest ==
  \A k \in Calls : call[k].at = "bash" /\ call[k].req \notin overlapped
    => call[k].req \in asked

\* While requests do not overlap, git is in the list of allowed commands once
\* for each git command that runs, none taken away, and none left behind but by
\* a command that threw.
AllowedRestored ==
  overlapped = {} =>
    allowed = Cardinality({k \in Calls : call[k].at \in {"bash", "threw"}})

\* git is at hand for the requests that ask for it, while they run it.
GitHeldToRequest == GitOnlyOnRequest /\ AllowedRestored

\* file_write takes a file for modified only if it was: if something else changed
\* it since the context's last read or write of it began, or since the call
\* looked.  "Else" is anybody, also an edit, a failed write or a write that
\* overlaps, of the same request -- but never that last read or write itself.
RefusedIsOutdated ==
  [][\A k \in Calls :
       LET c == call[k] IN
       c.tool = "write" /\ c.at = "fetched" /\ call'[k].at = "end"
       => <<c.ctx, c.file>> \in outdated \/ k \in raced]_vars

\* "Reset file tracking context for this request": what a request was shown
\* decides what it may overwrite, whatever other requests are under way.
OverwriteWasRead ==
  \A k \in Calls : Approved(k)
    => <<call[k].file, call[k].seen>> \in shown[call[k].req]
=============================================================================
