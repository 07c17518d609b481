# pc-agent in TLA+

pc-agent runs on a user's PC. It keeps a WebSocket to an orchestrator, turns
requests into commands, file edits and code, opens and takes over sessions of
an interactive coding CLI for a phone, and forwards Telegram messages. It is one
Node process: every callback runs to its next `await`, and the hard part of the
code is what happens between two awaits.

The models keep this granularity everywhere: **one action is what one callback
does up to its next await**, with every call that changes state. Where even the
order of promise continuations within a callback matters (the attach
handshake), those are actions too. Texts, contents and process arguments are
abstract values.

## 1. Inventory

| Component | State it keeps | Operations | What is hard, and what makes it correct |
|---|---|---|---|
| `attach-client` (src/src/attach-client.js) | socket, `_waiters`, `closed`, ping timer | `attach` (connect, hello, attach), `_onData`/`_onFrame`, `_fail`, ping, `setPermissionMode`, `detach`, `destroy` | frames are cut into reads at will and several are handled before any continuation runs; timers race answers. Only the CLI that was asked gets the token; refusals keep their code; a failure leaves nothing; a lost client leaves no map entry |
| `remote-sessions` (src/src/remote-sessions.js) | `sessions` by pid, `_starting`, pollers, stop/history timers, attach clients | `startSession`, `spawnOnce` and its retry, `onExit`, `stopSession`, `stopBySessionId`, `adoptSession`, `setPermissionMode`, reaper, `shutdownAll` | retries of the phone overlap; poller, deadline and exit settle one promise; processes die unnoticed. Starts are settled once, the map agrees with clients and processes, the user's own CLIs are spared |
| `session-registry` (src/src/session-registry.js) | none; reads files that CLIs write, sweeps old ones | `listLiveSessions`, `findLiveSession`, `waitForLiveSession` | every call of a scan sees another machine: files are torn, stale or replaced, pids recycled, conversations changed. No steady CLI is missed, no live CLI's file is swept, the wait ends; that a found CLI is the one that was asked for is settled by the handshake (attach-client) |
| `base-agent` (src/sdk/base-agent.js) | `ws`, flags, ping and reconnect timers | `start`, `connect`, handlers of the socket, `onMessage`, `send`, shutdown, routes of the HTTP server | half-open connections, handshakes that hang, handlers that outlive timeout and connection. The manifest first, one reconnect pending, one answer per request |
| `code-execution` (src/sdk/ptc-client.js, code-engine.js) | round, Python process, tool server, `criticalError` | `execute`, `runPython`, `startToolServer`, tool callbacks | tool calls outlive their round. Nothing is left running; a delegation belongs to the round it ends |
| `tool-calling` (src/sdk/tool-calling-client.js, tools/explore.js) | transcript and round of a run | `execute`, `explore` and its tools | a run of explore outlives the code that waits for it; tools fail. The LLM is asked with complete transcripts only; the run ends |
| `agent` (src/src/agent.js) with `file-tools` (tools/read.js, write.js, edit.js) | `_fileContext`, `_gitAllowed`, `allowedCommands`, shared by all requests; temp files of uploads | `handle`, `executeTool`, `file_read`, `file_write`, `file_edit`, git through bash, `POST /api/v1/tg-upload` | requests and calls overlap; others change and restore files meanwhile; places are found in one text and cut out of another. No write is approved over what was not read, none is refused without a reason; git only on request; an edit changes what it names and nothing else; an upload is answered once and leaves no copy it can remove |
| `code-task` (src/src/code_task.js) | conversation, file cache, turn | `executeCodeTask`, `executeCodingTool`, `compactMessages` | files change between awaits; the LLM may answer anything. Open files are shown as they are; the conversation stays well-formed; the task ends |
| `telegram` (src/src/telegram.js) with `startup-shutdown` (src/src/index.js) | `client`, `ready`, subscription, timers and handlers of collectors | `initialize`, `isReady`, `subscribeNewMessages`, `collectReplies`, `manageTelegram` | the client is replaced under calls that use it; edits overtake messages. Replies are complete, handlers go, collectors end |
| `protocol` (src/sdk/protocol.js, types.js, index.js) | none | message constructors | data |
| `search-tools` (grep, glob, bash), `executor` | none between calls | wrappers of subprocesses | caps, pages, time limits |
| `config`, `device-tools`, `proxy`, tests, scripts | none, or constant | | |

How they interact. The orchestrator sends a `request` over `BaseAgent`'s socket;
`onMessage` starts `PCAgent.handle` **without waiting for the request before
it**. `handle` answers `remote_session_*` with `RemoteSessionManager`,
`telegram_*` with the Telegram module, `code_task` with `executeCodeTask`, and
everything else with `PTCClient.execute`, whose Python code calls back into
`PCAgent.executeTool`. `RemoteSessionManager` looks for a live CLI in the
session registry, makes an `AttachClient` for it, or spawns a terminal and polls
the registry. The `AttachClient` tells its end by the event `detached`, whose
listener deletes the map entry synchronously. `index.js` ends sessions on a
signal and runs the loop that keeps Telegram connected.

`PROJECT.json` lists every component with its status, the hazards at their
lines, the line range each definition models (`map`), runs, mutants, findings
and theorems.

## 2. Modules

    AttachContract <-- AttachClient <-- AttachClient_proofs
                          ^  (its outcomes: RemoteSessions!Outcomes)
    StartContract, SessionContract <-- RemoteSessions <-- RemoteSessions_proofs
    SessionRegistry <-- SessionRegistry_proofs
    BaseAgent <-- PcAgent <-- PcAgent_proofs        (also the proofs of BaseAgent)
    CodeExecution <-- Exploration --> ToolLoop
                          ^------ Exploration_proofs  (also those of CodeExecution)
    AgentTools, FileTexts <-- AgentTools_proofs
    CodeTask <-- CodeTask_proofs
    Telegram <-- Telegram_proofs
    MC<module>: the constants of the runs

**AttachClient.** One client from `net.connect` to the end of the connection,
with the map entry `_attachToLiveSession` keeps for it. `pc` is where `attach()`
awaits, `waiter` the entry of `_waiters`, `settled` the outcome of the awaited
promise until `attach()` resumes, `chunk` the frames of the current read that
`_onData` has not handled. `Read(n)` takes n frames at once, `OnFrame` handles
one; `HelloAnswered`, `AttachAnswered` and `AnswerFailed` are the continuations,
possible only when the read is used up (`chunk = 0`), as Node drains microtasks
after the callback. `Quiet` holds between callbacks. The CLI's end is not in
the repository: the `Cli...` actions are the answers that attach-client.js and
tests/attach.test.js are written against, in any order the wire allows,
including malformed lines, hang-ups and death.

**AttachContract.** What `attach()` promises its caller; `AttachClient`
implements it under the mapping `Contract` (outcome, link, told, desktop).

**RemoteSessions.** The manager over an operating system whose processes are
born, publish their socket, refuse, and die by themselves or by signal. A start
`c` has `flight[c]`; a spawn is `<<c, tab>>`, the terminal tab or the window the
retry falls back to. The child of a spawn is a terminal, or, without a display or an
emulator, the CLI itself (`Headless`), whose spawned entry the attach overwrites.
`SpawnOnce`, `OnExit`, `PollFinds`, `PollExpires`,
`PollAttached`, `GiveUp` are the attempt; `StopSession`/`StopStep` a stop with
its 500ms check and 5s SIGKILL; `AdoptSession`/`Adopted`, `Reap`,
`HistoryExpires`, `ClientLost` the rest. `sessions` has the entries and, as pairs
"p before q", the insertion order of the Map, because operations by session id
take the first.
An attach is taken at its result; `Coalesced` adds the result AttachClient shows
possible, an attach that is fulfilled by a client that is closed already.

**StartContract.** What `startSession` promises its caller: one final answer; a
session found alive is listed; an attached one is recorded in the directory that
was asked for by the time the caller hears of it; `already_attached` is reported
only while somebody drives the CLI. `RemoteSessions` implements it under the
mapping `Contract`: `flight` is the answer, the map says what is listed and
linked, the CLIs' peers what is driven.

**SessionContract.** What the list of sessions (`listSessions`) says of a process over
its life: a terminal is listed as live for as long as it runs; a CLI that was spawned
without one is listed for as long as it runs, first as live, then as attached
(`Claim`), and when it was released as adoptable; a child that ended is never live
again and does not come back once it has left; another CLI is adoptable before it
is attached, and never listed as a child. `RemoteSessions` implements it under the
mapping `Lifetime`: the pids of both kinds of children that run, and
`listSessions`, which is a function of the map and the registry and not a variable.

**SessionRegistry.** `waitForLiveSession` with the scan taken apart into its
system calls: `Readdir`, then per name `CheckAlive` and either `StatAge` and
`Sweep` or `ReadEntry`, then per entry `Match` (what the file said, the socket of
now) and `CompareTicks`; the wait ends at its result, `found` or `threw`, and the
attach to what was found is AttachClient's. Between any two of these calls `Machine` steps start, bind, write, publish, move, exit and crash. A
process is its pid and start ticks; `live` keeps what was read, which may be old
when it is used. `since` and `steady` are history. RemoteSessions takes the
registry at its result.

**BaseAgent.** `ws` is the readyState of `this.ws`; `Connect`, `Opened`,
`HandshakeFails`, `CloseReported`, `PingTick`, `Pong` are the handlers, `Send`
drops a frame when the socket is not open, as the code does. `handling[r]` is
`running`, then `late` if the 300s timeout answered first.

**PcAgent.** The same process with the HTTP server and uploads through it:
`phase[u]` is where the handler of the upload awaits, `temp[u]` its remuxed copy,
`reply[u]` the statuses it wrote. Each of body, stat, probe, remux, send and
unlink may fail; a failed unlink is swallowed, and the copy stays. The Telegram
client comes and goes.

**CodeExecution.** One `execute`: per round a server, a process and a
`criticalError`. A tool call carries the round it came from and may begin or end
when that round is over, because `server.close()` waits for requests in service.

**ToolLoop**, **Exploration.** `ToolLoop` is `ToolCallingClient.execute` as
explore runs it; `loop[k]` has its round, its transcript and the calls of the
answer that are left. `Exploration` composes it with CodeExecution: some tool
calls are explorations, whose loop goes on when the code that called is killed.

**AgentTools.** Requests, their tool calls and everybody else on shared files.
Contents are values, which may come back: `FileChanges` stands for the user and for
commands of bash and git, which change, restore and remove files at any moment. A
write or an edit may fail and leave the file half written. History: `shown` is what
each request was shown or wrote, `raced` and `outdated` say where a file changed
behind a call or a context, and `overlapped` marks the requests that did not have
the agent to themselves: properties the code holds only for others say so.

**CodeTask.** The turns of `executeCodeTask` with every await of
`executeCodingTool` an action: `Read`, `Reread`, `Access`, `Compare`, `Fetch`,
`Put`, `Update`. `cache[f]` keeps apart what the prompt shows and what the guard
compares, as the code takes them from two readings. Others change files at any
moment (`FileChanges`).

**FileTexts.** The algorithms on texts as functions: `runEdit` with its two-text
replacement, `extractJSON`'s scan for the object, the pages of `runRead` and
`runGrep`. A behaviour is one call; each property compares its result with a
definition that does not say how. The recursions are functions, so that
AgentTools_proofs can speak of them. Texts are over any set of characters. A call
with an empty `old_string` has no step: the code does not return from it (section
4). `JSON.parse` is external: it takes `OtherValues` -- arrays, strings, numbers,
words, of which nothing is asked but that they begin with no brace -- and
`Objects`, of which `ObjectsAssumption` asks what JSON's grammar says about
braces, quotes and backslashes (`IsObject`), by counting them: the braces outside
strings balance at the last character and not before, and backslashes are in
strings only. It says nothing about the order in which a scan would find that.

**Telegram.** `manageTelegram` over a pool of clients (one that was replaced
stands for a new one), one subscription at a time, and collectors with their
silence and overall timers. A client whose `disconnect()` failed goes on hearing
as a "stray". Messages have versions; the library may run an edit's handler before
the handler of the message, and a handler it has begun with runs also when it was
removed meanwhile (`late`): what it pushes, and the silence timer it sets for a
call that is done, are modelled. An edit replaces text, buttons and entities of an
entry and leaves its media fields, so an entry has two versions.

Guards that are the module's own, not the code's: `MaxInbox`, `MaxOutbox`,
`MaxWire`, `MaxTicks`, `MaxToolCalls`, `MaxItems`, the finite sets `Pids`, `Calls`,
`Requests`, `Uploads`, `Clients`, `Subs`, `Msgs` and `MaxVersion`. Each is marked
`bound` where it is declared.

## 3. Runs

| Run | Bounds | Shows |
|---|---|---|
| attach_reads | up to 3 frames per read, 4 in, 2 out | `TokenOnlyToAskedCli`, `RefusalKeepsItsCode`, `KeepsContract` (refinement), `AttachSettles` |
| attach_coalesced | as attach_reads | **violation** of `EntryGoneWithClient` |
| registry | 2 pids, 3 processes over time | `SteadyIsFound`, `SweepSparesLive`, `WaitEnds` |
| sessions_one | 1 start (named or anonymous), 1 adopt, 3 pids, symmetry | `UserCliSpared`, `SessionsInStep` (starts, entries, clients and children agree), `KeepsContract` (refinement of StartContract and of SessionContract) |
| sessions_live | 2 starts, 2 pids, coalesced results | `OneAttemptPerKey`, `StartSettles`, `StopEnds`, `DeadEntryLeaves` |
| agent | 2 requests, 1 upload, 3 extra frames a connection | `AnsweredOnce`, `SocketInStep` (ladder, pings, missing pongs, manifest), `UploadsSettle`, `HalfOpenNoticed`, `RequestEnds` |
| code_rounds | 2 rounds, 3 tool calls, one an exploration of 2 rounds with up to 2 calls an answer | `NothingLeftRunning`, `DelegationIsOwn`, `TranscriptWellFormed`, `DelegationIsThrown`, `RunsEnd` |
| tools_alone | 2 requests, 3 calls, 1 file, 2 contents, symmetry | `ApprovedWasRead`, `GitHeldToRequest`, `RefusedIsOutdated` |
| tools_overlap | as tools_alone | **violation** of `OverwriteWasRead` |
| code_task | 3 turns, 1 file, plan and edit mode | `PromptWellFormed`, `OpenFilesCurrent`, `OverwritesKnown`, `TaskEnds` |
| telegram | 2 clients, 2 subscriptions, 1 collector, 1 message with 2 versions | `RepliesComplete`, `HandlersInStep` (handlers, timers and the subscription), `CollectEnds`, `Reconnects` |
| texts | texts of up to 4 characters, patterns up to 2, of a letter and two kinds of quotes; JSON objects with one nesting, their strings with up to one brace, fence or escape, or a fenced object; arrays around an object, strings that hold one; prose with braces, brackets, fences and quotes; 5 items, cap 3, default limit 2 | `EditIsExact`, `ObjectIsFound`, `PagesCover` |

Why the bounds are enough for what they are for. Attach: the longest useful
answer is hello_ok and attach_ok, so three frames in a read hold an answer with
a frame on either side, and four in flight put one more behind. Sessions: an
attempt involves the CLI, the terminal (or a headless CLI) and the retry's terminal, so three pids
give the fallback a full course next to a CLI of the user; the second start is
there for sharing and for its interplay with stop and reaper. BaseAgent: the
connection may fail and come back any number of times; two requests give an
answer that is late while another is on time, and uploads have nothing in common
but the process and the Telegram client. Registry: the second pid is the other
CLI of a scan, or a bystander; three processes let a pid be given out twice.
CodeExecution: two rounds leave a call of round one alive in round two, and one
exploration outlives the code that called it; two rounds of an exploration have
one that is followed and one that is the last. Texts: four characters hold two
overlapping and two separate matches of a pattern of two, with quotes of either
kind in and around them; a string has at most one of the units that can mislead
the scan, and one object nests in another; five items exceed the cap, and pages
end before, at and behind it. AgentTools: two requests overlap, three calls give one
request two threads; two contents are what was recorded and anything else, and a
file may go back to the first. One file suffices in AgentTools and CodeTask because no
operation relates two. CodeTask: three turns are read, write or edit, and one
more; its contents are the fewest that tell "what I read", "what I wrote" and
"what somebody else wrote" apart. Telegram: two clients are the old and the new
one; a message and its edit come in either order, in time, late, or from a stray
client. What other messages do to timers, the edit does too; that the entries of
several messages do not disturb one another is proved (RepliesStayComplete).

Every property has a mutant in `PROJECT.json`: a definition changed as a
plausible bug would change it, under which the run fails. The mutated operators
are in the modules, marked `mutant`. Symmetry is used only in runs without
liveness properties, and over sets whose members the code treats alike.
`CHECK_DEADLOCK FALSE` stands where everything may end: a failed attach, an
agent that was shut down, requests, tasks and rounds that are over.

### Fairness

Nothing is assumed of the CLI, the orchestrator, users, processes, the LLM's
content or the Python code. What is assumed:

- AttachClient: a connect on a unix socket succeeds or fails; a read is handled
  to its end; continuations run; the timers of `_wait` (HELLO_TIMEOUT_MS,
  ATTACH_TIMEOUT_MS) fire.
- RemoteSessions: a file access and an attach end (the attach by AttachSettles),
  the poll meets its deadline, exits of children are delivered (`OnExit`), a
  lost connection is reported (`ClientLost`), stop and history timers and the
  reaper's interval run, an adopt's attach ends.
- BaseAgent: `start()` is called, the reconnect timer and the ping interval
  fire, a handshake succeeds or times out (handshakeTimeout), a `close` is
  reported after `terminate()`, the 300s timeout of a request fires. PcAgent adds
  nothing: ffmpeg and Telegram are awaited without a limit, and may hang.
- SessionRegistry: the wait runs on, and once its deadline has passed a scan that
  found nothing is the last (`SF` of `TimesOut`, as each scan is looked at again);
  the machine owes nothing.
- CodeExecution: the LLM call ends (AbortSignal.timeout), the time limit of the
  code fires, the engine's callbacks run; tools and code owe nothing.
  Exploration: its LLM calls are aborted, grep and bash killed after 15s, and the
  file system answers.
- CodeTask: LLM calls are aborted after 120s, shell commands killed after 120s,
  and calls of the file system return.
- Telegram: the loop's sleep and connect time out; the silence timer fires,
  which assumes that the bot falls silent at some time, as each message resets
  it. The 10 minute limit does not help against a bot that does not: the first
  message clears it.

## 4. Findings

1. **A closed client is recorded** (attach_coalesced, remote-sessions.js:750). The
   `detached` listener is added after `await client.attach()`. If `attach_ok`
   and the end of the attach arrive in one read, `_fail` emits `detached` before
   the continuation runs. The entry is then recorded for a closed client; the
   next `_fail` does nothing, so only the CLI's death removes it. The comment at
   remote-sessions.js:746 explains why the entry must go synchronously.
2. **Requests share one file context** (tools_overlap, agent.js:759). While two
   requests are open, each works with the context of the one that came last, and
   may overwrite what only the other has read.

Smaller things met while modelling, without a run of their own:

- A spawned session has two entries, and the terminal's was inserted first:
  `setPermissionMode` by session id types into the terminal, although the comment
  at remote-sessions.js:935 says attached entries are checked first (933).
- After a refused attach, the poller of the fallback spawn finds the CLI that
  refused, and is refused again (remote-sessions.js:627).
- A retry right after a failed spawn is answered by the dedup with the terminal
  that was just told to end (remote-sessions.js:426).
- Without a display the CLI is the pty's child; the attach puts its entry over
  the child's, and a stop then only detaches, so that the process runs on
  (remote-sessions.js:735, 261).
- The dedup does not look at the directory, while attempts are keyed by it: two
  starts of a session in two directories can give it two desktops (408, 435).
- The 5s SIGKILL timer of a stop is not cleared (remote-sessions.js:992).
- Code runs on after one of its tool calls asked for a delegation, and further
  calls are executed (code-engine.js:136; ptc-client.js:29 says the subprocess is
  killed). A delegation asked for by code that then runs into its time limit is
  forgotten (code-engine.js:227).
- `editHandler` takes edits of anybody's messages, not of the bot's only
  (telegram.js:723), leaves the media fields of the entry as they were (732), and
  `initialize` does not carry a subscription over to the new client (109). A client
  whose `disconnect()` fails keeps its handlers, which nobody can remove any more (91).
- A rejected call in the last turn of a plan-mode task ends it with an empty
  summary (code_task.js:372, 390; 305 promises a summary). An edit of a cached
  file that was deleted ends the whole task by an exception (194), not with an
  error for the LLM. `bash` is run without the project root (125), which the
  prompt promises (57).
- `countOccurrences` does not end for an empty `old_string` (tools/edit.js:25).
  Of an `old_string` that overlaps itself in its places the leftmost is replaced,
  although it "requires old_string to be unique" (edit.js:4; code_task.js:61: "must
  appear exactly once"). A `file_write` after an own `file_edit` is refused as an
  external change, as the edit is not recorded (agent.js:888).
- A git command that throws (exec refuses its arguments) leaves git in
  `allowedCommands` (agent.js:799, 928), for requests too that do not ask for it; what
  keeps those from running it is `_gitAllowed` alone.
- `file_read` says whether a page is truncated, and the agent does not hand it on
  (agent.js:879).
- grep's offset counts within the first 500 results only; glob takes its first
  200 before it sorts them by age, so that the newest files may be missing.
- `extractJSON` takes a brace or a fence in the prose before the object for its
  start (code_task.js:27). When prose is around an object without a fence of its own,
  a fenced value in one of its strings is taken for the whole (23), if it parses as
  it is, with no escape in it: ```{}``` in the text of a file to write. An answer
  that is as a whole an array or a string around the object is returned as that
  (22), although the comment at 18 says "Extract a JSON object".
  `Unambiguous` leaves these out.
- An exploration whose rounds are used up returns its last text as if it were an
  answer (tool-calling-client.js).
- A CLI that starts on a dead CLI's pid between `statSync` and `unlinkSync` of the
  sweep loses its new file (session-registry.js:117). An entry without
  `startTicks`, or one whose process has just ended, passes `findLiveSession`; the
  handshake is what refuses it (165).
- What ffmpeg left when it failed stays in the temp directory (agent.js:80). A
  body over 1MB is not answered, as its socket is destroyed. ffmpeg and Telegram
  are awaited without a limit.
- `remote_session_stop` answers before anything was stopped (agent.js:742). A
  SIGTERM to the agent ends it before the 5s SIGKILL of its sessions (index.js:73).

## 5. Proofs

Checked by TLAPS for every value of the constants, from the named assumptions
on the constants only (bounds are naturals; names are different from one another).

| Theorem | Says | Argument |
|---|---|---|
| AttachClient_proofs!TypeCorrect | every variable keeps its type | by action |
| AttachClient_proofs!HandshakeInvariant, HandshakeSafe | token only to the asked CLI, records only with a desktop, nothing leaked after a failure, owner notified once | `HandshakeInv`: frames under way say what is so (`FramesTruthful`), an attach request carried the token (`RequestsTruthful`), and what each phase knows (`PhaseKnows`). None of the properties is inductive without them: that `hello_ok` carries the identity of the CLI is a fact about a frame sent earlier |
| AttachClient_proofs!Implementation | AttachClient implements AttachContract | every step is a step of the contract or a stutter, given HandshakeInv |
| AttachClient_proofs!SingleFrameReads | with one frame per read (MaxChunk = 1), `EntryGoneWithClient` and `NoWaitOnDeadSocket` | `LostIsSettled`: with one frame per read no client closes between the answer and its continuation. The assumption is just what finding 1 breaks |
| AttachClient_proofs!RefusalsKept | a refusal is reported with the CLI's code unless something else ended the attach | `CodeUnderWay`: what an undisturbed wait failed with is a code, until the continuation throws it |
| RemoteSessions_proofs!InvHolds, UserCliNeverSignalled | types; no signal reaches a CLI the manager did not spawn | `Inv`, below: a signal goes to a pid taken from an entry or a timer. Entries say "spawned" only at pty children (`Placed`), timers are due for those only (`Timers`), and a pid that was a pty child is one of one spawn for good (`Children`): a terminal, or the CLI of that spawn itself |
| RemoteSessions_proofs!OneAttempt | one attempt for a session and directory | `Sharing`: `_starting` is the set of keys of the starts that are pending, no more and no less |
| RemoteSessions_proofs!SessionsStayInStep | starts, entries, clients and children agree, **if** no attach is fulfilled by a closed client (`~Coalesced`); a child that runs is within reach of a stop or an adopt (`ChildWithinReach`) | `Attempts` (a start waits for the tab, or for the window that replaced it), `OpenHasEntry` and `EntryHasClient`. The hypothesis is what finding 1 breaks: with it a recorded client may be closed, and `Inv` says just that |
| RemoteSessions_proofs!StartImplementation | RemoteSessions implements StartContract, with coalesced attaches too | every step is a step of the contract or a stutter, given `Inv`, one lemma per action |
| RemoteSessions_proofs!LifetimeImplementation | RemoteSessions implements SessionContract, with coalesced attaches too | `EntriesGoOn`: a step leaves an entry as it was, ends it, takes it off, or puts one where a CLI was adoptable, where the child of a spawn that is itself a CLI was live, or where no process was (`StepGoesOn`, by action). That a child is not lost while it runs is `RunningHasEntry` after the step; that it does not come back, that its pid is one of one spawn for good (`Children`) |
| RemoteSessions_proofs!Implementation | `KeepsContract`: both | the two together |
| Telegram_proofs!InvHolds, HandlersStayInStep | a collector that is done does not time out, and has no handler on a client that is still the module's; one subscription hears. Strays are excepted | but for strays only the module's client is connected (`OneLink`), and its handlers are those of collectors that listen and of the subscription (`Registered`) |
| Telegram_proofs!RepliesStayComplete | a collector has what it heard, each message once, with text, buttons and entities of the newest version it heard and the media fields of some version it heard, late handlers and strays included | `OneSource`: a collector hears from one client, or from what was on its way from it; so `EditsInOrder`: no edit that is coming is older than what was heard -- what makes the blind overwrite of `editHandler` right; `RepliesHeard`: array and history agree |
| PcAgent_proofs!TypeCorrect, SocketSafe, AnswersOnce | `SocketInStep`: ladder, ping, pong flag, manifest first and once; one answer per request | `SocketInv`, with `WireFollowsSocket`: what a socket in each state has written |
| PcAgent_proofs!SocketSafeBesideUploads, AnswersOnceBesideUploads | the same of the process with its uploads | `PcSpec => Spec`: a step of an upload leaves BaseAgent's state alone |
| PcAgent_proofs!UploadsSafe | `UploadsSettle`: one answer, only whole copies, none left but those whose unlink failed | inductive with the types, one lemma per kind of turn |
| SessionRegistry_proofs!RegistryInvariant, ScanFinds | no scan misses a CLI that stays published | `SteadyIsKnown`: it is still to be looked at, is looked at, or its entry is among those to match; needs that nothing that is swept is alive (`SweptIsDead`, `SinceIsAlive`) and that a pid that stays published keeps its process |
| SessionRegistry_proofs!SweepSafe | the sweep spares what lives since the scan began | `SweptIsDead`, before the step |
| Exploration_proofs!RoundsCleanUpBesideLoops | the three properties below, with explorations among the calls | `ExplorationSpec => Spec` |
| Exploration_proofs!TranscriptsComplete | the LLM is asked with complete transcripts only | `Transcript`: between answer and last result, which results are there and which calls are left (`Answering`) |
| Exploration_proofs!TypeCorrect, RoundsCleanUp, DelegationSafe | no process or server outlives its round; a delegation belongs to its round | `NothingLeftRunning` is inductive with the types; `DelegationInv` ties `criticalError` of a round to calls of that round |
| Exploration_proofs!DelegationThrown | code that ends by itself after a call asked for a delegation ends the run with it | `RaisedIsNoted`, the converse of a part of `DelegationInv`: no other call takes a `criticalError` back. An action property |
| AgentTools_proofs!WriteGuard | a request that has the agent to itself approves a write only over what it was shown or wrote | `GuardInv`: whose context the agent has (`OwnContext`), that what a context records was shown (`RecordsShown`), that what a call holds was fetched (`SeenIsFetched`) |
| AgentTools_proofs!GitHeld | git only on request; git is in the list once for each git that runs or threw, while requests do not overlap | `GitInv`: git is allowed only to the request that came last, and while a git runs nobody took the permission away. A request that arrives while another has a call at work is what `overlapped` excludes |
| AgentTools_proofs!RefusalsAreOutdated | a write is refused as an external change only if something else changed the file since the context's last read or write of it began, or since the call looked | `CurrentInv`: a record that is not outdated is the hash of the file as it is (`RecordsCurrent`), what a call holds that was not raced is the file (`SeenCurrent`), and a write that compares has a record (`ComparesRecord`). Contents may come back. An action property |
| AgentTools_proofs!TypeCorrect | every variable keeps its type, for finitely many calls | each call lists git once at most |
| AgentTools_proofs!PagesAreComplete | who reads on behind truncated pages gets every line once; the pages of a search are its results up to the cap | no induction: a closed form satisfies the equation of the recursion, so what `CHOOSE` takes satisfies it too; were it not the rest of the file at some offset, there would be a last such offset (`LastOf`), and the page there contradicts it |
| AgentTools_proofs!EditsAreExact | for all texts, what `file_edit` writes has just the places of `old_string` replaced, in the text as it was, also when they were found in its normalized form; it refuses when there is none, or, without `replace_all`, several that do not overlap; it edits when there is one. Of places that overlap one another nothing is said but the text | there is a greedy choice R of places that do not overlap (`GreedyExists`). `count` and `rest` satisfy their equations (`Recursion`, `LoopsEnd`); at the last position where they differ from the number of places of R from there, and from the text with those replaced, the next place (`NextPlace`) gives the contradiction. The text with R replaced is a fold, which is unfolded step by step the same way (`FlattenJoins`) |
| AgentTools_proofs!ObjectsAreFound | for all objects, other JSON values and answers that are not ambiguous, `extractJSON` finds the object, to its last brace | the three variables of the loop are what counting says of the characters read (`Knows`): depth by braces outside strings, strings by quotes that are not escaped, escapes by the backslashes before. Were they not, there would be a first such character, and `ScanCharKnows` contradicts it, a case per branch of the loop. So the loop ends at the object's last character (`ScanEnds`), and no object begins another (`NoneBegins`), so that neither the whole answer nor what is in its first fence parses as another value (`OnlyObjectParses`; what is in the first fence is the object or a beginning of it, `FencedIsPrefix`). Assumes `ObjectsAssumption` |
| CodeTask_proofs!TypeCorrect, GuardKnows | a task writes over a content it compared only if its cache has held it | `CallKnows`: what each await of a tool call knows (which tool it serves, that the file is cached); `CacheKnown`: what the cache holds, and what a write is about to replace, is known. An action property: the invariant holds before the step that writes |
| CodeTask_proofs!ConversationStays | what the LLM is asked is well-formed | it is so at every await, not at the LLM call only (`Conversation`); an answer and its result keep the alternation |
| CodeTask_proofs!OpenFilesStayCurrent | Open Files shows every cached file as it is, but for foreign changes | `FilesCurrent`: between reading or writing and caching the cache may lag, for that one file, and then what the call saw is the file |

The type invariants of AttachClient, BaseAgent, CodeExecution, CodeTask and
AgentTools are theorems (those of PcAgent, SessionRegistry, RemoteSessions and
Telegram are part of their invariants), and
so are `NothingLeaked`, `NotifiedOnce` and `RecordedOnlyWithDesktop`; no run
repeats them. `EntryGoneWithClient` and `NoWaitOnDeadSocket` hold under the
assumption of SingleFrameReads only.

Only model-checked: every property that something happens in the end (`AttachSettles`,
`WaitEnds`, `StartSettles`, `StopEnds`, `DeadEntryLeaves`, `HalfOpenNoticed`,
`RequestEnds`, `RunsEnd`, `TaskEnds`, `CollectEnds`, `Reconnects`). Every other
property of the runs that pass is a theorem. Out of this prover's reach: liveness
under fairness and `ENABLED`; and the induction theorems of the library, which take
an operator. Where a recursion had to be reasoned
about, a least or last counterexample takes the place of induction.

## 6. Not modelled, and why

- Wording, logging, command lines and environments: no property is about them.
- `listConversations`, `exportTranscript`, listing and formatting
  of chats, the health routes: reads without state of their own.
- Time: a timer may fire at any moment after it is set. Properties about which of
  two timers fires first cannot be stated and are not.
- CLIs that cannot publish an attach socket: they are listed as adoptable, and an
  adopt of one finds nothing to attach to. In RemoteSessions every CLI that is in
  the registry has its socket.
- Negative offsets and limits of `file_read` and grep, which `slice` counts from the
  end.
- Recycled pids in RemoteSessions: each pid is given out once there. What the
  registry does about them is SessionRegistry's; what signals to them do is not
  modelled.
- The composition of SessionRegistry, AttachClient and RemoteSessions in one state
  space: each takes the one below at its result, and the product is out of
  reach of a run.
- `search-tools` but for cap and pages, `executor`, `config`, `device-tools`,
  `proxy`: no state between calls, or constant data.

## 7. Plan

Order: what the phone depends on first (attach, sessions), then the connection,
then what requests share, then the long-running parts. Done: AttachClient with
its contract and proofs, RemoteSessions with StartContract and SessionContract, SessionRegistry, BaseAgent with PcAgent,
CodeExecution with Exploration, AgentTools, CodeTask, Telegram and FileTexts.

Left: startup and shutdown, that is the order of `index.js`, the signal handlers,
`shutdownAll` against the exit of the process, and the dispatch of `handle` that
answers before a stop was done.
