--------------------------- MODULE RemoteSessions ---------------------------
(***************************************************************************)
(* RemoteSessionManager (src/remote-sessions.js): the map of sessions by   *)
(* pid, starts that share one attempt, the fallback from attaching to      *)
(* spawning, the poller and the exit handler that race to settle a spawn,  *)
(* stop, adopt, the reaper and the history timers, over an operating       *)
(* system whose processes come and go.                                     *)
(*                                                                         *)
(* One action is one callback of the event loop together with the promise  *)
(* continuations it releases: what lies between two awaits of the code.    *)
(* An attach is taken at its result (AttachClient has what happens inside).*)
(*                                                                         *)
(* External: processes, the terminal emulator, and the CLI with the        *)
(* control peer it accepts.  A live registry entry (session-registry.js)   *)
(* is a published CLI process.                                             *)
(***************************************************************************)
EXTENDS Naturals, Sequences, FiniteSets

CONSTANTS
  Sids, Dirs,   \* conversations and directories a phone may ask for
  Pids,         \* bound: the pids there are, each given out once
  Calls,        \* bound: calls of startSession
  Adopts,       \* bound: calls of adoptSession
  Anonymous,    \* whether startSession is also called without a sessionId
  Coalesced,    \* one read may hold attach_ok and the end of the attach
  NoSid, NoPid, NoOne, Absent

ASSUME ConstantsAssumption ==
  /\ {Anonymous, Coalesced} \subseteq BOOLEAN
  /\ NoSid \notin Sids /\ NoPid \notin Pids /\ Calls \cap Adopts = {}

Spawns == Calls \X {"tab", "window"}       \* spawnOnce(true), spawnOnce(false)
Ops == Spawns \cup (Calls \X {"direct"}) \cup (Adopts \X {"adopt"})

Keys == (Sids \cup IF Anonymous THEN {NoSid} ELSE {}) \X Dirs
Convs == (Sids \cup Spawns) \X Dirs   \* a spawn stands for the id it draws
NoConv == <<NoSid, NoSid>>

Settled == {"deduped", "attached", "reported", "rejected"}

\* An AttachClient with its poller: waiting for the CLI to appear, in
\* AttachClient.attach, open, or over (closed or given up).
Links == [st : {"idle", "polling", "attaching", "open", "over"},
          pid : Pids \cup {NoPid}]
Idle == [st |-> "idle", pid |-> NoPid]
Polling == [st |-> "polling", pid |-> NoPid]
Over == [st |-> "over", pid |-> NoPid]
AttachingTo(p) == [st |-> "attaching", pid |-> p]
OpenTo(p) == [st |-> "open", pid |-> p]

VARIABLES
  kind,      \* pid -> "free", "user" (the user's CLI), "cli" (ours), "term"
  conv,      \* pid -> conversation <<sessionId, cwd>> of that process
  ready,     \* pids of CLIs that published their attach socket
  peer,      \* pid -> the op whose control connection the CLI accepted
  denies,    \* pids of CLIs whose user revoked attach
  used,      \* pids given out so far
  sessions,  \* this.sessions: [at: pid -> entry, order: <<p, q>> if p is before q]
  starting,  \* keys of this._starting
  history,   \* pids with a 1h deletion timer
  stopWait,  \* pids whose stopSession waits for the process to end
  killTimer, \* pids with a pending 5s SIGKILL timer
  shares,    \* call -> call whose attempt it shares
  flight,    \* call -> state of its attempt
  key,       \* call -> <<sessionId, workDir>> it asked for
  link,      \* op -> its AttachClient
  child,     \* spawn -> pid of its pty child
  runs,      \* spawn -> pid of the CLI it started; headless, of the child itself
  running,   \* spawns whose child has not ended
  exited,    \* spawns whose exit callback is pending
  tabRefused,\* spawns whose terminal printed the stale-screen line
  resolved,  \* spawns whose `resolved` flag is set
  adopt,     \* adopt call -> "idle", "attaching", "yes", "no"
  wanted,    \* adopt call -> <<sessionId, workDir>> it attaches to
  victims    \* history: kinds of process a signal was sent to

os == <<kind, conv, ready, peer, denies, used>>
adopts == <<adopt, wanted>>
map == <<sessions, history, stopWait, killTimer>>
starts == <<starting, shares, flight, key>>
spawned == <<child, runs, running, exited, tabRefused, resolved>>
vars == <<os, map, starts, link, spawned, adopts, victims>>

Entries == [kind : {"spawned", "attached"}, sid : Sids \cup Spawns \cup {NoSid},
            dir : Dirs, alive : BOOLEAN, process : BOOLEAN, op : Ops]

ASSUME NamesAssumption ==
  NoSid \notin Spawns /\ NoOne \notin Ops \cup Calls /\ Absent \notin Entries

TypeOK ==
  /\ kind \in [Pids -> {"free", "user", "cli", "term"}]
  /\ conv \in [Pids -> Convs \cup {NoConv}]
  /\ ready \subseteq Pids /\ denies \subseteq Pids /\ used \subseteq Pids
  /\ peer \in [Pids -> Ops \cup {NoOne}]
  /\ sessions \in [at : [Pids -> Entries \cup {Absent}],
                   order : SUBSET (Pids \X Pids)]
  /\ starting \subseteq Keys
  /\ history \subseteq Pids /\ stopWait \subseteq Pids
  /\ killTimer \subseteq Pids
  /\ shares \in [Calls -> Calls \cup {NoOne}]
  /\ flight \in [Calls -> {"idle", "access", "attach", "spawn"} \cup Settled]
  /\ key \in [Calls -> Keys \cup {NoConv}]
  /\ link \in [Ops -> Links]
  /\ child \in [Spawns -> Pids \cup {NoPid}]
  /\ runs \in [Spawns -> Pids \cup {NoPid}]
  /\ running \subseteq Spawns /\ exited \subseteq Spawns
  /\ tabRefused \subseteq Spawns /\ resolved \subseteq Spawns
  /\ adopt \in [Adopts -> {"idle", "attaching", "yes", "no"}]
  /\ wanted \in [Adopts -> Convs \cup {NoConv}]
  /\ victims \subseteq {"user", "cli", "term"}

Init ==
  /\ kind = [p \in Pids |-> "free"] /\ conv = [p \in Pids |-> NoConv]
  /\ ready = {} /\ peer = [p \in Pids |-> NoOne] /\ denies = {} /\ used = {}
  /\ sessions = [at |-> [p \in Pids |-> Absent], order |-> {}]
  /\ starting = {} /\ history = {} /\ stopWait = {} /\ killTimer = {}
  /\ shares = [c \in Calls |-> NoOne] /\ flight = [c \in Calls |-> "idle"]
  /\ key = [c \in Calls |-> NoConv]
  /\ link = [o \in Ops |-> Idle]
  /\ child = [o \in Spawns |-> NoPid] /\ runs = [o \in Spawns |-> NoPid]
  /\ running = {} /\ exited = {} /\ tabRefused = {} /\ resolved = {}
  /\ adopt = [a \in Adopts |-> "idle"] /\ wanted = [a \in Adopts |-> NoConv]
  /\ victims = {}

----------------------------------------------------------------------------
(* The map.                                                                *)

\* Map.set: a key that is already there keeps its place in the order.
PutIn(m, p, e) ==
  [at |-> [m.at EXCEPT ![p] = e],
   order |-> IF m.at[p] # Absent THEN m.order
             ELSE m.order \cup ({q \in Pids : m.at[q] # Absent} \X {p})]

\* Map.delete.
DelIn(m, ps) ==
  [at |-> [p \in Pids |-> IF p \in ps THEN Absent ELSE m.at[p]],
   order |-> m.order \cap ((Pids \ ps) \X (Pids \ ps))]

\* The pids of the entries of a session.
EntriesOf(sid) ==
  {p \in Pids : sessions.at[p] # Absent /\ sessions.at[p].sid = sid}
AliveEntriesOf(sid) == {p \in EntriesOf(sid) : sessions.at[p].alive}

\* p is the entry of ps that a `for (const [pid, s] of this.sessions)` loop
\* meets first.
FirstOf(p, ps) ==
  p \in ps /\ \A q \in ps \ {p} : <<p, q>> \in sessions.order

\* The conversation a spawn runs: without a sessionId every spawnOnce draws a
\* fresh one, here the spawn itself.
ChildSid(o) == IF key[o[1]][1] = NoSid THEN o ELSE key[o[1]][1]
ChildConv(o) == <<ChildSid(o), key[o[1]][2]>>

SpawnedEntry(o) ==
  [kind |-> "spawned", sid |-> key[o[1]][1], dir |-> key[o[1]][2],
   alive |-> TRUE, process |-> TRUE, op |-> o]

AttachedEntry(o, cv) ==
  [kind |-> "attached", sid |-> cv[1], dir |-> cv[2],
   alive |-> TRUE, process |-> FALSE, op |-> o]

\* findLiveSession: the published CLIs on exactly this conversation.  Which
\* one readdir lists first is not known.
FindLive(cv) ==
  {p \in ready : kind[p] \in {"user", "cli"} /\ conv[p] = cv}

----------------------------------------------------------------------------
(* AttachClient.attach, taken at its result.                               *)

\* A CLI tells a peer it drops before it lets another in; until that
\* client has heard, no other gets far.
Outcomes(p, cv) ==
  {"failed"} \cup
  IF p \notin FindLive(cv) \/ \E o \in Ops : link[o] = OpenTo(p) /\ peer[p] # o
  THEN {}
  ELSE IF peer[p] # NoOne THEN {"already_attached"}
  ELSE IF p \in denies THEN {"consent_denied"}
  ELSE {"ok"} \cup IF Coalesced THEN {"ok_then_lost"} ELSE {}

Recorded == {"ok", "ok_then_lost"}

\* _attachToLiveSession after the await: the CLI took o as its peer and the
\* entry is recorded -- also when the client is closed by now.
RecordAttach(o, cv, outcome) ==
  LET p == link[o].pid IN
  /\ sessions' = PutIn(sessions, p, AttachedEntry(o, cv))
  /\ peer' = IF outcome = "ok" THEN [peer EXCEPT ![p] = o] ELSE peer
  /\ link' = [link EXCEPT ![o] = IF outcome = "ok" THEN OpenTo(p) ELSE Over]

SettleStart(c, how) ==
  /\ flight' = [flight EXCEPT ![c] = how]
  /\ starting' = starting \ {key[c]}

----------------------------------------------------------------------------
(* startSession                                                            *)

\* A pid the system may give to a new process.  Bound: no pid twice.
FreePids == Pids \ used

\* spawnOnce: the pty child, its entry in map m, and a poller that looks for
\* the CLI at once.  The child is a terminal, or without a display or an
\* emulator the CLI (buildTerminalCommand).  Without a process to be had
\* pty.spawn throws.  The direct attach of this start, if any, is over.
SpawnOnce(o, m) ==
  \/ \E w \in FreePids, headless \in BOOLEAN, first \in {Polling} \cup
               {AttachingTo(p) : p \in FindLive(ChildConv(o))} :
       /\ first = Polling => FindLive(ChildConv(o)) = {}
       /\ kind' = [kind EXCEPT ![w] = IF headless THEN "cli" ELSE "term"]
       /\ conv' = [conv EXCEPT ![w] = IF headless THEN ChildConv(o) ELSE NoConv]
       /\ runs' = [runs EXCEPT ![o] = IF headless THEN w ELSE NoPid]
       /\ used' = used \cup {w}
       /\ child' = [child EXCEPT ![o] = w]
       /\ running' = running \cup {o}
       /\ sessions' = PutIn(m, w, SpawnedEntry(o))
       /\ flight' = [flight EXCEPT ![o[1]] = "spawn"]
       /\ link' = [link EXCEPT ![<<o[1], "direct">>] = Over, ![o] = first]
       /\ UNCHANGED starting
  \/ /\ FreePids = {}
     /\ SettleStart(o[1], "rejected")
     /\ sessions' = m /\ link' = [link EXCEPT ![<<o[1], "direct">>] = Over]
     /\ UNCHANGED <<kind, conv, used, child, runs, running>>

\* Mutant: the key is not put into _starting.
StartUnregistered(c, k) ==
  /\ shares[c] = NoOne
  /\ \/ /\ AliveEntriesOf(k[1]) # {} /\ k[1] # NoSid
        /\ flight' = [flight EXCEPT ![c] = "deduped"]
     \/ /\ AliveEntriesOf(k[1]) = {}
        /\ flight' = [flight EXCEPT ![c] = "access"]
  /\ shares' = [shares EXCEPT ![c] = c]
  /\ key' = [key EXCEPT ![c] = k]
  /\ UNCHANGED <<os, map, starting, link, spawned, adopts, victims>>

\* startSession up to its first await: share an attempt in flight, return an
\* entry that is alive, or go on to access(workDir).
StartSession(c, k) ==
  /\ shares[c] = NoOne
  /\ LET named == k[1] # NoSid IN
     \/ /\ named /\ k \in starting
        /\ \E d \in Calls :
             /\ key[d] = k /\ flight[d] \in {"access", "attach", "spawn"}
             /\ shares' = [shares EXCEPT ![c] = d]
        /\ UNCHANGED <<flight, key, starting>>
     \/ /\ named /\ k \notin starting /\ AliveEntriesOf(k[1]) # {}
        /\ shares' = [shares EXCEPT ![c] = c]
        /\ key' = [key EXCEPT ![c] = k]
        /\ flight' = [flight EXCEPT ![c] = "deduped"]
        /\ UNCHANGED starting
     \/ /\ ~named \/ (k \notin starting /\ AliveEntriesOf(k[1]) = {})
        /\ shares' = [shares EXCEPT ![c] = c]
        /\ key' = [key EXCEPT ![c] = k]
        /\ flight' = [flight EXCEPT ![c] = "access"]
        /\ starting' = IF named THEN starting \cup {k} ELSE starting
  /\ UNCHANGED <<os, map, link, spawned, adopts, victims>>

\* access(workDir) failed: the directory does not exist.
NoSuchDir(c) ==
  /\ flight[c] = "access"
  /\ SettleStart(c, "rejected")
  /\ UNCHANGED <<os, map, shares, key, link, spawned, adopts,
                 victims>>

\* access(workDir) succeeded: attach to a live CLI if there is one, else spawn.
Accessed(c) ==
  /\ flight[c] = "access"
  /\ \/ \E p \in FindLive(key[c]) :
          /\ flight' = [flight EXCEPT ![c] = "attach"]
          /\ link' = [link EXCEPT ![<<c, "direct">>] = AttachingTo(p)]
          /\ UNCHANGED <<os, sessions, starting, child, runs, running>>
     \/ /\ FindLive(key[c]) = {}
        /\ SpawnOnce(<<c, "tab">>, sessions)
        /\ UNCHANGED <<ready, peer, denies>>
  /\ UNCHANGED <<history, stopWait, killTimer, shares, key,
                 exited, tabRefused, resolved, adopts, victims>>

\* The direct attach ended.  already_attached counts as success; after any
\* other error the start falls through to a spawn.
DirectAttached(c) ==
  LET o == <<c, "direct">> IN
  /\ link[o].st = "attaching"
  /\ \E outcome \in Outcomes(link[o].pid, key[c]) :
       \/ /\ outcome \in Recorded
          /\ RecordAttach(o, key[c], outcome)
          /\ SettleStart(c, "attached")
          /\ UNCHANGED <<kind, conv, used, child, runs, running>>
       \/ /\ outcome = "already_attached"
          /\ SettleStart(c, "reported")
          /\ link' = [link EXCEPT ![o] = Over]
          /\ UNCHANGED <<kind, conv, used, peer, sessions, child, runs,
                         running>>
       \/ /\ outcome \in {"failed", "consent_denied"}
          /\ SpawnOnce(<<c, "tab">>, sessions)
          /\ UNCHANGED peer
  /\ UNCHANGED <<ready, denies, history, stopWait, killTimer, shares, key,
                 exited, tabRefused, resolved, adopts, victims>>

----------------------------------------------------------------------------
(* A spawn: the poller and the exit handler race to settle it.             *)

\* Mutant: what a signal does is noted also when no process has the pid.
SignalNoted(p) == victims' = victims \cup {kind[p]}

\* child.kill() goes to whatever process has the pid.
Signal(p) ==
  victims' = victims \cup IF kind[p] = "free" THEN {} ELSE {kind[p]}

\* Mutant: the poller's catch kills the child but does not reject.
GiveUpSilently(o) ==
  /\ IF o \in resolved THEN UNCHANGED victims ELSE Signal(child[o])
  /\ UNCHANGED <<resolved, flight, starting>>

\* The poller's catch.
GiveUp(o) ==
  IF o \in resolved THEN UNCHANGED <<resolved, flight, starting, victims>>
  ELSE /\ resolved' = resolved \cup {o}
       /\ SettleStart(o[1], "rejected")
       /\ Signal(child[o])

\* Mutant: the start is answered when its CLI is found.
PollFindsAnswering(o) ==
  /\ link[o] = Polling
  /\ \E p \in FindLive(ChildConv(o)) :
       link' = [link EXCEPT ![o] = AttachingTo(p)]
  /\ resolved' = resolved \cup {o}
  /\ IF o \in resolved THEN UNCHANGED <<flight, starting>>
     ELSE SettleStart(o[1], "attached")
  /\ UNCHANGED <<os, map, shares, key, child, runs, running, exited,
                 tabRefused, adopts, victims>>

\* waitForLiveSession found a CLI; an attempt that is settled leaves it.
PollFinds(o) ==
  /\ link[o] = Polling
  /\ \E p \in FindLive(ChildConv(o)) :
       link' = [link EXCEPT ![o] =
                  IF o \in resolved THEN Over ELSE AttachingTo(p)]
  /\ UNCHANGED <<os, map, starts, spawned, adopts, victims>>

\* waitForLiveSession ran into its deadline.
PollExpires(o) ==
  /\ link[o] = Polling /\ FindLive(ChildConv(o)) = {}
  /\ link' = [link EXCEPT ![o] = Over]
  /\ GiveUp(o)
  /\ UNCHANGED <<os, map, shares, key, child, runs, running, exited,
                 tabRefused, adopts>>

\* Mutant: the poller does not look at `resolved` after its attach.
PollAttachedLate(o) ==
  /\ link[o].st = "attaching"
  /\ \E outcome \in Outcomes(link[o].pid, ChildConv(o)) \cap Recorded :
       RecordAttach(o, ChildConv(o), outcome)
  /\ resolved' = resolved \cup {o}
  /\ SettleStart(o[1], "attached")
  /\ UNCHANGED <<kind, conv, ready, denies, used, history, stopWait, killTimer,
                 shares, key, child, runs, running, exited,
                 tabRefused, adopts, victims>>

\* The poller's attach ended.  The entry is recorded even when the attempt
\* was settled meanwhile.
PollAttached(o) ==
  /\ link[o].st = "attaching"
  /\ \E outcome \in Outcomes(link[o].pid, ChildConv(o)) :
       \/ /\ outcome \in Recorded
          /\ RecordAttach(o, ChildConv(o), outcome)
          /\ IF o \in resolved THEN UNCHANGED <<resolved, flight, starting>>
             ELSE resolved' = resolved \cup {o}
                    /\ SettleStart(o[1], "attached")
          /\ UNCHANGED victims
       \/ /\ outcome \notin Recorded
          /\ link' = [link EXCEPT ![o] = Over]
          /\ GiveUp(o)
          /\ UNCHANGED <<sessions, peer>>
  /\ UNCHANGED <<kind, conv, ready, denies, used, history, stopWait, killTimer,
                 shares, key, child, runs, running, exited,
                 tabRefused, adopts>>

\* Mutant: the retry starts without settling the attempt it replaces.
OnExitUnresolved(o) ==
  /\ o \in exited /\ o \notin resolved /\ o \in tabRefused
  /\ exited' = exited \ {o}
  /\ SpawnOnce(<<o[1], "window">>, DelIn(sessions, {child[o]}))
  /\ UNCHANGED <<ready, peer, denies, history, stopWait, killTimer, shares, key,
                 tabRefused, resolved, adopts, victims>>

\* Mutant: the exit records the ended terminal again when a stop removed it.
OnExitRecording(o) ==
  /\ o \in exited /\ o \in resolved
  /\ exited' = exited \ {o} /\ history' = history \cup {child[o]}
  /\ sessions' = PutIn(sessions, child[o],
                   [SpawnedEntry(o) EXCEPT !.alive = FALSE, !.process = FALSE])
  /\ UNCHANGED <<kind, conv, used, child, runs, running, link, starts, resolved,
                 ready, peer, denies, stopWait, killTimer, tabRefused, adopts, victims>>

\* child.onExit.  A rejected tab attach is retried once in a new window; any
\* other exit leaves a dead entry for an hour and fails the start if it is
\* not settled.
OnExit(o) ==
  /\ o \in exited
  /\ exited' = exited \ {o}
  /\ LET p == child[o] IN
     IF o \notin resolved /\ o[2] = "tab" /\ o \in tabRefused
     THEN /\ resolved' = resolved \cup {o}
          /\ SpawnOnce(<<o[1], "window">>, DelIn(sessions, {p}))
          /\ UNCHANGED history
     ELSE /\ IF sessions.at[p] = Absent THEN UNCHANGED <<sessions, history>>
             ELSE /\ sessions' = [sessions EXCEPT !.at[p] =
                     [@ EXCEPT !.alive = FALSE, !.process = FALSE]]
                  /\ history' = history \cup {p}
          /\ IF o \in resolved THEN UNCHANGED <<resolved, flight, starting>>
             ELSE resolved' = resolved \cup {o}
                    /\ SettleStart(o[1], "rejected")
          /\ UNCHANGED <<kind, conv, used, child, runs, running, link>>
  /\ UNCHANGED <<ready, peer, denies, stopWait, killTimer, shares, key,
                 tabRefused, adopts, victims>>

\* The 1h timer: sessions.delete(pid), whatever entry is there by now.
HistoryExpires(p) ==
  /\ p \in history
  /\ history' = history \ {p}
  /\ sessions' = DelIn(sessions, {p})
  /\ UNCHANGED <<os, stopWait, killTimer, starts, link, spawned, adopts,
                 victims>>

----------------------------------------------------------------------------
(* The end of an attach, stop, the reaper.                                 *)

\* The CLI dropped the connection: 'detached', sessions.delete(live.pid).
ClientLost(o) ==
  /\ link[o].st = "open" /\ peer[link[o].pid] # o
  /\ link' = [link EXCEPT ![o] = Over]
  /\ sessions' = DelIn(sessions, {link[o].pid})
  /\ UNCHANGED <<os, history, stopWait, killTimer, starts, spawned, adopts,
                 victims>>

\* Closing our end of the clients of some entries; the CLIs see it.
Disconnect(ops) ==
  /\ link' = [o \in Ops |-> IF o \in ops THEN Over ELSE link[o]]
  /\ peer' = [p \in Pids |-> IF peer[p] \in ops THEN NoOne ELSE peer[p]]

\* Mutant: an attached session is stopped like a spawned one.
StopAnyKind(p) ==
  /\ sessions.at[p] # Absent /\ sessions.at[p].alive
  /\ Signal(p)
  /\ stopWait' = stopWait \cup {p} /\ killTimer' = killTimer \cup {p}
  /\ UNCHANGED <<os, sessions, history, starts, link, spawned, adopts>>

\* Mutant: the entry goes before the process has.
StopForgets(p) ==
  /\ sessions.at[p] # Absent /\ sessions.at[p].process
  /\ Signal(p)
  /\ sessions' = DelIn(sessions, {p})
  /\ stopWait' = stopWait \cup {p} /\ killTimer' = killTimer \cup {p}
  /\ UNCHANGED <<os, history, starts, link, spawned, adopts>>

\* stopSession(pid) up to its await.
StopSession(p) ==
  LET s == sessions.at[p] IN
  /\ s # Absent
  /\ \/ /\ s.kind = "attached"
        /\ Disconnect({s.op})
        /\ sessions' = DelIn(sessions, {p})
        /\ UNCHANGED <<stopWait, killTimer, victims>>
     \/ /\ s.kind # "attached" /\ ~(s.alive /\ s.process)
        /\ sessions' = DelIn(sessions, {p})
        /\ UNCHANGED <<stopWait, killTimer, victims, link, peer>>
     \/ /\ s.kind # "attached" /\ s.alive /\ s.process
        /\ Signal(p)
        /\ stopWait' = stopWait \cup {p} /\ killTimer' = killTimer \cup {p}
        /\ UNCHANGED <<sessions, link, peer>>
  /\ UNCHANGED <<kind, conv, ready, denies, used, history, starts, spawned,
                 adopts>>

\* stopBySessionId: the first entry of the session.
StopBySessionId(sid) ==
  \E p \in Pids : FirstOf(p, EntriesOf(sid)) /\ StopSession(p)

\* The 500ms check finds the process gone.  The 5s timer stays armed.
StopSeesExit(p) ==
  /\ p \in stopWait /\ kind[p] = "free"
  /\ stopWait' = stopWait \ {p}
  /\ sessions' = DelIn(sessions, {p})
  /\ UNCHANGED <<os, history, killTimer, starts, link, spawned, adopts,
                 victims>>

\* Mutant: the client of a reaped attached entry is not destroyed.
ReapEntriesOnly ==
  LET dead == {p \in Pids : /\ sessions.at[p] # Absent
                            /\ sessions.at[p].alive /\ kind[p] = "free"}
  IN
  /\ dead # {}
  /\ sessions' = DelIn(sessions, dead)
  /\ UNCHANGED <<os, history, stopWait, killTimer, starts, link, spawned,
                 adopts, victims>>

\* Mutant: attached entries are left to their client.
ReapSpawnedOnly ==
  LET dead == {p \in Pids : /\ sessions.at[p] # Absent /\ kind[p] = "free"
                            /\ sessions.at[p].alive /\ sessions.at[p].process}
  IN
  /\ dead # {}
  /\ sessions' = DelIn(sessions, dead)
  /\ UNCHANGED <<os, history, stopWait, killTimer, starts, link, spawned,
                 adopts, victims>>

\* One sweep of the reaper.
Reap ==
  LET dead == {p \in Pids : /\ sessions.at[p] # Absent
                            /\ sessions.at[p].alive /\ kind[p] = "free"}
  IN
  /\ dead # {}
  /\ sessions' = DelIn(sessions, dead)
  /\ Disconnect({sessions.at[p].op :
                   p \in {q \in dead : sessions.at[q].kind = "attached"}})
  /\ UNCHANGED <<kind, conv, ready, denies, used, history, stopWait,
                 killTimer, starts, spawned, adopts, victims>>

----------------------------------------------------------------------------
(* adoptSession                                                            *)

\* Up to its await.  Without a workDir the registry's is taken.
AdoptSession(a, sid, d) ==
  /\ adopt[a] = "idle"
  /\ \/ /\ AliveEntriesOf(sid) # {}
        /\ adopt' = [adopt EXCEPT ![a] = "yes"]
        /\ UNCHANGED <<wanted, link>>
     \/ /\ AliveEntriesOf(sid) = {} /\ FindLive(<<sid, d>>) = {}
        /\ adopt' = [adopt EXCEPT ![a] = "no"]
        /\ UNCHANGED <<wanted, link>>
     \/ /\ AliveEntriesOf(sid) = {}
        /\ adopt' = [adopt EXCEPT ![a] = "attaching"]
        /\ wanted' = [wanted EXCEPT ![a] = <<sid, d>>]
        /\ \E p \in FindLive(<<sid, d>>) :
             link' = [link EXCEPT ![<<a, "adopt">>] = AttachingTo(p)]
  /\ UNCHANGED <<os, map, starts, spawned, victims>>

\* The attach ended; a failure is not followed by a spawn.
Adopted(a) ==
  LET o == <<a, "adopt">> IN
  /\ link[o].st = "attaching"
  /\ \E outcome \in Outcomes(link[o].pid, wanted[a]) :
       \/ /\ outcome \in Recorded
          /\ RecordAttach(o, wanted[a], outcome)
          /\ adopt' = [adopt EXCEPT ![a] = "yes"]
       \/ /\ outcome \notin Recorded
          /\ link' = [link EXCEPT ![o] = Over]
          /\ adopt' = [adopt EXCEPT ![a] =
                         IF outcome = "already_attached" THEN "yes" ELSE "no"]
          /\ UNCHANGED <<sessions, peer>>
  /\ UNCHANGED <<kind, conv, ready, denies, used, history, stopWait,
                 killTimer, starts, spawned, wanted, victims>>

----------------------------------------------------------------------------
(* The operating system, the terminal and the CLIs.                        *)

Born(p, k, cv) ==
  /\ kind' = [kind EXCEPT ![p] = k]
  /\ conv' = [conv EXCEPT ![p] = cv]
  /\ used' = used \cup {p}

\* A user opens a CLI on a conversation, and may revoke attach.
UserOpensCli(p, cv, revoked) ==
  /\ p \in FreePids
  /\ Born(p, "user", cv)
  /\ ready' = ready \cup {p}
  /\ denies' = IF revoked THEN denies \cup {p} ELSE denies
  /\ UNCHANGED <<peer, map, starts, link, spawned, adopts, victims>>

\* The terminal of a spawn runs the CLI it was given.
TermRunsCli(o, p) ==
  /\ o \in running /\ runs[o] = NoPid /\ p \in FreePids
  /\ Born(p, "cli", ChildConv(o))
  /\ runs' = [runs EXCEPT ![o] = p]
  /\ UNCHANGED <<ready, peer, denies, map, starts, link, child, running,
                 exited, tabRefused, resolved, adopts, victims>>

\* A CLI of ours has mounted its screen and publishes its socket.
CliPublishes(p) ==
  /\ kind[p] = "cli" /\ p \notin ready
  /\ ready' = ready \cup {p}
  /\ UNCHANGED <<kind, conv, peer, denies, used, map, starts, link, spawned,
                 adopts, victims>>

\* A CLI ends the attach: its user detached, or its socket to the
\* orchestrator closed.
CliDropsPeer(p) ==
  /\ peer[p] # NoOne
  /\ peer' = [peer EXCEPT ![p] = NoOne]
  /\ UNCHANGED <<kind, conv, ready, denies, used, map, starts, link, spawned,
                 adopts, victims>>

Gone(p) ==
  /\ kind' = [kind EXCEPT ![p] = "free"]
  /\ conv' = [conv EXCEPT ![p] = NoConv]
  /\ ready' = ready \ {p} /\ denies' = denies \ {p}
  /\ peer' = [peer EXCEPT ![p] = NoOne]
  /\ LET os_ == {o \in running : child[o] = p} IN
       /\ running' = running \ os_ /\ exited' = exited \cup os_
  /\ UNCHANGED <<used, starts, link, child, runs, resolved, adopts>>

\* A process ends, by itself or by a signal.
ProcessExits(p) ==
  /\ kind[p] # "free"
  /\ Gone(p)
  /\ UNCHANGED <<map, tabRefused, victims>>

\* gnome-terminal refuses the borrowed tab, says so and exits without
\* running the CLI.
TabRefused(o) ==
  /\ o \in running /\ o[2] = "tab" /\ kind[child[o]] = "term"
  /\ runs[o] = NoPid
  /\ Gone(child[o])
  /\ tabRefused' = tabRefused \cup {o}
  /\ UNCHANGED <<map, victims>>

\* The 5s timer of stopSession: SIGKILL to the pid, also when the process
\* that was stopped has been gone for seconds.
StopKill(p) ==
  /\ p \in killTimer
  /\ killTimer' = killTimer \ {p}
  /\ Signal(p)
  /\ Gone(p)
  /\ IF p \in stopWait
     THEN stopWait' = stopWait \ {p} /\ sessions' = DelIn(sessions, {p})
     ELSE UNCHANGED <<stopWait, sessions>>
  /\ UNCHANGED <<history, tabRefused>>

----------------------------------------------------------------------------

StartStep(c) ==
  NoSuchDir(c) \/ Accessed(c) \/ DirectAttached(c)
SpawnStep(o) ==
  PollFinds(o) \/ PollExpires(o) \/ PollAttached(o)
\* Mutant: without the 5s timer.
StopWithoutTimer(p) == StopSeesExit(p)
StopStep(p) ==
  StopSeesExit(p) \/ StopKill(p)

World ==
  \/ \E p \in Pids :
       \/ \E cv \in Sids \X Dirs, revoked \in BOOLEAN :
            UserOpensCli(p, cv, revoked)
       \/ \E o \in Spawns : TermRunsCli(o, p)
       \/ CliPublishes(p) \/ CliDropsPeer(p) \/ ProcessExits(p)
  \/ \E o \in Spawns : TabRefused(o)

Next ==
  \/ \E c \in Calls : (\E k \in Keys : StartSession(c, k)) \/ StartStep(c)
  \/ \E o \in Spawns : SpawnStep(o) \/ OnExit(o)
  \/ \E o \in Ops : ClientLost(o)
  \/ \E p \in Pids : StopSession(p) \/ StopStep(p) \/ HistoryExpires(p)
  \/ \E sid \in Sids : StopBySessionId(sid)
  \/ Reap
  \/ \E a \in Adopts :
       (\E sid \in Sids, d \in Dirs : AdoptSession(a, sid, d)) \/ Adopted(a)
  \/ World

Spec == Init /\ [][Next]_vars

\* What the event loop owes the code: a file access and an attach end (the
\* attach has its own time limits), the poll has a deadline, exits are
\* delivered, timers run.  Nothing is owed by processes or users.
FairSpec ==
  /\ Spec
  /\ \A c \in Calls : WF_vars(StartStep(c))
  /\ \A o \in Spawns : WF_vars(SpawnStep(o)) /\ WF_vars(OnExit(o))
  /\ \A p \in Pids : WF_vars(StopStep(p)) /\ WF_vars(HistoryExpires(p))
  /\ \A a \in Adopts : WF_vars(Adopted(a))
  /\ \A o \in Ops : WF_vars(ClientLost(o))
  /\ WF_vars(Reap)

----------------------------------------------------------------------------
(* Properties.                                                             *)

Pending == {"access", "attach", "spawn"}
Open(o) == link[o].st = "open"
Unresolved(c) == {o \in Spawns \ resolved : o[1] = c /\ child[o] # NoPid}

\* A session and directory never has two starts under way: the retries of a
\* phone share one, through every await (_starting).
OneAttemptPerKey ==
  \A c, d \in Calls :
    /\ key[c] = key[d] /\ key[c][1] # NoSid
    /\ flight[c] \in Pending /\ flight[d] \in Pending
    => c = d

\* The bookkeeping of the poller, the exit handler and the retry agree: a
\* start that waits for a spawn has exactly one attempt that can still settle
\* it, a settled start has none left, and _starting holds just the keys of
\* the starts under way.
StartsMatchAttempts ==
  /\ \A c \in Calls :
       Cardinality(Unresolved(c)) = IF flight[c] = "spawn" THEN 1 ELSE 0
  /\ starting = {k \in Keys : /\ k[1] # NoSid
                              /\ \E c \in Calls : /\ key[c] = k
                                                  /\ flight[c] \in Pending}

\* The sessionIds a start may end up with.
SidsOf(c) == IF key[c][1] = NoSid THEN Spawns \cap ({c} \X {"tab", "window"})
             ELSE {key[c][1]}

AliveFor(c) ==
  {p \in Pids : /\ sessions.at[p] # Absent /\ sessions.at[p].alive
                /\ sessions.at[p].sid \in SidsOf(c)}

Contract == INSTANCE StartContract WITH
  answer <- [c \in Calls |-> IF flight[c] = "idle" THEN "none"
                             ELSE IF flight[c] \in Pending THEN "pending"
                             ELSE flight[c]],
  listed <- {c \in Calls : AliveFor(c) # {}},
  linked <- {c \in Calls : \E p \in AliveFor(c) :
               sessions.at[p].kind = "attached" /\ sessions.at[p].dir = key[c][2]},
  driven <- {c \in Calls : \E p \in FindLive(key[c]) : peer[p] # NoOne}

\* listSessions: the entries, and the CLIs in the registry that have none.  What is
\* not on the list was a child of ours once ("gone") or not.  A CLI is in the
\* registry from when it publishes its socket (one that has no socket would be
\* listed too; such CLIs are left out of this module).
listSessions ==
  LET Listing(e) == IF ~e.alive THEN "ended"
                    ELSE IF e.kind = "attached" THEN "attached" ELSE "live"
  IN [p \in Pids |->
        IF sessions.at[p] # Absent THEN Listing(sessions.at[p])
        ELSE IF p \in ready /\ kind[p] \in {"user", "cli"} THEN "adoptable"
        ELSE IF \E o \in Spawns : child[o] = p THEN "gone" ELSE "none"]

Headless(o) == runs[o] = child[o]

Lifetime == INSTANCE SessionContract WITH
  terminals <- {child[o] : o \in {s \in running : ~Headless(s)}},
  headless <- {child[o] : o \in {s \in running : Headless(s)}},
  listed <- listSessions

\* startSession keeps its contract (StartContract): no late attach, late exit
\* or attempt that the retry replaced changes an answer, and a session that
\* the phone is told of is there.  The list of sessions keeps its own
\* (SessionContract): no stop, retry, sweep or timer takes a terminal that runs
\* off it, loses a CLI we run without one, or brings back a child that ended.
KeepsContract == Contract!Spec /\ Lifetime!Spec

\* No signal ever reaches a CLI the user opened (stopSession: "Detach it --
\* NEVER kill it"), whatever stops, failed spawns and timers do.
UserCliSpared == "user" \notin victims

\* The map and the attach clients agree: a client that is open has its entry
\* (but for a child of ours that has ended, whose entry a stop or the history
\* may take first), and an attached entry has its open client, so the phone
\* never talks to a session that is gone and none is out of its reach.
EntriesMatchClients ==
  /\ \A o \in Ops : Open(o) =>
       LET p == link[o].pid
           e == sessions.at[p]
       IN  \/ e # Absent /\ e.kind = "attached" /\ e.op = o
           \/ kind[p] = "free" /\ \E s \in Spawns : child[s] = p
  /\ \A p \in Pids : LET e == sessions.at[p] IN
       e # Absent /\ e.kind = "attached" => link[e.op] = OpenTo(p)

\* A child that runs is within reach of a stop or of an adopt: a terminal has
\* its entry, and a CLI without one has an entry, spawned or attached, or is in
\* the registry, once it was attached and a stop released it.
ChildWithinReach ==
  \A o \in running : LET e == sessions.at[child[o]] IN
    \/ e # Absent /\ e.alive /\ (e.kind = "attached" => Headless(o))
    \/ e = Absent /\ Headless(o) /\ child[o] \in ready

\* Starts, entries, clients and children never fall apart.
SessionsInStep ==
  TypeOK /\ StartsMatchAttempts /\ EntriesMatchClients /\ ChildWithinReach

\* Every start is answered, by the attempt it shares or its own: no order of
\* exits, polls and attach results leaves the phone waiting.
StartSettles ==
  \A c \in Calls : shares[c] # NoOne
    ~> \E d \in Calls : shares[c] = d /\ flight[d] \in Settled

\* A stop returns, also when the process ignores SIGTERM.
StopEnds == \A p \in Pids : p \in stopWait ~> p \notin stopWait

\* An entry that is alive for a process that is gone does not stay.
DeadEntryLeaves ==
  \A p \in Pids :
    sessions.at[p] # Absent /\ sessions.at[p].alive /\ kind[p] = "free"
    ~> sessions.at[p] = Absent \/ ~sessions.at[p].alive \/ kind[p] # "free"
=============================================================================
