--------------------------- MODULE SessionRegistry ---------------------------
(***************************************************************************)
(* waitForLiveSession (src/session-registry.js).  Each system call of a    *)
(* scan sees the machine as it is then: between two of them CLIs start,    *)
(* publish, switch conversation, end and crash, and the system gives their *)
(* pids to other processes.                                                *)
(*                                                                         *)
(* What an entry says of sessionId, kind, attachSocketPath and cwd is one   *)
(* thing here: whether it asks to be attached to for the asked conversation *)
(* in the asked directory.  A process is known by its pid and start ticks. *)
(*                                                                         *)
(* External: the processes of the machine, and what a CLI writes about     *)
(* itself.  The attach to what is found is AttachClient's.                 *)
(***************************************************************************)
EXTENDS Naturals, Sequences

CONSTANTS
  Pids, NoPid,
  MaxTicks      \* bound: processes that are started, Init's included

ASSUME TicksAssumption == MaxTicks \in Nat \ {0}

Talks == {"asked", "else"}
Null == 0       \* no process, no socket, no recorded startTicks
Ticks == 1 .. MaxTicks
NoProc == [ticks |-> Null, on |-> "none"]
Procs == {NoProc} \cup [ticks : Ticks, on : Talks \cup {"none"}]
Asks(t) == [says |-> "asked", ticks |-> t]
Else == [says |-> "else", ticks |-> Null]
Entries == {Else} \cup {Asks(t) : t \in Ticks \cup {Null}}
NoFile == [says |-> "no file", ticks |-> Null]
Torn == [says |-> "torn", ticks |-> Null]   \* not a JSON object

VARIABLES
  proc,      \* pid -> its process; one that is no CLI is on "none"
  born,      \* start ticks given out so far
  file,      \* pid -> <pid>.json
  old,       \* pids whose file is older than MAX_PID_FILE_AGE_MS
  sock,      \* pid -> who bound attach-<pid>.sock
  pc,        \* what the scan does next, or how the wait ended
  todo,      \* names of readdir not looked at yet
  cur,       \* the pid being looked at, if any
  live,      \* entries found, with their pids, that are not matched yet
  \* History, while a scan is under way: pids with one process, and pids that
  \* their CLI kept published for the asked conversation, ever since it began.
  since, steady

env == <<proc, born, file, old, sock>>
vars == <<env, pc, todo, cur, live, since, steady>>

Ended == {"threw", "found"}

Alive(p) == proc[p] # NoProc

\* /proc/<pid>/stat: Null for a process that is gone.
StartTicks(p) == proc[p].ticks

\* lstat of the socket: it outlives a process that crashed.
SocketThere(p) == sock[p] # Null

\* The CLI of this pid is on the asked conversation and all it published is
\* so: what findLiveSession looks for.
Published(p) ==
  /\ proc[p].on = "asked" /\ sock[p] = proc[p].ticks
  /\ file[p] \in {Asks(Null), Asks(proc[p].ticks)}

TypeOK ==
  /\ proc \in [Pids -> Procs] /\ born \in 0 .. MaxTicks
  /\ file \in [Pids -> Entries \cup {NoFile, Torn}]
  /\ old \subseteq Pids /\ sock \in [Pids -> Ticks \cup {Null}]
  /\ pc \in {"sleep", "list", "stat", "unlink", "read", "ticks"} \cup Ended
  /\ todo \subseteq Pids /\ cur \in Pids \cup {NoPid}
  /\ live \in Seq([pid : Pids, entry : Entries])
  /\ since \subseteq Pids /\ steady \subseteq since

\* A machine some files and sockets are left on, of which none is alive.
Init ==
  /\ proc = [p \in Pids |-> NoProc] /\ born = 1
  /\ file \in [Pids -> {NoFile, Asks(1), Asks(Null)}]
  /\ old \in SUBSET {p \in Pids : file[p] # NoFile}
  /\ sock = [p \in Pids |-> IF file[p] = NoFile THEN Null ELSE 1]
  /\ pc = "sleep" /\ todo = {} /\ cur = NoPid /\ live = <<>>
  /\ since = {} /\ steady = {}

----------------------------------------------------------------------------
(* The machine (external).                                                 *)

\* The history of the scan under way.
Watch ==
  /\ since' = {p \in since : proc'[p].ticks = proc[p].ticks}
  /\ steady' = {p \in steady : Published(p)'}

Forget == since' = {} /\ steady' = {}

Scan == <<pc, todo, cur, live>>

Starts(p) ==
  /\ ~Alive(p) /\ born < MaxTicks
  /\ born' = born + 1
  /\ \E on \in Talks \cup {"none"} :
       proc' = [proc EXCEPT ![p] = [ticks |-> born + 1, on |-> on]]
  /\ UNCHANGED <<file, old, sock>>

Binds(p) ==
  /\ proc[p].on \in Talks /\ sock[p] # proc[p].ticks
  /\ sock' = [sock EXCEPT ![p] = proc[p].ticks]
  /\ UNCHANGED <<proc, born, file, old>>

\* The file is written anew: first it is torn, then whole, with start ticks
\* if the CLI could read them.
Writes(p) ==
  /\ proc[p].on \in Talks
  /\ file' = [file EXCEPT ![p] = Torn] /\ old' = old \ {p}
  /\ UNCHANGED <<proc, born, sock>>

Publishes(p) ==
  /\ proc[p].on \in Talks /\ file[p] = Torn
  /\ \E e \in IF proc[p].on = "asked" /\ sock[p] = proc[p].ticks
              THEN {Asks(Null), Asks(proc[p].ticks)} ELSE {Else} :
       file' = [file EXCEPT ![p] = e]
  /\ UNCHANGED <<proc, born, old, sock>>

\* The user goes to another conversation in the same CLI.
Moves(p) ==
  /\ proc[p].on \in Talks
  /\ \E on \in Talks \ {proc[p].on} : proc' = [proc EXCEPT ![p].on = on]
  /\ UNCHANGED <<born, file, old, sock>>

\* An orderly exit takes the file and the socket along, a crash does not.
Exits(p) ==
  /\ Alive(p)
  /\ proc' = [proc EXCEPT ![p] = NoProc]
  /\ \/ UNCHANGED <<file, old, sock>>
     \/ /\ proc[p].on \in Talks
        /\ file' = [file EXCEPT ![p] = NoFile] /\ old' = old \ {p}
        /\ sock' = [sock EXCEPT ![p] = Null]
  /\ UNCHANGED born

\* Days pass: not within a scan.
Ages(p) ==
  /\ file[p] # NoFile /\ p \notin old /\ pc = "sleep"
  /\ old' = old \cup {p}
  /\ UNCHANGED <<proc, born, file, sock>>

\* Bound: the machine is looked at until the wait has ended.
Machine(p) ==
  /\ pc \notin Ended
  /\ \/ Starts(p) \/ Binds(p) \/ Writes(p) \/ Publishes(p)
     \/ Moves(p) \/ Exits(p) \/ Ages(p)
  /\ Watch /\ UNCHANGED Scan

----------------------------------------------------------------------------
(* listLiveSessions                                                        *)

\* readdirSync: 250ms after the last scan, or at once.
Readdir ==
  /\ pc = "sleep"
  /\ pc' = "list" /\ todo' = {p \in Pids : file[p] # NoFile} /\ live' = <<>>
  /\ since' = {p \in Pids : Alive(p)} /\ steady' = {p \in Pids : Published(p)}
  /\ UNCHANGED <<env, cur>>

\* Mutant: the age decides, whether the process is alive or not.
CheckAgeOnly ==
  /\ pc = "list"
  /\ \E p \in todo :
       /\ cur' = p /\ todo' = todo \ {p}
       /\ pc' = IF Alive(p) /\ p \notin old THEN "read" ELSE "stat"
  /\ UNCHANGED <<env, live, since, steady>>

\* The next name, in any order: isAlive.
CheckAlive ==
  /\ pc = "list"
  /\ \E p \in todo :
       /\ cur' = p /\ todo' = todo \ {p}
       /\ pc' = IF Alive(p) THEN "read" ELSE "stat"
  /\ UNCHANGED <<env, live, since, steady>>

\* A file that is gone has the age 0.
StatAge ==
  /\ pc = "stat"
  /\ IF cur \in old THEN pc' = "unlink" /\ UNCHANGED cur
                  ELSE pc' = "list" /\ cur' = NoPid
  /\ UNCHANGED <<env, todo, live, since, steady>>

\* unlinkQuiet removes what has the name now.
Sweep ==
  /\ pc = "unlink"
  /\ file' = [file EXCEPT ![cur] = NoFile] /\ old' = old \ {cur}
  /\ pc' = "list" /\ cur' = NoPid
  /\ UNCHANGED <<proc, born, sock, todo, live, since, steady>>

\* Mutant: a registry file that does not parse ends the scan.
ReadEntryOrGiveUp ==
  /\ pc = "read"
  /\ IF file[cur] \in Entries
     THEN live' = Append(live, [pid |-> cur, entry |-> file[cur]]) /\ UNCHANGED todo
     ELSE todo' = {} /\ UNCHANGED live
  /\ pc' = "list" /\ cur' = NoPid
  /\ UNCHANGED <<env, since, steady>>

\* A file that is gone or does not parse is passed over.
ReadEntry ==
  /\ pc = "read"
  /\ live' = IF file[cur] \in Entries
             THEN Append(live, [pid |-> cur, entry |-> file[cur]]) ELSE live
  /\ pc' = "list" /\ cur' = NoPid
  /\ UNCHANGED <<env, todo, since, steady>>

----------------------------------------------------------------------------
(* findLiveSession, waitForLiveSession                                     *)

\* All files are looked at.
Matching == pc = "list" /\ todo = {}

\* The first of the entries left: what the file said, and the socket of now.
Match ==
  /\ Matching /\ live # <<>>
  /\ LET e == Head(live).entry  p == Head(live).pid IN
     IF e # Else /\ SocketThere(p)
     THEN pc' = "ticks" /\ UNCHANGED live
     ELSE live' = Tail(live) /\ UNCHANGED pc
  /\ UNCHANGED <<env, todo, cur, since, steady>>

\* A process that is gone, and an entry without startTicks, pass.
CompareTicks ==
  /\ pc = "ticks"
  /\ LET e == Head(live).entry  p == Head(live).pid IN
     IF e.ticks = Null \/ StartTicks(p) \in {Null, e.ticks}
     THEN pc' = "found" /\ UNCHANGED live /\ Forget
     ELSE pc' = "list" /\ live' = Tail(live) /\ UNCHANGED <<since, steady>>
  /\ UNCHANGED <<env, todo, cur>>

\* The deadline is still to come: another scan, 250ms later.
NoneFound ==
  /\ Matching /\ live = <<>>
  /\ pc' = "sleep" /\ Forget
  /\ UNCHANGED <<env, todo, cur, live>>

\* Mutant: each scan is given a deadline of its own.
TimesOutLater == FALSE /\ UNCHANGED vars

\* The deadline has passed.
TimesOut ==
  /\ Matching /\ live = <<>>
  /\ pc' = "threw" /\ Forget
  /\ UNCHANGED <<env, todo, cur, live>>

----------------------------------------------------------------------------

WaitStep ==
  \/ Readdir \/ CheckAlive \/ StatAge \/ Sweep \/ ReadEntry
  \/ Match \/ CompareTicks \/ NoneFound \/ TimesOut

Next == WaitStep \/ \E p \in Pids : Machine(p)

Spec == Init /\ [][Next]_vars

\* The code runs on, and time passes the deadline; the machine owes nothing.
FairSpec == Spec /\ WF_vars(WaitStep) /\ SF_vars(TimesOut)

----------------------------------------------------------------------------
(* Properties.                                                             *)

\* A CLI that was published for the asked conversation during a whole scan is
\* not missed by it, whatever else lies in the registry and changes there.
SteadyIsFound == Matching /\ live = <<>> => steady = {}

\* The sweep takes no file of a process that lives since the scan began, be
\* the file as old as it may.
SweepSparesLive == [][Sweep => cur \notin since]_vars

\* The wait ends, however the registry changes.
WaitEnds == <>(pc \in Ended)

=============================================================================
