----------------------- MODULE RemoteSessions_proofs -----------------------
(***************************************************************************)
(* Proofs about RemoteSessions: types, that starts, entries, clients and   *)
(* children stay in step, that no CLI of the user gets a signal, and that *)
(* startSession and the list of sessions keep their contracts.  For any    *)
(* conversations, pids, starts and adopts.                                 *)
(***************************************************************************)
EXTENDS RemoteSessions, FiniteSetTheorems, TLAPS

Tab(c) == <<c, "tab">>
Window(c) == <<c, "window">>
Direct(c) == <<c, "direct">>
Adopting(a) == <<a, "adopt">>

Spawned(o) == child[o] # NoPid
ChildPids == {child[o] : o \in Spawns}
TermPids == {child[o] : o \in {s \in Spawns : ~Headless(s)}}

\* Processes have pids that were given out, and CLIs run conversations.
Processes ==
  \A p \in Pids : /\ kind[p] # "free" => p \in used
                  /\ kind[p] \in {"user", "cli"} => conv[p] \in Convs

\* A pid that was a pty child is one for good, of one spawn: a terminal, or
\* headless a CLI, for as long as it runs.
Children ==
  /\ \A o \in Spawns : Spawned(o) =>
       /\ child[o] \in used
       /\ kind[child[o]] \in {IF Headless(o) THEN "cli" ELSE "term", "free"}
       /\ o \in running <=> kind[child[o]] # "free"
  /\ \A o, s \in Spawns : Spawned(o) /\ child[o] = child[s] => o = s
  /\ \A o \in Spawns : ~Spawned(o) =>
       /\ link[o] = Idle /\ runs[o] = NoPid
       /\ o \notin running /\ o \notin exited /\ o \notin resolved
  /\ \A o \in running : o \notin exited

\* How far a start is and how far its direct attach is.
Flights ==
  \A c \in Calls :
    /\ flight[c] # "idle" => key[c] \in Keys /\ shares[c] # NoOne
    /\ flight[c] \in {"idle", "access"} => link[Direct(c)] = Idle
    /\ flight[c] = "attach" <=> link[Direct(c)].st = "attaching"
    /\ flight[c] = "spawn" => link[Direct(c)] = Over

\* A start waits for the tab or for the window that replaced it, and for one
\* that can still settle it.
Attempts ==
  \A c \in Calls :
    /\ Spawned(Tab(c)) /\ Tab(c) \notin resolved => ~Spawned(Window(c))
    /\ Spawned(Window(c)) => Spawned(Tab(c))
    /\ flight[c] \in {"idle", "access", "attach"} => ~Spawned(Tab(c))
    /\ flight[c] = "spawn" <=> \E o \in {Tab(c), Window(c)} :
                                 Spawned(o) /\ o \notin resolved

\* _starting holds the keys of the starts under way, each of one start.
Sharing ==
  /\ starting = {k \in Keys : /\ k[1] # NoSid
                              /\ \E c \in Calls : /\ key[c] = k
                                                  /\ flight[c] \in Pending}
  /\ OneAttemptPerKey

\* A client is for a pid that was given out, and never for a terminal.
Clients ==
  /\ \A o \in Ops : link[o].pid # NoPid =>
       link[o].pid \in used /\ link[o].pid \notin TermPids
  /\ \A o \in Ops : link[o].st \in {"attaching", "open"} => link[o].pid # NoPid
  /\ \A a \in Adopts :
       /\ adopt[a] = "idle" => link[Adopting(a)] = Idle
       /\ link[Adopting(a)].st = "attaching" => wanted[a] \in Sids \X Dirs

\* A spawned entry is at its pty child, an attached one never at a terminal,
\* and one that is marked as ended at a pty child.
Placed ==
  \A p \in Pids : sessions.at[p] # Absent =>
    LET e == sessions.at[p] IN
    /\ e.kind = "spawned" => e.op \in Spawns /\ child[e.op] = p
    /\ e.kind = "attached" => p \in used /\ p \notin TermPids
    /\ ~e.alive => p \in ChildPids

\* The entry of a child that runs says so; what was attached in its place, and
\* may be gone again, is a CLI that is in the registry.
RunningHasEntry ==
  \A o \in running :
    LET e == sessions.at[child[o]] IN
    /\ e # Absent => e.alive /\ (e.kind = "spawned" => e.process)
    /\ e = Absent \/ e.kind = "attached" => Headless(o) /\ child[o] \in ready

\* Stops, SIGKILLs and deletions are due for pty children only, and deletions
\* for those that ended.
Timers ==
  /\ \A p \in stopWait \cup killTimer \cup history : p \in ChildPids
  /\ \A p \in history, o \in running : child[o] # p

\* A client that is open has its entry, but at a pty child that has ended.
OpenHasEntry ==
  \A o \in Ops : Open(o) =>
    LET e == sessions.at[link[o].pid] IN
    \/ e # Absent /\ e.kind = "attached" /\ e.op = o
    \/ kind[link[o].pid] = "free" /\ link[o].pid \in ChildPids

\* The client of an attached entry is the one it was recorded for, open or, if
\* an attach can be lost in the read that completes it, closed.
EntryHasClient ==
  \A p \in Pids :
    sessions.at[p] # Absent /\ sessions.at[p].kind = "attached" =>
      LET o == sessions.at[p].op IN
      link[o] = OpenTo(p) \/ (Coalesced /\ link[o] = Over)

Inv ==
  /\ TypeOK /\ Processes /\ Children /\ Flights /\ Attempts /\ Sharing
  /\ Clients /\ Placed /\ RunningHasEntry /\ Timers
  /\ OpenHasEntry /\ EntryHasClient /\ UserCliSpared

----------------------------------------------------------------------------
(* Names and operators.                                                    *)

LEMMA OpNames ==
  /\ \A c \in Calls : /\ Tab(c) \in Spawns /\ Window(c) \in Spawns
                      /\ Direct(c) \in Ops \ Spawns
                      /\ Tab(c) # Window(c)
                      /\ Tab(c)[1] = c /\ Window(c)[1] = c
                      /\ Tab(c)[2] = "tab" /\ Window(c)[2] = "window"
  /\ \A c, d \in Calls : Direct(c) = Direct(d) => c = d
  /\ \A a \in Adopts : Adopting(a) \in Ops \ Spawns
  /\ \A a, b \in Adopts : Adopting(a) = Adopting(b) => a = b
  /\ \A a \in Adopts, c \in Calls : Adopting(a) # Direct(c)
  /\ Spawns \subseteq Ops
  /\ \A o \in Spawns : o[1] \in Calls /\ o \in {Tab(o[1]), Window(o[1])}
BY ConstantsAssumption DEF Tab, Window, Direct, Adopting, Spawns, Ops

\* The states of a link, by their fields.
LEMMA LinkStates ==
  /\ {Idle, Polling, Over} \subseteq Links
  /\ \A p \in Pids : AttachingTo(p) \in Links /\ OpenTo(p) \in Links
  /\ Idle.st = "idle" /\ Polling.st = "polling" /\ Over.st = "over"
  /\ Idle.pid = NoPid /\ Polling.pid = NoPid /\ Over.pid = NoPid
  /\ \A p \in Pids : AttachingTo(p).st = "attaching" /\ AttachingTo(p).pid = p
  /\ \A p \in Pids : OpenTo(p).st = "open" /\ OpenTo(p).pid = p
  /\ \A l \in Links : l.st = "open" => l = OpenTo(l.pid)
BY DEF Links, Idle, Polling, Over, AttachingTo, OpenTo

\* The keys a phone may ask for, and the conversations they become.
LEMMA KeyFacts ==
  /\ \A k \in Keys : k[2] \in Dirs /\ k[1] \in Sids \cup {NoSid}
  /\ \A k \in Keys : k = <<k[1], k[2]>>
  /\ \A k \in Keys : k[1] # NoSid => k \in Convs
  /\ Sids \X Dirs \subseteq Convs
  /\ \A v \in Convs : v[1] \in Sids \cup Spawns /\ v[1] # NoSid /\ v[2] \in Dirs
BY ConstantsAssumption, NamesAssumption DEF Keys, Convs

\* What a spawn runs is a conversation, and its entry is one of the map's.
LEMMA SpawnFacts ==
  ASSUME NEW o \in Spawns, key[o[1]] \in Keys
  PROVE  ChildConv(o) \in Convs /\ SpawnedEntry(o) \in Entries
<1>1. SpawnedEntry(o) \in Entries
  BY KeyFacts, OpNames DEF SpawnedEntry, Entries
<1>2. ChildConv(o) \in Convs
  BY KeyFacts DEF ChildConv, ChildSid, Convs
<1> QED  BY <1>1, <1>2

LEMMA AttachedFacts ==
  ASSUME NEW o \in Ops, NEW cv, cv[1] \in Sids \cup Spawns \cup {NoSid},
         cv[2] \in Dirs
  PROVE  AttachedEntry(o, cv) \in Entries
BY DEF AttachedEntry, Entries

Maps == [at : [Pids -> Entries \cup {Absent}], order : SUBSET (Pids \X Pids)]

LEMMA PutInFacts ==
  ASSUME NEW m \in Maps, NEW p \in Pids, NEW e \in Entries
  PROVE  /\ PutIn(m, p, e) \in Maps
         /\ PutIn(m, p, e).at = [m.at EXCEPT ![p] = e]
BY DEF Maps, PutIn

LEMMA DelInFacts ==
  ASSUME NEW m \in Maps, NEW ps
  PROVE  /\ DelIn(m, ps) \in Maps
         /\ DelIn(m, ps).at = [p \in Pids |-> IF p \in ps THEN Absent ELSE m.at[p]]
BY DEF Maps, DelIn

----------------------------------------------------------------------------
(* Steps.  What a step leaves alone keeps the parts of the invariant that  *)
(* are about it.                                                           *)

LEMMA Frame ==
  /\ Processes /\ UNCHANGED <<kind, used, conv>> => Processes'
  /\ Children /\ UNCHANGED <<child, runs, used, kind, link, running, exited, resolved>>
     => Children'
  /\ Flights /\ UNCHANGED <<flight, key, shares, link>> => Flights'
  /\ Attempts /\ UNCHANGED <<child, resolved, flight>> => Attempts'
  /\ Sharing /\ UNCHANGED <<starting, key, flight>> => Sharing'
  /\ Clients /\ UNCHANGED <<link, used, child, runs, adopt, wanted>> => Clients'
  /\ Placed /\ UNCHANGED <<sessions, child, runs, used>> => Placed'
  /\ /\ RunningHasEntry /\ ready \subseteq ready'
     /\ UNCHANGED <<running, child, runs, sessions>>
     => RunningHasEntry'
  /\ Timers /\ UNCHANGED <<stopWait, killTimer, history, child, running>> => Timers'
  /\ OpenHasEntry /\ UNCHANGED <<link, sessions, kind, child>> => OpenHasEntry'
  /\ EntryHasClient /\ UNCHANGED <<link, sessions>> => EntryHasClient'
  /\ UserCliSpared /\ UNCHANGED victims => UserCliSpared'
<1>1. Processes /\ UNCHANGED <<kind, used, conv>> => Processes'
  BY DEF Processes
<1>2. Children /\ UNCHANGED <<child, runs, used, kind, link, running, exited, resolved>>
      => Children'
  BY DEF Children, Spawned, Headless
<1>3. Flights /\ UNCHANGED <<flight, key, shares, link>> => Flights'
  BY DEF Flights
<1>4. Attempts /\ UNCHANGED <<child, resolved, flight>> => Attempts'
  BY DEF Attempts, Spawned
<1>5. Sharing /\ UNCHANGED <<starting, key, flight>> => Sharing'
  BY DEF Sharing, OneAttemptPerKey
<1>6. Clients /\ UNCHANGED <<link, used, child, runs, adopt, wanted>> => Clients'
  BY DEF Clients, TermPids, Headless
<1>7. Placed /\ UNCHANGED <<sessions, child, runs, used>> => Placed'
  BY DEF Placed, TermPids, ChildPids, Headless
<1>8. /\ RunningHasEntry /\ ready \subseteq ready'
      /\ UNCHANGED <<running, child, runs, sessions>>
      => RunningHasEntry'
  BY DEF RunningHasEntry, Headless
<1>9. Timers /\ UNCHANGED <<stopWait, killTimer, history, child, running>> => Timers'
  BY DEF Timers, ChildPids
<1>10. OpenHasEntry /\ UNCHANGED <<link, sessions, kind, child>> => OpenHasEntry'
  BY DEF OpenHasEntry, Open, ChildPids
<1>11. EntryHasClient /\ UNCHANGED <<link, sessions>> => EntryHasClient'
  BY DEF EntryHasClient
<1>12. UserCliSpared /\ UNCHANGED victims => UserCliSpared'
  BY DEF UserCliSpared
<1> QED
  BY <1>1, <1>2, <1>3, <1>4, <1>5, <1>6, <1>7, <1>8, <1>9, <1>10, <1>11, <1>12

\* A start joins an attempt, finds an entry, or begins.
LEMMA StartSessionStep ==
  ASSUME Inv, NEW c \in Calls, NEW k \in Keys, StartSession(c, k)
  PROVE  Inv'
<1> USE DEF StartSession
<1>0. UNCHANGED <<os, map, link, spawned, adopts, victims>>
  OBVIOUS
<1>1. flight[c] = "idle"
  BY DEF Inv, Flights
<1>2. TypeOK'
  BY <1>0 DEF Inv, TypeOK, os, map, spawned, adopts, Settled
<1>3. Flights'
  BY <1>0, <1>1, NamesAssumption DEF Inv, TypeOK, Flights
<1>4. Attempts'
  BY <1>0, <1>1 DEF Inv, TypeOK, Attempts, Spawned, spawned
<1>5. Sharing'
  BY <1>0, <1>1 DEF Inv, TypeOK, Sharing, OneAttemptPerKey, Pending
<1> QED
  BY <1>0, <1>2, <1>3, <1>4, <1>5, Frame DEF Inv, os, map, spawned, adopts

\* A start is settled: its key leaves _starting, which held it for this start
\* alone.
LEMMA SettleSharing ==
  ASSUME Inv, NEW c \in Calls, flight[c] \in Pending, NEW how \in Settled,
         SettleStart(c, how), UNCHANGED <<key, shares>>
  PROVE  /\ flight' = [flight EXCEPT ![c] = how]
         /\ flight' \in [Calls -> {"idle", "access", "attach", "spawn"} \cup Settled]
         /\ flight'[c] = how /\ how \notin Pending /\ how # "idle"
         /\ starting' \subseteq Keys
         /\ Sharing'
<1>1. /\ flight' = [flight EXCEPT ![c] = how]
      /\ flight' \in [Calls -> {"idle", "access", "attach", "spawn"} \cup Settled]
      /\ flight'[c] = how /\ how \notin Pending /\ how # "idle"
      /\ starting' \subseteq Keys
  BY DEF Inv, TypeOK, SettleStart, Settled, Pending
<1>2. Sharing'
  BY <1>1 DEF Inv, TypeOK, Sharing, OneAttemptPerKey, SettleStart
<1> QED  BY <1>1, <1>2

LEMMA NoSuchDirStep ==
  ASSUME Inv, NEW c \in Calls, NoSuchDir(c)
  PROVE  Inv'
<1>0. UNCHANGED <<os, map, shares, key, link, spawned, adopts, victims>>
  BY DEF NoSuchDir
<1>1. /\ flight[c] = "access" /\ flight[c] \in Pending /\ "rejected" \in Settled
      /\ SettleStart(c, "rejected")
  BY DEF NoSuchDir, Pending, Settled
<1>2. /\ flight' = [flight EXCEPT ![c] = "rejected"]
      /\ flight' \in [Calls -> {"idle", "access", "attach", "spawn"} \cup Settled]
      /\ starting' \subseteq Keys /\ Sharing'
  BY <1>0, <1>1, SettleSharing
<1>3. TypeOK'
  BY <1>0, <1>2 DEF Inv, TypeOK, os, map, spawned, adopts
<1>4. Flights'
  BY <1>0, <1>1, <1>2 DEF Inv, TypeOK, Flights
<1>5. Attempts'
  BY <1>0, <1>1, <1>2 DEF Inv, TypeOK, Attempts, Spawned, spawned
<1> QED
  BY <1>0, <1>2, <1>3, <1>4, <1>5, Frame DEF Inv, os, map, spawned, adopts

----------------------------------------------------------------------------
(* A spawn.                                                                *)

\* The tab of a start, or the window after the tab was refused: o is spawned
\* over map m.
Spawning(c, o, m) ==
  \/ /\ o = Tab(c) /\ m = sessions /\ flight[c] \in {"access", "attach"}
     /\ UNCHANGED <<resolved, exited>>
  \/ /\ o = Window(c) /\ m = DelIn(sessions, {child[Tab(c)]})
     /\ Tab(c) \in exited /\ Tab(c) \notin resolved
     /\ resolved' = resolved \cup {Tab(c)} /\ exited' = exited \ {Tab(c)}

LEMMA SpawningFacts ==
  ASSUME Inv, NEW c \in Calls, NEW o, NEW m, Spawning(c, o, m)
  PROVE  /\ o \in Spawns /\ o[1] = c /\ ~Spawned(o)
         /\ <<o[1], "direct">> = Direct(c)
         /\ link[o] = Idle /\ o \notin resolved' /\ o \notin exited'
         /\ flight[c] \in Pending /\ key[c] \in Keys
         /\ resolved' \subseteq Spawns /\ exited' \subseteq exited
         /\ \A s \in Spawns : ~Spawned(s) => s \notin resolved' /\ s \notin exited'
         /\ m \in Maps
         /\ \A p \in Pids : \/ m.at[p] = sessions.at[p]
                            \/ /\ m.at[p] = Absent /\ p \in ChildPids
                               /\ \A s \in running : child[s] # p
<1> USE OpNames
<1>1. <<o[1], "direct">> = Direct(c) /\ o \in Spawns /\ o[1] = c
  BY DEF Spawning, Direct
<1>2. sessions \in Maps
  BY DEF Inv, TypeOK, Maps
<1>3. CASE o = Tab(c) /\ m = sessions /\ flight[c] \in {"access", "attach"}
           /\ UNCHANGED <<resolved, exited>>
  <2>1. ~Spawned(o)
    BY <1>3 DEF Inv, Attempts
  <2> QED
    BY <1>1, <1>2, <1>3, <2>1 DEF Inv, Children, Flights, Pending, TypeOK
<1>4. CASE /\ o = Window(c) /\ m = DelIn(sessions, {child[Tab(c)]})
           /\ Tab(c) \in exited /\ Tab(c) \notin resolved
           /\ resolved' = resolved \cup {Tab(c)} /\ exited' = exited \ {Tab(c)}
  <2>1. Spawned(Tab(c)) /\ Tab(c) \notin running
    BY <1>4 DEF Inv, Children
  <2>2. ~Spawned(o) /\ flight[c] = "spawn"
    BY <1>4, <2>1 DEF Inv, Attempts
  <2>3. m \in Maps /\ m.at = [p \in Pids |-> IF p \in {child[Tab(c)]} THEN Absent
                                              ELSE sessions.at[p]]
    BY <1>2, <1>4, DelInFacts
  <2>4. \A s \in running : child[s] # child[Tab(c)]
    BY <2>1 DEF Inv, TypeOK, Children
  <2>5. \A p \in Pids : \/ m.at[p] = sessions.at[p]
                        \/ /\ m.at[p] = Absent /\ p \in ChildPids
                           /\ \A s \in running : child[s] # p
    BY <2>3, <2>4 DEF ChildPids
  <2>6. link[o] = Idle /\ o \notin resolved' /\ o \notin exited'
    BY <1>1, <1>4, <2>2 DEF Inv, Children
  <2>7. \A s \in Spawns : ~Spawned(s) => s \notin resolved' /\ s \notin exited'
    BY <1>4, <2>1 DEF Inv, Children
  <2>8. flight[c] \in Pending /\ key[c] \in Keys
    BY <2>2 DEF Inv, Flights, Pending
  <2>9. resolved' \subseteq Spawns /\ exited' \subseteq exited
    BY <1>4 DEF Inv, TypeOK
  <2> QED
    BY <1>1, <2>2, <2>3, <2>5, <2>6, <2>7, <2>8, <2>9
<1> QED
  BY <1>3, <1>4 DEF Spawning

\* A CLI that is found has a pid that was given out, and is no terminal; as a
\* pty child it runs.
LEMMA LiveIsNoTerm ==
  ASSUME Inv, NEW cv, NEW p \in FindLive(cv)
  PROVE  /\ p \in Pids /\ p \in used /\ p \notin TermPids
         /\ conv[p] = cv /\ cv \in Convs /\ p \in ready
         /\ \A o \in Spawns : child[o] = p => o \in running /\ Headless(o)
<1>1. p \in Pids /\ p \in ready /\ kind[p] \in {"user", "cli"} /\ conv[p] = cv
  BY DEF FindLive, Inv, TypeOK
<1>2. \A o \in Spawns : child[o] = p => o \in running /\ Headless(o)
  BY <1>1, ConstantsAssumption DEF Inv, Children, Spawned
<1>3. p \notin TermPids
  BY <1>2 DEF TermPids
<1> QED
  BY <1>1, <1>2, <1>3 DEF Inv, Processes

\* A terminal is a pty child, with a pid.
LEMMA TermIsChild ==
  ASSUME Inv
  PROVE  TermPids \subseteq ChildPids /\ NoPid \notin TermPids
BY DEF TermPids, ChildPids, Headless, Inv, Children, Spawned

\* spawnOnce has a pty child.
LEMMA SpawnedStep ==
  ASSUME Inv, NEW c \in Calls, NEW o, NEW m, Spawning(c, o, m),
         SpawnOnce(o, m), FreePids # {},
         UNCHANGED <<ready, peer, denies, history, stopWait, killTimer, shares,
                     key, tabRefused, adopts, victims>>
  PROVE  Inv'
<1>a. PICK w \in FreePids, headless \in BOOLEAN,
           first \in {Polling} \cup {AttachingTo(p) : p \in FindLive(ChildConv(o))} :
        /\ kind' = [kind EXCEPT ![w] = IF headless THEN "cli" ELSE "term"]
        /\ conv' = [conv EXCEPT ![w] = IF headless THEN ChildConv(o) ELSE NoConv]
        /\ runs' = [runs EXCEPT ![o] = IF headless THEN w ELSE NoPid]
        /\ used' = used \cup {w}
        /\ child' = [child EXCEPT ![o] = w]
        /\ running' = running \cup {o}
        /\ sessions' = PutIn(m, w, SpawnedEntry(o))
        /\ flight' = [flight EXCEPT ![o[1]] = "spawn"]
        /\ link' = [link EXCEPT ![<<o[1], "direct">>] = Over, ![o] = first]
        /\ UNCHANGED starting
  BY DEF SpawnOnce
<1>1. /\ o \in Spawns /\ o[1] = c /\ ~Spawned(o)
      /\ <<o[1], "direct">> = Direct(c)
      /\ link[o] = Idle /\ o \notin resolved' /\ o \notin exited'
      /\ flight[c] \in Pending /\ key[c] \in Keys
      /\ resolved' \subseteq Spawns /\ exited' \subseteq exited
      /\ \A s \in Spawns : ~Spawned(s) => s \notin resolved' /\ s \notin exited'
      /\ m \in Maps
      /\ \A p \in Pids : \/ m.at[p] = sessions.at[p]
                         \/ /\ m.at[p] = Absent /\ p \in ChildPids
                            /\ \A s \in running : child[s] # p
  BY SpawningFacts
<1>2. w \in Pids /\ w \notin used /\ w # NoPid
  BY ConstantsAssumption DEF FreePids
<1>3. sessions' \in Maps /\ sessions'.at = [m.at EXCEPT ![w] = SpawnedEntry(o)]
  BY <1>a, <1>1, <1>2, SpawnFacts, PutInFacts
<1>4. first = Polling \/ \E p \in Pids : first = AttachingTo(p) /\ p \in used /\ p \notin TermPids
  BY LiveIsNoTerm
<1>4a. /\ first \in Links
       /\ first.pid # NoPid => first.pid \in used /\ first.pid \notin TermPids
       /\ first.st \in {"polling", "attaching"}
       /\ first.st = "attaching" => first.pid # NoPid
  BY <1>4, LinkStates, ConstantsAssumption
<1>0. Direct(c) \in Ops /\ Direct(c) \notin Spawns /\ o \in Ops /\ o # Direct(c)
  BY <1>1, OpNames
<1>5. \A s \in Spawns : Spawned(s) => child[s] \in Pids /\ child[s] \in used /\ child[s] # w
  BY <1>2 DEF Inv, Children, TypeOK, Spawned
<1>6. \A s \in Spawns : s # o => child'[s] = child[s]
  BY <1>a DEF Inv, TypeOK
<1>7. child'[o] = w /\ child' \in [Spawns -> Pids \cup {NoPid}]
  BY <1>a, <1>1, <1>2 DEF Inv, TypeOK
<1>8. \A p \in Pids : p # w => (p \in ChildPids' <=> p \in ChildPids)
  BY <1>1, <1>2, <1>6, <1>7, ConstantsAssumption DEF ChildPids, Spawned
<1>8a. /\ runs' \in [Spawns -> Pids \cup {NoPid}]
       /\ runs'[o] = IF headless THEN w ELSE NoPid
       /\ \A s \in Spawns : s # o => runs'[s] = runs[s]
  BY <1>a, <1>1, <1>2 DEF Inv, TypeOK
<1>8b. /\ Headless(o)' <=> headless
       /\ \A s \in Spawns : s # o => (Headless(s)' <=> Headless(s))
  BY <1>2, <1>6, <1>7, <1>8a DEF Headless
<1>8c. \A p \in Pids : p # w => (p \in TermPids' <=> p \in TermPids)
  <2>1. Headless(o)
    BY <1>1 DEF Headless, Inv, Children, Spawned
  <2> QED
    BY <1>1, <1>6, <1>7, <1>8b, <2>1 DEF TermPids
<1>9. /\ link' \in [Ops -> Links]
      /\ link'[o] = first /\ link'[Direct(c)] = Over
      /\ \A s \in Ops \ {o, Direct(c)} : link'[s] = link[s]
  <2>1. link' = [link EXCEPT ![Direct(c)] = Over, ![o] = first]
    BY <1>a, <1>1
  <2>2. link \in [Ops -> Links] /\ Over \in Links
    BY LinkStates DEF Inv, TypeOK
  <2>3. first \in Links
    BY <1>4a
  <2> QED
    BY <1>0, <2>1, <2>2, <2>3
<1>9a. flight' = [flight EXCEPT ![c] = "spawn"]
  BY <1>a, <1>1
<1>10. TypeOK'
  <2>1. ChildConv(o) \in Convs
    BY <1>1, SpawnFacts
  <2>2. /\ kind' \in [Pids -> {"free", "user", "cli", "term"}]
        /\ conv' \in [Pids -> Convs \cup {NoConv}]
    BY <1>a, <2>1 DEF Inv, TypeOK
  <2> QED
    BY <1>a, <1>1, <1>2, <1>3, <1>7, <1>8a, <1>9, <1>9a, <2>2
       DEF Inv, TypeOK, Maps, adopts
<1>11. Processes'
  <2>1. ChildConv(o) \in Convs
    BY <1>1, SpawnFacts
  <2> QED
    BY <1>a, <1>2, <2>1 DEF Inv, Processes, TypeOK
<1>12. Children'
  <2>1. ASSUME NEW s \in Spawns, child'[s] # NoPid
        PROVE  /\ child'[s] \in used'
               /\ kind'[child'[s]] \in {IF Headless(s)' THEN "cli" ELSE "term", "free"}
               /\ s \in running' <=> kind'[child'[s]] # "free"
    <3>1. CASE s = o
      BY <1>a, <1>2, <1>7, <1>8b, <3>1 DEF Inv, TypeOK
    <3>2. CASE s # o
      <4>1. child'[s] = child[s] /\ Spawned(s) /\ child[s] \in Pids /\ child[s] # w
        BY <1>5, <1>6, <2>1, <3>2 DEF Spawned
      <4>2. kind'[child[s]] = kind[child[s]] /\ (s \in running' <=> s \in running)
        BY <1>a, <3>2, <4>1 DEF Inv, TypeOK
      <4> QED
        BY <1>a, <1>8b, <3>2, <4>1, <4>2 DEF Inv, Children
    <3> QED  BY <3>1, <3>2
  <2>2. ASSUME NEW s \in Spawns, NEW t \in Spawns, child'[s] # NoPid,
               child'[s] = child'[t]
        PROVE  s = t
    BY <1>5, <1>6, <1>7, <2>2 DEF Inv, Children, Spawned
  <2>3. ASSUME NEW s \in Spawns, child'[s] = NoPid
        PROVE  link'[s] = Idle /\ runs'[s] = NoPid /\ s \notin running'
               /\ s \notin exited' /\ s \notin resolved'
    BY <1>a, <1>0, <1>1, <1>2, <1>6, <1>7, <1>8a, <1>9, <2>3, OpNames
       DEF Inv, Children, Spawned
  <2>4. ASSUME NEW s \in running'
        PROVE  s \notin exited'
    BY <1>a, <1>1, <2>4 DEF Inv, Children
  <2> QED
    BY <1>a, <2>1, <2>2, <2>3, <2>4 DEF Children, Spawned
<1>13. Flights'
  <2>1. ASSUME NEW d \in Calls, d # c
        PROVE  link'[Direct(d)] = link[Direct(d)] /\ flight'[d] = flight[d]
    BY <1>1, <1>9, <1>9a, <2>1, OpNames DEF Inv, TypeOK
  <2>2. flight'[c] = "spawn" /\ link'[Direct(c)] = Over /\ Over.st # "attaching"
        /\ key[c] \in Keys /\ shares[c] # NoOne
    BY <1>1, <1>9, <1>9a, LinkStates DEF Inv, TypeOK, Flights, Pending
  <2> QED
    BY <2>1, <2>2 DEF Inv, Flights
<1>14. Attempts'
  BY <1>1, <1>9a, <1>2, <1>6, <1>7, OpNames DEF Inv, TypeOK, Attempts, Spawned, Spawning
<1>15. Sharing'
  BY <1>a, <1>1, <1>9a DEF Inv, TypeOK, Sharing, OneAttemptPerKey, Pending
<1>16. Clients'
  <2>1. link'[o].pid # NoPid => link'[o].pid \in used' /\ link'[o].pid \notin TermPids'
    BY <1>a, <1>2, <1>4a, <1>8c, <1>9 DEF Inv, TypeOK, Links
  <2>2. ASSUME NEW s \in Ops \ {o, Direct(c)}, link[s].pid # NoPid
        PROVE  link[s].pid \in used' /\ link[s].pid \notin TermPids'
    BY <1>a, <1>2, <1>8c, <2>2 DEF Inv, TypeOK, Clients
  <2>3. link'[Direct(c)].pid = NoPid /\ link'[Direct(c)].st = "over"
    BY <1>9, LinkStates
  <2>4. \A a \in Adopts : link'[Adopting(a)] = link[Adopting(a)]
    BY <1>1, <1>9, OpNames
  <2> QED
    BY <1>4a, <1>9, <2>1, <2>2, <2>3, <2>4 DEF Inv, Clients, adopts
<1>17. Placed'
  <2>1. sessions'.at[w] = SpawnedEntry(o)
    BY <1>1, <1>2, <1>3 DEF Maps
  <2>2. /\ SpawnedEntry(o).kind = "spawned" /\ SpawnedEntry(o).op = o
        /\ SpawnedEntry(o).alive
    BY DEF SpawnedEntry
  <2>3. ASSUME NEW p \in Pids, p # w, sessions'.at[p] # Absent
        PROVE  sessions'.at[p] = sessions.at[p]
    BY <1>1, <1>3, <2>3 DEF Maps
  <2>4. ASSUME NEW p \in Pids, p # w, sessions'.at[p] # Absent
        PROVE  /\ sessions.at[p].kind = "spawned" =>
                    sessions.at[p].op \in Spawns /\ child'[sessions.at[p].op] = p
               /\ sessions.at[p].kind = "attached" => p \in used' /\ p \notin TermPids'
               /\ ~sessions.at[p].alive => p \in ChildPids'
    BY <1>a, <1>1, <1>2, <1>6, <1>8, <1>8c, <2>3, <2>4, ConstantsAssumption
       DEF Inv, Placed, Spawned
  <2> QED
    BY <1>1, <1>7, <2>1, <2>2, <2>3, <2>4 DEF Placed
<1>18. RunningHasEntry'
  <2> SUFFICES ASSUME NEW s \in running'
               PROVE  LET e == sessions'.at[child'[s]] IN
                      /\ e # Absent => e.alive /\ (e.kind = "spawned" => e.process)
                      /\ e = Absent \/ e.kind = "attached"
                         => Headless(s)' /\ child'[s] \in ready
    BY DEF RunningHasEntry
  <2>1. CASE s = o
    BY <1>1, <1>2, <1>3, <1>7, <2>1, NamesAssumption, SpawnFacts
       DEF Maps, SpawnedEntry
  <2>2. CASE s # o
    <3>1. s \in running /\ s \in Spawns /\ Spawned(s)
      BY <1>a, <2>2 DEF Inv, TypeOK, Children
    <3>2. child'[s] = child[s] /\ child[s] \in Pids /\ child[s] # w
      BY <1>5, <1>6, <2>2, <3>1
    <3>3. sessions'.at[child[s]] = sessions.at[child[s]]
      BY <1>1, <1>2, <1>3, <3>1, <3>2 DEF Maps
    <3> QED
      BY <1>8b, <2>2, <3>1, <3>2, <3>3 DEF Inv, RunningHasEntry
  <2> QED  BY <2>1, <2>2
<1>19. Timers'
  BY <1>a, <1>1, <1>2, <1>5, <1>6, <1>7, <1>8 DEF Inv, TypeOK, Timers, ChildPids, Spawned
<1>20. OpenHasEntry'
  <2> SUFFICES ASSUME NEW s \in Ops, link'[s].st = "open"
               PROVE  LET p == link'[s].pid
                          e == sessions'.at[p]
                      IN  \/ e # Absent /\ e.kind = "attached" /\ e.op = s
                          \/ kind'[p] = "free" /\ p \in ChildPids'
    BY DEF OpenHasEntry, Open
  <2>1. s # o /\ s # Direct(c) /\ link'[s] = link[s]
    BY <1>4a, <1>9, LinkStates
  <2> DEFINE p == link[s].pid
  <2>2. p \in Pids /\ p \in used /\ p # w
    BY <1>2, <2>1 DEF Inv, Clients, TypeOK, Links
  <2> HIDE DEF p
  <2>3. kind'[p] = kind[p] /\ (p \in ChildPids' <=> p \in ChildPids)
    BY <1>a, <1>8, <2>2 DEF Inv, TypeOK
  <2>4. sessions'.at[p] = sessions.at[p]
        \/ (p \in ChildPids /\ \A t \in running : child[t] # p)
    BY <1>1, <1>2, <1>3, <2>2 DEF Maps
  <2>5. CASE p \in ChildPids /\ \A t \in running : child[t] # p
    <3>1. kind[p] = "free"
      BY <2>2, <2>5, ConstantsAssumption DEF Inv, Children, ChildPids, Spawned
    <3> QED
      BY <2>1, <2>3, <2>5, <3>1 DEF p
  <2>6. CASE sessions'.at[p] = sessions.at[p]
    BY <2>1, <2>3, <2>6 DEF Inv, OpenHasEntry, Open, p
  <2> QED
    BY <2>4, <2>5, <2>6
<1>21. EntryHasClient'
  <2> SUFFICES ASSUME NEW p \in Pids, sessions'.at[p] # Absent,
                      sessions'.at[p].kind = "attached"
               PROVE  LET s == sessions'.at[p].op IN
                      link'[s] = OpenTo(p) \/ (Coalesced /\ link'[s] = Over)
    BY DEF EntryHasClient
  <2>1. p # w
    BY <1>1, <1>2, <1>3 DEF Maps, SpawnedEntry
  <2>2. sessions'.at[p] = sessions.at[p]
    BY <1>1, <1>2, <1>3, <2>1 DEF Maps
  <2> DEFINE s == sessions.at[p].op
  <2>3. s \in Ops /\ (link[s] = OpenTo(p) \/ (Coalesced /\ link[s] = Over))
    BY <2>2 DEF Inv, TypeOK, Entries, EntryHasClient
  <2>4. s # o
    BY <1>1, <2>3, LinkStates
  <2>5. s = Direct(c) => link[s] = Over
    BY <1>1, <2>3, LinkStates DEF Inv, Flights, Pending
  <2> QED
    BY <1>9, <2>2, <2>3, <2>4, <2>5
<1>22. UserCliSpared'
  BY DEF Inv, UserCliSpared
<1> QED
  BY <1>10, <1>11, <1>12, <1>13, <1>14, <1>15, <1>16, <1>17, <1>18, <1>19,
     <1>20, <1>21, <1>22 DEF Inv

\* Entries of pty children that do not run (any more) go or are marked.
Thinned ==
  /\ sessions' \in Maps
  /\ \A p \in Pids :
       \/ sessions'.at[p] = sessions.at[p]
       \/ /\ p \in ChildPids /\ \A s \in running' : child[s] # p
          /\ \/ sessions'.at[p] = Absent
             \/ /\ sessions.at[p] # Absent
                /\ sessions'.at[p].kind = sessions.at[p].kind
                /\ sessions'.at[p].op = sessions.at[p].op

\* Clients that are neither open nor closed go on; none opens.
Relinked ==
  /\ link' \in [Ops -> Links]
  /\ \A s \in Ops : \/ link'[s] = link[s]
                    \/ link[s].st \notin {"open", "over"} /\ link'[s].st # "open"

LEMMA SameSessionsThinned ==
  ASSUME Inv, UNCHANGED sessions
  PROVE  Thinned
BY DEF Inv, TypeOK, Thinned, Maps

LEMMA SameLinkRelinked ==
  ASSUME Inv, UNCHANGED link
  PROVE  Relinked
BY DEF Inv, TypeOK, Relinked

\* Neither takes entries and clients apart.
LEMMA EntriesKept ==
  ASSUME Inv, Thinned, Relinked, UNCHANGED <<child, runs, used>>,
         running' \subseteq running, Children',
         \A s \in running' : child[s] \in ready => child[s] \in ready'
  PROVE  Placed' /\ RunningHasEntry' /\ OpenHasEntry' /\ EntryHasClient'
<1>1. Placed'
  BY DEF Inv, Placed, Thinned, TermPids, ChildPids, Headless
<1>1a. \A p \in Pids : p \in ChildPids /\ (\A s \in running' : child[s] # p)
                         => kind'[p] = "free"
  BY ConstantsAssumption DEF Children, ChildPids, Spawned
<1>2. RunningHasEntry'
  <2> SUFFICES ASSUME NEW s \in running'
               PROVE  LET e == sessions'.at[child[s]] IN
                      /\ e # Absent => e.alive /\ (e.kind = "spawned" => e.process)
                      /\ e = Absent \/ e.kind = "attached"
                         => Headless(s) /\ child[s] \in ready'
    BY DEF RunningHasEntry, Headless
  <2>1. s \in running /\ s \in Spawns /\ Spawned(s) /\ child[s] \in Pids
    BY DEF Inv, TypeOK, Children, Spawned
  <2>2. sessions'.at[child[s]] = sessions.at[child[s]]
    BY <2>1 DEF Thinned
  <2> QED
    BY <2>1, <2>2 DEF Inv, RunningHasEntry
<1>3. OpenHasEntry'
  <2> SUFFICES ASSUME NEW s \in Ops, link'[s].st = "open"
               PROVE  LET p == link'[s].pid
                          e == sessions'.at[p]
                      IN  \/ e # Absent /\ e.kind = "attached" /\ e.op = s
                          \/ kind'[p] = "free" /\ p \in ChildPids
    BY DEF OpenHasEntry, Open, ChildPids
  <2>1. link'[s] = link[s]
    BY DEF Relinked
  <2> DEFINE p == link[s].pid
  <2>2. p \in Pids
    BY <2>1 DEF Inv, Clients, TypeOK, Links
  <2>3. CASE p \in ChildPids /\ \A t \in running' : child[t] # p
    BY <1>1a, <2>1, <2>2, <2>3
  <2>4. CASE sessions'.at[p] = sessions.at[p] /\ p \in ChildPids
             /\ \E t \in running' : child[t] = p
    <3>1. kind[p] # "free"
      BY <2>4 DEF Inv, TypeOK, Children
    <3> QED
      BY <2>1, <2>4, <3>1 DEF Inv, OpenHasEntry, Open
  <2>5. CASE sessions'.at[p] = sessions.at[p] /\ p \notin ChildPids
    BY <2>1, <2>5 DEF Inv, OpenHasEntry, Open
  <2> QED
    BY <2>2, <2>3, <2>4, <2>5 DEF Thinned
<1>4. EntryHasClient'
  <2> SUFFICES ASSUME NEW p \in Pids, sessions'.at[p] # Absent,
                      sessions'.at[p].kind = "attached"
               PROVE  LET s == sessions'.at[p].op IN
                      link'[s] = OpenTo(p) \/ (Coalesced /\ link'[s] = Over)
    BY DEF EntryHasClient
  <2>1. /\ sessions.at[p] # Absent /\ sessions.at[p].kind = "attached"
        /\ sessions'.at[p].op = sessions.at[p].op
    BY DEF Thinned
  <2> DEFINE s == sessions.at[p].op
  <2>2. s \in Ops /\ (link[s] = OpenTo(p) \/ (Coalesced /\ link[s] = Over))
    BY <2>1 DEF Inv, TypeOK, Entries, EntryHasClient
  <2>3. link[s].st \in {"open", "over"}
    BY <2>2, LinkStates
  <2>4. link'[s] = link[s]
    BY <2>2, <2>3 DEF Relinked
  <2> QED
    BY <2>1, <2>2, <2>4
<1> QED
  BY <1>1, <1>2, <1>3, <1>4

\* spawnOnce throws: there is no process to be had.
LEMMA UnspawnedStep ==
  ASSUME Inv, NEW c \in Calls, NEW o, NEW m, Spawning(c, o, m),
         SpawnOnce(o, m), FreePids = {},
         UNCHANGED <<ready, peer, denies, history, stopWait, killTimer, shares,
                     key, tabRefused, adopts, victims>>
  PROVE  Inv'
<1>1. /\ o \in Spawns /\ o[1] = c /\ ~Spawned(o)
      /\ <<o[1], "direct">> = Direct(c)
      /\ flight[c] \in Pending
      /\ resolved' \subseteq Spawns /\ exited' \subseteq exited
      /\ \A s \in Spawns : ~Spawned(s) => s \notin resolved' /\ s \notin exited'
      /\ m \in Maps
      /\ \A p \in Pids : \/ m.at[p] = sessions.at[p]
                         \/ /\ m.at[p] = Absent /\ p \in ChildPids
                            /\ \A s \in running : child[s] # p
  BY SpawningFacts
<1>2. /\ SettleStart(c, "rejected")
      /\ sessions' = m /\ link' = [link EXCEPT ![Direct(c)] = Over]
      /\ UNCHANGED <<kind, conv, used, child, runs, running>>
  BY <1>1 DEF SpawnOnce
<1>3. /\ flight' = [flight EXCEPT ![c] = "rejected"]
      /\ flight' \in [Calls -> {"idle", "access", "attach", "spawn"} \cup Settled]
      /\ flight'[c] = "rejected"
      /\ starting' \subseteq Keys /\ Sharing'
  BY <1>1, <1>2, SettleSharing DEF Settled
<1>4. /\ link' \in [Ops -> Links] /\ link'[Direct(c)] = Over
      /\ \A s \in Ops : s # Direct(c) => link'[s] = link[s]
      /\ \A s \in Spawns : link'[s] = link[s]
      /\ \A a \in Adopts : link'[Adopting(a)] = link[Adopting(a)]
      /\ \A d \in Calls : d # c => link'[Direct(d)] = link[Direct(d)]
  BY <1>2, OpNames, LinkStates DEF Inv, TypeOK
<1>5. link[Direct(c)].st \notin {"open", "over"} \/ link[Direct(c)] = Over
  BY <1>1, LinkStates DEF Inv, Flights, Pending
<1>6. Relinked
  BY <1>4, <1>5, LinkStates DEF Relinked
<1>7. Thinned
  BY <1>1, <1>2 DEF Thinned
<1>10. Children'
  BY <1>1, <1>2, <1>4 DEF Inv, TypeOK, Children, Spawned, Headless
<1>8. Placed' /\ RunningHasEntry' /\ OpenHasEntry' /\ EntryHasClient'
  BY <1>2, <1>6, <1>7, <1>10, EntriesKept
<1>9. TypeOK'
  BY <1>1, <1>2, <1>3, <1>4 DEF Inv, TypeOK, Maps, adopts
<1>11. Flights'
  BY <1>1, <1>3, <1>4, LinkStates, OpNames DEF Inv, TypeOK, Flights, Pending
<1>12. Attempts'
  <2>1. \A s \in {Tab(c), Window(c)} : ~(Spawned(s) /\ s \notin resolved')
    BY <1>1, OpNames DEF Inv, Attempts, Spawning, Pending
  <2>2. \A d \in Calls : d # c =>
          \A s \in {Tab(d), Window(d)} : s \in resolved' <=> s \in resolved
    BY OpNames DEF Spawning
  <2>3. UNCHANGED child /\ \A d \in Calls : d # c => flight'[d] = flight[d]
    BY <1>2, <1>3 DEF Inv, TypeOK
  <2> QED
    BY <1>3, <2>1, <2>2, <2>3 DEF Inv, Attempts, Spawned
<1>13. Clients'
  <2>1. link'[Direct(c)].pid = NoPid /\ link'[Direct(c)].st = "over"
    BY <1>4, LinkStates
  <2> QED
    BY <1>2, <1>4, <2>1 DEF Inv, Clients, adopts, TermPids, Headless
<1> QED
  BY <1>2, <1>3, <1>8, <1>9, <1>10, <1>11, <1>12, <1>13, Frame DEF Inv, adopts

LEMMA SpawnOnceStep ==
  ASSUME Inv, NEW c \in Calls, NEW o, NEW m, Spawning(c, o, m), SpawnOnce(o, m),
         UNCHANGED <<ready, peer, denies, history, stopWait, killTimer, shares,
                     key, tabRefused, adopts, victims>>
  PROVE  Inv'
BY SpawnedStep, UnspawnedStep

----------------------------------------------------------------------------
(* Attaches.                                                               *)

\* An attach succeeds at a CLI that no client of ours is open to.
LEMMA OutcomeFacts ==
  ASSUME Inv, NEW p \in Pids, NEW cv, NEW outcome \in Outcomes(p, cv)
  PROVE  /\ outcome \in Recorded => \A s \in Ops : link[s] # OpenTo(p)
         /\ outcome \in Recorded \cup {"already_attached"} => p \in FindLive(cv)
         /\ outcome = "already_attached" => peer[p] # NoOne
         /\ outcome = "ok_then_lost" => Coalesced
         /\ outcome \in Recorded \cup {"failed", "consent_denied", "already_attached"}
<1>1. CASE p \notin FindLive(cv) \/ \E o \in Ops : link[o] = OpenTo(p) /\ peer[p] # o
  <2>1. outcome = "failed"
    BY <1>1 DEF Outcomes
  <2> QED  BY <2>1 DEF Recorded
<1>2. CASE /\ p \in FindLive(cv) /\ peer[p] # NoOne
           /\ \A o \in Ops : link[o] = OpenTo(p) => peer[p] = o
  <2>1. outcome \in {"failed", "already_attached"}
    BY <1>2 DEF Outcomes
  <2> QED  BY <1>2, <2>1 DEF Recorded
<1>3. CASE /\ p \in FindLive(cv) /\ peer[p] = NoOne
           /\ \A o \in Ops : link[o] = OpenTo(p) => peer[p] = o
  <2>1. outcome \in {"failed", "consent_denied", "ok", "ok_then_lost"}
    BY <1>3 DEF Outcomes
  <2>2. outcome = "ok_then_lost" => Coalesced
    BY <1>3 DEF Outcomes
  <2>3. \A s \in Ops : link[s] # OpenTo(p)
    BY <1>3, NamesAssumption
  <2> QED  BY <1>3, <2>1, <2>2, <2>3 DEF Recorded
<1> QED  BY <1>1, <1>2, <1>3

\* _attachToLiveSession records its entry.
LEMMA RecordKeeps ==
  ASSUME Inv, NEW o \in Ops, NEW cv, link[o].st = "attaching",
         cv[1] \in Sids \cup Spawns \cup {NoSid}, cv[2] \in Dirs,
         NEW outcome \in Outcomes(link[o].pid, cv), outcome \in Recorded,
         RecordAttach(o, cv, outcome),
         UNCHANGED <<child, runs, used, running, kind, ready>>
  PROVE  /\ sessions' \in Maps /\ peer' \in [Pids -> Ops \cup {NoOne}]
         /\ link' \in [Ops -> Links] /\ link'[o].st \in {"open", "over"}
         /\ link'[o].pid \in {NoPid, link[o].pid}
         /\ link'[o].st = "open" => link'[o].pid # NoPid
         /\ \A s \in Ops : s # o => link'[s] = link[s]
         /\ sessions'.at[link[o].pid] = AttachedEntry(o, cv)
         /\ Placed' /\ RunningHasEntry' /\ OpenHasEntry' /\ EntryHasClient'
<1> DEFINE p == link[o].pid
           e == AttachedEntry(o, cv)
<1>1. p \in Pids /\ p \in used /\ p \notin TermPids /\ p # NoPid
  BY ConstantsAssumption DEF Inv, Clients, TypeOK, Links
<1>2. /\ \A s \in Ops : link[s] # OpenTo(p)
      /\ outcome = "ok_then_lost" => Coalesced
  BY <1>1, OutcomeFacts
<1>2a. p \in ready /\ \A s \in running : child[s] = p => Headless(s)
  <2>1. p \in FindLive(cv)
    BY <1>1, OutcomeFacts
  <2> QED
    BY <2>1, LiveIsNoTerm DEF Inv, TypeOK
<1>3. e \in Entries /\ e.kind = "attached" /\ e.op = o /\ e # Absent /\ e.alive
  BY AttachedFacts, NamesAssumption DEF AttachedEntry
<1>4. sessions' = PutIn(sessions, p, e)
  BY DEF RecordAttach
<1>5. sessions' \in Maps /\ sessions'.at = [sessions.at EXCEPT ![p] = e]
  BY <1>1, <1>3, <1>4, PutInFacts DEF Inv, TypeOK, Maps
<1>6. /\ sessions'.at[p] = e
      /\ \A q \in Pids : q # p => sessions'.at[q] = sessions.at[q]
  BY <1>1, <1>5 DEF Inv, TypeOK
<1>7. peer' \in [Pids -> Ops \cup {NoOne}]
  BY <1>1 DEF RecordAttach, Inv, TypeOK
<1>8. /\ link' \in [Ops -> Links]
      /\ link'[o] = IF outcome = "ok" THEN OpenTo(p) ELSE Over
      /\ \A s \in Ops : s # o => link'[s] = link[s]
  BY <1>1, LinkStates DEF RecordAttach, Inv, TypeOK
<1>9. /\ link'[o].st \in {"open", "over"} /\ link'[o].pid \in {NoPid, p}
      /\ link'[o].st = "open" => link'[o].pid = p /\ link'[o].pid # NoPid
  BY <1>1, <1>8, LinkStates
<1>10. Placed'
  BY <1>1, <1>3, <1>6 DEF Inv, Placed, TermPids, ChildPids, Headless
<1> HIDE DEF e
<1>11. RunningHasEntry'
  <2> SUFFICES ASSUME NEW s \in running
               PROVE  LET f == sessions'.at[child[s]] IN
                      /\ f # Absent => f.alive /\ (f.kind = "spawned" => f.process)
                      /\ f = Absent \/ f.kind = "attached"
                         => Headless(s) /\ child[s] \in ready
    BY DEF RunningHasEntry, Headless
  <2>1. CASE child[s] = p
    BY <1>2a, <1>3, <1>6, <2>1
  <2>2. CASE child[s] # p
    <3>1. sessions'.at[child[s]] = sessions.at[child[s]]
      BY <1>6, <2>2 DEF Inv, TypeOK, Children, Spawned
    <3> QED
      BY <3>1 DEF Inv, RunningHasEntry
  <2> QED  BY <2>1, <2>2
<1>12. OpenHasEntry'
  <2> SUFFICES ASSUME NEW s \in Ops, link'[s].st = "open"
               PROVE  LET f == sessions'.at[link'[s].pid] IN
                      \/ f # Absent /\ f.kind = "attached" /\ f.op = s
                      \/ kind[link'[s].pid] = "free" /\ link'[s].pid \in ChildPids
    BY DEF OpenHasEntry, Open, ChildPids
  <2>1. CASE s = o
    BY <1>3, <1>6, <1>9, <2>1
  <2>2. CASE s # o
    <3>1. link'[s] = link[s] /\ link[s].st = "open"
      BY <1>8, <2>2
    <3>2. link[s] = OpenTo(link[s].pid) /\ link[s].pid \in Pids
      BY <3>1, LinkStates DEF Inv, TypeOK, Clients, Links
    <3>3. link[s].pid # p
      BY <1>2, <3>2
    <3> QED
      BY <1>6, <3>1, <3>2, <3>3 DEF Inv, OpenHasEntry, Open
  <2> QED  BY <2>1, <2>2
<1>13. EntryHasClient'
  <2> SUFFICES ASSUME NEW q \in Pids, sessions'.at[q] # Absent,
                      sessions'.at[q].kind = "attached"
               PROVE  LET s == sessions'.at[q].op IN
                      link'[s] = OpenTo(q) \/ (Coalesced /\ link'[s] = Over)
    BY DEF EntryHasClient
  <2>1. CASE q = p
    <3>1. outcome \in {"ok", "ok_then_lost"}
      BY DEF Recorded
    <3> QED  BY <1>2, <1>3, <1>6, <1>8, <2>1, <3>1
  <2>2. CASE q # p
    <3> DEFINE s == sessions.at[q].op
    <3>1. s \in Ops /\ (link[s] = OpenTo(q) \/ (Coalesced /\ link[s] = Over))
          /\ sessions'.at[q].op = s
      BY <1>6, <2>2 DEF Inv, TypeOK, Entries, EntryHasClient
    <3>2. s # o
      BY <3>1, LinkStates
    <3> QED  BY <1>8, <3>1, <3>2
  <2> QED  BY <2>1, <2>2
<1> QED
  BY <1>5, <1>6, <1>7, <1>8, <1>9, <1>10, <1>11, <1>12, <1>13 DEF e

LEMMA AccessedStep ==
  ASSUME Inv, NEW c \in Calls, Accessed(c)
  PROVE  Inv'
<1>0. /\ flight[c] = "access" /\ link[Direct(c)] = Idle
      /\ UNCHANGED <<history, stopWait, killTimer, shares, key,
                     exited, tabRefused, resolved, adopts, victims>>
  BY DEF Accessed, Inv, Flights
<1>1. CASE \E p \in FindLive(key[c]) :
             /\ flight' = [flight EXCEPT ![c] = "attach"]
             /\ link' = [link EXCEPT ![<<c, "direct">>] = AttachingTo(p)]
             /\ UNCHANGED <<os, sessions, starting, child, runs, running>>
  <2>1. PICK p \in FindLive(key[c]) :
             /\ flight' = [flight EXCEPT ![c] = "attach"]
             /\ link' = [link EXCEPT ![Direct(c)] = AttachingTo(p)]
             /\ UNCHANGED <<os, sessions, starting, child, runs, running>>
    BY <1>1 DEF Direct
  <2>2. p \in Pids /\ p \in used /\ p \notin TermPids /\ p # NoPid
    BY LiveIsNoTerm, ConstantsAssumption
  <2>3. /\ link' \in [Ops -> Links] /\ link'[Direct(c)] = AttachingTo(p)
        /\ \A s \in Ops : s # Direct(c) => link'[s] = link[s]
        /\ \A s \in Spawns : link'[s] = link[s]
        /\ \A a \in Adopts : link'[Adopting(a)] = link[Adopting(a)]
        /\ \A d \in Calls : d # c => link'[Direct(d)] = link[Direct(d)]
    BY <2>1, <2>2, OpNames, LinkStates DEF Inv, TypeOK
  <2>4. link'[Direct(c)].st = "attaching" /\ link'[Direct(c)].pid = p
    BY <2>2, <2>3, LinkStates
  <2>5. /\ flight' \in [Calls -> {"idle", "access", "attach", "spawn"} \cup Settled]
        /\ flight'[c] = "attach"
        /\ \A d \in Calls : d # c => flight'[d] = flight[d]
    BY <2>1 DEF Inv, TypeOK
  <2>6. Relinked /\ Thinned
    BY <1>0, <2>1, <2>3, <2>4, LinkStates, SameSessionsThinned DEF Relinked
  <2>7. TypeOK'
    BY <1>0, <2>1, <2>3, <2>5 DEF Inv, TypeOK, os, adopts
  <2>8. Flights'
    BY <1>0, <2>3, <2>4, <2>5 DEF Inv, Flights
  <2>9. Attempts'
    BY <1>0, <2>1, <2>5 DEF Inv, Attempts, Spawned
  <2>10. Sharing'
    BY <1>0, <2>1, <2>5 DEF Inv, TypeOK, Sharing, OneAttemptPerKey, Pending
  <2>11. Clients'
    BY <1>0, <2>1, <2>2, <2>3, <2>4 DEF Inv, Clients, adopts, os, TermPids, Headless
  <2>12. Children'
    BY <1>0, <2>1, <2>3 DEF Inv, Children, Spawned, Headless, os
  <2> QED
    BY <1>0, <2>1, <2>6, <2>7, <2>8, <2>9, <2>10, <2>11, <2>12, Frame, EntriesKept
       DEF Inv, os, adopts
<1>2. CASE SpawnOnce(<<c, "tab">>, sessions) /\ UNCHANGED <<ready, peer, denies>>
  <2>1. Spawning(c, Tab(c), sessions) /\ SpawnOnce(Tab(c), sessions)
    BY <1>0, <1>2 DEF Spawning, Tab
  <2> QED
    BY <1>0, <1>2, <2>1, SpawnOnceStep
<1> QED
  BY <1>1, <1>2 DEF Accessed

----------------------------------------------------------------------------
(* The poller and the exit handler.                                        *)

\* An attempt settles its start, unless it was settled.
Resolves(o, how) ==
  IF o \in resolved THEN UNCHANGED <<resolved, flight, starting>>
  ELSE resolved' = resolved \cup {o} /\ SettleStart(o[1], how)

LEMMA ResolvesKeeps ==
  ASSUME Inv, NEW o \in Spawns, Spawned(o), NEW how \in Settled, Resolves(o, how),
         UNCHANGED <<key, shares, child>>,
         \A c \in Calls : link'[Direct(c)] = link[Direct(c)]
  PROVE  /\ resolved' \subseteq Spawns /\ resolved' \subseteq resolved \cup {o}
         /\ flight' \in [Calls -> {"idle", "access", "attach", "spawn"} \cup Settled]
         /\ starting' \subseteq Keys
         /\ Flights' /\ Attempts' /\ Sharing'
<1>1. CASE o \in resolved
  <2>1. UNCHANGED <<resolved, flight, starting>>
    BY <1>1 DEF Resolves
  <2>2. Flights'
    BY <2>1 DEF Inv, Flights
  <2> QED
    BY <2>1, <2>2, Frame DEF Inv, TypeOK
<1>2. CASE o \notin resolved
  <2> DEFINE c == o[1]
  <2>1. c \in Calls /\ o \in {Tab(c), Window(c)}
    BY OpNames
  <2>2. resolved' = resolved \cup {o} /\ SettleStart(c, how)
    BY <1>2 DEF Resolves
  <2>3. flight[c] = "spawn"
    BY <1>2, <2>1 DEF Inv, Attempts
  <2> HIDE DEF c
  <2>4. /\ flight' = [flight EXCEPT ![c] = how]
        /\ flight' \in [Calls -> {"idle", "access", "attach", "spawn"} \cup Settled]
        /\ flight'[c] = how /\ how \notin Pending /\ how # "idle"
        /\ starting' \subseteq Keys /\ Sharing'
    BY <2>1, <2>2, <2>3, SettleSharing DEF Pending
  <2>5. \A d \in Calls : d # c => flight'[d] = flight[d]
    BY <2>4 DEF Inv, TypeOK
  <2>6. Flights'
    BY <2>1, <2>3, <2>4, <2>5, LinkStates DEF Inv, Flights, Pending
  <2>7. Attempts'
    <3>1. \A s \in {Tab(c), Window(c)} : ~(Spawned(s) /\ s \notin resolved')
      BY <1>2, <2>1, <2>2 DEF Inv, Attempts
    <3>2. \A d \in Calls : d # c =>
            \A s \in {Tab(d), Window(d)} : s \in resolved' <=> s \in resolved
      BY <2>1, <2>2, OpNames
    <3>3. Spawned(Window(c)) => Spawned(Tab(c))
      BY <2>1 DEF Inv, Attempts
    <3> QED
      BY <2>4, <2>5, <3>1, <3>2, <3>3 DEF Inv, Attempts, Spawned, Pending
  <2> QED
    BY <2>1, <2>2, <2>4, <2>6, <2>7 DEF Inv, TypeOK
<1> QED  BY <1>1, <1>2

\* The poller's client goes on.
LEMMA PollerRelinks ==
  ASSUME Inv, NEW o \in Spawns, link[o].st \in {"polling", "attaching"},
         link' \in [Ops -> Links],
         \A s \in Ops : s # o => link'[s] = link[s],
         link'[o].pid # NoPid => link'[o].pid \in used /\ link'[o].pid \notin TermPids,
         link'[o].st \in {"attaching", "open"} => link'[o].pid # NoPid,
         UNCHANGED <<child, runs, used, kind, running, exited, adopt, wanted>>,
         resolved' \subseteq resolved \cup {o}
  PROVE  /\ Children' /\ Clients'
         /\ \A c \in Calls : link'[Direct(c)] = link[Direct(c)]
<1>1. Spawned(o)
  BY LinkStates DEF Inv, Children
<1>2. o \in Ops /\ (\A c \in Calls : link'[Direct(c)] = link[Direct(c)])
      /\ (\A a \in Adopts : link'[Adopting(a)] = link[Adopting(a)])
  BY OpNames
<1>3. Children'
  <2>1. \A s \in Spawns : ~Spawned(s) => link'[s] = link[s] /\ s \notin resolved'
    BY <1>1, OpNames DEF Inv, Children
  <2> QED
    BY <2>1 DEF Inv, Children, Spawned, Headless
<1>4. Clients'
  BY <1>2 DEF Inv, Clients, TermPids, Headless
<1> QED  BY <1>2, <1>3, <1>4

\* A signal to a pty child reaches a process of ours, or nobody.
LEMMA SignalChild ==
  ASSUME Inv, NEW p \in Pids, p \in ChildPids, Signal(p)
  PROVE  victims' \subseteq {"user", "cli", "term"} /\ UserCliSpared'
<1>1. kind[p] \in {"term", "cli", "free"}
  BY ConstantsAssumption DEF ChildPids, Inv, Children, Spawned
<1> QED
  BY <1>1 DEF Signal, Inv, TypeOK, UserCliSpared

LEMMA GiveUpFacts ==
  ASSUME Inv, NEW o \in Spawns, Spawned(o), GiveUp(o)
  PROVE  /\ Resolves(o, "rejected") /\ "rejected" \in Settled
         /\ victims' \subseteq {"user", "cli", "term"} /\ UserCliSpared'
<1>1. child[o] \in Pids /\ child[o] \in ChildPids
  BY DEF Inv, TypeOK, Spawned, ChildPids
<1>2. UNCHANGED victims \/ Signal(child[o])
  BY DEF GiveUp
<1> QED
  BY <1>1, <1>2, SignalChild DEF GiveUp, Resolves, Settled, Inv, TypeOK, UserCliSpared

LEMMA PollFindsStep ==
  ASSUME Inv, NEW o \in Spawns, PollFinds(o)
  PROVE  Inv'
<1>1. PICK p \in FindLive(ChildConv(o)) :
        link' = [link EXCEPT ![o] = IF o \in resolved THEN Over ELSE AttachingTo(p)]
  BY DEF PollFinds
<1>2. p \in Pids /\ p \in used /\ p \notin TermPids /\ p # NoPid
  BY LiveIsNoTerm, ConstantsAssumption
<1>3. UNCHANGED <<os, map, starts, spawned, adopts, victims>> /\ link[o] = Polling
  BY DEF PollFinds
<1>4. /\ link' \in [Ops -> Links] /\ link'[o] \in {Over, AttachingTo(p)}
      /\ \A s \in Ops : s # o => link'[s] = link[s]
  BY <1>1, <1>2, OpNames, LinkStates DEF Inv, TypeOK
<1>5. /\ link'[o].pid \in {NoPid, p} /\ link'[o].st \in {"over", "attaching"}
      /\ link'[o].st = "attaching" => link'[o].pid = p
      /\ link[o].st = "polling"
  BY <1>2, <1>3, <1>4, LinkStates
<1>6. Children' /\ Clients' /\ \A c \in Calls : link'[Direct(c)] = link[Direct(c)]
  BY <1>2, <1>3, <1>4, <1>5, PollerRelinks DEF os, spawned, adopts
<1>7. Relinked /\ Thinned
  BY <1>3, <1>4, <1>5, SameSessionsThinned DEF Relinked, map
<1>8. Flights'
  BY <1>3, <1>6 DEF Inv, Flights, starts
<1>9. TypeOK'
  BY <1>3, <1>4 DEF Inv, TypeOK, os, map, starts, spawned, adopts
<1> QED
  BY <1>3, <1>6, <1>7, <1>8, <1>9, Frame, EntriesKept
     DEF Inv, os, map, starts, spawned, adopts

LEMMA PollExpiresStep ==
  ASSUME Inv, NEW o \in Spawns, PollExpires(o)
  PROVE  Inv'
<1>1. /\ link[o] = Polling /\ link' = [link EXCEPT ![o] = Over] /\ GiveUp(o)
      /\ UNCHANGED <<os, map, shares, key, child, runs, running, exited,
                     tabRefused, adopts>>
  BY DEF PollExpires
<1>2. /\ link' \in [Ops -> Links] /\ link'[o] = Over
      /\ \A s \in Ops : s # o => link'[s] = link[s]
  BY <1>1, OpNames, LinkStates DEF Inv, TypeOK
<1>3. link'[o].pid = NoPid /\ link'[o].st = "over" /\ link[o].st = "polling"
  BY <1>1, <1>2, LinkStates
<1>4. Spawned(o)
  BY <1>3, LinkStates DEF Inv, Children
<1>5. /\ Resolves(o, "rejected") /\ "rejected" \in Settled
      /\ victims' \subseteq {"user", "cli", "term"} /\ UserCliSpared'
  BY <1>1, <1>4, GiveUpFacts
<1>6. \A c \in Calls : link'[Direct(c)] = link[Direct(c)]
  BY <1>2, OpNames
<1>7. /\ resolved' \subseteq Spawns /\ resolved' \subseteq resolved \cup {o}
      /\ flight' \in [Calls -> {"idle", "access", "attach", "spawn"} \cup Settled]
      /\ starting' \subseteq Keys
      /\ Flights' /\ Attempts' /\ Sharing'
  BY <1>1, <1>4, <1>5, <1>6, ResolvesKeeps
<1>8. Children' /\ Clients'
  BY <1>1, <1>2, <1>3, <1>7, PollerRelinks DEF os, adopts
<1>9. Relinked /\ Thinned
  BY <1>1, <1>2, <1>3, SameSessionsThinned DEF Relinked, map
<1>10. TypeOK'
  BY <1>1, <1>2, <1>5, <1>7 DEF Inv, TypeOK, os, map, adopts
<1> QED
  BY <1>1, <1>5, <1>7, <1>8, <1>9, <1>10, Frame, EntriesKept DEF Inv, os, map

LEMMA PollAttachedStep ==
  ASSUME Inv, NEW o \in Spawns, PollAttached(o)
  PROVE  Inv'
<1>1. /\ link[o].st = "attaching" /\ o \in Ops /\ Spawned(o)
      /\ UNCHANGED <<kind, conv, ready, denies, used, history, stopWait, killTimer,
                     shares, key, child, runs, running, exited, tabRefused, adopts>>
  BY OpNames, LinkStates DEF PollAttached, Inv, Children
<1>2. link[o].pid \in Pids
  BY <1>1 DEF Inv, TypeOK, Clients, Links
<1>3. PICK outcome \in Outcomes(link[o].pid, ChildConv(o)) :
       \/ /\ outcome \in Recorded
          /\ RecordAttach(o, ChildConv(o), outcome)
          /\ Resolves(o, "attached")
          /\ UNCHANGED victims
       \/ /\ outcome \notin Recorded
          /\ link' = [link EXCEPT ![o] = Over]
          /\ GiveUp(o)
          /\ UNCHANGED <<sessions, peer>>
  BY DEF PollAttached, Resolves
<1>4. CASE /\ outcome \in Recorded
           /\ RecordAttach(o, ChildConv(o), outcome)
           /\ Resolves(o, "attached")
           /\ UNCHANGED victims
  <2>1. link[o].pid \in FindLive(ChildConv(o))
    BY <1>2, <1>4, OutcomeFacts
  <2>2. ChildConv(o)[1] \in Sids \cup Spawns \cup {NoSid} /\ ChildConv(o)[2] \in Dirs
    BY <2>1, LiveIsNoTerm, KeyFacts
  <2>3. /\ sessions' \in Maps /\ peer' \in [Pids -> Ops \cup {NoOne}]
        /\ link' \in [Ops -> Links] /\ link'[o].st \in {"open", "over"}
        /\ link'[o].pid \in {NoPid, link[o].pid}
        /\ link'[o].st = "open" => link'[o].pid # NoPid
        /\ \A s \in Ops : s # o => link'[s] = link[s]
        /\ Placed' /\ RunningHasEntry' /\ OpenHasEntry' /\ EntryHasClient'
    BY <1>1, <1>4, <2>2, RecordKeeps
  <2>4. \A c \in Calls : link'[Direct(c)] = link[Direct(c)]
    BY <2>3, OpNames
  <2>5. /\ resolved' \subseteq Spawns /\ resolved' \subseteq resolved \cup {o}
        /\ flight' \in [Calls -> {"idle", "access", "attach", "spawn"} \cup Settled]
        /\ starting' \subseteq Keys
        /\ Flights' /\ Attempts' /\ Sharing'
    BY <1>1, <1>4, <2>4, ResolvesKeeps DEF Settled
  <2>6. Children' /\ Clients'
    BY <1>1, <2>3, <2>5, PollerRelinks DEF adopts, Inv, Clients
  <2>7. TypeOK'
    BY <1>1, <1>4, <2>3, <2>5 DEF Inv, TypeOK, Maps, adopts
  <2> QED
    BY <1>1, <1>4, <2>3, <2>5, <2>6, <2>7, Frame DEF Inv
<1>5. CASE /\ outcome \notin Recorded
           /\ link' = [link EXCEPT ![o] = Over]
           /\ GiveUp(o)
           /\ UNCHANGED <<sessions, peer>>
  <2>1. /\ link' \in [Ops -> Links] /\ link'[o] = Over
        /\ \A s \in Ops : s # o => link'[s] = link[s]
    BY <1>1, <1>5, LinkStates DEF Inv, TypeOK
  <2>2. link'[o].pid = NoPid /\ link'[o].st = "over"
    BY <2>1, LinkStates
  <2>3. /\ Resolves(o, "rejected") /\ "rejected" \in Settled
        /\ victims' \subseteq {"user", "cli", "term"} /\ UserCliSpared'
    BY <1>1, <1>5, GiveUpFacts
  <2>4. \A c \in Calls : link'[Direct(c)] = link[Direct(c)]
    BY <2>1, OpNames
  <2>5. /\ resolved' \subseteq Spawns /\ resolved' \subseteq resolved \cup {o}
        /\ flight' \in [Calls -> {"idle", "access", "attach", "spawn"} \cup Settled]
        /\ starting' \subseteq Keys
        /\ Flights' /\ Attempts' /\ Sharing'
    BY <1>1, <2>3, <2>4, ResolvesKeeps
  <2>6. Children' /\ Clients'
    BY <1>1, <2>1, <2>2, <2>5, PollerRelinks DEF adopts
  <2>7. Relinked /\ Thinned
    BY <1>1, <1>5, <2>1, <2>2, SameSessionsThinned DEF Relinked
  <2>8. TypeOK'
    BY <1>1, <1>5, <2>1, <2>3, <2>5 DEF Inv, TypeOK, adopts
  <2> QED
    BY <1>1, <1>5, <2>3, <2>5, <2>6, <2>7, <2>8, Frame, EntriesKept DEF Inv
<1> QED  BY <1>3, <1>4, <1>5

LEMMA OnExitStep ==
  ASSUME Inv, NEW o \in Spawns, OnExit(o)
  PROVE  Inv'
<1> DEFINE p == child[o]
<1>1. /\ o \in exited /\ exited' = exited \ {o} /\ Spawned(o) /\ o \notin running
      /\ UNCHANGED <<ready, peer, denies, stopWait, killTimer, shares, key,
                     tabRefused, adopts, victims>>
  BY DEF OnExit, Inv, Children
<1>2. CASE o \notin resolved /\ o[2] = "tab" /\ o \in tabRefused
  <2>1. o[1] \in Calls /\ o = Tab(o[1])
    BY <1>2, OpNames
  <2>2. Spawning(o[1], Window(o[1]), DelIn(sessions, {p}))
    BY <1>1, <1>2, <2>1 DEF Spawning, OnExit
  <2>3. SpawnOnce(Window(o[1]), DelIn(sessions, {p})) /\ UNCHANGED history
    BY <1>2 DEF OnExit, Window
  <2> QED
    BY <1>1, <2>1, <2>2, <2>3, SpawnOnceStep
<1>3. CASE ~(o \notin resolved /\ o[2] = "tab" /\ o \in tabRefused)
  <2>1. /\ IF sessions.at[p] = Absent THEN UNCHANGED <<sessions, history>>
           ELSE /\ sessions' = [sessions EXCEPT !.at[p] =
                   [@ EXCEPT !.alive = FALSE, !.process = FALSE]]
                /\ history' = history \cup {p}
        /\ Resolves(o, "rejected")
        /\ UNCHANGED <<kind, conv, used, child, runs, running, link>>
    BY <1>3 DEF OnExit, Resolves
  <2>2. p \in Pids /\ p \in ChildPids /\ \A s \in running : child[s] # p
    BY <1>1 DEF Inv, TypeOK, Children, Spawned, ChildPids
  <2>3. Thinned
    <3>1. CASE sessions.at[p] = Absent
      BY <2>1, <3>1, SameSessionsThinned
    <3>2. CASE sessions.at[p] # Absent
      <4> DEFINE e == [sessions.at[p] EXCEPT !.alive = FALSE, !.process = FALSE]
      <4>1. sessions.at[p] \in Entries
        BY <2>2, <3>2 DEF Inv, TypeOK
      <4>2. e \in Entries /\ e.kind = sessions.at[p].kind /\ e.op = sessions.at[p].op
        BY <4>1 DEF Entries
      <4>3. sessions' = [sessions EXCEPT !.at[p] = e]
        BY <2>1, <3>2
      <4> HIDE DEF e
      <4>4. sessions' \in Maps /\ sessions'.at = [sessions.at EXCEPT ![p] = e]
        BY <2>2, <4>2, <4>3 DEF Inv, TypeOK, Maps
      <4> QED
        BY <2>1, <2>2, <3>2, <4>2, <4>4 DEF Thinned, Inv, TypeOK
    <3> QED  BY <3>1, <3>2
  <2>4. Relinked
    BY <2>1, SameLinkRelinked
  <2>6. /\ resolved' \subseteq Spawns /\ resolved' \subseteq resolved \cup {o}
        /\ flight' \in [Calls -> {"idle", "access", "attach", "spawn"} \cup Settled]
        /\ starting' \subseteq Keys
        /\ Flights' /\ Attempts' /\ Sharing'
    BY <1>1, <2>1, ResolvesKeeps DEF Settled
  <2>7. Children'
    BY <1>1, <2>1, <2>6 DEF Inv, Children, Spawned, Headless
  <2>5. Placed' /\ RunningHasEntry' /\ OpenHasEntry' /\ EntryHasClient'
    BY <1>1, <2>1, <2>3, <2>4, <2>7, EntriesKept
  <2>8. history' \subseteq history \cup {p}
    BY <2>1
  <2>9. Timers'
    BY <1>1, <2>1, <2>2, <2>8 DEF Inv, Timers, ChildPids
  <2>10. TypeOK'
    BY <1>1, <2>1, <2>2, <2>3, <2>6, <2>8 DEF Inv, TypeOK, Thinned, Maps, adopts
  <2> QED
    BY <1>1, <2>1, <2>5, <2>6, <2>7, <2>9, <2>10, Frame DEF Inv, adopts
<1> QED  BY <1>2, <1>3

----------------------------------------------------------------------------
(* Entries go together with their clients.                                 *)

LEMMA EntriesDropped ==
  ASSUME Inv, NEW ps \in SUBSET Pids, NEW ops \in SUBSET Ops,
         sessions' = DelIn(sessions, ps),
         link' = [s \in Ops |-> IF s \in ops THEN Over ELSE link[s]],
         \A p \in ps : sessions.at[p] # Absent /\ sessions.at[p].kind = "attached"
                       => \/ sessions.at[p].op \in ops
                          \/ kind[p] = "free" /\ p \in ChildPids,
         \A s \in ops : \E p \in ps : link[s] = OpenTo(p) \/ link[s] = Over,
         \A o \in running : child[o] \in ps => Headless(o) /\ child[o] \in ready,
         UNCHANGED <<child, runs, used, running, kind, ready, exited, resolved,
                     adopt, wanted, flight, key, shares>>
  PROVE  /\ sessions' \in Maps /\ link' \in [Ops -> Links]
         /\ Children' /\ Flights' /\ Clients'
         /\ Placed' /\ RunningHasEntry' /\ OpenHasEntry' /\ EntryHasClient'
<1>0. sessions \in Maps
  BY DEF Inv, TypeOK, Maps
<1>1. /\ sessions' \in Maps
      /\ \A p \in Pids : sessions'.at[p] = IF p \in ps THEN Absent ELSE sessions.at[p]
  <2>1. sessions' \in Maps /\ sessions'.at =
          [p \in Pids |-> IF p \in ps THEN Absent ELSE sessions.at[p]]
    BY <1>0, DelInFacts
  <2> QED  BY <2>1
<1>2. /\ link' \in [Ops -> Links]
      /\ \A s \in Ops : link'[s] = IF s \in ops THEN Over ELSE link[s]
  BY LinkStates DEF Inv, TypeOK
<1>4. \A s \in ops : link[s].st \in {"open", "over"}
  BY LinkStates
<1>5. Children'
  <2>1. \A s \in Spawns : ~Spawned(s) => link'[s] = link[s]
    BY <1>2, <1>4, LinkStates, OpNames DEF Inv, Children
  <2> QED
    BY <2>1 DEF Inv, Children, Spawned, Headless
<1>6. Flights'
  BY <1>2, <1>4, LinkStates, OpNames DEF Inv, Flights
<1>7. Clients'
  BY <1>2, <1>4, LinkStates, OpNames DEF Inv, Clients, TermPids, Headless
<1>8. Placed'
  BY <1>1 DEF Inv, Placed, TermPids, ChildPids, Headless
<1>9. RunningHasEntry'
  <2>1. \A o \in running : child[o] \in Pids
    BY DEF Inv, TypeOK, Children, Spawned
  <2> QED
    BY <1>1, <2>1 DEF Inv, RunningHasEntry, Headless
<1>10. OpenHasEntry'
  <2> SUFFICES ASSUME NEW s \in Ops, link'[s].st = "open"
               PROVE  LET f == sessions'.at[link'[s].pid] IN
                      \/ f # Absent /\ f.kind = "attached" /\ f.op = s
                      \/ kind[link'[s].pid] = "free" /\ link'[s].pid \in ChildPids
    BY DEF OpenHasEntry, Open, ChildPids
  <2>1. s \notin ops /\ link'[s] = link[s]
    BY <1>2, LinkStates
  <2>2. link[s].pid \in Pids
    BY <2>1 DEF Inv, TypeOK, Clients, Links
  <2>3. \/ link[s].pid \notin ps
        \/ kind[link[s].pid] = "free" /\ link[s].pid \in ChildPids
    BY <2>1 DEF Inv, OpenHasEntry, Open
  <2> QED
    BY <1>1, <2>1, <2>2, <2>3 DEF Inv, OpenHasEntry, Open
<1>11. EntryHasClient'
  <2> SUFFICES ASSUME NEW q \in Pids, sessions'.at[q] # Absent,
                      sessions'.at[q].kind = "attached"
               PROVE  LET s == sessions'.at[q].op IN
                      link'[s] = OpenTo(q) \/ (Coalesced /\ link'[s] = Over)
    BY DEF EntryHasClient
  <2> DEFINE s == sessions.at[q].op
  <2>1. /\ q \notin ps /\ sessions'.at[q] = sessions.at[q]
        /\ s \in Ops /\ (link[s] = OpenTo(q) \/ (Coalesced /\ link[s] = Over))
    BY <1>1 DEF Inv, TypeOK, Entries, EntryHasClient
  <2>2. s \in ops => link[s] = Over
    BY <2>1, LinkStates
  <2> QED
    BY <1>2, <2>1, <2>2
<1> QED
  BY <1>1, <1>2, <1>5, <1>6, <1>7, <1>8, <1>9, <1>10, <1>11

\* The entry of a pty child that does not run goes.
LEMMA ChildDropped ==
  ASSUME Inv, NEW p \in ChildPids, sessions' = DelIn(sessions, {p}),
         \A s \in running' : child[s] # p
  PROVE  Thinned
<1>1. sessions \in Maps
  BY DEF Inv, TypeOK, Maps
<1>2. sessions' \in Maps /\ sessions'.at =
        [q \in Pids |-> IF q \in {p} THEN Absent ELSE sessions.at[q]]
  BY <1>1, DelInFacts
<1> QED  BY <1>2 DEF Thinned

LEMMA HistoryExpiresStep ==
  ASSUME Inv, NEW p \in Pids, HistoryExpires(p)
  PROVE  Inv'
<1>1. /\ p \in history /\ history' = history \ {p}
      /\ sessions' = DelIn(sessions, {p})
      /\ UNCHANGED <<os, stopWait, killTimer, starts, link, spawned, adopts, victims>>
  BY DEF HistoryExpires
<1>2. p \in ChildPids /\ \A s \in running' : child[s] # p
  BY <1>1 DEF Inv, Timers, spawned
<1>3. Thinned /\ Relinked /\ Children'
  BY <1>1, <1>2, ChildDropped, SameLinkRelinked, Frame DEF Inv, os, spawned
<1>4. Timers'
  BY <1>1 DEF Inv, Timers, spawned, ChildPids
<1>5. TypeOK'
  BY <1>1, <1>3 DEF Inv, TypeOK, Thinned, Maps, os, starts, spawned, adopts
<1> QED
  BY <1>1, <1>3, <1>4, <1>5, Frame, EntriesKept DEF Inv, os, starts, spawned, adopts

LEMMA StopSeesExitStep ==
  ASSUME Inv, NEW p \in Pids, StopSeesExit(p)
  PROVE  Inv'
<1>1. /\ p \in stopWait /\ kind[p] = "free" /\ stopWait' = stopWait \ {p}
      /\ sessions' = DelIn(sessions, {p})
      /\ UNCHANGED <<os, history, killTimer, starts, link, spawned, adopts, victims>>
  BY DEF StopSeesExit
<1>2. p \in ChildPids /\ \A s \in running' : child[s] # p
  BY <1>1 DEF Inv, TypeOK, Timers, Children, spawned
<1>3. Thinned /\ Relinked /\ Children'
  BY <1>1, <1>2, ChildDropped, SameLinkRelinked, Frame DEF Inv, os, spawned
<1>4. Timers'
  BY <1>1 DEF Inv, Timers, spawned, ChildPids
<1>5. TypeOK'
  BY <1>1, <1>3 DEF Inv, TypeOK, Thinned, Maps, os, starts, spawned, adopts
<1> QED
  BY <1>1, <1>3, <1>4, <1>5, Frame, EntriesKept DEF Inv, os, starts, spawned, adopts

LEMMA ClientLostStep ==
  ASSUME Inv, NEW o \in Ops, ClientLost(o)
  PROVE  Inv'
<1> DEFINE p == link[o].pid
<1>1. /\ link[o].st = "open" /\ link' = [link EXCEPT ![o] = Over]
      /\ sessions' = DelIn(sessions, {p})
      /\ UNCHANGED <<os, history, stopWait, killTimer, starts, spawned, adopts, victims>>
  BY DEF ClientLost
<1>2. p \in Pids /\ UNCHANGED <<child, runs, used, running, kind, ready, exited,
                               resolved, adopt, wanted, flight, key, shares>>
  BY <1>1 DEF Inv, TypeOK, Clients, Links, os, starts, spawned, adopts
<1>3. link' = [s \in Ops |-> IF s \in {o} THEN Over ELSE link[s]]
  BY <1>1 DEF Inv, TypeOK
<1>5. /\ sessions' \in Maps /\ link' \in [Ops -> Links]
      /\ Children' /\ Flights' /\ Clients'
      /\ Placed' /\ RunningHasEntry' /\ OpenHasEntry' /\ EntryHasClient'
  <2>1. \/ /\ sessions.at[p] # Absent /\ sessions.at[p].kind = "attached"
           /\ sessions.at[p].op = o
        \/ kind[p] = "free" /\ p \in ChildPids
    BY <1>1 DEF Inv, OpenHasEntry, Open
  <2>2. \A s \in running : child[s] \in {p} => Headless(s) /\ child[s] \in ready
    BY <2>1 DEF Inv, TypeOK, Children, RunningHasEntry
  <2>3. link[o] = OpenTo(p)
    BY <1>1, LinkStates DEF Inv, TypeOK
  <2>4. \A q \in {p} : sessions.at[q] # Absent /\ sessions.at[q].kind = "attached"
                       => \/ sessions.at[q].op \in {o}
                          \/ kind[q] = "free" /\ q \in ChildPids
    BY <2>1
  <2>5. \A s \in {o} : \E q \in {p} : link[s] = OpenTo(q) \/ link[s] = Over
    BY <2>3
  <2>6. {p} \in SUBSET Pids /\ {o} \in SUBSET Ops
    BY <1>2
  <2> HIDE DEF p
  <2> QED
    BY <1>1, <1>2, <1>3, <2>2, <2>4, <2>5, <2>6, EntriesDropped
<1>6. TypeOK'
  BY <1>1, <1>5 DEF Inv, TypeOK, Maps, os, starts, spawned, adopts
<1> QED
  BY <1>1, <1>5, <1>6, Frame DEF Inv, os, starts, spawned, adopts

LEMMA StopSessionStep ==
  ASSUME Inv, NEW p \in Pids, StopSession(p)
  PROVE  Inv'
<1> DEFINE s == sessions.at[p]
<1>1. /\ s # Absent /\ s \in Entries
      /\ UNCHANGED <<kind, conv, ready, denies, used, history, starts, spawned, adopts>>
  BY DEF StopSession, Inv, TypeOK
<1>2. CASE /\ s.kind = "attached"
           /\ Disconnect({s.op})
           /\ sessions' = DelIn(sessions, {p})
           /\ UNCHANGED <<stopWait, killTimer, victims>>
  <2>1. s.op \in Ops /\ (link[s.op] = OpenTo(p) \/ link[s.op] = Over)
    BY <1>1, <1>2 DEF Entries, Inv, EntryHasClient
  <2>2. /\ link' = [o \in Ops |-> IF o \in {s.op} THEN Over ELSE link[o]]
        /\ peer' \in [Pids -> Ops \cup {NoOne}]
    BY <1>2 DEF Disconnect, Inv, TypeOK
  <2>3. \A o \in running : child[o] \in {p} => Headless(o) /\ child[o] \in ready
    BY <1>2 DEF Inv, RunningHasEntry
  <2>4. /\ sessions' \in Maps /\ link' \in [Ops -> Links]
        /\ Children' /\ Flights' /\ Clients'
        /\ Placed' /\ RunningHasEntry' /\ OpenHasEntry' /\ EntryHasClient'
    BY <1>1, <1>2, <2>1, <2>2, <2>3, EntriesDropped DEF starts, spawned, adopts
  <2>5. TypeOK'
    BY <1>1, <1>2, <2>2, <2>4 DEF Inv, TypeOK, Maps, starts, spawned, adopts
  <2> QED
    BY <1>1, <1>2, <2>4, <2>5, Frame DEF Inv, starts, spawned, adopts
<1>3. CASE /\ s.kind # "attached" /\ ~(s.alive /\ s.process)
           /\ sessions' = DelIn(sessions, {p})
           /\ UNCHANGED <<stopWait, killTimer, victims, link, peer>>
  <2>1. p \in ChildPids /\ \A o \in running' : child[o] # p
    BY <1>1, <1>3 DEF Entries, Inv, Placed, ChildPids, RunningHasEntry, spawned
  <2>2. Thinned /\ Relinked /\ Children'
    BY <1>1, <1>3, <2>1, ChildDropped, SameLinkRelinked, Frame DEF Inv, spawned
  <2>3. TypeOK'
    BY <1>1, <1>3, <2>2 DEF Inv, TypeOK, Thinned, Maps, starts, spawned, adopts
  <2> QED
    BY <1>1, <1>3, <2>2, <2>3, Frame, EntriesKept DEF Inv, starts, spawned, adopts
<1>4. CASE /\ s.kind # "attached" /\ s.alive /\ s.process
           /\ Signal(p)
           /\ stopWait' = stopWait \cup {p} /\ killTimer' = killTimer \cup {p}
           /\ UNCHANGED <<sessions, link, peer>>
  <2>1. p \in ChildPids
    BY <1>1, <1>4 DEF Entries, Inv, Placed, ChildPids
  <2>2. victims' \subseteq {"user", "cli", "term"} /\ UserCliSpared'
    BY <1>4, <2>1, SignalChild
  <2>3. Timers'
    BY <1>1, <1>4, <2>1 DEF Inv, Timers, ChildPids, spawned
  <2>4. TypeOK'
    BY <1>1, <1>4, <2>2 DEF Inv, TypeOK, starts, spawned, adopts
  <2> QED
    BY <1>1, <1>4, <2>2, <2>3, <2>4, Frame DEF Inv, starts, spawned, adopts
<1> QED  BY <1>2, <1>3, <1>4 DEF StopSession

LEMMA ReapStep ==
  ASSUME Inv, Reap
  PROVE  Inv'
<1> DEFINE dead == {p \in Pids : /\ sessions.at[p] # Absent
                                 /\ sessions.at[p].alive /\ kind[p] = "free"}
           ops == {sessions.at[p].op : p \in {q \in dead : sessions.at[q].kind = "attached"}}
<1>1. /\ sessions' = DelIn(sessions, dead) /\ Disconnect(ops)
      /\ UNCHANGED <<kind, conv, ready, denies, used, history, stopWait,
                     killTimer, starts, spawned, adopts, victims>>
  BY DEF Reap
<1>2. ops \in SUBSET Ops
  BY DEF Inv, TypeOK, Entries
<1>3. \A o \in running : child[o] \notin dead
  BY DEF Inv, TypeOK, Children
<1>4. /\ \A q \in dead : sessions.at[q] # Absent /\ sessions.at[q].kind = "attached"
                         => sessions.at[q].op \in ops
      /\ \A s \in ops : \E q \in dead : link[s] = OpenTo(q) \/ link[s] = Over
      /\ dead \in SUBSET Pids
  BY DEF Inv, EntryHasClient
<1> HIDE DEF dead, ops
<1>5. /\ link' = [o \in Ops |-> IF o \in ops THEN Over ELSE link[o]]
      /\ peer' \in [Pids -> Ops \cup {NoOne}]
  BY <1>1 DEF Disconnect, Inv, TypeOK
<1>6. /\ sessions' \in Maps /\ link' \in [Ops -> Links]
      /\ Children' /\ Flights' /\ Clients'
      /\ Placed' /\ RunningHasEntry' /\ OpenHasEntry' /\ EntryHasClient'
  BY <1>1, <1>2, <1>3, <1>4, <1>5, EntriesDropped DEF starts, spawned, adopts
<1>7. TypeOK'
  BY <1>1, <1>5, <1>6 DEF Inv, TypeOK, Maps, starts, spawned, adopts
<1> QED
  BY <1>1, <1>6, <1>7, Frame DEF Inv, starts, spawned, adopts

----------------------------------------------------------------------------
(* The direct attach of a start, and adopt.                                *)

\* A start that attached is settled, and its client is done attaching.
LEMMA DirectSettles ==
  ASSUME Inv, NEW c \in Calls, link[Direct(c)].st = "attaching",
         NEW how \in Settled, SettleStart(c, how),
         link' \in [Ops -> Links],
         \A s \in Ops : s # Direct(c) => link'[s] = link[s],
         link'[Direct(c)].st \in {"open", "over"},
         link'[Direct(c)].pid \in {NoPid, link[Direct(c)].pid},
         link'[Direct(c)].st = "open" => link'[Direct(c)].pid # NoPid,
         UNCHANGED <<child, runs, used, kind, running, exited, resolved, adopt,
                     wanted, key, shares>>
  PROVE  /\ flight' \in [Calls -> {"idle", "access", "attach", "spawn"} \cup Settled]
         /\ starting' \subseteq Keys
         /\ Children' /\ Flights' /\ Attempts' /\ Sharing' /\ Clients'
<1>1. flight[c] = "attach" /\ key[c] \in Keys /\ shares[c] # NoOne
  BY DEF Inv, Flights
<1>2. /\ flight' = [flight EXCEPT ![c] = how]
      /\ flight' \in [Calls -> {"idle", "access", "attach", "spawn"} \cup Settled]
      /\ flight'[c] = how /\ how \notin Pending /\ how # "idle"
      /\ starting' \subseteq Keys /\ Sharing'
  BY <1>1, SettleSharing DEF Pending
<1>3. /\ \A d \in Calls : d # c => flight'[d] = flight[d]
      /\ \A d \in Calls : d # c => link'[Direct(d)] = link[Direct(d)]
      /\ \A s \in Spawns : link'[s] = link[s]
      /\ \A a \in Adopts : link'[Adopting(a)] = link[Adopting(a)]
      /\ Direct(c) \in Ops
  BY <1>2, OpNames DEF Inv, TypeOK
<1>4. Children'
  BY <1>3 DEF Inv, Children, Spawned, Headless
<1>5. Flights'
  BY <1>1, <1>2, <1>3 DEF Inv, Flights, Pending
<1>6. Attempts'
  BY <1>1, <1>2, <1>3 DEF Inv, Attempts, Spawned, Pending
<1>7. Clients'
  BY <1>3 DEF Inv, Clients, TermPids, Headless
<1> QED  BY <1>2, <1>4, <1>5, <1>6, <1>7

LEMMA DirectAttachedStep ==
  ASSUME Inv, NEW c \in Calls, DirectAttached(c)
  PROVE  Inv'
<1> DEFINE o == Direct(c)
<1>1. /\ link[o].st = "attaching" /\ o \in Ops
      /\ UNCHANGED <<ready, denies, history, stopWait, killTimer, shares, key,
                     exited, tabRefused, resolved, adopts, victims>>
  BY OpNames DEF DirectAttached, Direct
<1>2. link[o].pid \in Pids
  BY <1>1 DEF Inv, TypeOK, Clients, Links
<1>3. flight[c] = "attach" /\ key[c] \in Keys
  BY <1>1 DEF Inv, Flights
<1>4. PICK outcome \in Outcomes(link[o].pid, key[c]) :
       \/ /\ outcome \in Recorded
          /\ RecordAttach(o, key[c], outcome)
          /\ SettleStart(c, "attached")
          /\ UNCHANGED <<kind, conv, used, child, runs, running>>
       \/ /\ outcome = "already_attached"
          /\ SettleStart(c, "reported")
          /\ link' = [link EXCEPT ![o] = Over]
          /\ UNCHANGED <<kind, conv, used, peer, sessions, child, runs, running>>
       \/ /\ outcome \in {"failed", "consent_denied"}
          /\ SpawnOnce(Tab(c), sessions)
          /\ UNCHANGED peer
  BY DEF DirectAttached, Direct, Tab
<1> HIDE DEF o
<1>5. CASE /\ outcome \in Recorded
           /\ RecordAttach(o, key[c], outcome)
           /\ SettleStart(c, "attached")
           /\ UNCHANGED <<kind, conv, used, child, runs, running>>
  <2>1. key[c][1] \in Sids \cup Spawns \cup {NoSid} /\ key[c][2] \in Dirs
    BY <1>3, KeyFacts
  <2>2. /\ sessions' \in Maps /\ peer' \in [Pids -> Ops \cup {NoOne}]
        /\ link' \in [Ops -> Links] /\ link'[o].st \in {"open", "over"}
        /\ link'[o].pid \in {NoPid, link[o].pid}
        /\ link'[o].st = "open" => link'[o].pid # NoPid
        /\ \A s \in Ops : s # o => link'[s] = link[s]
        /\ Placed' /\ RunningHasEntry' /\ OpenHasEntry' /\ EntryHasClient'
    BY <1>1, <1>5, <2>1, RecordKeeps
  <2>3. /\ flight' \in [Calls -> {"idle", "access", "attach", "spawn"} \cup Settled]
        /\ starting' \subseteq Keys
        /\ Children' /\ Flights' /\ Attempts' /\ Sharing' /\ Clients'
    BY <1>1, <1>5, <2>2, DirectSettles DEF o, Settled, adopts
  <2>4. TypeOK'
    BY <1>1, <1>5, <2>2, <2>3 DEF Inv, TypeOK, Maps, adopts
  <2> QED
    BY <1>1, <1>5, <2>2, <2>3, <2>4, Frame DEF Inv
<1>6. CASE /\ outcome = "already_attached"
           /\ SettleStart(c, "reported")
           /\ link' = [link EXCEPT ![o] = Over]
           /\ UNCHANGED <<kind, conv, used, peer, sessions, child, runs, running>>
  <2>1. /\ link' \in [Ops -> Links] /\ link'[o] = Over
        /\ \A s \in Ops : s # o => link'[s] = link[s]
    BY <1>1, <1>6, LinkStates DEF Inv, TypeOK
  <2>2. link'[o].pid = NoPid /\ link'[o].st = "over"
    BY <2>1, LinkStates
  <2>3. /\ flight' \in [Calls -> {"idle", "access", "attach", "spawn"} \cup Settled]
        /\ starting' \subseteq Keys
        /\ Children' /\ Flights' /\ Attempts' /\ Sharing' /\ Clients'
    BY <1>1, <1>6, <2>1, <2>2, DirectSettles DEF o, Settled, adopts
  <2>4. Relinked /\ Thinned
    BY <1>1, <1>6, <2>1, <2>2, SameSessionsThinned DEF Relinked
  <2>5. TypeOK'
    BY <1>1, <1>6, <2>1, <2>3 DEF Inv, TypeOK, adopts
  <2> QED
    BY <1>1, <1>6, <2>3, <2>4, <2>5, Frame, EntriesKept DEF Inv
<1>7. CASE SpawnOnce(Tab(c), sessions) /\ UNCHANGED peer
  <2>1. Spawning(c, Tab(c), sessions)
    BY <1>1, <1>3 DEF Spawning
  <2> QED
    BY <1>1, <1>7, <2>1, SpawnOnceStep
<1> QED  BY <1>4, <1>5, <1>6, <1>7

\* The client of an adopt goes on, and no start notices.
LEMMA AdoptRelinks ==
  ASSUME Inv, NEW a \in Adopts,
         link' \in [Ops -> Links],
         \A s \in Ops : s # Adopting(a) => link'[s] = link[s],
         link'[Adopting(a)].pid # NoPid =>
           link'[Adopting(a)].pid \in used /\ link'[Adopting(a)].pid \notin TermPids,
         link'[Adopting(a)].st \in {"attaching", "open"} => link'[Adopting(a)].pid # NoPid,
         link'[Adopting(a)].st = "attaching" => wanted'[a] \in Sids \X Dirs,
         adopt'[a] # "idle",
         \A b \in Adopts : b # a => adopt'[b] = adopt[b] /\ wanted'[b] = wanted[b],
         UNCHANGED <<child, runs, used, kind, running, exited, resolved, flight, key,
                     shares>>
  PROVE  Children' /\ Flights' /\ Clients'
<1>1. /\ \A c \in Calls : link'[Direct(c)] = link[Direct(c)]
      /\ \A s \in Spawns : link'[s] = link[s]
      /\ \A b \in Adopts : b # a => link'[Adopting(b)] = link[Adopting(b)]
      /\ Adopting(a) \in Ops
  BY OpNames
<1>2. Children'
  BY <1>1 DEF Inv, Children, Spawned, Headless
<1>3. Flights'
  BY <1>1 DEF Inv, Flights
<1>4. Clients'
  BY <1>1 DEF Inv, Clients, TermPids, Headless
<1> QED  BY <1>2, <1>3, <1>4

LEMMA AdoptSessionStep ==
  ASSUME Inv, NEW a \in Adopts, NEW sid \in Sids, NEW d \in Dirs,
         AdoptSession(a, sid, d)
  PROVE  Inv'
<1>1. /\ adopt[a] = "idle" /\ link[Adopting(a)] = Idle
      /\ UNCHANGED <<os, map, starts, spawned, victims>>
  BY DEF AdoptSession, Inv, Clients
<1>2. CASE /\ \E how \in {"yes", "no"} : adopt' = [adopt EXCEPT ![a] = how]
           /\ UNCHANGED <<wanted, link>>
  <2>1. /\ adopt' \in [Adopts -> {"idle", "attaching", "yes", "no"}]
        /\ adopt'[a] # "idle" /\ \A b \in Adopts : b # a => adopt'[b] = adopt[b]
    BY <1>2 DEF Inv, TypeOK
  <2>2. TypeOK'
    BY <1>1, <1>2, <2>1 DEF Inv, TypeOK, os, map, starts, spawned
  <2>3. Clients'
    BY <1>1, <1>2, <2>1 DEF Inv, Clients, os, spawned, TermPids, Headless
  <2> QED
    BY <1>1, <1>2, <2>2, <2>3, Frame DEF Inv, os, map, starts, spawned
<1>3. CASE /\ adopt' = [adopt EXCEPT ![a] = "attaching"]
           /\ wanted' = [wanted EXCEPT ![a] = <<sid, d>>]
           /\ \E p \in FindLive(<<sid, d>>) :
                link' = [link EXCEPT ![Adopting(a)] = AttachingTo(p)]
  <2>1. PICK p \in FindLive(<<sid, d>>) :
          link' = [link EXCEPT ![Adopting(a)] = AttachingTo(p)]
    BY <1>3
  <2>2. p \in Pids /\ p \in used /\ p \notin TermPids /\ p # NoPid
    BY LiveIsNoTerm, ConstantsAssumption
  <2>3. /\ link' \in [Ops -> Links] /\ link'[Adopting(a)] = AttachingTo(p)
        /\ \A s \in Ops : s # Adopting(a) => link'[s] = link[s]
    BY <2>1, <2>2, OpNames, LinkStates DEF Inv, TypeOK
  <2>4. link'[Adopting(a)].pid = p /\ link'[Adopting(a)].st = "attaching"
        /\ link[Adopting(a)].st = "idle"
    BY <1>1, <2>2, <2>3, LinkStates
  <2>5. /\ adopt' \in [Adopts -> {"idle", "attaching", "yes", "no"}]
        /\ wanted' \in [Adopts -> Convs \cup {NoConv}]
        /\ adopt'[a] # "idle" /\ wanted'[a] = <<sid, d>>
        /\ \A b \in Adopts : b # a => adopt'[b] = adopt[b] /\ wanted'[b] = wanted[b]
    BY <1>3, KeyFacts DEF Inv, TypeOK
  <2>6. Children' /\ Flights' /\ Clients'
    BY <1>1, <2>2, <2>3, <2>4, <2>5, AdoptRelinks DEF os, spawned, starts
  <2>7. Relinked /\ Thinned
    BY <1>1, <2>3, <2>4, SameSessionsThinned DEF Relinked, map
  <2>8. TypeOK'
    BY <1>1, <2>3, <2>5 DEF Inv, TypeOK, os, map, starts, spawned
  <2> QED
    BY <1>1, <2>6, <2>7, <2>8, Frame, EntriesKept DEF Inv, os, map, starts, spawned
<1> QED
  BY <1>2, <1>3 DEF AdoptSession, Adopting

LEMMA AdoptedStep ==
  ASSUME Inv, NEW a \in Adopts, Adopted(a)
  PROVE  Inv'
<1> DEFINE o == Adopting(a)
<1>1. /\ link[o].st = "attaching" /\ o \in Ops
      /\ UNCHANGED <<kind, conv, ready, denies, used, history, stopWait,
                     killTimer, starts, spawned, wanted, victims>>
  BY OpNames DEF Adopted, Adopting
<1>2. link[o].pid \in Pids /\ link[o].pid \in used /\ link[o].pid \notin TermPids
      /\ link[o].pid # NoPid
  BY <1>1 DEF Inv, TypeOK, Clients, Links
<1>3. wanted[a] \in Sids \X Dirs
  BY <1>1 DEF Inv, Clients
<1>4. PICK outcome \in Outcomes(link[o].pid, wanted[a]) :
       \/ /\ outcome \in Recorded
          /\ RecordAttach(o, wanted[a], outcome)
          /\ adopt' = [adopt EXCEPT ![a] = "yes"]
       \/ /\ outcome \notin Recorded
          /\ link' = [link EXCEPT ![o] = Over]
          /\ adopt' = [adopt EXCEPT ![a] =
                         IF outcome = "already_attached" THEN "yes" ELSE "no"]
          /\ UNCHANGED <<sessions, peer>>
  BY DEF Adopted, Adopting
<1>5. /\ adopt' \in [Adopts -> {"idle", "attaching", "yes", "no"}]
      /\ adopt'[a] # "idle" /\ \A b \in Adopts : b # a => adopt'[b] = adopt[b]
  <2>1. PICK how \in {"yes", "no"} : adopt' = [adopt EXCEPT ![a] = how]
    BY <1>4
  <2> QED  BY <2>1 DEF Inv, TypeOK
<1> HIDE DEF o
<1>6. CASE outcome \in Recorded /\ RecordAttach(o, wanted[a], outcome)
  <2>1. wanted[a][1] \in Sids \cup Spawns \cup {NoSid} /\ wanted[a][2] \in Dirs
    BY <1>3
  <2>2. /\ sessions' \in Maps /\ peer' \in [Pids -> Ops \cup {NoOne}]
        /\ link' \in [Ops -> Links] /\ link'[o].st \in {"open", "over"}
        /\ link'[o].pid \in {NoPid, link[o].pid}
        /\ link'[o].st = "open" => link'[o].pid # NoPid
        /\ \A s \in Ops : s # o => link'[s] = link[s]
        /\ Placed' /\ RunningHasEntry' /\ OpenHasEntry' /\ EntryHasClient'
    BY <1>1, <1>6, <2>1, RecordKeeps DEF spawned
  <2>3. Children' /\ Flights' /\ Clients'
    BY <1>1, <1>2, <1>5, <2>2, AdoptRelinks DEF o, starts, spawned
  <2>4. TypeOK'
    BY <1>1, <1>5, <2>2 DEF Inv, TypeOK, Maps, starts, spawned
  <2> QED
    BY <1>1, <2>2, <2>3, <2>4, Frame DEF Inv, starts, spawned
<1>7. CASE /\ link' = [link EXCEPT ![o] = Over]
           /\ UNCHANGED <<sessions, peer>>
  <2>1. /\ link' \in [Ops -> Links] /\ link'[o] = Over
        /\ \A s \in Ops : s # o => link'[s] = link[s]
    BY <1>1, <1>7, LinkStates DEF Inv, TypeOK
  <2>2. link'[o].pid = NoPid /\ link'[o].st = "over"
    BY <2>1, LinkStates
  <2>3. Children' /\ Flights' /\ Clients'
    BY <1>1, <1>5, <2>1, <2>2, AdoptRelinks DEF o, starts, spawned
  <2>4. Relinked /\ Thinned
    BY <1>1, <1>7, <2>1, <2>2, SameSessionsThinned DEF Relinked
  <2>5. TypeOK'
    BY <1>1, <1>5, <1>7, <2>1 DEF Inv, TypeOK, starts, spawned
  <2> QED
    BY <1>1, <1>7, <2>3, <2>4, <2>5, Frame, EntriesKept DEF Inv, starts, spawned
<1> QED  BY <1>4, <1>6, <1>7

----------------------------------------------------------------------------
(* The operating system, the terminal and the CLIs.                        *)

\* A CLI starts: with a pid nobody has, so no child's and no client's.  A
\* terminal that runs it stays a terminal.
LEMMA BornStep ==
  ASSUME Inv, NEW p \in FreePids, NEW k \in {"user", "cli"}, NEW cv \in Convs,
         Born(p, k, cv), ready' \subseteq Pids, denies' \subseteq Pids,
         ready \subseteq ready', runs' \in [Spawns -> Pids \cup {NoPid}],
         \A s \in Spawns : runs'[s] = runs[s]
                          \/ (Spawned(s) /\ runs[s] = NoPid /\ runs'[s] = p),
         UNCHANGED <<peer, map, starts, link, child, running, exited, tabRefused,
                     resolved, adopts, victims>>
  PROVE  Inv'
<1>1. /\ kind' = [kind EXCEPT ![p] = k] /\ conv' = [conv EXCEPT ![p] = cv]
      /\ used' = used \cup {p} /\ p \in Pids /\ p \notin used
  BY DEF Born, FreePids
<1>2. Processes'
  BY <1>1 DEF Inv, TypeOK, Processes
<1>2a. \A s \in Spawns : child[s] # p /\ (Headless(s)' <=> Headless(s))
  BY <1>1, ConstantsAssumption DEF Inv, Children, Spawned, Headless
<1>3. Children'
  BY <1>1, <1>2a DEF Inv, TypeOK, Children, Spawned
<1>4. Clients' /\ Placed'
  <2>1. TermPids' = TermPids
    BY <1>2a DEF TermPids
  <2> QED
    BY <1>1, <2>1 DEF Inv, Clients, Placed, ChildPids, adopts, map
<1>4a. RunningHasEntry'
  BY <1>1, <1>2a DEF Inv, TypeOK, RunningHasEntry, map
<1>4b. OpenHasEntry'
  BY <1>1, <1>2a DEF Inv, TypeOK, OpenHasEntry, Open, ChildPids, map
<1>5. TypeOK'
  BY <1>1 DEF Inv, TypeOK, map, starts, adopts
<1> QED
  BY <1>1, <1>2, <1>3, <1>4, <1>4a, <1>4b, <1>5, Frame DEF Inv, map, starts, adopts

LEMMA UserOpensCliStep ==
  ASSUME Inv, NEW p \in Pids, NEW cv \in Sids \X Dirs, NEW revoked \in BOOLEAN,
         UserOpensCli(p, cv, revoked)
  PROVE  Inv'
<1>1. cv \in Convs
  BY KeyFacts
<1> QED
  BY <1>1, BornStep DEF UserOpensCli, spawned, Inv, TypeOK

\* A terminal runs for a start that asked for a conversation.
LEMMA SpawnedAsked ==
  ASSUME Inv, NEW o \in Spawns, Spawned(o)
  PROVE  o[1] \in Calls /\ key[o[1]] \in Keys
BY OpNames DEF Inv, Attempts, Flights

LEMMA TermRunsCliStep ==
  ASSUME Inv, NEW o \in Spawns, NEW p \in Pids, TermRunsCli(o, p)
  PROVE  Inv'
<1>1. Spawned(o)
  BY DEF TermRunsCli, Inv, Children
<1>2. ChildConv(o) \in Convs
  BY <1>1, SpawnedAsked, SpawnFacts
<1> QED
  BY <1>1, <1>2, BornStep DEF TermRunsCli, Inv, TypeOK

LEMMA CliPublishesStep ==
  ASSUME Inv, NEW p \in Pids, CliPublishes(p)
  PROVE  Inv'
<1>1. UNCHANGED <<kind, conv, peer, denies, used, map, starts, link, spawned,
                  adopts, victims>> /\ ready' = ready \cup {p}
  BY DEF CliPublishes
<1>2. TypeOK'
  BY <1>1 DEF Inv, TypeOK, map, starts, spawned, adopts
<1> QED
  BY <1>1, <1>2, Frame DEF Inv, map, starts, spawned, adopts

LEMMA CliDropsPeerStep ==
  ASSUME Inv, NEW p \in Pids, CliDropsPeer(p)
  PROVE  Inv'
<1>1. UNCHANGED <<kind, conv, ready, denies, used, map, starts, link, spawned,
                  adopts, victims>> /\ peer' = [peer EXCEPT ![p] = NoOne]
  BY DEF CliDropsPeer
<1>2. TypeOK'
  BY <1>1 DEF Inv, TypeOK, map, starts, spawned, adopts
<1> QED
  BY <1>1, <1>2, Frame DEF Inv, map, starts, spawned, adopts

\* A process ends: whatever terminal had the pid does not run any more.
LEMMA GoneKeeps ==
  ASSUME Inv, NEW p \in Pids, Gone(p), Thinned,
         stopWait' \subseteq stopWait, killTimer' \subseteq killTimer,
         UNCHANGED history,
         tabRefused' \subseteq Spawns, victims' \subseteq {"user", "cli", "term"},
         UserCliSpared'
  PROVE  Inv'
<1> DEFINE ended == {o \in running : child[o] = p}
<1>1. /\ kind' = [kind EXCEPT ![p] = "free"] /\ conv' = [conv EXCEPT ![p] = NoConv]
      /\ ready' = ready \ {p} /\ denies' = denies \ {p}
      /\ peer' = [peer EXCEPT ![p] = NoOne]
      /\ running' = running \ ended /\ exited' = exited \cup ended
      /\ UNCHANGED <<used, starts, link, child, runs, resolved, adopts>>
  BY DEF Gone
<1>2. ended \subseteq running /\ \A o \in running' : child[o] # p
  BY <1>1
<1>3. Processes'
  BY <1>1 DEF Inv, TypeOK, Processes
<1>4. Children'
  BY <1>1, <1>2 DEF Inv, TypeOK, Children, Spawned, Headless
<1>5. Timers'
  BY <1>1 DEF Inv, Timers, ChildPids
<1>6. Relinked
  BY <1>1, SameLinkRelinked
<1>7. Placed' /\ RunningHasEntry' /\ OpenHasEntry' /\ EntryHasClient'
  BY <1>1, <1>2, <1>4, <1>6, EntriesKept
<1>7a. Clients'
  BY <1>1 DEF Inv, Clients, TermPids, Headless, adopts
<1>8. TypeOK'
  <2>1. sessions' \in Maps
    BY DEF Thinned
  <2> QED
    BY <1>1, <1>2, <2>1 DEF Inv, TypeOK, Maps, starts, adopts
<1> QED
  BY <1>1, <1>3, <1>4, <1>5, <1>7, <1>7a, <1>8, Frame DEF Inv, starts, adopts

LEMMA ProcessExitsStep ==
  ASSUME Inv, NEW p \in Pids, ProcessExits(p)
  PROVE  Inv'
BY GoneKeeps, SameSessionsThinned DEF ProcessExits, map, Inv, TypeOK, UserCliSpared

LEMMA TabRefusedStep ==
  ASSUME Inv, NEW o \in Spawns, TabRefused(o)
  PROVE  Inv'
<1>1. child[o] \in Pids
  BY DEF TabRefused, Inv, TypeOK, Children, Spawned
<1> QED
  BY <1>1, GoneKeeps, SameSessionsThinned
     DEF TabRefused, map, Inv, TypeOK, UserCliSpared

LEMMA StopKillStep ==
  ASSUME Inv, NEW p \in Pids, StopKill(p)
  PROVE  Inv'
<1>1. p \in killTimer /\ killTimer' = killTimer \ {p} /\ Signal(p) /\ Gone(p)
      /\ UNCHANGED <<history, tabRefused>>
  BY DEF StopKill
<1>2. p \in ChildPids
  BY <1>1 DEF Inv, Timers
<1>3. victims' \subseteq {"user", "cli", "term"} /\ UserCliSpared'
  BY <1>1, <1>2, SignalChild
<1>4. \A s \in running' : child[s] # p
  BY <1>1 DEF Gone
<1>5. Thinned /\ stopWait' \subseteq stopWait
  BY <1>2, <1>4, ChildDropped, SameSessionsThinned DEF StopKill
<1> QED
  BY <1>1, <1>3, <1>5, GoneKeeps DEF Inv, TypeOK

----------------------------------------------------------------------------
(* The invariant.                                                          *)

LEMMA InitInv == Init => Inv
<1> SUFFICES ASSUME Init PROVE Inv
  OBVIOUS
<1> USE DEF Init
<1>1. TypeOK
  BY LinkStates DEF TypeOK, Settled
<1>2. Processes /\ Placed /\ RunningHasEntry /\ Timers /\ UserCliSpared
  BY DEF Processes, Placed, RunningHasEntry, Timers, UserCliSpared
<1>3. Children
  BY OpNames DEF Children, Spawned
<1>4. Flights
  BY OpNames, LinkStates DEF Flights
<1>5. Attempts
  BY OpNames DEF Attempts, Spawned
<1>6. Sharing
  BY DEF Sharing, OneAttemptPerKey, Pending
<1>7. Clients /\ OpenHasEntry /\ EntryHasClient
  BY OpNames, LinkStates DEF Clients, OpenHasEntry, Open, EntryHasClient
<1> QED
  BY <1>1, <1>2, <1>3, <1>4, <1>5, <1>6, <1>7 DEF Inv

LEMMA NextInv == Inv /\ [Next]_vars => Inv'
<1> SUFFICES ASSUME Inv, [Next]_vars PROVE Inv'
  OBVIOUS
<1>1. ASSUME NEW c \in Calls, NEW k \in Keys, StartSession(c, k)  PROVE Inv'
  BY <1>1, StartSessionStep
<1>2. ASSUME NEW c \in Calls, StartStep(c)  PROVE Inv'
  BY <1>2, NoSuchDirStep, AccessedStep, DirectAttachedStep DEF StartStep
<1>3. ASSUME NEW o \in Spawns, SpawnStep(o) \/ OnExit(o)  PROVE Inv'
  BY <1>3, PollFindsStep, PollExpiresStep, PollAttachedStep, OnExitStep
     DEF SpawnStep
<1>4. ASSUME NEW o \in Ops, ClientLost(o)  PROVE Inv'
  BY <1>4, ClientLostStep
<1>5. ASSUME NEW p \in Pids, StopSession(p) \/ StopStep(p) \/ HistoryExpires(p)
      PROVE  Inv'
  BY <1>5, StopSessionStep, StopSeesExitStep, StopKillStep, HistoryExpiresStep
     DEF StopStep
<1>6. ASSUME NEW sid \in Sids, StopBySessionId(sid)  PROVE Inv'
  BY <1>6, StopSessionStep DEF StopBySessionId
<1>7. CASE Reap
  BY <1>7, ReapStep
<1>8. ASSUME NEW a \in Adopts,
             (\E sid \in Sids, d \in Dirs : AdoptSession(a, sid, d)) \/ Adopted(a)
      PROVE  Inv'
  BY <1>8, AdoptSessionStep, AdoptedStep
<1>9. CASE World
  <2>1. ASSUME NEW p \in Pids, NEW cv \in Sids \X Dirs, NEW revoked \in BOOLEAN,
               UserOpensCli(p, cv, revoked)
        PROVE  Inv'
    BY <2>1, UserOpensCliStep
  <2>2. ASSUME NEW p \in Pids, NEW o \in Spawns, TermRunsCli(o, p)  PROVE Inv'
    BY <2>2, TermRunsCliStep
  <2>3. ASSUME NEW p \in Pids, CliPublishes(p) \/ CliDropsPeer(p) \/ ProcessExits(p)
        PROVE  Inv'
    BY <2>3, CliPublishesStep, CliDropsPeerStep, ProcessExitsStep
  <2>4. ASSUME NEW o \in Spawns, TabRefused(o)  PROVE Inv'
    BY <2>4, TabRefusedStep
  <2> QED
    BY <1>9, <2>1, <2>2, <2>3, <2>4 DEF World
<1>10. CASE UNCHANGED vars
  <2>1. TypeOK'
    BY <1>10 DEF Inv, TypeOK, vars, os, map, starts, spawned, adopts
  <2> QED
    BY <1>10, <2>1, Frame DEF Inv, vars, os, map, starts, spawned, adopts
<1> QED
  BY <1>1, <1>2, <1>3, <1>4, <1>5, <1>6, <1>7, <1>8, <1>9, <1>10 DEF Next

THEOREM InvHolds == Spec => []Inv
BY InitInv, NextInv, PTL DEF Spec

----------------------------------------------------------------------------
(* What follows from it.                                                   *)

\* No CLI that the user opened ever gets a signal, for any number of starts,
\* adopts, stops and timers: stopSession, GiveUp and the 5s timer signal pty
\* children, whose pids no CLI has.
THEOREM UserCliNeverSignalled == Spec => []UserCliSpared
BY InvHolds, PTL DEF Inv

\* Retries of a start share the one in flight (startSession, _starting).
THEOREM OneAttempt == Spec => []OneAttemptPerKey
<1>1. Inv => OneAttemptPerKey
  BY DEF Inv, Sharing
<1> QED  BY <1>1, InvHolds, PTL

\* A start that waits for a spawn has one attempt that can settle it.
LEMMA AttemptsCounted == Inv => StartsMatchAttempts
<1> SUFFICES ASSUME Inv PROVE StartsMatchAttempts
  OBVIOUS
<1>1. ASSUME NEW c \in Calls
      PROVE  Cardinality(Unresolved(c)) = IF flight[c] = "spawn" THEN 1 ELSE 0
  <2>1. Unresolved(c) = {o \in {Tab(c), Window(c)} : Spawned(o) /\ o \notin resolved}
    BY OpNames DEF Unresolved, Spawned
  <2>2. CASE flight[c] = "spawn"
    <3>1. PICK o \in {Tab(c), Window(c)} : Spawned(o) /\ o \notin resolved
      BY <2>2 DEF Inv, Attempts
    <3>2. Unresolved(c) = {o}
      BY <2>1, <3>1 DEF Inv, Attempts
    <3> QED  BY <2>2, <3>2, FS_Singleton
  <2>3. CASE flight[c] # "spawn"
    <3>1. Unresolved(c) = {}
      BY <2>1, <2>3 DEF Inv, Attempts
    <3> QED  BY <2>3, <3>1, FS_EmptySet
  <2> QED  BY <2>2, <2>3
<1> QED
  BY <1>1 DEF StartsMatchAttempts, Inv, Sharing

\* Starts, entries, clients and children never fall apart, if no read holds
\* attach_ok together with the end of the attach.
THEOREM SessionsStayInStep ==
  ASSUME ~Coalesced
  PROVE  Spec => []SessionsInStep
<1>1. Inv => SessionsInStep
  <2> SUFFICES ASSUME Inv PROVE SessionsInStep
    OBVIOUS
  <2>1. EntriesMatchClients
    BY DEF EntriesMatchClients, Inv, OpenHasEntry, EntryHasClient, ChildPids
  <2>2. ChildWithinReach
    BY DEF ChildWithinReach, Inv, RunningHasEntry
  <2> QED
    BY <2>1, <2>2, AttemptsCounted DEF SessionsInStep, Inv
<1> QED  BY <1>1, InvHolds, PTL

----------------------------------------------------------------------------
(* The contract.  What the refinement mapping makes of a state, by name.   *)

Answers == [c \in Calls |-> IF flight[c] = "idle" THEN "none"
                            ELSE IF flight[c] \in Pending THEN "pending"
                            ELSE flight[c]]
Listed == {c \in Calls : AliveFor(c) # {}}
Linked == {c \in Calls : \E p \in AliveFor(c) :
             sessions.at[p].kind = "attached" /\ sessions.at[p].dir = key[c][2]}
Driven == {c \in Calls : \E p \in FindLive(key[c]) : peer[p] # NoOne}

LEMMA SameAnswers ==
  Answers' = Answers => Contract!Next
BY DEF Answers, Contract!Next

LEMMA SameFlights ==
  UNCHANGED flight => Contract!Next
<1>1. UNCHANGED flight => Answers' = Answers
  BY DEF Answers
<1> QED  BY <1>1, SameAnswers

\* A start that goes on was not answered and is not.
LEMMA GoesOn ==
  ASSUME Inv, NEW c \in Calls, flight[c] \in Pending, NEW st \in Pending,
         flight' = [flight EXCEPT ![c] = st]
  PROVE  Contract!Next
<1>1. Answers' = Answers
  BY DEF Answers, Pending, Inv, TypeOK
<1> QED  BY <1>1, SameAnswers

\* A start is answered, with what the contract asks of that answer.
LEMMA Answering ==
  ASSUME Inv, NEW c \in Calls,
         NEW how \in {"pending", "deduped", "attached", "reported", "rejected"},
         Answers' = [Answers EXCEPT ![c] = how],
         \/ Answers[c] = "none" /\ how = "pending"
         \/ Answers[c] = "none" /\ how = "deduped" /\ c \in Listed'
         \/ Answers[c] = "pending" /\ how = "attached" /\ c \in Linked'
         \/ Answers[c] = "pending" /\ how = "reported" /\ c \in Driven
         \/ Answers[c] = "pending" /\ how = "rejected"
  PROVE  Contract!Next
<1>1. CASE Answers[c] = "none" /\ how = "pending"
  <2>1. Contract!Ask(c)
    BY <1>1 DEF Answers, Contract!Ask, Contract!Answered
  <2> QED  BY <2>1 DEF Contract!Next
<1>2. CASE Answers[c] = "none" /\ how = "deduped" /\ c \in Listed'
  <2>1. Contract!FindListed(c)
    BY <1>2 DEF Answers, Listed, Contract!FindListed, Contract!Answered
  <2> QED  BY <2>1 DEF Contract!Next
<1>3. CASE Answers[c] = "pending" /\ how = "attached" /\ c \in Linked'
  <2>1. Contract!Attach(c)
    BY <1>3 DEF Answers, Linked, Contract!Attach, Contract!Answered
  <2> QED  BY <2>1 DEF Contract!Next
<1>4. CASE Answers[c] = "pending" /\ how = "reported" /\ c \in Driven
  <2>1. Contract!Report(c)
    BY <1>4 DEF Answers, Driven, Contract!Report, Contract!Answered
  <2> QED  BY <2>1 DEF Contract!Next
<1>5. CASE Answers[c] = "pending" /\ how = "rejected"
  <2>1. Contract!Reject(c)
    BY <1>5 DEF Answers, Contract!Reject, Contract!Answered
  <2> QED  BY <2>1 DEF Contract!Next
<1> QED  BY <1>1, <1>2, <1>3, <1>4, <1>5

LEMMA AnswersFollow ==
  ASSUME Inv, NEW c \in Calls, NEW how \in Settled \cup {"access"},
         flight' = [flight EXCEPT ![c] = how]
  PROVE  /\ Answers' = [Answers EXCEPT ![c] = IF how = "access" THEN "pending" ELSE how]
         /\ flight[c] = "idle" => Answers[c] = "none"
         /\ flight[c] \in Pending => Answers[c] = "pending"
<1>1. Answers' = [Answers EXCEPT ![c] = IF how = "access" THEN "pending" ELSE how]
  BY DEF Answers, Pending, Settled, Inv, TypeOK
<1> QED  BY <1>1 DEF Answers, Pending

LEMMA RejectKeeps ==
  ASSUME Inv, NEW c \in Calls, flight[c] \in Pending, SettleStart(c, "rejected")
  PROVE  Contract!Next
<1>1. Answers' = [Answers EXCEPT ![c] = "rejected"] /\ Answers[c] = "pending"
  BY AnswersFollow DEF SettleStart, Settled
<1> QED  BY <1>1, Answering

\* The entry of an attach that ended well is the one the contract asks for.
LEMMA AttachKeeps ==
  ASSUME Inv, NEW o \in Ops, NEW cv, link[o].st = "attaching",
         NEW outcome \in Outcomes(link[o].pid, cv), outcome \in Recorded,
         RecordAttach(o, cv, outcome),
         UNCHANGED <<child, runs, used, running, kind, ready, key>>,
         NEW c \in Calls, flight[c] \in Pending, SettleStart(c, "attached"),
         cv[1] \in SidsOf(c), cv[2] = key[c][2]
  PROVE  Contract!Next
<1> DEFINE p == link[o].pid
<1>1. p \in Pids
  BY DEF Inv, TypeOK, Clients, Links
<1>2. cv \in Convs
  BY <1>1, OutcomeFacts, LiveIsNoTerm
<1>3. cv[1] \in Sids \cup Spawns \cup {NoSid} /\ cv[2] \in Dirs
  BY <1>2, KeyFacts
<1>4. sessions'.at[p] = AttachedEntry(o, cv)
  BY <1>3, RecordKeeps
<1>5. AttachedEntry(o, cv) # Absent
  BY <1>3, AttachedFacts, NamesAssumption
<1>6. p \in AliveFor(c)'
  BY <1>1, <1>4, <1>5 DEF AliveFor, AttachedEntry, SidsOf
<1>7. c \in Linked'
  BY <1>4, <1>6 DEF Linked, AttachedEntry
<1>8. Answers' = [Answers EXCEPT ![c] = "attached"] /\ Answers[c] = "pending"
  BY AnswersFollow DEF SettleStart, Settled
<1> QED  BY <1>7, <1>8, Answering

LEMMA StartSessionKeeps ==
  ASSUME Inv, NEW c \in Calls, NEW k \in Keys, StartSession(c, k)
  PROVE  Contract!Next
<1>1. flight[c] = "idle" /\ UNCHANGED sessions
  BY DEF StartSession, Inv, Flights, map
<1>2. CASE UNCHANGED flight
  BY <1>2, SameFlights
<1>3. CASE /\ k[1] # NoSid /\ AliveEntriesOf(k[1]) # {}
           /\ key' = [key EXCEPT ![c] = k]
           /\ flight' = [flight EXCEPT ![c] = "deduped"]
  <2>1. key'[c] = k
    BY <1>3 DEF Inv, TypeOK
  <2>2. AliveEntriesOf(k[1]) \subseteq AliveFor(c)'
    BY <1>1, <1>3, <2>1 DEF AliveEntriesOf, EntriesOf, AliveFor, SidsOf
  <2>3. c \in Listed'
    BY <1>3, <2>2 DEF Listed
  <2>4. Answers' = [Answers EXCEPT ![c] = "deduped"] /\ Answers[c] = "none"
    BY <1>1, <1>3, AnswersFollow DEF Settled
  <2> QED  BY <2>3, <2>4, Answering
<1>4. CASE flight' = [flight EXCEPT ![c] = "access"]
  <2>1. Answers' = [Answers EXCEPT ![c] = "pending"] /\ Answers[c] = "none"
    BY <1>1, <1>4, AnswersFollow
  <2> QED  BY <2>1, Answering
<1> QED  BY <1>2, <1>3, <1>4 DEF StartSession

LEMMA SpawnOnceKeeps ==
  ASSUME Inv, NEW o \in Spawns, NEW m, SpawnOnce(o, m), flight[o[1]] \in Pending
  PROVE  Contract!Next
<1>1. o[1] \in Calls
  BY OpNames
<1>2. CASE flight' = [flight EXCEPT ![o[1]] = "spawn"]
  BY <1>1, <1>2, GoesOn DEF Pending
<1>3. CASE SettleStart(o[1], "rejected")
  BY <1>1, <1>3, RejectKeeps
<1> QED  BY <1>2, <1>3 DEF SpawnOnce

LEMMA StartStepKeeps ==
  ASSUME Inv, NEW c \in Calls, StartStep(c)
  PROVE  Contract!Next
<1>1. CASE NoSuchDir(c)
  BY <1>1, RejectKeeps DEF NoSuchDir, Pending
<1>2. CASE Accessed(c)
  <2>1. flight[c] \in Pending
    BY <1>2 DEF Accessed, Pending
  <2>2. CASE flight' = [flight EXCEPT ![c] = "attach"]
    BY <2>1, <2>2, GoesOn DEF Pending
  <2>3. CASE SpawnOnce(Tab(c), sessions)
    BY <2>1, <2>3, SpawnOnceKeeps, OpNames
  <2> QED  BY <1>2, <2>2, <2>3 DEF Accessed, Tab
<1>3. CASE DirectAttached(c)
  <2> DEFINE o == Direct(c)
  <2>1. /\ link[o].st = "attaching" /\ o \in Ops /\ UNCHANGED <<key, ready>>
        /\ flight[c] \in Pending
    BY <1>3, OpNames DEF DirectAttached, Direct, Inv, Flights, Pending
  <2>2. link[o].pid \in Pids
    BY <2>1 DEF Inv, TypeOK, Clients, Links
  <2>3. PICK outcome \in Outcomes(link[o].pid, key[c]) :
         \/ /\ outcome \in Recorded
            /\ RecordAttach(o, key[c], outcome)
            /\ SettleStart(c, "attached")
            /\ UNCHANGED <<used, child, runs, running, kind>>
         \/ outcome = "already_attached" /\ SettleStart(c, "reported")
         \/ SpawnOnce(Tab(c), sessions)
    BY <1>3 DEF DirectAttached, Direct, Tab
  <2> HIDE DEF o
  <2>4. CASE /\ outcome \in Recorded
             /\ RecordAttach(o, key[c], outcome)
             /\ SettleStart(c, "attached")
             /\ UNCHANGED <<used, child, runs, running, kind>>
    <3>1. key[c] \in Convs
      BY <2>2, <2>4, OutcomeFacts, LiveIsNoTerm
    <3>2. key[c][1] \in SidsOf(c)
      BY <3>1, KeyFacts DEF SidsOf
    <3> QED  BY <2>1, <2>4, <3>2, AttachKeeps
  <2>5. CASE outcome = "already_attached" /\ SettleStart(c, "reported")
    <3>1. c \in Driven
      BY <2>2, <2>5, OutcomeFacts DEF Driven
    <3>2. Answers' = [Answers EXCEPT ![c] = "reported"] /\ Answers[c] = "pending"
      BY <2>1, <2>5, AnswersFollow DEF SettleStart, Settled
    <3> QED  BY <3>1, <3>2, Answering
  <2>6. CASE SpawnOnce(Tab(c), sessions)
    BY <2>1, <2>6, SpawnOnceKeeps, OpNames
  <2> QED  BY <2>3, <2>4, <2>5, <2>6
<1> QED  BY <1>1, <1>2, <1>3 DEF StartStep

\* What is not resolved yet has a start that waits.
LEMMA Awaited ==
  ASSUME Inv, NEW o \in Spawns, Spawned(o), o \notin resolved
  PROVE  o[1] \in Calls /\ flight[o[1]] = "spawn" /\ flight[o[1]] \in Pending
BY OpNames DEF Inv, Attempts, Pending

LEMMA GiveUpKeeps ==
  ASSUME Inv, NEW o \in Spawns, Spawned(o),
         UNCHANGED flight \/ (o \notin resolved /\ SettleStart(o[1], "rejected"))
  PROVE  Contract!Next
BY SameFlights, Awaited, RejectKeeps

LEMMA SpawnStepKeeps ==
  ASSUME Inv, NEW o \in Spawns, SpawnStep(o) \/ OnExit(o)
  PROVE  Contract!Next
<1>1. Spawned(o)
  BY LinkStates DEF SpawnStep, PollFinds, PollExpires, PollAttached, OnExit, Inv,
     Children
<1>2. CASE PollFinds(o)
  BY <1>2, SameFlights DEF PollFinds, starts
<1>3. CASE PollExpires(o)
  BY <1>1, <1>3, GiveUpKeeps DEF PollExpires, GiveUp
<1>4. CASE PollAttached(o)
  <2>1. /\ link[o].st = "attaching" /\ o \in Ops
        /\ UNCHANGED <<child, runs, used, running, kind, ready, key>>
    BY <1>4, OpNames DEF PollAttached
  <2>2. PICK outcome \in Outcomes(link[o].pid, ChildConv(o)) :
         \/ /\ outcome \in Recorded
            /\ RecordAttach(o, ChildConv(o), outcome)
            /\ o \notin resolved /\ SettleStart(o[1], "attached")
         \/ UNCHANGED flight
         \/ o \notin resolved /\ SettleStart(o[1], "rejected")
    BY <1>4 DEF PollAttached, GiveUp
  <2>3. CASE /\ outcome \in Recorded
             /\ RecordAttach(o, ChildConv(o), outcome)
             /\ o \notin resolved /\ SettleStart(o[1], "attached")
    <3>1. ChildConv(o)[1] \in SidsOf(o[1]) /\ ChildConv(o)[2] = key[o[1]][2]
      BY DEF ChildConv, ChildSid, SidsOf, Spawns
    <3> QED  BY <1>1, <2>1, <2>3, <3>1, Awaited, AttachKeeps
  <2> QED  BY <1>1, <2>2, <2>3, GiveUpKeeps
<1>5. CASE OnExit(o)
  <2>1. CASE /\ o \notin resolved
             /\ SpawnOnce(Window(o[1]), DelIn(sessions, {child[o]}))
    BY <1>1, <2>1, Awaited, SpawnOnceKeeps, OpNames
  <2>2. CASE UNCHANGED flight \/ (o \notin resolved /\ SettleStart(o[1], "rejected"))
    BY <1>1, <2>2, GiveUpKeeps
  <2> QED  BY <1>5, <2>1, <2>2 DEF OnExit, Window
<1> QED  BY <1>2, <1>3, <1>4, <1>5 DEF SpawnStep

\* startSession keeps its contract (StartContract): an answer is final, and the
\* session it tells of is there, whatever attaches, polls, exits, stops and
\* timers do -- also when a read holds attach_ok with the end of the attach.
THEOREM StartImplementation == Spec => Contract!Spec
<1>1. Init => Contract!Init
  <2> SUFFICES ASSUME Init PROVE Contract!Init
    OBVIOUS
  <2>1. \A c \in Calls : AliveFor(c) = {}
    BY DEF Init, AliveFor
  <2>2. \A c \in Calls : FindLive(key[c]) = {}
    BY DEF Init, FindLive
  <2> QED  BY <2>1, <2>2 DEF Init, Contract!Init
<1>2. Inv /\ [Next]_vars => [Contract!Next]_(Contract!vars)
  <2> SUFFICES ASSUME Inv, [Next]_vars PROVE Contract!Next
    OBVIOUS
  <2>1. CASE UNCHANGED flight
    BY <2>1, SameFlights
  <2>2. ASSUME NEW c \in Calls, NEW k \in Keys, StartSession(c, k)
        PROVE  Contract!Next
    BY <2>2, StartSessionKeeps
  <2>3. ASSUME NEW c \in Calls, StartStep(c)  PROVE Contract!Next
    BY <2>3, StartStepKeeps
  <2>4. ASSUME NEW o \in Spawns, SpawnStep(o) \/ OnExit(o)  PROVE Contract!Next
    BY <2>4, SpawnStepKeeps
  <2>5. CASE (\E o \in Ops : ClientLost(o)) \/ Reap
    <3>1. UNCHANGED flight
      BY <2>5 DEF ClientLost, Reap, starts
    <3> QED  BY <3>1, <2>1
  <2>6. ASSUME NEW p \in Pids, StopSession(p) \/ StopStep(p) \/ HistoryExpires(p)
        PROVE  Contract!Next
    <3>1. UNCHANGED flight
      BY <2>6 DEF StopSession, StopStep, StopSeesExit, StopKill, Gone,
         HistoryExpires, starts
    <3> QED  BY <3>1, <2>1
  <2>7. ASSUME NEW sid \in Sids, StopBySessionId(sid)  PROVE Contract!Next
    BY <2>7, <2>6 DEF StopBySessionId
  <2>8. ASSUME NEW a \in Adopts,
               (\E sid \in Sids, d \in Dirs : AdoptSession(a, sid, d)) \/ Adopted(a)
        PROVE  Contract!Next
    <3>1. UNCHANGED flight
      BY <2>8 DEF AdoptSession, Adopted, starts
    <3> QED  BY <3>1, <2>1
  <2>9. CASE World
    <3>1. UNCHANGED flight
      BY <2>9 DEF World, UserOpensCli, TermRunsCli, CliPublishes, CliDropsPeer,
         ProcessExits, TabRefused, Gone, starts
    <3> QED  BY <3>1, <2>1
  <2>10. CASE UNCHANGED vars
    BY <2>10, <2>1 DEF vars, starts
  <2> QED
    BY <2>2, <2>3, <2>4, <2>5, <2>6, <2>7, <2>8, <2>9, <2>10 DEF Next
<1> QED
  BY <1>1, <1>2, InvHolds, PTL DEF Spec, Contract!Spec

----------------------------------------------------------------------------
(* The life of an entry.                                                   *)

Adoptable(p) == p \in ready /\ kind[p] \in {"user", "cli"}

\* listSessions[p].
ListedAs(p) ==
  LET e == sessions.at[p] IN
  IF e # Absent
  THEN IF ~e.alive THEN "ended" ELSE IF e.kind = "attached" THEN "attached" ELSE "live"
  ELSE IF Adoptable(p) THEN "adoptable"
  ELSE IF \E o \in Spawns : child[o] = p THEN "gone" ELSE "none"

\* A child runs from its spawn on, with its entry, and never again; and it is a
\* terminal or a CLI for good.
ChildrenEnd ==
  /\ \A o \in Spawns : Spawned(o) =>
       child'[o] = child[o] /\ (Headless(o)' <=> Headless(o))
  /\ \A o \in Spawns : ~Spawned(o) /\ Spawned(o)' =>
       /\ o \in running' /\ child'[o] \notin used
       /\ sessions'.at[child'[o]] # Absent
  /\ \A o \in running' : o \in running \/ ~Spawned(o)

\* The entry at p is the one that was there, or ended; or one of a CLI that was
\* there to be attached; or of a new child, where no process was.
EntryGoesOn(p) ==
  LET old == sessions.at[p]
      new == sessions'.at[p]
  IN  \/ old # Absent /\ new.kind = old.kind /\ (new.alive => old.alive)
      \/ Adoptable(p) /\ new.kind = "attached" /\ new.alive
      \/ old = Absent /\ p \notin used /\ new.kind = "spawned" /\ new.alive

\* A spawned entry leaves when its child does not run.
EntriesGoOn ==
  /\ ChildrenEnd
  /\ \A p \in Pids : sessions'.at[p] # Absent => EntryGoesOn(p)
  /\ \A p \in Pids, o \in running' :
       sessions.at[p] # Absent /\ sessions.at[p].kind = "spawned"
       /\ sessions'.at[p] = Absent => child'[o] # p

\* What is adoptable and a child of ours is a CLI that runs without a terminal.
LEMMA AdoptableChild ==
  ASSUME Inv, NEW p \in Pids, p \in ChildPids, Adoptable(p)
  PROVE  \E o \in running : child[o] = p /\ Headless(o)
BY ConstantsAssumption DEF Adoptable, Inv, Children, ChildPids, Spawned

\* A step of an entry that is as EntriesGoOn says is one of the contract.
LEMMA GoingOnKeeps ==
  ASSUME Inv, Inv', EntriesGoOn
  PROVE  Lifetime!Next
<1> DEFINE terms == {child[o] : o \in {s \in running : ~Headless(s)}}
           heads == {child[o] : o \in {s \in running : Headless(s)}}
<1>1. \A p \in Pids : p \in ChildPids <=> \E o \in Spawns : child[o] = p
  BY DEF ChildPids
<1>2. \A p \in Pids : p \in ChildPids => p \in ChildPids'
  BY ConstantsAssumption DEF EntriesGoOn, ChildrenEnd, ChildPids, Spawned
<1>3. ASSUME NEW p \in Pids, sessions.at[p] # Absent
      PROVE  /\ sessions.at[p].kind \in {"attached", "spawned"}
             /\ sessions.at[p].alive \in BOOLEAN
             /\ sessions.at[p].kind = "spawned" => p \in ChildPids
             /\ ~sessions.at[p].alive => p \in ChildPids
  BY <1>3, NamesAssumption DEF Inv, TypeOK, Entries, Placed, ChildPids
<1>4. ASSUME NEW p \in Pids, sessions'.at[p] # Absent
      PROVE  /\ sessions'.at[p].kind \in {"attached", "spawned"}
             /\ sessions'.at[p].alive \in BOOLEAN
             /\ sessions'.at[p].kind = "spawned" => p \in ChildPids'
             /\ ~sessions'.at[p].alive => p \in ChildPids'
  BY <1>4, NamesAssumption DEF Inv, TypeOK, Entries, Placed, ChildPids
<1>5. \A p \in Pids : p \notin used => ~Adoptable(p) /\ p \notin ChildPids
  BY ConstantsAssumption DEF Adoptable, Inv, Processes, Children, ChildPids, Spawned
<1>6. ASSUME NEW p \in Pids, p \in ChildPids, Adoptable(p)
      PROVE  /\ p \in heads
             /\ sessions.at[p] # Absent => sessions.at[p].alive
  BY <1>6, AdoptableChild DEF Inv, RunningHasEntry
<1>7. ASSUME NEW p \in Pids, NEW o \in running', child'[o] = p
      PROVE  /\ o \in Spawns /\ Spawned(o)'
             /\ sessions'.at[p] # Absent => sessions'.at[p].alive
             /\ sessions'.at[p] = Absent \/ sessions'.at[p].kind = "attached"
                => Headless(o)' /\ Adoptable(p)'
  <2>1. o \in Spawns /\ Spawned(o)'
    BY <1>7, ConstantsAssumption DEF Inv, TypeOK, Spawned
  <2>2. Headless(o)' => kind'[p] = "cli"
    BY <1>7, <2>1 DEF Inv, Children
  <2> QED
    BY <1>7, <2>1, <2>2 DEF Inv, RunningHasEntry, Adoptable
\* A child is listed as something from the start, and is there to be adopted
\* only if it was or was attached.
<1>8. ASSUME NEW p \in Pids, sessions'.at[p] = Absent, p \in ChildPids'
      PROVE  /\ p \in ChildPids
             /\ Adoptable(p)' => /\ sessions.at[p] # Absent =>
                                       sessions.at[p].kind = "attached" /\ sessions.at[p].alive
                                 /\ sessions.at[p] = Absent => Adoptable(p)
  <2>1. p \in ChildPids
    BY <1>8, ConstantsAssumption DEF EntriesGoOn, ChildrenEnd, ChildPids, Spawned
  <2>2. ASSUME Adoptable(p)'
        PROVE  /\ sessions.at[p] # Absent =>
                    sessions.at[p].kind = "attached" /\ sessions.at[p].alive
               /\ sessions.at[p] = Absent => Adoptable(p)
    <3>1. PICK o \in running' : child'[o] = p
      BY <1>8, <2>2, ConstantsAssumption DEF Adoptable, Inv, Children, ChildPids, Spawned
    <3>2. Spawned(o) /\ child[o] = p /\ o \in running
      BY <1>7, <1>8, <3>1 DEF EntriesGoOn, ChildrenEnd, Inv, Children
    <3>3. sessions.at[p] # Absent => sessions.at[p].kind # "spawned"
      BY <1>8, <3>1 DEF EntriesGoOn
    <3> QED
      BY <1>3, <3>2, <3>3 DEF Inv, TypeOK, Children, RunningHasEntry, Adoptable
  <2> QED  BY <2>1, <2>2
<1>9. ASSUME NEW p \in Pids
      PROVE  /\ ListedAs(p)' \in Lifetime!Listings
             /\ \/ ListedAs(p)' = ListedAs(p)
                \/ ListedAs(p) = "none" /\ ListedAs(p)' = "live"
                \/ ListedAs(p) \in {"live", "attached"} /\ ListedAs(p)' = "ended"
                \/ ListedAs(p) \in {"live", "ended", "attached", "adoptable"}
                   /\ ListedAs(p)' = "gone"
                \/ ListedAs(p) = "none" /\ ListedAs(p)' = "adoptable"
                \/ ListedAs(p) = "adoptable" /\ ListedAs(p)' = "attached"
                \/ p \in heads /\ ListedAs(p) = "live" /\ ListedAs(p)' = "attached"
                \/ ListedAs(p) = "attached" /\ ListedAs(p)' = "adoptable"
                \/ ListedAs(p) \in {"attached", "adoptable"} /\ ListedAs(p)' = "none"
  <2>1. /\ ListedAs(p) = IF sessions.at[p] # Absent
                         THEN IF ~sessions.at[p].alive THEN "ended"
                              ELSE IF sessions.at[p].kind = "attached" THEN "attached"
                              ELSE "live"
                         ELSE IF Adoptable(p) THEN "adoptable"
                         ELSE IF p \in ChildPids THEN "gone" ELSE "none"
        /\ ListedAs(p)' = IF sessions'.at[p] # Absent
                          THEN IF ~sessions'.at[p].alive THEN "ended"
                               ELSE IF sessions'.at[p].kind = "attached" THEN "attached"
                               ELSE "live"
                          ELSE IF Adoptable(p)' THEN "adoptable"
                          ELSE IF p \in ChildPids' THEN "gone" ELSE "none"
    BY DEF ListedAs, ChildPids
  <2>2. ListedAs(p)' \in Lifetime!Listings
    BY <2>1 DEF Lifetime!Listings
  <2> HIDE DEF heads
  <2>3. CASE sessions'.at[p] = Absent /\ p \in ChildPids'
    BY <1>3, <1>8, <2>1, <2>2, <2>3
  <2>4. CASE sessions'.at[p] = Absent /\ p \notin ChildPids'
    BY <1>2, <1>3, <2>1, <2>2, <2>4
  <2>5. CASE sessions'.at[p] # Absent
    <3>1. EntryGoesOn(p)
      BY <2>5 DEF EntriesGoOn
    <3> QED
      BY <1>3, <1>4, <1>5, <1>6, <2>1, <2>2, <2>5, <3>1 DEF EntryGoesOn
  <2> QED  BY <2>3, <2>4, <2>5
\* Who runs is listed so, and ran or was not listed.
<1>10. ASSUME NEW p \in Pids, NEW o \in running', child'[o] = p
       PROVE  /\ ListedAs(p)' \in {"live", "attached", "adoptable"}
              /\ ~Headless(o)' => ListedAs(p)' = "live"
              /\ \/ o \in running /\ child[o] = p /\ (Headless(o)' <=> Headless(o))
                 \/ ListedAs(p) = "none"
  <2>1. /\ ListedAs(p)' \in {"live", "attached", "adoptable"}
        /\ ~Headless(o)' => ListedAs(p)' = "live"
    BY <1>4, <1>7, <1>10 DEF ListedAs
  <2>2. CASE Spawned(o)
    BY <1>7, <1>10, <2>1, <2>2 DEF EntriesGoOn, ChildrenEnd
  <2>3. CASE ~Spawned(o)
    <3>1. p \notin used
      BY <1>7, <1>10, <2>3 DEF EntriesGoOn, ChildrenEnd
    <3>2. sessions.at[p] = Absent
      BY <1>3, <1>5, <2>1, <3>1 DEF Inv, Placed
    <3> QED
      BY <1>5, <2>1, <3>1, <3>2 DEF ListedAs, ChildPids
  <2> QED  BY <2>2, <2>3
<1>11. /\ \A p \in terms' : p \in Pids /\ ListedAs(p)' = "live"
                           /\ (p \in terms \/ ListedAs(p) = "none")
       /\ \A p \in heads' : /\ p \in Pids
                            /\ ListedAs(p)' \in {"live", "attached", "adoptable"}
                            /\ p \in heads \/ ListedAs(p) = "none"
  <2>1. \A o \in running' : child'[o] \in Pids
    BY ConstantsAssumption DEF Inv, TypeOK, Children, Spawned
  <2>2. ASSUME NEW p \in terms'
        PROVE  p \in Pids /\ ListedAs(p)' = "live" /\ (p \in terms \/ ListedAs(p) = "none")
    <3>1. PICK o \in running' : child'[o] = p /\ ~Headless(o)'
      OBVIOUS
    <3>2. p \in Pids
      BY <2>1, <3>1
    <3> QED  BY <1>10, <3>1, <3>2
  <2>3. ASSUME NEW p \in heads'
        PROVE  /\ p \in Pids
               /\ ListedAs(p)' \in {"live", "attached", "adoptable"}
               /\ p \in heads \/ ListedAs(p) = "none"
    <3>1. PICK o \in running' : child'[o] = p /\ Headless(o)'
      OBVIOUS
    <3>2. p \in Pids
      BY <2>1, <3>1
    <3> QED  BY <1>10, <3>1, <3>2
  <2> QED  BY <2>2, <2>3
<1> HIDE DEF terms, heads
<1>13. /\ listSessions = [p \in Pids |-> ListedAs(p)]
       /\ listSessions' = [p \in Pids |-> ListedAs(p)']
  BY DEF listSessions, ListedAs, Adoptable
<1>14. ASSUME NEW p \in Pids
       PROVE  listSessions[p] = ListedAs(p) /\ listSessions'[p] = ListedAs(p)'
  <2> HIDE DEF listSessions
  <2> QED  BY <1>13
<1>15. ASSUME NEW p \in Pids
       PROVE  \/ listSessions'[p] = listSessions[p]
              \/ Lifetime!Spawn(p) \/ Lifetime!End(p) \/ Lifetime!Leave(p)
              \/ Lifetime!Publish(p) \/ Lifetime!Attach(p) \/ Lifetime!Claim(p)
              \/ Lifetime!Release(p) \/ Lifetime!Vanish(p)
  BY <1>9, <1>14 DEF Lifetime!Turns, Lifetime!Spawn, Lifetime!End, Lifetime!Leave,
     Lifetime!Publish, Lifetime!Attach, Lifetime!Claim, Lifetime!Release,
     Lifetime!Vanish, heads
<1>16. listSessions' \in [Pids -> Lifetime!Listings]
  BY <1>9, <1>13
<1>17. ASSUME NEW p \in terms'
       PROVE  listSessions'[p] = "live" /\ (p \in terms \/ listSessions[p] = "none")
  BY <1>11, <1>14, <1>17
<1>18. ASSUME NEW p \in heads'
       PROVE  /\ listSessions'[p] \in {"live", "attached", "adoptable"}
              /\ p \in heads \/ listSessions[p] = "none"
  BY <1>11, <1>14, <1>18
<1> HIDE DEF listSessions
<1> QED
  BY <1>15, <1>16, <1>17, <1>18 DEF Lifetime!Next, terms, heads

\* What leaves pty children and the map alone, or takes entries off it, but no
\* spawned one of a child that runs.
LEMMA EntriesLeave ==
  ASSUME Inv, UNCHANGED child, running' \subseteq running,
         \A s \in Spawns : Spawned(s) => (Headless(s)' <=> Headless(s)),
         NEW ps, UNCHANGED sessions \/ sessions' = DelIn(sessions, ps),
         \A p \in ps, s \in running' :
           sessions.at[p] # Absent /\ sessions.at[p].kind = "spawned" => child[s] # p
  PROVE  EntriesGoOn
<1>1. sessions \in Maps
  BY DEF Inv, TypeOK, Maps
<1>2. \A p \in Pids : \/ sessions'.at[p] = sessions.at[p]
                      \/ sessions'.at[p] = Absent /\ p \in ps
  <2>1. DelIn(sessions, ps).at = [p \in Pids |-> IF p \in ps THEN Absent ELSE sessions.at[p]]
    BY <1>1, DelInFacts
  <2>2. \A p \in Pids : DelIn(sessions, ps).at[p] = IF p \in ps THEN Absent ELSE sessions.at[p]
    BY <2>1
  <2> HIDE DEF DelIn
  <2> QED BY <2>2
<1>3. ChildrenEnd
  BY DEF ChildrenEnd, Spawned
<1>4. ASSUME NEW p \in Pids, sessions'.at[p] # Absent
      PROVE  EntryGoesOn(p)
  <2>1. sessions'.at[p] = sessions.at[p]
    BY <1>2, <1>4
  <2> QED  BY <1>4, <2>1 DEF EntryGoesOn
<1>5. \A p \in Pids, o \in running' :
        sessions.at[p] # Absent /\ sessions.at[p].kind = "spawned"
        /\ sessions'.at[p] = Absent => child'[o] # p
  BY <1>2
<1> QED BY <1>3, <1>4, <1>5 DEF EntriesGoOn

LEMMA EntriesStay ==
  ASSUME UNCHANGED <<sessions, child>>, running' \subseteq running,
         \A s \in Spawns : Spawned(s) => (Headless(s)' <=> Headless(s))
  PROVE  EntriesGoOn
BY DEF EntriesGoOn, EntryGoesOn, ChildrenEnd, Spawned

\* An attach that ended well is of a CLI.
LEMMA RecordGoesOn ==
  ASSUME Inv, NEW o \in Ops, NEW cv, link[o].st = "attaching",
         NEW outcome \in Outcomes(link[o].pid, cv), outcome \in Recorded,
         RecordAttach(o, cv, outcome), UNCHANGED <<child, runs, running>>
  PROVE  EntriesGoOn
<1> DEFINE p == link[o].pid
           e == AttachedEntry(o, cv)
<1>1. p \in Pids
  BY DEF Inv, TypeOK, Clients, Links
<1>2. cv \in Convs /\ Adoptable(p)
  <2>1. p \in FindLive(cv)
    BY <1>1, OutcomeFacts
  <2> QED BY <2>1, LiveIsNoTerm DEF FindLive, Adoptable
<1>3. e \in Entries /\ e # Absent /\ e.kind = "attached" /\ e.alive
  BY <1>2, KeyFacts, AttachedFacts, NamesAssumption DEF AttachedEntry
<1>4. sessions' = PutIn(sessions, p, e) /\ sessions \in Maps
  BY DEF RecordAttach, Inv, TypeOK, Maps
<1>5. sessions'.at = [sessions.at EXCEPT ![p] = e]
  BY <1>1, <1>3, <1>4, PutInFacts
<1> HIDE DEF p, e
<1>6. \A q \in Pids : IF q = p THEN sessions'.at[q] = e
                      ELSE sessions'.at[q] = sessions.at[q]
  BY <1>1, <1>5 DEF Inv, TypeOK
<1>7. ChildrenEnd
  BY DEF ChildrenEnd, Spawned, Headless
<1> QED BY <1>1, <1>2, <1>3, <1>6, <1>7 DEF EntriesGoOn, EntryGoesOn

\* A new child has a pid that was not given out before.
LEMMA SpawnGoesOn ==
  ASSUME Inv, NEW c \in Calls, NEW o, NEW m, Spawning(c, o, m), SpawnOnce(o, m)
  PROVE  EntriesGoOn
<1>1. /\ o \in Spawns /\ o[1] = c /\ ~Spawned(o) /\ key[c] \in Keys /\ m \in Maps
      /\ \A p \in Pids : \/ m.at[p] = sessions.at[p]
                         \/ m.at[p] = Absent /\ \A s \in running : child[s] # p
  BY SpawningFacts
<1>2. CASE sessions' = m /\ UNCHANGED <<child, runs, running>>
  BY <1>1, <1>2 DEF EntriesGoOn, EntryGoesOn, ChildrenEnd, Spawned, Headless
<1>3. ASSUME NEW w \in FreePids, NEW v \in Pids \cup {NoPid},
             child' = [child EXCEPT ![o] = w], runs' = [runs EXCEPT ![o] = v],
             running' = running \cup {o}, sessions' = PutIn(m, w, SpawnedEntry(o))
      PROVE  EntriesGoOn
  <2> DEFINE e == SpawnedEntry(o)
  <2>1. w \in Pids /\ w \notin used
    BY DEF FreePids
  <2>2. w \notin ChildPids
    BY <2>1, ConstantsAssumption DEF ChildPids, Inv, Children, Spawned
  <2>3. sessions.at[w] = Absent
    BY <2>1, <2>2, NamesAssumption DEF Inv, TypeOK, Placed, Entries, ChildPids
  <2>4. e \in Entries /\ e # Absent /\ e.kind = "spawned" /\ e.alive
    BY <1>1, SpawnFacts, NamesAssumption DEF SpawnedEntry
  <2>5. sessions'.at = [m.at EXCEPT ![w] = e]
    BY <1>1, <1>3, <2>1, <2>4, PutInFacts
  <2> HIDE DEF e
  <2>6. \A q \in Pids : IF q = w THEN sessions'.at[q] = e
                        ELSE sessions'.at[q] = m.at[q]
    BY <1>1, <2>1, <2>5 DEF Maps
  <2>7. /\ child'[o] = w
        /\ \A s \in Spawns : s # o => child'[s] = child[s] /\ runs'[s] = runs[s]
    BY <1>1, <1>3 DEF Inv, TypeOK
  <2>8. ChildrenEnd
    BY <1>1, <1>3, <2>1, <2>4, <2>6, <2>7
       DEF ChildrenEnd, Inv, TypeOK, Spawned, Headless
  <2>9. \A q \in Pids : sessions'.at[q] # Absent => EntryGoesOn(q)
    BY <1>1, <2>1, <2>3, <2>4, <2>6 DEF EntryGoesOn
  <2>10. ASSUME NEW q \in Pids, NEW s \in running', sessions.at[q] # Absent,
                sessions'.at[q] = Absent
         PROVE  child'[s] # q
    <3>1. q # w /\ \A t \in running : child[t] # q
      BY <1>1, <2>4, <2>6, <2>10
    <3> QED  BY <1>3, <2>7, <3>1 DEF Inv, TypeOK
  <2> QED BY <2>8, <2>9, <2>10 DEF EntriesGoOn
<1> QED BY <1>2, <1>3 DEF SpawnOnce, FreePids

\* The exit of a child marks its entry, or the retry takes it off the list.
LEMMA ExitGoesOn ==
  ASSUME Inv, NEW o \in Spawns, OnExit(o)
  PROVE  EntriesGoOn
<1> DEFINE p == child[o]
<1>1. Spawned(o) /\ p \in Pids
  BY DEF OnExit, Inv, TypeOK, Children, Spawned
<1>2. CASE o \notin resolved /\ o[2] = "tab" /\ o \in tabRefused
  <2>1. o[1] \in Calls /\ o = Tab(o[1])
    BY <1>2, OpNames
  <2>2. Spawning(o[1], Window(o[1]), DelIn(sessions, {p}))
    BY <1>2, <2>1 DEF Spawning, OnExit
  <2>3. SpawnOnce(Window(o[1]), DelIn(sessions, {p}))
    BY <1>2 DEF OnExit, Window
  <2> QED BY <2>1, <2>2, <2>3, SpawnGoesOn
<1>3. CASE UNCHANGED <<sessions, child, runs, running>>
  BY <1>3, EntriesStay DEF Headless
<1>4. CASE /\ sessions.at[p] # Absent /\ UNCHANGED <<child, runs, running>>
           /\ sessions' = [sessions EXCEPT !.at[p] =
                [@ EXCEPT !.alive = FALSE, !.process = FALSE]]
  <2> DEFINE e == [sessions.at[p] EXCEPT !.alive = FALSE, !.process = FALSE]
  <2>1. sessions.at[p] \in Entries
    BY <1>1, <1>4 DEF Inv, TypeOK
  <2>2. e \in Entries /\ e # Absent /\ e.kind = sessions.at[p].kind /\ e.alive = FALSE
    BY <2>1, NamesAssumption DEF Entries
  <2>3. sessions' = [sessions EXCEPT !.at[p] = e]
    BY <1>4
  <2> HIDE DEF e, p
  <2>4. \A q \in Pids : IF q = p THEN sessions'.at[q] = e
                        ELSE sessions'.at[q] = sessions.at[q]
    BY <1>1, <2>3 DEF Inv, TypeOK
  <2>5. ChildrenEnd
    BY <1>4 DEF ChildrenEnd, Spawned, Headless
  <2> QED BY <1>4, <2>2, <2>4, <2>5 DEF EntriesGoOn, EntryGoesOn
<1> QED BY <1>2, <1>3, <1>4 DEF OnExit

\* Every step lets the entries go on so.
LEMMA StepGoesOn ==
  ASSUME Inv, [Next]_vars
  PROVE  EntriesGoOn
<1>1. ASSUME UNCHANGED <<sessions, child, runs>>, running' \subseteq running
      PROVE  EntriesGoOn
  BY <1>1, EntriesStay DEF Headless
<1>2. ASSUME NEW c \in Calls, NEW k \in Keys, StartSession(c, k)  PROVE EntriesGoOn
  BY <1>1, <1>2 DEF StartSession, map, spawned
<1>3. ASSUME NEW c \in Calls, StartStep(c)  PROVE EntriesGoOn
  <2>1. CASE NoSuchDir(c)
    BY <1>1, <2>1 DEF NoSuchDir, map, spawned
  <2>2. CASE Accessed(c)
    <3>1. CASE SpawnOnce(Tab(c), sessions)
      <4>1. Spawning(c, Tab(c), sessions)
        BY <2>2 DEF Accessed, Spawning
      <4> QED BY <3>1, <4>1, SpawnGoesOn
    <3> QED BY <1>1, <2>2, <3>1 DEF Accessed, Tab
  <2>3. CASE DirectAttached(c)
    <3> DEFINE o == Direct(c)
    <3>1. link[o].st = "attaching" /\ o \in Ops /\ flight[c] = "attach"
      BY <2>3, OpNames DEF DirectAttached, Direct, Inv, Flights
    <3>2. PICK outcome \in Outcomes(link[o].pid, key[c]) :
           \/ /\ outcome \in Recorded /\ RecordAttach(o, key[c], outcome)
              /\ UNCHANGED <<child, runs, running>>
           \/ UNCHANGED <<sessions, child, runs, running>>
           \/ SpawnOnce(Tab(c), sessions) /\ UNCHANGED <<resolved, exited>>
      BY <2>3 DEF DirectAttached, Direct, Tab
    <3>3. CASE SpawnOnce(Tab(c), sessions) /\ UNCHANGED <<resolved, exited>>
      <4>1. Spawning(c, Tab(c), sessions)
        BY <3>1, <3>3 DEF Spawning
      <4> QED BY <3>3, <4>1, SpawnGoesOn
    <3> HIDE DEF o
    <3> QED BY <1>1, <3>1, <3>2, <3>3, RecordGoesOn
  <2> QED BY <1>3, <2>1, <2>2, <2>3 DEF StartStep
<1>4. ASSUME NEW o \in Spawns, SpawnStep(o) \/ OnExit(o)  PROVE EntriesGoOn
  <2>1. CASE PollFinds(o) \/ PollExpires(o)
    BY <1>1, <2>1 DEF PollFinds, PollExpires, map, spawned
  <2>2. CASE PollAttached(o)
    <3>1. link[o].st = "attaching" /\ o \in Ops /\ UNCHANGED <<child, runs, running>>
      BY <2>2, OpNames DEF PollAttached
    <3>2. PICK outcome \in Outcomes(link[o].pid, ChildConv(o)) :
            \/ outcome \in Recorded /\ RecordAttach(o, ChildConv(o), outcome)
            \/ UNCHANGED sessions
      BY <2>2 DEF PollAttached
    <3> QED BY <1>1, <3>1, <3>2, RecordGoesOn
  <2> QED BY <1>4, <2>1, <2>2, ExitGoesOn DEF SpawnStep
<1>5. ASSUME NEW o \in Ops, ClientLost(o)  PROVE EntriesGoOn
  <2> DEFINE p == link[o].pid
  <2>1. /\ link[o].st = "open" /\ sessions' = DelIn(sessions, {p})
        /\ UNCHANGED <<child, runs, running>>
    BY <1>5 DEF ClientLost, spawned
  <2>2. \A q \in {p}, s \in running' :
          sessions.at[q] # Absent /\ sessions.at[q].kind = "spawned" => child[s] # q
    BY <2>1 DEF Inv, TypeOK, OpenHasEntry, Open, Children
  <2> HIDE DEF p
  <2> QED BY <2>1, <2>2, EntriesLeave DEF Headless
<1>6. ASSUME NEW p \in Pids, StopSession(p) \/ StopStep(p) \/ HistoryExpires(p)
      PROVE  EntriesGoOn
  <2>1. /\ UNCHANGED <<child, runs>> /\ running' \subseteq running
        /\ UNCHANGED sessions \/ sessions' = DelIn(sessions, {p})
    BY <1>6 DEF StopSession, StopStep, StopSeesExit, StopKill, Gone, HistoryExpires,
       spawned
  <2>2. CASE UNCHANGED sessions
    BY <1>1, <2>1, <2>2
  <2>3. CASE /\ sessions' = DelIn(sessions, {p})
             /\ \/ \A s \in running' : child[s] # p
                \/ sessions.at[p].kind = "attached"
    BY <2>1, <2>3, EntriesLeave DEF Headless
  <2>4. CASE StopSession(p)
    <3>1. sessions.at[p] # Absent /\ sessions.at[p].kind # "attached"
          /\ ~(sessions.at[p].alive /\ sessions.at[p].process)
          => \A s \in running : child[s] # p
      BY DEF Inv, TypeOK, Entries, RunningHasEntry
    <3> QED BY <2>2, <2>3, <2>4, <3>1 DEF StopSession, spawned
  <2>5. CASE StopStep(p)
    <3>1. CASE StopSeesExit(p)
      <4>1. \A s \in running' : child[s] # p
        BY <3>1 DEF StopSeesExit, spawned, Inv, TypeOK, Children
      <4> QED BY <2>3, <3>1, <4>1 DEF StopSeesExit
    <3>2. CASE StopKill(p)
      <4>1. \A s \in running' : child[s] # p
        BY <3>2 DEF StopKill, Gone
      <4> QED BY <2>2, <2>3, <3>2, <4>1 DEF StopKill
    <3> QED BY <2>5, <3>1, <3>2 DEF StopStep
  <2>6. CASE HistoryExpires(p)
    BY <2>1, <2>3, <2>6 DEF HistoryExpires, Inv, Timers
  <2> QED BY <1>6, <2>4, <2>5, <2>6
<1>7. ASSUME NEW sid \in Sids, StopBySessionId(sid)  PROVE EntriesGoOn
  BY <1>6, <1>7 DEF StopBySessionId
<1>8. CASE Reap
  <2> DEFINE dead == {p \in Pids : /\ sessions.at[p] # Absent
                                   /\ sessions.at[p].alive /\ kind[p] = "free"}
  <2>1. sessions' = DelIn(sessions, dead) /\ UNCHANGED <<child, runs, running>>
    BY <1>8 DEF Reap, spawned
  <2>2. \A p \in dead, s \in running' : child[s] # p
    BY <2>1 DEF Inv, TypeOK, Children
  <2> HIDE DEF dead
  <2> QED BY <2>1, <2>2, EntriesLeave DEF Headless
<1>9. ASSUME NEW a \in Adopts,
             (\E sid \in Sids, d \in Dirs : AdoptSession(a, sid, d)) \/ Adopted(a)
      PROVE  EntriesGoOn
  <2>1. CASE \E sid \in Sids, d \in Dirs : AdoptSession(a, sid, d)
    BY <1>1, <2>1 DEF AdoptSession, map, spawned
  <2>2. CASE Adopted(a)
    <3> DEFINE o == Adopting(a)
    <3>1. link[o].st = "attaching" /\ o \in Ops /\ UNCHANGED <<child, runs, running>>
      BY <2>2, OpNames DEF Adopted, Adopting, spawned
    <3>2. PICK outcome \in Outcomes(link[o].pid, wanted[a]) :
            \/ outcome \in Recorded /\ RecordAttach(o, wanted[a], outcome)
            \/ UNCHANGED sessions
      BY <2>2 DEF Adopted, Adopting
    <3> HIDE DEF o
    <3> QED BY <1>1, <3>1, <3>2, RecordGoesOn
  <2> QED BY <1>9, <2>1, <2>2
<1>10. CASE World
  <2>1. CASE UNCHANGED <<sessions, child, runs>> /\ running' \subseteq running
    BY <1>1, <2>1
  <2>2. ASSUME NEW p \in Pids, NEW o \in Spawns, TermRunsCli(o, p)
        PROVE  EntriesGoOn
    <3>1. /\ runs' = [runs EXCEPT ![o] = p] /\ p \notin used /\ runs[o] = NoPid
          /\ o \in running /\ UNCHANGED <<sessions, child, running>>
      BY <2>2 DEF TermRunsCli, FreePids, map
    <3>2. \A s \in Spawns : Spawned(s) => (Headless(s)' <=> Headless(s))
      BY <3>1 DEF Inv, TypeOK, Children, Spawned, Headless
    <3> QED BY <3>1, <3>2, EntriesStay
  <2> QED
    BY <1>10, <2>1, <2>2 DEF World, UserOpensCli, CliPublishes, CliDropsPeer,
       ProcessExits, TabRefused, Gone, map, spawned
<1>11. CASE UNCHANGED vars
  BY <1>1, <1>11 DEF vars, map, spawned
<1> QED
  BY <1>2, <1>3, <1>4, <1>5, <1>6, <1>7, <1>8, <1>9, <1>10, <1>11 DEF Next

\* The list of sessions keeps its contract (SessionContract): a terminal is on it
\* for as long as it runs, a CLI that runs without one is listed or in the
\* registry, and a child that has ended is not live again, for any starts,
\* retries, stops, sweeps, late exits and history timers.
THEOREM LifetimeImplementation == Spec => Lifetime!Spec
<1>1. Init => Lifetime!Init
  BY ConstantsAssumption DEF Init, Lifetime!Init, listSessions
<1>2. Inv /\ Inv' /\ [Next]_vars => [Lifetime!Next]_(Lifetime!vars)
  BY StepGoesOn, GoingOnKeeps
<1> QED
  BY <1>1, <1>2, InvHolds, PTL DEF Spec, Lifetime!Spec

\* Both contracts are kept, for any conversations, pids, starts and adopts.
THEOREM Implementation == Spec => KeepsContract
BY StartImplementation, LifetimeImplementation DEF KeepsContract
=============================================================================
