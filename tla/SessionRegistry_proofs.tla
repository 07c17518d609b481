------------------------ MODULE SessionRegistry_proofs ------------------------
(***************************************************************************)
(* Proofs about SessionRegistry, for any pids and any number of processes: *)
(* what the sweep spares, and what a scan finds.                           *)
(***************************************************************************)
EXTENDS SessionRegistry, TLAPS

----------------------------------------------------------------------------
(* The inductive invariant.                                                *)

LiveEntries == [pid : Pids, entry : Entries]

\* Where the scan uses the pid it looks at, or the first entry, there is one.
CursorThere ==
  /\ pc \in {"stat", "unlink", "read"} => cur \in Pids
  /\ pc \in {"ticks", "found"} => live # <<>>

\* What the history says has been so since the scan began is so now.
SinceIsAlive == \A p \in since : Alive(p)
SteadyIsPublished == \A p \in steady : Published(p)

\* Only a file whose process was found dead gets as far as the sweep.
SweptIsDead == pc \in {"stat", "unlink"} => cur \notin since

\* An entry that findLiveSession accepts for p while p is published.
Matches(l, p) == l.pid = p /\ l.entry \in {Asks(Null), Asks(proc[p].ticks)}

\* A scan still has to look at a CLI that is published throughout, or is
\* looking, or has the entry that it will match.
SteadyIsKnown ==
  pc \in {"list", "stat", "unlink", "read", "ticks"} =>
    \A p \in steady :
      \/ p \in todo
      \/ pc = "read" /\ cur = p
      \/ \E i \in DOMAIN live : Matches(live[i], p)

\* Where no scan is under way there is no history.
HistoryIsOfScan ==
  pc \notin {"list", "stat", "unlink", "read", "ticks"} => steady = {}

RegistryInv ==
  /\ TypeOK /\ CursorThere /\ SinceIsAlive /\ SteadyIsPublished
  /\ SweptIsDead /\ SteadyIsKnown /\ HistoryIsOfScan

LEMMA HeadAndTail ==
  ASSUME TypeOK, live # <<>>
  PROVE  /\ Head(live) \in LiveEntries
         /\ Head(live).pid \in Pids /\ Head(live).entry \in Entries
         /\ Tail(live) \in Seq(LiveEntries)
<1>1. live \in Seq(LiveEntries) /\ live # <<>>
  BY DEF TypeOK, LiveEntries
<1>2. Head(live) \in LiveEntries /\ Tail(live) \in Seq(LiveEntries)
  BY <1>1
<1> QED
  BY <1>2 DEF LiveEntries

LEMMA RegistryInit == Init => RegistryInv
<1> SUFFICES ASSUME Init PROVE RegistryInv
  OBVIOUS
<1>1. 1 \in Ticks /\ born \in 0 .. MaxTicks
  BY TicksAssumption DEF Init, Ticks
<1>2. /\ NoProc \in Procs
      /\ {NoFile, Asks(1), Asks(Null)} \subseteq Entries \cup {NoFile, Torn}
  BY <1>1 DEF Procs, Entries, Asks
<1>3. proc \in [Pids -> Procs]
  BY <1>2 DEF Init
<1>4. file \in [Pids -> Entries \cup {NoFile, Torn}]
  BY <1>2 DEF Init
<1>5. sock \in [Pids -> Ticks \cup {Null}]
  BY <1>1 DEF Init
<1>6. live \in Seq(LiveEntries)
  BY DEF Init
<1> QED
  BY <1>1, <1>3, <1>4, <1>5, <1>6 DEF Init, RegistryInv, TypeOK,
    CursorThere, SinceIsAlive, SteadyIsPublished, SweptIsDead, SteadyIsKnown,
    HistoryIsOfScan, Null, LiveEntries

\* A pid that is published before and after a step of the machine has its
\* process still.
LEMMA PublishedKeepsProcess ==
  ASSUME TypeOK, NEW p \in Pids, Machine(p), NEW q \in Pids,
         Published(q), Published(q)'
  PROVE  proc'[q].ticks = proc[q].ticks
<1> USE DEF TypeOK
<1>1. proc[q] # NoProc /\ proc'[q] # NoProc
  BY DEF Published, NoProc
<1>2. CASE UNCHANGED proc
  BY <1>2
<1>3. CASE Starts(p)
  BY <1>1, <1>3 DEF Starts, Alive
<1>4. CASE Exits(p)
  BY <1>1, <1>4 DEF Exits
<1>5. CASE Moves(p)
  <2>1. PICK on \in Talks : proc' = [proc EXCEPT ![p].on = on]
    BY <1>5 DEF Moves
  <2>2. proc[p] \in [ticks : Ticks, on : Talks \cup {"none"}]
    BY <1>5 DEF Moves, Procs, NoProc, Talks
  <2>3. CASE q = p
    BY <2>1, <2>2, <2>3
  <2>4. CASE q # p
    BY <2>1, <2>4
  <2> QED
    BY <2>3, <2>4
<1> QED
  BY <1>2, <1>3, <1>4, <1>5 DEF Machine, Binds, Writes, Publishes, Ages

LEMMA MachineKeeps ==
  ASSUME RegistryInv, NEW p \in Pids, Machine(p)
  PROVE  RegistryInv'
<1> USE DEF RegistryInv, TypeOK
<1>1. UNCHANGED <<pc, todo, cur, live>>
  BY DEF Machine, Scan
<1>2. CursorThere'
  BY <1>1 DEF CursorThere
<1>3. since' \subseteq Pids
  BY DEF Machine, Watch
<1>4. /\ proc' \in [Pids -> Procs] /\ born' \in 0 .. MaxTicks
      /\ file' \in [Pids -> Entries \cup {NoFile, Torn}]
      /\ old' \subseteq Pids /\ sock' \in [Pids -> Ticks \cup {Null}]
  <2>1. CASE Starts(p)
    <3>1. born + 1 \in Ticks /\ born' = born + 1
      BY <2>1, TicksAssumption DEF Starts, Ticks
    <3>2. PICK on \in Talks \cup {"none"} :
            proc' = [proc EXCEPT ![p] = [ticks |-> born + 1, on |-> on]]
      BY <2>1 DEF Starts
    <3>3. [ticks |-> born + 1, on |-> on] \in Procs
      BY <3>1 DEF Procs
    <3> QED
      BY <2>1, <3>1, <3>2, <3>3, TicksAssumption DEF Starts, Ticks
  <2>2. CASE Binds(p)
    <3>1. proc[p].ticks \in Ticks \cup {Null}
      BY DEF Procs, NoProc
    <3> QED
      BY <2>2, <3>1 DEF Binds
  <2>3. CASE Writes(p)
    BY <2>3 DEF Writes
  <2>4. CASE Publishes(p)
    <3>1. proc[p].ticks \in Ticks \cup {Null}
      BY DEF Procs, NoProc
    <3>2. {Asks(Null), Asks(proc[p].ticks), Else} \subseteq Entries
      BY <3>1 DEF Entries
    <3> QED
      BY <2>4, <3>2 DEF Publishes
  <2>5. CASE Moves(p)
    <3>1. PICK on \in Talks : proc' = [proc EXCEPT ![p].on = on]
      BY <2>5 DEF Moves
    <3>2. proc[p] \in [ticks : Ticks, on : Talks \cup {"none"}]
      BY <2>5 DEF Moves, Procs, NoProc, Talks
    <3>3. [proc[p] EXCEPT !.on = on] \in Procs
      BY <3>2 DEF Procs
    <3> QED
      BY <2>5, <3>1, <3>3 DEF Moves
  <2>6. CASE Exits(p)
    <3>1. NoProc \in Procs
      BY DEF Procs
    <3> QED
      BY <2>6, <3>1 DEF Exits
  <2>7. CASE Ages(p)
    BY <2>7 DEF Ages
  <2> QED
    BY <2>1, <2>2, <2>3, <2>4, <2>5, <2>6, <2>7 DEF Machine
<1>5. steady' \subseteq steady /\ since' \subseteq since
  BY DEF Machine, Watch
<1>6. \A q \in steady' : proc'[q].ticks = proc[q].ticks
  BY <1>5, PublishedKeepsProcess DEF SteadyIsPublished, Machine, Watch, Published
<1>7. steady' \subseteq since'
  BY <1>5, <1>6 DEF Machine, Watch
<1>8. SteadyIsPublished'
  BY DEF SteadyIsPublished, Machine, Watch, Published
<1>9. SinceIsAlive'
  <2> SUFFICES ASSUME NEW q \in since' PROVE proc'[q] # NoProc
    BY DEF SinceIsAlive, Alive
  <2>1. q \in Pids /\ proc[q] # NoProc /\ proc'[q].ticks = proc[q].ticks
    BY <1>5 DEF SinceIsAlive, Alive, Machine, Watch
  <2>2. proc[q].ticks # Null
    BY <2>1 DEF Procs, Ticks, Null
  <2> QED
    BY <2>1, <2>2 DEF NoProc
<1>10. SweptIsDead' /\ HistoryIsOfScan'
  BY <1>1, <1>5 DEF SweptIsDead, HistoryIsOfScan
<1>11. SteadyIsKnown'
  BY <1>1, <1>5, <1>6 DEF SteadyIsKnown, Matches
<1> QED
  BY <1>1, <1>2, <1>3, <1>4, <1>7, <1>8, <1>9, <1>10, <1>11

----------------------------------------------------------------------------
(* The steps of the scan.                                                  *)

\* A CLI of the asked conversation that is published has a socket, a process
\* and a file, and an entry that passes both checks.
LEMMA PublishedPasses ==
  ASSUME TypeOK, NEW p \in Pids, Published(p)
  PROVE  /\ Alive(p) /\ SocketThere(p) /\ proc[p].ticks # Null
         /\ file[p] \in Entries /\ file[p] # NoFile
         /\ \A l : Matches(l, p) => /\ l.entry # Else
                                    /\ \/ l.entry.ticks = Null
                                       \/ StartTicks(p) = l.entry.ticks
<1>1. proc[p] # NoProc /\ proc[p] \in Procs
  BY DEF Published, NoProc, TypeOK
<1>2. proc[p].ticks \in Ticks /\ proc[p].ticks # Null
  BY <1>1, TicksAssumption DEF Procs, Ticks, Null
<1>3. {Asks(Null), Asks(proc[p].ticks)} \subseteq Entries
  BY <1>2 DEF Entries
<1>4. Asks(Null) # NoFile /\ Asks(proc[p].ticks) # NoFile
  BY DEF Asks, NoFile
<1>5. Asks(Null) # Else /\ Asks(proc[p].ticks) # Else
  BY DEF Asks, Else
<1>6. Asks(Null).ticks = Null /\ Asks(proc[p].ticks).ticks = proc[p].ticks
  BY DEF Asks
<1> QED
  BY <1>1, <1>2, <1>3, <1>4, <1>5, <1>6
     DEF Alive, SocketThere, Published, Matches, StartTicks

\* An entry that is passed over is not that of a steady CLI, so those of the
\* steady ones are among the others.
LEMMA PassedOver ==
  ASSUME TypeOK, live # <<>>, NEW p, ~Matches(Head(live), p),
         NEW i \in DOMAIN live, Matches(live[i], p)
  PROVE  \E j \in DOMAIN Tail(live) : Matches(Tail(live)[j], p)
<1>1. live \in Seq(LiveEntries)
  BY DEF TypeOK, LiveEntries
<1>2. i # 1
  BY <1>1 DEF Matches
<1>3. i - 1 \in DOMAIN Tail(live) /\ Tail(live)[i - 1] = live[i]
  BY <1>1, <1>2
<1> QED
  BY <1>3

LEMMA ScanKeeps ==
  ASSUME RegistryInv, WaitStep
  PROVE  RegistryInv'
<1> USE DEF RegistryInv
<1>0. TypeOK /\ live \in Seq(LiveEntries)
  BY DEF TypeOK, LiveEntries
<1>a. \A p \in steady : p \in Pids /\ Published(p)
  BY DEF TypeOK, SteadyIsPublished
<1>1. CASE Readdir
  <2>1. \A p \in Pids : Published(p) => Alive(p) /\ file[p] # NoFile
    BY PublishedPasses
  <2>2. TypeOK'
    <3>1. live' \in Seq(LiveEntries)
      BY <1>1 DEF Readdir
    <3> QED
      BY <1>1, <2>1, <3>1 DEF Readdir, TypeOK, env, LiveEntries
  <2>3. CursorThere' /\ SweptIsDead' /\ HistoryIsOfScan'
    BY <1>1 DEF Readdir, CursorThere, SweptIsDead, HistoryIsOfScan
  <2>4. SinceIsAlive' /\ SteadyIsPublished'
    BY <1>1 DEF Readdir, SinceIsAlive, SteadyIsPublished, env, Alive, Published
  <2>5. SteadyIsKnown'
    BY <1>1, <2>1 DEF Readdir, SteadyIsKnown
  <2> QED
    BY <2>2, <2>3, <2>4, <2>5
<1>2. CASE CheckAlive
  <2>1. PICK p \in todo :
          /\ cur' = p /\ todo' = todo \ {p}
          /\ pc' = IF Alive(p) THEN "read" ELSE "stat"
    BY <1>2 DEF CheckAlive
  <2>2. pc = "list" /\ UNCHANGED <<env, live, since, steady>>
    BY <1>2 DEF CheckAlive
  <2>3. p \in Pids
    BY DEF TypeOK
  <2>4. TypeOK' /\ CursorThere' /\ HistoryIsOfScan'
    BY <2>1, <2>2, <2>3 DEF TypeOK, env, CursorThere, HistoryIsOfScan
  <2>5. SinceIsAlive' /\ SteadyIsPublished'
    BY <2>2 DEF SinceIsAlive, SteadyIsPublished, env, Alive, Published
  <2>6. SweptIsDead'
    BY <2>1, <2>2 DEF SweptIsDead, SinceIsAlive
  <2>7. SteadyIsKnown'
    <3>1. \A q \in steady : Alive(q)
      BY <1>a, PublishedPasses
    <3> QED
      BY <2>1, <2>2, <3>1 DEF SteadyIsKnown, Matches, env
  <2> QED
    BY <2>4, <2>5, <2>6, <2>7
<1>3. CASE StatAge
  <2>1. pc = "stat" /\ UNCHANGED <<env, todo, live, since, steady>>
    BY <1>3 DEF StatAge
  <2>2. (pc' = "unlink" /\ cur' = cur) \/ (pc' = "list" /\ cur' = NoPid)
    BY <1>3 DEF StatAge
  <2>3. TypeOK' /\ CursorThere' /\ HistoryIsOfScan' /\ SweptIsDead'
    BY <2>1, <2>2 DEF TypeOK, env, CursorThere, HistoryIsOfScan, SweptIsDead
  <2>4. SinceIsAlive' /\ SteadyIsPublished'
    BY <2>1 DEF SinceIsAlive, SteadyIsPublished, env, Alive, Published
  <2>5. SteadyIsKnown'
    BY <2>1, <2>2 DEF SteadyIsKnown, Matches, env
  <2> QED
    BY <2>3, <2>4, <2>5
<1>4. CASE Sweep
  <2>1. /\ pc = "unlink" /\ pc' = "list" /\ cur' = NoPid
        /\ UNCHANGED <<proc, born, sock, todo, live, since, steady>>
        /\ file' = [file EXCEPT ![cur] = NoFile] /\ old' = old \ {cur}
    BY <1>4 DEF Sweep
  <2>2. TypeOK' /\ CursorThere' /\ HistoryIsOfScan' /\ SweptIsDead'
    BY <2>1 DEF TypeOK, CursorThere, HistoryIsOfScan, SweptIsDead
  <2>3. SinceIsAlive'
    BY <2>1 DEF SinceIsAlive, Alive
  <2>4. SteadyIsPublished'
    <3>1. cur \notin steady
      BY <2>1 DEF SweptIsDead, TypeOK
    <3>2. \A q \in steady : file'[q] = file[q]
      BY <2>1, <3>1 DEF TypeOK
    <3> QED
      BY <2>1, <3>2 DEF SteadyIsPublished, Published
  <2>5. SteadyIsKnown'
    BY <2>1 DEF SteadyIsKnown, Matches
  <2> QED
    BY <2>2, <2>3, <2>4, <2>5
<1>5. CASE ReadEntry
  <2>1. /\ pc = "read" /\ pc' = "list" /\ cur' = NoPid /\ cur \in Pids
        /\ UNCHANGED <<env, todo, since, steady>>
    BY <1>5 DEF ReadEntry, CursorThere
  <2> DEFINE new == [pid |-> cur, entry |-> file[cur]]
  <2>2. live' = IF file[cur] \in Entries THEN Append(live, new) ELSE live
    BY <1>5 DEF ReadEntry
  <2>3. live' \in Seq(LiveEntries)
    <3>1. file[cur] \in Entries => new \in LiveEntries
      BY <2>1 DEF LiveEntries
    <3> QED
      BY <1>0, <2>2, <3>1
  <2>4. TypeOK'
    BY <2>1, <2>3 DEF TypeOK, env, LiveEntries
  <2>5. CursorThere' /\ HistoryIsOfScan' /\ SweptIsDead'
    BY <2>1 DEF CursorThere, HistoryIsOfScan, SweptIsDead
  <2>6. SinceIsAlive' /\ SteadyIsPublished'
    BY <2>1 DEF SinceIsAlive, SteadyIsPublished, env, Alive, Published
  <2>7. ASSUME NEW p \in steady, p \notin todo
        PROVE  \E i \in DOMAIN live' : Matches(live'[i], p)
    <3>1. CASE cur = p
      <4>1. file[cur] \in Entries /\ Published(p)
        BY <1>a, <3>1, PublishedPasses
      <4>2. live' = Append(live, new) /\ Len(live) + 1 \in DOMAIN live'
                 /\ live'[Len(live) + 1] = new
        BY <1>0, <2>2, <4>1
      <4>3. Matches(new, p)
        BY <3>1, <4>1 DEF Matches, Published
      <4> QED
        BY <4>2, <4>3
    <3>2. CASE cur # p
      <4>1. PICK i \in DOMAIN live : Matches(live[i], p)
        BY <2>1, <2>7, <3>2 DEF SteadyIsKnown
      <4>2. i \in DOMAIN live' /\ live'[i] = live[i]
        BY <1>0, <2>2
      <4> QED
        BY <4>1, <4>2
    <3> QED
      BY <3>1, <3>2
  <2>8. SteadyIsKnown'
    BY <2>1, <2>7 DEF SteadyIsKnown, Matches, env
  <2> QED
    BY <2>4, <2>5, <2>6, <2>8
<1>6. CASE Match \/ CompareTicks
  <2>1. /\ live # <<>> /\ pc \in {"list", "ticks"} /\ todo' = todo
        /\ UNCHANGED <<env, cur>>
    BY <1>6 DEF Match, CompareTicks, Matching, CursorThere
  <2>2. /\ Head(live).pid \in Pids /\ Tail(live) \in Seq(LiveEntries)
    BY <1>0, <2>1, HeadAndTail
  <2>3. CASE pc' = "ticks" /\ live' = live /\ UNCHANGED <<since, steady>>
    <3>1. TypeOK' /\ CursorThere' /\ HistoryIsOfScan' /\ SweptIsDead'
      BY <2>1, <2>3 DEF TypeOK, env, CursorThere, HistoryIsOfScan, SweptIsDead
    <3>2. SinceIsAlive' /\ SteadyIsPublished'
      BY <2>1, <2>3 DEF SinceIsAlive, SteadyIsPublished, env, Alive, Published
    <3>3. SteadyIsKnown'
      BY <2>1, <2>3 DEF SteadyIsKnown, Matches, env
    <3> QED
      BY <3>1, <3>2, <3>3
  <2>4. CASE pc' = "found" /\ live' = live /\ Forget
    BY <2>1, <2>4 DEF TypeOK, Ended, env, CursorThere, HistoryIsOfScan, SweptIsDead,
       SinceIsAlive, SteadyIsPublished, SteadyIsKnown, Forget
  <2>5. CASE /\ pc' = "list" /\ live' = Tail(live) /\ UNCHANGED <<since, steady>>
             /\ \A p \in steady : ~Matches(Head(live), p)
    <3>1. TypeOK'
      BY <2>1, <2>2, <2>5 DEF TypeOK, env, LiveEntries
    <3>2. CursorThere' /\ HistoryIsOfScan' /\ SweptIsDead'
      BY <2>1, <2>5 DEF CursorThere, HistoryIsOfScan, SweptIsDead
    <3>3. SinceIsAlive' /\ SteadyIsPublished'
      BY <2>1, <2>5 DEF SinceIsAlive, SteadyIsPublished, env, Alive, Published
    <3>4. SteadyIsKnown'
      <4>1. \A p \in steady : p \in todo \/ \E i \in DOMAIN live : Matches(live[i], p)
        BY <2>1 DEF SteadyIsKnown
      <4>2. \A p \in steady :
              p \in todo \/ \E i \in DOMAIN live' : Matches(live'[i], p)
        BY <1>0, <2>1, <2>5, <4>1, PassedOver
      <4> QED
        BY <2>1, <2>5, <4>2 DEF SteadyIsKnown, Matches, env
    <3> QED
      BY <3>1, <3>2, <3>3, <3>4
  <2>6. CASE Match
    <3>1. ASSUME Head(live).entry = Else \/ ~SocketThere(Head(live).pid),
                 NEW p \in steady
          PROVE  ~Matches(Head(live), p)
      BY <1>a, <3>1, PublishedPasses DEF Matches
    <3>2. UNCHANGED <<since, steady>>
      BY <2>6 DEF Match
    <3>3. CASE Head(live).entry # Else /\ SocketThere(Head(live).pid)
      BY <2>3, <2>6, <3>2, <3>3 DEF Match
    <3>4. CASE Head(live).entry = Else \/ ~SocketThere(Head(live).pid)
      <4>1. pc' = "list" /\ live' = Tail(live)
        BY <2>6, <3>4 DEF Match, Matching
      <4> QED
        BY <2>5, <3>1, <3>2, <3>4, <4>1
    <3> QED
      BY <3>3, <3>4
  <2>7. CASE CompareTicks
    <3>1. ASSUME Head(live).entry.ticks # Null,
                 StartTicks(Head(live).pid) \notin {Null, Head(live).entry.ticks},
                 NEW p \in steady
          PROVE  ~Matches(Head(live), p)
      <4> SUFFICES ASSUME Matches(Head(live), p) PROVE FALSE
        OBVIOUS
      <4>1. p = Head(live).pid
        BY DEF Matches
      <4> QED
        BY <1>a, <3>1, <4>1, PublishedPasses
    <3> QED
      BY <2>4, <2>5, <2>7, <3>1 DEF CompareTicks
  <2> QED
    BY <1>6, <2>6, <2>7
<1>7. CASE NoneFound \/ TimesOut
  BY <1>7 DEF NoneFound, TimesOut, TypeOK, Ended, env, CursorThere,
     HistoryIsOfScan, SweptIsDead, SinceIsAlive, SteadyIsPublished, SteadyIsKnown, Forget
<1> QED
  BY <1>1, <1>2, <1>3, <1>4, <1>5, <1>6, <1>7 DEF WaitStep

LEMMA RegistryStep == RegistryInv /\ [Next]_vars => RegistryInv'
<1> SUFFICES ASSUME RegistryInv, [Next]_vars PROVE RegistryInv'
  OBVIOUS
<1>1. CASE UNCHANGED vars
  BY <1>1 DEF vars, env, RegistryInv, TypeOK, CursorThere, SinceIsAlive,
     SteadyIsPublished, SweptIsDead, SteadyIsKnown, HistoryIsOfScan, Alive,
     Published, Matches
<1>2. CASE WaitStep
  BY <1>2, ScanKeeps
<1>3. CASE \E p \in Pids : Machine(p)
  BY <1>3, MachineKeeps
<1> QED
  BY <1>1, <1>2, <1>3 DEF Next

THEOREM RegistryInvariant == Spec => []RegistryInv
BY RegistryInit, RegistryStep, PTL DEF Spec

----------------------------------------------------------------------------
(* The properties.                                                         *)

\* A CLI that stays published for the asked conversation is found by every
\* scan, however many processes come and go beside it (findLiveSession).
THEOREM ScanFinds == Spec => []SteadyIsFound
<1>1. RegistryInv => SteadyIsFound
  <2> SUFFICES ASSUME RegistryInv, Matching, live = <<>> PROVE steady = {}
    BY DEF SteadyIsFound
  <2>1. DOMAIN live = {} /\ todo = {} /\ pc = "list"
    BY DEF Matching
  <2> QED
    BY <2>1 DEF RegistryInv, SteadyIsKnown
<1> QED
  BY <1>1, RegistryInvariant, PTL

\* The sweep removes no file of a process that is alive since the scan began
\* (listLiveSessions).
THEOREM SweepSafe == Spec => SweepSparesLive
<1>1. RegistryInv => [Sweep => cur \notin since]_vars
  BY DEF RegistryInv, SweptIsDead, Sweep
<1> QED
  BY <1>1, RegistryInvariant, PTL DEF SweepSparesLive
=============================================================================
