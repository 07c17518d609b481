-------------------------- MODULE AgentTools_proofs --------------------------
(***************************************************************************)
(* Proofs about AgentTools, for any requests, tool calls and files, and     *)
(* about FileTexts, the algorithms of these tools, for all texts.  The two *)
(* share no state.                                                         *)
(***************************************************************************)
EXTENDS AgentTools, FileTexts, FiniteSetTheorems, SequenceTheorems,
        WellFoundedInduction, TLAPS

CallRecords ==
  [req : Requests \cup {NoRequest}, tool : Tools \cup {"none"},
   file : Files \cup {NoFile}, ctx : Requests \cup {NoRequest},
   at : {"idle", "stat", "fetch", "fetched", "put", "wrote", "bash", "threw",
         "end"},
   seen : Contents \cup {Missing}]

\* The types that the guard of file_write depends on (TypeOK without the
\* list of allowed commands).
Shape ==
  /\ state \in [Requests -> {"new", "open", "done"}]
  /\ context \in Requests \cup {NoRequest}
  /\ readFiles \in [Requests -> [Files -> {Unread} \cup Contents]]
  /\ files \in [Files -> Contents \cup {Missing}]
  /\ call \in [Calls -> CallRecords]
  /\ shown \in [Requests -> SUBSET (Files \X Contents)]

\* The agent's context is that of the request that came last, and a call that
\* began belongs to requests that arrived.
Placed ==
  /\ latest = context
  /\ \A r \in Requests : state[r] # "new" => context \in Requests
  /\ \A k \in Calls : call[k].at # "idle" =>
       call[k].req \in Requests /\ call[k].ctx \in Requests
  /\ \A k \in Calls : call[k].at \in {"stat", "fetch", "fetched", "put", "wrote"}
       => call[k].file \in Files
  /\ \A k \in Calls : call[k].at \in {"fetched", "wrote"} => call[k].seen \in Contents

\* A request that has the agent to itself works with its own context, and
\* nobody else does.
OwnContext ==
  \A k \in Calls : call[k].at # "idle" =>
    /\ call[k].req \notin overlapped => call[k].ctx = call[k].req
    /\ call[k].ctx \notin overlapped => call[k].req = call[k].ctx

\* What the context of such a request holds was shown to it.
RecordsShown ==
  \A r \in Requests \ overlapped, f \in Files :
    readFiles[r][f] # Unread => <<f, readFiles[r][f]>> \in shown[r]

\* A call that has fetched nothing has nothing in seen.
SeenIsFetched ==
  \A k \in Calls : call[k].at = "stat" => call[k].seen = Missing

GuardInv ==
  OwnContext /\ RecordsShown /\ SeenIsFetched /\ ApprovedWasRead

\* overlapped never loses a request.
LEMMA OverlapGrows == ASSUME [Next]_vars PROVE overlapped \subseteq overlapped'
<1>1. ASSUME NEW r, NEW qs, Overlap(r, qs) PROVE overlapped \subseteq overlapped'
  BY <1>1 DEF Overlap
<1>2. ASSUME NEW r \in Requests, RequestStep(r)
      PROVE  overlapped \subseteq overlapped'
  BY <1>1, <1>2 DEF RequestStep, Handle, Arrives, Answer
<1>3. ASSUME NEW k \in Calls, CallBegins(k)
      PROVE  overlapped \subseteq overlapped'
  BY <1>1, <1>3 DEF CallBegins, GitRejected, GitRuns, FileTool, Begin
<1>4. ASSUME NEW k \in Calls, CallStep(k) PROVE overlapped' = overlapped
  BY <1>4 DEF CallStep, GitEnds, Fetch, FetchFails, ReadEnds, ReadRefused,
     WriteStat, WriteCompare, WritePuts, WriteEnds, EditPuts, EditRefused,
     PutFails, requests
<1>5. ASSUME NEW f \in Files, FileChanges(f) PROVE overlapped' = overlapped
  BY <1>5 DEF FileChanges, requests
<1>6. CASE UNCHANGED vars  BY <1>6 DEF vars, requests
<1> QED  BY <1>2, <1>3, <1>4, <1>5, <1>6 DEF Next

\* What a call that begins changes, whichever tool it is for.
LEMMA BeginSets ==
  ASSUME NEW k \in Calls, CallBegins(k)
  PROVE  \E r \in Requests, tool \in Tools, f \in Files \cup {NoFile},
            at \in {"stat", "fetch", "bash", "threw", "end"} :
           /\ Begin(k, r, tool, f, at)
           /\ at \in {"stat", "fetch"} => f \in Files
           /\ tool = "write" => at = "stat"
           /\ UNCHANGED <<context, readFiles>>
<1>1. PICK r \in Requests :
        \/ GitRejected(k, r) \/ GitRuns(k, r)
        \/ \E tool \in {"read", "write", "edit"}, f \in Files :
             FileTool(k, r, tool, f)
  BY DEF CallBegins
<1>2. CASE GitRejected(k, r)
  BY <1>2 DEF GitRejected, agent, Tools
<1>3. CASE GitRuns(k, r)
  BY <1>3 DEF GitRuns, Tools
<1>4. ASSUME NEW tool \in {"read", "write", "edit"}, NEW f \in Files,
             FileTool(k, r, tool, f)
      PROVE  /\ Begin(k, r, tool, f, IF tool = "write" THEN "stat" ELSE "fetch")
             /\ UNCHANGED <<context, readFiles>>
  BY <1>4 DEF FileTool, agent
<1>5. {"read", "write", "edit"} \subseteq Tools  BY DEF Tools
<1> QED  BY <1>1, <1>2, <1>3, <1>4, <1>5

\* A step of a call moves that call on and leaves who and what it is for.
LEMMA StepMoves ==
  ASSUME Shape, NEW k \in Calls, CallStep(k)
  PROVE  \A j \in Calls :
           /\ call'[j].req = call[j].req /\ call'[j].ctx = call[j].ctx
           /\ call'[j].file = call[j].file
           /\ call'[j].at # call[j].at =>
                /\ call'[j].at # "idle"
                /\ call'[j].at = "end" \/ call[j].at \in {"stat", "fetch", "fetched", "put"}
           /\ call[j].at = "idle" => call'[j].at = "idle"
           /\ j # k => call'[j] = call[j]
<1> USE DEF Shape, CallRecords, Goes, Ends
<1>1. CASE GitEnds(k)  BY <1>1 DEF GitEnds
<1>2. CASE Fetch(k)  BY <1>2 DEF Fetch
<1>3. CASE FetchFails(k)  BY <1>3 DEF FetchFails
<1>4. CASE ReadEnds(k)  BY <1>4 DEF ReadEnds
<1>5. CASE ReadRefused(k)  BY <1>5 DEF ReadRefused
<1>6. CASE WriteStat(k)  BY <1>6 DEF WriteStat
<1>7. CASE WriteCompare(k)  BY <1>7 DEF WriteCompare
<1>8. CASE WritePuts(k)  BY <1>8 DEF WritePuts
<1>9. CASE WriteEnds(k)  BY <1>9 DEF WriteEnds
<1>10. CASE EditPuts(k)  BY <1>10 DEF EditPuts
<1>11. CASE EditRefused(k)  BY <1>11 DEF EditRefused
<1>12. CASE PutFails(k)  BY <1>12 DEF PutFails
<1> QED
  BY <1>1, <1>2, <1>3, <1>4, <1>5, <1>6, <1>7, <1>8, <1>9, <1>10, <1>11,
     <1>12 DEF CallStep

----------------------------------------------------------------------------

\* Every reachable state has the shape, and its calls are placed.
LEMMA ShapeHolds == Spec => [](Shape /\ Placed)
<1>1. Init => Shape /\ Placed
  <2> SUFFICES ASSUME Init PROVE Shape /\ Placed  OBVIOUS
  <2>2. call \in [Calls -> CallRecords]
    BY DEF Init, Idle, CallRecords
  <2>3. files \in [Files -> Contents \cup {Missing}]
    BY DEF Init
  <2>4. Placed  BY DEF Init, Placed, Idle
  <2> QED  BY <2>2, <2>3, <2>4 DEF Init, Shape
<1>2. Shape /\ Placed /\ [Next]_vars => Shape' /\ Placed'
  <2> SUFFICES ASSUME Shape, Placed, [Next]_vars PROVE Shape' /\ Placed'
    OBVIOUS
  <2> USE DEF Shape
  <2>1. ASSUME NEW r \in Requests, RequestStep(r) PROVE Shape'
    BY <2>1 DEF RequestStep, Handle, Arrives, Answer, agent, disk
  <2>2. ASSUME NEW k \in Calls, CallBegins(k) PROVE Shape'
    <3>1. PICK r \in Requests, tool \in Tools, f \in Files \cup {NoFile},
               at \in {"stat", "fetch", "bash", "threw", "end"} :
            /\ Begin(k, r, tool, f, at)
            /\ UNCHANGED <<context, readFiles>>
      BY <2>2, BeginSets
    <3>3. [req |-> r, tool |-> tool, file |-> f, ctx |-> context, at |-> at,
           seen |-> Missing] \in CallRecords
      BY DEF CallRecords
    <3> QED  BY <3>1, <3>3 DEF Begin, disk
  <2>3. ASSUME NEW k \in Calls, CallStep(k) PROVE Shape'
    <3>1. ASSUME NEW at \in {"fetched", "put", "wrote", "fetch"}, Goes(k, at)
          PROVE  call' \in [Calls -> CallRecords]
      <4>1. [call[k] EXCEPT !.at = at] \in CallRecords  BY DEF CallRecords
      <4> QED  BY <3>1, <4>1 DEF Goes
    <3>2. ASSUME Ends(k) PROVE call' \in [Calls -> CallRecords]
      <4>1. [call[k] EXCEPT !.at = "end", !.tool = "none", !.seen = Missing]
              \in CallRecords
        BY DEF CallRecords
      <4> QED  BY <3>2, <4>1 DEF Ends
    <3>3. CASE call[k].at = "bash"
      BY <2>3, <3>2, <3>3 DEF CallStep, GitEnds, Fetch, FetchFails, ReadEnds,
         ReadRefused, WriteStat, WriteCompare, WritePuts, WriteEnds, EditPuts,
         EditRefused, PutFails, requests, disk
    <3>4. ASSUME call[k].at \in {"stat", "fetch", "fetched", "put", "wrote"}
          PROVE  Shape'
      <4>1. /\ call[k].file \in Files /\ call[k].req \in Requests
            /\ call[k].ctx \in Requests
            /\ call[k].at \in {"fetched", "wrote"} => call[k].seen \in Contents
        BY <2>3, <3>4 DEF Placed
      <4>2. CASE Fetch(k)
        <5>1. [call[k] EXCEPT !.at = "fetched", !.seen = files[call[k].file]]
                \in CallRecords
          BY <4>1 DEF CallRecords
        <5> QED  BY <4>2, <5>1 DEF Fetch, agent, requests, disk
      <4>8. CASE FetchFails(k)
        BY <3>2, <4>8 DEF FetchFails, agent, requests, disk
      <4>3. CASE ReadEnds(k) \/ WriteEnds(k)
        <5>1. ASSUME call[k].seen \in Contents, Record(k)
              PROVE  readFiles' \in [Requests -> [Files -> {Unread} \cup Contents]]
          BY <4>1, <5>1 DEF Record
        <5>2. ASSUME call[k].seen \in Contents, Known(k)
              PROVE  shown' \in [Requests -> SUBSET (Files \X Contents)]
          BY <4>1, <5>2 DEF Known
        <5>3. call[k].seen \in Contents /\ UNCHANGED <<state, context, files>>
          BY <4>1, <4>3 DEF ReadEnds, WriteEnds, Known, requests
        <5> QED
          BY <3>2, <4>3, <5>1, <5>2, <5>3 DEF ReadEnds, WriteEnds
      <4>4. CASE ReadRefused(k) \/ WriteStat(k) \/ WriteCompare(k)
        BY <3>1, <3>2, <4>1, <4>4
           DEF ReadRefused, WriteStat, WriteCompare, agent, requests, disk
      <4>5. ASSUME NEW c \in Contents, NEW by, Becomes(call[k].file, c, by)
            PROVE  files' \in [Files -> Contents \cup {Missing}]
        BY <4>1, <4>5 DEF Becomes
      <4>6. CASE WritePuts(k)
        <5>1. PICK c \in Contents :
                /\ Becomes(call[k].file, c, {k})
                /\ call' = [call EXCEPT ![k].at = "wrote", ![k].seen = c]
          BY <4>6 DEF WritePuts
        <5>2. [call[k] EXCEPT !.at = "wrote", !.seen = c] \in CallRecords
          BY DEF CallRecords
        <5> QED  BY <4>5, <4>6, <5>1, <5>2 DEF WritePuts, agent, requests
      <4>9. CASE EditPuts(k) \/ EditRefused(k) \/ PutFails(k)
        <5>1. Ends(k) /\ UNCHANGED <<agent, requests, shown>>
          BY <4>9 DEF EditPuts, EditRefused, PutFails
        <5>2. UNCHANGED files \/ \E c \in Contents : Becomes(call[k].file, c, {})
          BY <4>9 DEF EditPuts, EditRefused, PutFails, disk
        <5> QED  BY <3>2, <4>5, <5>1, <5>2 DEF agent, requests
      <4>7. CASE GitEnds(k)  BY <3>4, <4>7 DEF GitEnds
      <4> QED
        BY <2>3, <4>2, <4>3, <4>4, <4>6, <4>7, <4>8, <4>9 DEF CallStep
    <3>5. call[k].at \in {"bash", "stat", "fetch", "fetched", "put", "wrote"}
      BY <2>3 DEF CallStep, GitEnds, Fetch, FetchFails, ReadEnds,
         ReadRefused, WriteStat, WriteCompare, WritePuts, WriteEnds, EditPuts,
         EditRefused, PutFails
    <3> QED  BY <3>3, <3>4, <3>5
  <2>4. ASSUME NEW f \in Files, FileChanges(f) PROVE Shape'
    BY <2>4 DEF FileChanges, Becomes, agent, requests
  <2>5. ASSUME UNCHANGED vars PROVE Shape'
    BY <2>5 DEF vars, agent, requests, disk
  <2>6. Shape'  BY <2>1, <2>2, <2>3, <2>4, <2>5 DEF Next
  <2>7. ASSUME NEW r \in Requests, RequestStep(r) PROVE Placed'
    BY <2>7 DEF RequestStep, Handle, Arrives, Answer, agent, Placed
  <2>8. ASSUME NEW k \in Calls, CallBegins(k) PROVE Placed'
    <3>1. PICK r \in Requests, tool \in Tools, f \in Files \cup {NoFile},
               at \in {"stat", "fetch", "bash", "threw", "end"} :
            /\ Begin(k, r, tool, f, at)
            /\ at \in {"stat", "fetch"} => f \in Files
            /\ UNCHANGED <<context, readFiles>>
      BY <2>8, BeginSets
    <3> QED  BY <3>1 DEF Begin, Placed, CallRecords
  <2>9. ASSUME NEW k \in Calls, CallStep(k) PROVE Placed'
    <3>1. UNCHANGED <<state, latest, context>>
      BY <2>9 DEF CallStep, GitEnds, Fetch, FetchFails, ReadEnds,
         ReadRefused, WriteStat, WriteCompare, WritePuts, WriteEnds, EditPuts,
         EditRefused, PutFails, requests, agent
    <3>2. \A j \in Calls :
            /\ call'[j].req = call[j].req /\ call'[j].ctx = call[j].ctx
            /\ call'[j].file = call[j].file
            /\ call'[j].at # call[j].at =>
                 /\ call'[j].at # "idle"
                 /\ call'[j].at = "end" \/ call[j].at \in {"stat", "fetch", "fetched", "put"}
            /\ call[j].at = "idle" => call'[j].at = "idle"
      BY <2>9, StepMoves
    <3>3. ASSUME NEW j \in Calls, call'[j].at \in {"fetched", "wrote"}
          PROVE  call'[j].seen \in Contents
      <4>1. CASE call'[j] = call[j]
        BY <3>3, <4>1 DEF Placed
      <4>2. CASE call'[j] # call[j]
        <5>1. j = k
          BY <2>9, <4>2, StepMoves
        <5>2. CASE Fetch(k)
          <6>1. call[k].file \in Files /\ call'[k].seen = files[call[k].file]
            BY <5>2 DEF Fetch, Placed, CallRecords
          <6> QED  BY <5>1, <5>2, <6>1 DEF Fetch
        <5>3. CASE WritePuts(k)
          BY <5>1, <5>3 DEF WritePuts, CallRecords
        <5>4. CASE ~Fetch(k) /\ ~WritePuts(k)
          BY <2>9, <3>3, <5>1, <5>4 DEF CallStep, GitEnds, FetchFails,
             ReadEnds, ReadRefused, WriteStat, WriteCompare, WriteEnds,
             EditPuts, EditRefused, PutFails, Goes, Ends, CallRecords
        <5> QED  BY <5>2, <5>3, <5>4
      <4> QED  BY <4>1, <4>2
    <3> QED  BY <3>1, <3>2, <3>3 DEF Placed
  <2>10. ASSUME NEW f \in Files, FileChanges(f) PROVE Placed'
    BY <2>10 DEF FileChanges, agent, requests, Placed
  <2>11. ASSUME UNCHANGED vars PROVE Placed'
    BY <2>11 DEF vars, agent, requests, Placed
  <2> QED  BY <2>6, <2>7, <2>8, <2>9, <2>10, <2>11 DEF Next
<1> QED  BY <1>1, <1>2, PTL DEF Spec

----------------------------------------------------------------------------

\* A call that begins leaves what was read and shown alone.
LEMMA BeginKeeps ==
  ASSUME Shape, Placed, GuardInv, NEW k \in Calls, CallBegins(k),
         overlapped \subseteq overlapped'
  PROVE  GuardInv'
<1>1. PICK r \in Requests, tool \in Tools, f \in Files \cup {NoFile},
           at \in {"stat", "fetch", "bash", "threw", "end"} :
        /\ Begin(k, r, tool, f, at)
        /\ UNCHANGED <<context, readFiles>>
  BY BeginSets
<1>2. call'[k] = [req |-> r, tool |-> tool, file |-> f, ctx |-> context,
                  at |-> at, seen |-> Missing]
  BY <1>1 DEF Begin, Shape
<1>3. \A j \in Calls \ {k} : call'[j] = call[j]
  BY <1>1 DEF Begin, Shape
<1>4. UNCHANGED shown  BY <1>1 DEF Begin
<1>5. context # r => {context, r} \subseteq overlapped'
  BY <1>1 DEF Begin, Overlap, Placed
<1>6. OwnContext'  BY <1>2, <1>3, <1>5 DEF OwnContext, GuardInv
<1>7. RecordsShown'  BY <1>1, <1>4 DEF RecordsShown, GuardInv
<1>8. SeenIsFetched'  BY <1>2, <1>3 DEF SeenIsFetched, GuardInv
<1>9. ApprovedWasRead'
  BY <1>2, <1>3, <1>4 DEF ApprovedWasRead, Approved, GuardInv
<1> QED  BY <1>6, <1>7, <1>8, <1>9 DEF GuardInv

\* Recording a content that the call's own request is shown.
LEMMA RecordKeeps ==
  ASSUME Shape, Placed, OwnContext, RecordsShown,
         NEW k \in Calls, call[k].at \in {"fetched", "wrote"},
         Record(k), Known(k),
         UNCHANGED overlapped
  PROVE  RecordsShown' /\ \A r \in Requests : shown[r] \subseteq shown'[r]
<1> DEFINE f == call[k].file  c == call[k].ctx  q == call[k].req
           content == call[k].seen
<1>1. f \in Files /\ c \in Requests /\ q \in Requests
  BY DEF Placed
<1>2. /\ \A r \in Requests : shown[r] \subseteq shown'[r]
      /\ <<f, content>> \in shown'[q]
  BY <1>1 DEF Known, Shape
<1>3. c \notin overlapped => q = c
  BY DEF OwnContext
<1>4. ASSUME NEW r \in Requests \ overlapped, NEW g \in Files,
             readFiles'[r][g] # Unread
      PROVE  <<g, readFiles'[r][g]>> \in shown'[r]
  <2>1. CASE r = c /\ g = f
    <3>1. readFiles'[r][g] = content  BY <1>1, <2>1 DEF Record, Shape
    <3> QED  BY <1>2, <1>3, <2>1, <3>1
  <2>2. CASE ~(r = c /\ g = f)
    <3>1. readFiles'[r][g] = readFiles[r][g]
      BY <1>1, <2>2 DEF Record, Shape
    <3> QED  BY <1>2, <1>4, <3>1 DEF RecordsShown
  <2> QED  BY <2>1, <2>2
<1> QED  BY <1>2, <1>4 DEF RecordsShown

\* A write is approved where its content is what the context holds.
LEMMA CompareKeeps ==
  ASSUME Shape, Placed, GuardInv, NEW k \in Calls, WriteCompare(k)
  PROVE  ApprovedWasRead'
<1>1. UNCHANGED <<shown, overlapped>>
  BY DEF WriteCompare, requests
<1>2. ASSUME NEW j \in Calls, Approved(j)', call'[j].req \notin overlapped'
      PROVE  <<call'[j].file, call'[j].seen>> \in shown'[call'[j].req]
  <2>1. CASE j # k
    <3>1. call'[j] = call[j]  BY <2>1 DEF WriteCompare, Goes, Ends, Shape
    <3> QED
      BY <1>1, <1>2, <3>1 DEF Approved, ApprovedWasRead, GuardInv
  <2>2. CASE j = k
    <3> DEFINE f == call[k].file  c == call[k].ctx
    <3>1. /\ call'[k].req = call[k].req /\ call'[k].file = f
          /\ call'[k].seen = call[k].seen
      BY DEF WriteCompare, Goes, Ends, Shape, CallRecords
    <3>2. call[k].seen = readFiles[c][f]
      BY <1>2, <2>2 DEF WriteCompare, Goes, Ends, Approved, Shape, CallRecords
    <3>3. call[k].seen # Unread
      BY NamesAssumption DEF Shape, CallRecords
    <3>4. f \in Files /\ c \in Requests
      BY DEF WriteCompare, Placed
    <3>5. call[k].req = c /\ c \notin overlapped
      BY <1>1, <1>2, <2>2, <3>1 DEF OwnContext, GuardInv, WriteCompare
    <3>6. <<f, readFiles[c][f]>> \in shown[c]
      BY <3>2, <3>3, <3>4, <3>5 DEF RecordsShown, GuardInv
    <3> QED  BY <1>1, <2>2, <3>1, <3>2, <3>5, <3>6
  <2> QED  BY <2>1, <2>2
<1> QED  BY <1>2 DEF ApprovedWasRead

\* The other steps of a call.
LEMMA StepKeeps ==
  ASSUME Shape, Placed, GuardInv, NEW k \in Calls, CallStep(k)
  PROVE  GuardInv'
<1>1. UNCHANGED overlapped
  BY DEF CallStep, GitEnds, Fetch, FetchFails, ReadEnds, ReadRefused,
     WriteStat, WriteCompare, WritePuts, WriteEnds, EditPuts, EditRefused,
     PutFails, requests
<1>2. OwnContext'
  BY <1>1, StepMoves DEF OwnContext, GuardInv
<1>3. call'[k].at # "stat"
  BY DEF CallStep, GitEnds, Fetch, FetchFails, ReadEnds, ReadRefused,
     WriteStat, WriteCompare, WritePuts, WriteEnds, EditPuts, EditRefused,
     PutFails, Goes, Ends, Shape, CallRecords
<1>4. SeenIsFetched'
  BY <1>3, StepMoves DEF SeenIsFetched, GuardInv
<1>5. CASE ReadEnds(k) \/ WriteEnds(k)
  <2>1. Record(k) /\ Known(k)
    BY <1>5 DEF ReadEnds, WriteEnds
  <2>2. call[k].at \in {"fetched", "wrote"} /\ call'[k].at = "end"
    BY <1>5 DEF ReadEnds, WriteEnds, Ends, Goes, Shape, CallRecords
  <2>3. RecordsShown' /\ \A r \in Requests : shown[r] \subseteq shown'[r]
    BY <1>1, <2>1, <2>2, RecordKeeps DEF GuardInv
  <2>4. ApprovedWasRead'
    <3>1. ASSUME NEW j \in Calls, Approved(j)'
          PROVE  j # k /\ call'[j] = call[j] /\ call[j].req \in Requests
      BY <2>2, <3>1, StepMoves DEF Approved, Placed
    <3> QED
      BY <1>1, <2>3, <3>1 DEF ApprovedWasRead, Approved, GuardInv
  <2> QED  BY <1>2, <1>4, <2>3, <2>4 DEF GuardInv
<1>6. ASSUME ~(ReadEnds(k) \/ WriteEnds(k)) PROVE GuardInv'
  <2>1. UNCHANGED <<readFiles, shown>>
    BY <1>6 DEF CallStep, GitEnds, Fetch, FetchFails, ReadEnds, ReadRefused,
       WriteStat, WriteCompare, WritePuts, WriteEnds, EditPuts, EditRefused,
       PutFails, agent
  <2>2. RecordsShown'  BY <1>1, <2>1 DEF RecordsShown, GuardInv
  <2>3. ApprovedWasRead'
    <3>1. CASE WriteCompare(k)  BY <3>1, CompareKeeps
    <3>2. ASSUME ~WriteCompare(k), Approved(k)'
          PROVE  FALSE
      <4>1. WriteStat(k) /\ call[k].at = "stat" /\ call'[k].seen = call[k].seen
        BY <1>6, <3>2 DEF CallStep, GitEnds, Fetch, FetchFails, ReadEnds,
           ReadRefused, WriteStat, WriteCompare, WritePuts, WriteEnds,
           EditPuts, EditRefused, PutFails, Goes, Ends, Approved, Shape,
           CallRecords
      <4> QED
        BY <3>2, <4>1 DEF SeenIsFetched, GuardInv, Approved
    <3>3. ASSUME ~WriteCompare(k) PROVE ApprovedWasRead'
      <4>1. \A j \in Calls : Approved(j)' => call'[j] = call[j]
        BY <3>2, <3>3, StepMoves
      <4> QED
        BY <1>1, <2>1, <4>1 DEF ApprovedWasRead, Approved, GuardInv
    <3> QED  BY <3>1, <3>3
  <2> QED  BY <1>2, <1>4, <2>2, <2>3 DEF GuardInv
<1> QED  BY <1>5, <1>6

\* What the guard of file_write rests on, at every moment.
LEMMA GuardHolds == Spec => [](Shape /\ Placed /\ GuardInv)
<1>1. Init => GuardInv
  BY DEF Init, GuardInv, OwnContext, RecordsShown, SeenIsFetched,
     ApprovedWasRead, Approved, Idle
<1>2. Shape /\ Placed /\ GuardInv /\ [Next]_vars => GuardInv'
  <2> SUFFICES ASSUME Shape, Placed, GuardInv, [Next]_vars PROVE GuardInv'
    OBVIOUS
  <2>1. overlapped \subseteq overlapped'  BY OverlapGrows
  <2>2. ASSUME UNCHANGED <<readFiles, call, shown>> PROVE GuardInv'
    BY <2>1, <2>2 DEF GuardInv, OwnContext, RecordsShown, SeenIsFetched,
       ApprovedWasRead, Approved
  <2>3. ASSUME NEW r \in Requests, RequestStep(r) PROVE GuardInv'
    BY <2>2, <2>3 DEF RequestStep, Handle, Answer, agent
  <2>4. ASSUME NEW k \in Calls, CallBegins(k) PROVE GuardInv'
    BY <2>1, <2>4, BeginKeeps
  <2>5. ASSUME NEW k \in Calls, CallStep(k) PROVE GuardInv'
    BY <2>5, StepKeeps
  <2>6. ASSUME NEW f \in Files, FileChanges(f) PROVE GuardInv'
    BY <2>2, <2>6 DEF FileChanges, agent
  <2>7. CASE UNCHANGED vars  BY <2>2, <2>7 DEF vars, agent
  <2> QED  BY <2>3, <2>4, <2>5, <2>6, <2>7 DEF Next
<1> QED  BY <1>1, <1>2, ShapeHolds, PTL DEF Spec

\* file_write overwrites only what the request was shown or wrote itself, as
\* long as no other request shares the agent with it.
THEOREM WriteGuard == Spec => []ApprovedWasRead
<1>1. GuardInv => ApprovedWasRead  BY DEF GuardInv
<1> QED  BY <1>1, GuardHolds, PTL

----------------------------------------------------------------------------
(* Types.                                                                  *)

Begun == {k \in Calls : call[k].at # "idle"}

\* Each call puts git once into the list of allowed commands at most.
AllowedOnce == allowed \in Nat /\ allowed <= Cardinality(Begun)

HistoryTyped ==
  /\ asked \subseteq Requests /\ overlapped \subseteq Requests
  /\ gitAllowed \in BOOLEAN
  /\ raced \subseteq Calls /\ outdated \subseteq Requests \X Files

\* Every variable keeps its type, for any requests and files and finitely many
\* calls; the list of allowed commands grows with them only.
THEOREM TypeCorrect ==
  ASSUME IsFiniteSet(Calls)
  PROVE  Spec => []TypeOK
<1>0. /\ IsFiniteSet(Begun) /\ Cardinality(Begun) \in Nat
      /\ Cardinality(Begun) <= Cardinality(Calls)
      /\ IsFiniteSet(Begun') /\ Cardinality(Begun') \in Nat
      /\ (Begun \subseteq Begun' => Cardinality(Begun) <= Cardinality(Begun'))
      /\ Cardinality(Calls) \in Nat
  <2>1. Begun \subseteq Calls /\ Begun' \subseteq Calls
    BY DEF Begun
  <2>2. IsFiniteSet(Calls)
    OBVIOUS
  <2>3. IsFiniteSet(Begun) /\ IsFiniteSet(Begun')
        /\ Cardinality(Begun) <= Cardinality(Calls)
    BY <2>1, <2>2, FS_Subset
  <2> QED  BY <2>2, <2>3, FS_Subset, FS_CardinalityType
<1>1. Init => AllowedOnce /\ HistoryTyped
  <2> SUFFICES ASSUME Init PROVE AllowedOnce /\ HistoryTyped  OBVIOUS
  <2>1. allowed = 0 /\ gitAllowed = FALSE
    BY DEF Init
  <2>2. AllowedOnce  BY <1>0, <2>1 DEF AllowedOnce
  <2>3. HistoryTyped  BY <2>1 DEF Init, HistoryTyped
  <2> QED  BY <2>2, <2>3
<1>2. Shape /\ Placed /\ GuardInv /\ AllowedOnce /\ HistoryTyped /\ [Next]_vars
        => AllowedOnce' /\ HistoryTyped'
  <2> SUFFICES ASSUME Shape, Placed, AllowedOnce, HistoryTyped, [Next]_vars
               PROVE  AllowedOnce' /\ HistoryTyped'
    OBVIOUS
  <2> USE DEF Shape, CallRecords
  <2>0. ASSUME NEW f \in Files, NEW c, NEW by, Becomes(f, c, by)
        PROVE  raced' \subseteq Calls /\ outdated' \subseteq Requests \X Files
    BY <2>0 DEF Becomes, HistoryTyped
  <2>1. ASSUME UNCHANGED <<allowed, call, gitAllowed, asked, overlapped, disk>>
        PROVE  AllowedOnce' /\ HistoryTyped'
    BY <2>1 DEF AllowedOnce, HistoryTyped, Begun, disk
  <2>2. ASSUME NEW r \in Requests, RequestStep(r)
        PROVE  AllowedOnce' /\ HistoryTyped'
    <3>1. UNCHANGED <<allowed, call>>
      BY <2>2 DEF RequestStep, Handle, Answer, agent
    <3>2. Others(r) \subseteq Requests
      BY DEF Others
    <3>3. HistoryTyped'
      BY <2>2, <3>2 DEF RequestStep, Handle, Arrives, Overlap, Answer, agent,
         disk, HistoryTyped
    <3> QED  BY <3>1, <3>3 DEF AllowedOnce, Begun
  <2>3. ASSUME NEW k \in Calls, CallBegins(k) PROVE AllowedOnce' /\ HistoryTyped'
    <3>1. PICK r \in Requests, tool \in Tools, f \in Files \cup {NoFile},
               at \in {"stat", "fetch", "bash", "threw", "end"} :
            /\ Begin(k, r, tool, f, at)
            /\ allowed' \in {allowed, allowed + 1} /\ UNCHANGED gitAllowed
      BY <2>3 DEF CallBegins, GitRejected, GitRuns, FileTool, agent, Tools
    <3>2. Begun' = Begun \cup {k} /\ k \notin Begun
      BY <3>1 DEF Begin, Idle, Begun
    <3>3. Cardinality(Begun') = Cardinality(Begun) + 1
      BY <1>0, <3>2, FS_AddElement
    <3>4. HistoryTyped'
      <4>1. latest \in Requests
        BY <3>1 DEF Begin, Placed
      <4>2. Others(r) \cup ({latest} \ {r}) \subseteq Requests
        BY <4>1 DEF Others
      <4> QED  BY <3>1, <4>2 DEF Begin, Overlap, disk, HistoryTyped
    <3>5. AllowedOnce'
      BY <1>0, <3>1, <3>3 DEF AllowedOnce
    <3> QED  BY <3>4, <3>5
  <2>4. ASSUME NEW k \in Calls, CallStep(k) PROVE AllowedOnce' /\ HistoryTyped'
    <3>1. Begun \subseteq Begun'
      BY <2>4, StepMoves DEF Begun
    <3>2. /\ UNCHANGED <<gitAllowed, asked, overlapped>>
          /\ allowed' = allowed \/ (allowed > 0 /\ allowed' = allowed - 1)
      BY <2>4 DEF CallStep, GitEnds, Fetch, FetchFails, ReadEnds, ReadRefused,
         WriteStat, WriteCompare, WritePuts, WriteEnds, EditPuts, EditRefused,
         PutFails, requests, agent
    <3>3. AllowedOnce'
      BY <1>0, <3>1, <3>2 DEF AllowedOnce
    <3>4. call[k].at # "idle" /\ (call[k].at \in {"put", "fetched", "wrote"}
            => call[k].file \in Files /\ call[k].ctx \in Requests)
      BY <2>4 DEF Placed, CallStep, GitEnds, Fetch, FetchFails, ReadEnds,
         ReadRefused, WriteStat, WriteCompare, WritePuts, WriteEnds, EditPuts,
         EditRefused, PutFails
    <3>5. CASE ReadEnds(k) \/ WriteEnds(k)
      BY <3>2, <3>3, <3>4, <3>5 DEF ReadEnds, WriteEnds, Known, HistoryTyped
    <3>6. CASE WritePuts(k) \/ EditPuts(k) \/ PutFails(k)
      <4>1. call[k].file \in Files
        BY <3>4, <3>6 DEF WritePuts, EditPuts, PutFails
      <4>2. UNCHANGED disk \/ \E c \in Contents, by \in SUBSET Calls :
                                 Becomes(call[k].file, c, by)
        BY <3>6 DEF WritePuts, EditPuts, PutFails
      <4> QED  BY <2>0, <3>2, <3>3, <4>1, <4>2 DEF disk, HistoryTyped
    <3>7. CASE ~(ReadEnds(k) \/ WriteEnds(k))
               /\ ~(WritePuts(k) \/ EditPuts(k) \/ PutFails(k))
      <4>1. UNCHANGED disk
        BY <2>4, <3>7 DEF CallStep, GitEnds, Fetch, FetchFails, ReadRefused,
           WriteStat, WriteCompare, EditRefused
      <4> QED  BY <3>2, <3>3, <4>1 DEF disk, HistoryTyped
    <3> QED  BY <3>5, <3>6, <3>7
  <2>5. ASSUME NEW f \in Files, FileChanges(f) PROVE AllowedOnce' /\ HistoryTyped'
    <3>1. UNCHANGED <<allowed, call, gitAllowed, asked, overlapped>>
      BY <2>5 DEF FileChanges, agent, requests
    <3>2. raced' \subseteq Calls /\ outdated' \subseteq Requests \X Files
      BY <2>0, <2>5 DEF FileChanges
    <3> QED  BY <3>1, <3>2 DEF AllowedOnce, HistoryTyped, Begun
  <2>6. CASE UNCHANGED vars  BY <2>1, <2>6 DEF vars, agent, requests
  <2> QED  BY <2>2, <2>3, <2>4, <2>5, <2>6 DEF Next
<1>3. Shape /\ Placed /\ AllowedOnce /\ HistoryTyped => TypeOK
  <2> SUFFICES ASSUME Shape, Placed, AllowedOnce, HistoryTyped PROVE TypeOK
    OBVIOUS
  <2>1. allowed \in 0 .. Cardinality(Calls)
    BY <1>0 DEF AllowedOnce
  <2> QED  BY <2>1 DEF Shape, Placed, HistoryTyped, TypeOK, CallRecords
<1> QED  BY <1>1, <1>2, <1>3, GuardHolds, PTL DEF Spec

----------------------------------------------------------------------------
(* git.                                                                    *)

Bash == {k \in Calls : call[k].at = "bash"}

\* The calls that have git in the list of allowed commands.
Listed == {k \in Calls : call[k].at \in {"bash", "threw"}}

\* git is allowed to the request that came last only if it asks for it; while
\* no requests overlapped, a git command that runs still finds it allowed.
GitInv ==
  /\ gitAllowed => context \in asked
  /\ \A k \in Calls : call[k].at # "idle" => state[call[k].req] # "new"
  /\ \A k \in Bash : overlapped = {} => gitAllowed
  /\ IsFiniteSet(Listed) /\ allowed \in Nat
  /\ GitHeldToRequest

\* A tool call that begins keeps GitInv: one that runs bash has git listed or not, as
\* its request asked.
LEMMA GitBegins ==
  ASSUME Shape, Placed, GitInv, NEW k \in Calls, CallBegins(k)
  PROVE  GitInv'
<1> USE DEF Shape, CallRecords
<1>1. overlapped \subseteq overlapped'
  BY OverlapGrows DEF Next
<1>2. PICK r \in Requests, tool \in Tools, f \in Files \cup {NoFile},
           at \in {"stat", "fetch", "bash", "threw", "end"} :
        /\ Begin(k, r, tool, f, at)
        /\ UNCHANGED <<context, gitAllowed>>
        /\ IF at \in {"bash", "threw"} THEN gitAllowed /\ allowed' = allowed + 1
           ELSE allowed' = allowed
  BY DEF CallBegins, GitRejected, GitRuns, FileTool, agent, Tools
<1>3. /\ call[k].at = "idle" /\ call'[k].at = at /\ call'[k].req = r
      /\ \A j \in Calls \ {k} : call'[j] = call[j]
      /\ UNCHANGED <<state, asked, latest>> /\ state[r] # "new"
  BY <1>2 DEF Begin, Idle
<1>4. r \notin overlapped' => context = r
  BY <1>2 DEF Begin, Overlap, Placed
<1>5. /\ gitAllowed' => context' \in asked'
      /\ \A j \in Calls : call'[j].at # "idle" => state'[call'[j].req] # "new"
      /\ \A j \in Bash' : overlapped' = {} => gitAllowed'
      /\ allowed' \in Nat
  <2>1. gitAllowed' => context' \in asked'
    BY <1>2, <1>3 DEF GitInv
  <2>2. \A j \in Calls : call'[j].at # "idle" => state'[call'[j].req] # "new"
    BY <1>3 DEF GitInv
  <2>3. ASSUME NEW j \in Calls, call'[j].at = "bash", overlapped' = {}
        PROVE  gitAllowed'
    BY <1>1, <1>2, <1>3, <2>3 DEF GitInv, Bash
  <2>4. allowed' \in Nat
    BY <1>2 DEF GitInv
  <2> QED  BY <2>1, <2>2, <2>3, <2>4 DEF Bash
<1>6. GitOnlyOnRequest'
  BY <1>1, <1>2, <1>3, <1>4 DEF GitInv, GitHeldToRequest, GitOnlyOnRequest
<1>7. CASE at \in {"bash", "threw"}
  <2>1. Listed' = Listed \cup {k} /\ k \notin Listed
    BY <1>3, <1>7 DEF Listed
  <2>2. IsFiniteSet(Listed') /\ Cardinality(Listed') = Cardinality(Listed) + 1
    BY <2>1, FS_AddElement DEF GitInv
  <2>3. AllowedRestored'
    BY <1>1, <1>2, <1>7, <2>2
       DEF GitInv, GitHeldToRequest, AllowedRestored, Listed
  <2> QED  BY <1>5, <1>6, <2>2, <2>3 DEF GitInv, GitHeldToRequest
<1>8. CASE at \notin {"bash", "threw"}
  <2>1. Listed' = Listed
    BY <1>3, <1>8 DEF Listed
  <2>2. AllowedRestored'
    BY <1>1, <1>2, <1>8, <2>1
       DEF GitInv, GitHeldToRequest, AllowedRestored, Listed
  <2> QED  BY <1>5, <1>6, <2>1, <2>2 DEF GitInv, GitHeldToRequest
<1> QED  BY <1>7, <1>8

\* So does every later step of a call.
LEMMA GitSteps ==
  ASSUME Shape, Placed, GitInv, NEW k \in Calls, CallStep(k)
  PROVE  GitInv'
<1> USE DEF Shape, CallRecords
<1>1. UNCHANGED <<state, asked, context, gitAllowed, overlapped>>
  BY DEF CallStep, GitEnds, Fetch, FetchFails, ReadEnds, ReadRefused,
     WriteStat, WriteCompare, WritePuts, WriteEnds, EditPuts, EditRefused,
     PutFails, requests, agent
<1>2. \A j \in Calls :
        /\ call'[j].req = call[j].req
        /\ call[j].at = "idle" => call'[j].at = "idle"
        /\ j # k => call'[j] = call[j]
  BY StepMoves
<1>3. call'[k].at \notin {"bash", "threw"} /\ call[k].at # "threw"
  BY DEF CallStep, GitEnds, Fetch, FetchFails, ReadEnds, ReadRefused,
     WriteStat, WriteCompare, WritePuts, WriteEnds, EditPuts, EditRefused,
     PutFails, Goes, Ends
<1>4. Listed' = Listed \ {k}
  BY <1>2, <1>3 DEF Listed
<1>5. GitOnlyOnRequest'
  BY <1>1, <1>2, <1>3 DEF GitInv, GitHeldToRequest, GitOnlyOnRequest
<1>6. IsFiniteSet(Listed') /\ Cardinality(Listed') = IF k \in Listed
        THEN Cardinality(Listed) - 1 ELSE Cardinality(Listed)
  BY <1>4, FS_RemoveElement DEF GitInv
<1>7. Cardinality(Listed) \in Nat /\ (k \in Listed => Cardinality(Listed) # 0)
  BY FS_CardinalityType, FS_EmptySet DEF GitInv
<1>8. /\ gitAllowed' => context' \in asked'
      /\ \A j \in Calls : call'[j].at # "idle" => state'[call'[j].req] # "new"
      /\ \A j \in Bash' : overlapped' = {} => gitAllowed'
  <2>1. \A j \in Calls : call'[j].at # "idle" => state'[call'[j].req] # "new"
    BY <1>1, <1>2, StepMoves DEF GitInv
  <2>2. Bash' \subseteq Bash
    BY <1>2, <1>3 DEF Bash
  <2> QED  BY <1>1, <2>1, <2>2 DEF GitInv
<1>9. CASE GitEnds(k)
  <2>1. k \in Bash /\ k \in Listed
        /\ allowed' = IF gitAllowed /\ allowed > 0 THEN allowed - 1 ELSE allowed
    BY <1>9 DEF GitEnds, Bash, Listed
  <2>2. allowed' \in Nat
    BY <2>1 DEF GitInv
  <2>3. overlapped = {} => gitAllowed /\ allowed = Cardinality(Listed)
    BY <2>1 DEF GitInv, GitHeldToRequest, AllowedRestored, Listed
  <2>4. overlapped' = {} => allowed' = Cardinality(Listed')
    BY <1>1, <1>6, <1>7, <2>1, <2>3
  <2>5. AllowedRestored'
    BY <2>4 DEF AllowedRestored, Listed
  <2> QED  BY <1>5, <1>6, <1>8, <2>2, <2>5 DEF GitInv, GitHeldToRequest
<1>10. CASE ~GitEnds(k)
  <2>1. allowed' = allowed /\ k \notin Listed
    BY <1>3, <1>10 DEF CallStep, Fetch, FetchFails, ReadEnds, ReadRefused,
       WriteStat, WriteCompare, WritePuts, WriteEnds, EditPuts, EditRefused,
       PutFails, agent, Listed
  <2>2. Listed' = Listed
    BY <1>4, <2>1
  <2>3. AllowedRestored'
    BY <1>1, <2>1, <2>2 DEF GitInv, GitHeldToRequest, AllowedRestored, Listed
  <2> QED
    BY <1>5, <1>6, <1>8, <2>1, <2>3 DEF GitInv, GitHeldToRequest
<1> QED  BY <1>9, <1>10

\* A request that has the agent to itself runs git only if it asks for it; and
\* while no requests overlap, the list of allowed commands has git once for
\* each git command that runs, and once for each that threw before it ran.
THEOREM GitHeld == Spec => []GitHeldToRequest
<1>1. Init => GitInv
  <2> SUFFICES ASSUME Init PROVE GitInv  OBVIOUS
  <2>1. Bash = {} /\ Listed = {}  BY DEF Init, Bash, Listed, Idle
  <2>2. IsFiniteSet(Listed) /\ Cardinality(Listed) = 0
    BY <2>1, FS_EmptySet
  <2> QED
    BY <2>1, <2>2 DEF Init, Idle, GitInv, GitHeldToRequest, GitOnlyOnRequest,
       AllowedRestored, Listed
<1>2. Shape /\ Placed /\ GuardInv /\ GitInv /\ [Next]_vars => GitInv'
  <2> SUFFICES ASSUME Shape, Placed, GitInv, [Next]_vars PROVE GitInv'
    OBVIOUS
  <2>1. ASSUME UNCHANGED <<state, asked, context, gitAllowed, allowed, call,
                           overlapped>>
        PROVE  GitInv'
    BY <2>1 DEF GitInv, GitHeldToRequest, GitOnlyOnRequest, AllowedRestored,
       Bash, Listed
  <2>2. ASSUME NEW r \in Requests, NEW git \in BOOLEAN, Handle(r, git)
        PROVE  GitInv'
    <3>1. /\ context' = r /\ gitAllowed' = git
          /\ asked' = IF git THEN asked \cup {r} ELSE asked
          /\ UNCHANGED <<call, allowed>> /\ Bash' = Bash /\ Listed' = Listed
      BY <2>2 DEF Handle, Arrives, Bash, Listed
    <3>2. \A q \in Requests : state[q] # "new" => state'[q] # "new"
      BY <2>2 DEF Handle, Arrives, Shape
    <3>3. overlapped' = {} => overlapped = {} /\ Bash = {}
      <4>1. ASSUME NEW k \in Bash PROVE Others(r) # {}
        <5>1. call[k].req \in Requests \ {r}
          BY <2>2, <4>1 DEF Handle, Arrives, GitInv, Bash, Placed
        <5>2. k \in CallsOf(call[k].req)
          BY <4>1 DEF CallsOf, Bash
        <5> QED  BY <5>1, <5>2 DEF Others
      <4> QED  BY <2>2, <4>1 DEF Handle, Arrives, Overlap
    <3>4. \A k \in Calls : call[k].at # "idle" => state'[call[k].req] # "new"
      BY <3>2 DEF GitInv, Placed
    <3>5. overlapped \subseteq overlapped'
      BY <2>2 DEF Handle, Arrives, Overlap
    <3>6. GitOnlyOnRequest'
      BY <3>1, <3>5 DEF GitInv, GitHeldToRequest, GitOnlyOnRequest
    <3>7. AllowedRestored'
      BY <3>1, <3>3 DEF GitInv, GitHeldToRequest, AllowedRestored
    <3> QED
      BY <3>1, <3>3, <3>4, <3>6, <3>7 DEF GitInv, GitHeldToRequest
  <2>3. ASSUME NEW r \in Requests, Answer(r) PROVE GitInv'
    <3>1. UNCHANGED <<asked, context, gitAllowed, allowed, call, overlapped>>
      BY <2>3 DEF Answer, agent
    <3>2. \A q \in Requests : state[q] # "new" => state'[q] # "new"
      BY <2>3 DEF Answer, Shape
    <3>3. \A k \in Calls : call[k].at # "idle" => state'[call[k].req] # "new"
      BY <3>2 DEF GitInv, Placed
    <3> QED
      BY <3>1, <3>3 DEF GitInv, GitHeldToRequest, GitOnlyOnRequest,
         AllowedRestored, Bash, Listed
  <2>4. ASSUME NEW k \in Calls, CallBegins(k) PROVE GitInv'
    BY <2>4, GitBegins
  <2>5. ASSUME NEW k \in Calls, CallStep(k) PROVE GitInv'
    BY <2>5, GitSteps
  <2>6. ASSUME NEW f \in Files, FileChanges(f) PROVE GitInv'
    BY <2>1, <2>6 DEF FileChanges, agent, requests
  <2>7. CASE UNCHANGED vars  BY <2>1, <2>7 DEF vars, agent, requests
  <2> QED  BY <2>2, <2>3, <2>4, <2>5, <2>6, <2>7 DEF Next, RequestStep
<1>3. GitInv => GitHeldToRequest  BY DEF GitInv
<1> QED  BY <1>1, <1>2, <1>3, GuardHolds, PTL DEF Spec

----------------------------------------------------------------------------
(* Which contents count as known.                                          *)

\* What a context has of a file is what the file is, unless the file changed
\* since; what a call read or wrote is what the file is, unless it changed
\* meanwhile; and a file_write compares only where its context has something.
RecordsCurrent ==
  \A r \in Requests, f \in Files :
    readFiles[r][f] # Unread /\ <<r, f>> \notin outdated => readFiles[r][f] = files[f]
SeenCurrent ==
  \A k \in Calls \ raced :
    call[k].at \in {"fetched", "wrote"} => call[k].seen = files[call[k].file]
ComparesRecord ==
  \A k \in Calls : call[k].tool = "write" /\ call[k].at \in {"fetch", "fetched"}
    => readFiles[call[k].ctx][call[k].file] # Unread

CurrentInv == RecordsCurrent /\ SeenCurrent /\ ComparesRecord

\* A file that changes is outdated for the contexts that have it, and for the
\* calls that read or wrote it, but the one that writes it.
LEMMA BecomesKeeps ==
  ASSUME Shape, Placed, CurrentInv, NEW f \in Files, NEW c, NEW by,
         Becomes(f, c, by), UNCHANGED readFiles
  PROVE  /\ RecordsCurrent'
         /\ \A k \in Calls \ by :
              call'[k] = call[k] /\ k \notin raced'
                /\ call[k].at \in {"fetched", "wrote"}
              => call'[k].seen = files'[call'[k].file]
<1>1. files'[f] = c /\ \A g \in Files \ {f} : files'[g] = files[g]
  BY DEF Becomes, Shape
<1>2. ASSUME NEW r \in Requests, NEW g \in Files, readFiles[r][g] # Unread,
             <<r, g>> \notin outdated'
      PROVE  readFiles[r][g] = files'[g]
  <2>1. <<r, g>> \notin outdated /\ g # f
    BY <1>2 DEF Becomes
  <2> QED  BY <1>1, <1>2, <2>1 DEF CurrentInv, RecordsCurrent
<1>3. ASSUME NEW k \in Calls \ by, k \notin raced', call[k].at \in {"fetched", "wrote"}
      PROVE  call[k].seen = files'[call[k].file]
  <2>1. k \notin raced /\ call[k].file # f
    BY <1>3 DEF Becomes
  <2>2. call[k].file \in Files
    BY <1>3 DEF Placed
  <2> QED  BY <1>1, <1>3, <2>1, <2>2 DEF CurrentInv, SeenCurrent
<1> QED  BY <1>2, <1>3 DEF RecordsCurrent

\* Steps of a call that change no file and record nothing.
LEMMA LookKeeps ==
  ASSUME Shape, Placed, CurrentInv, NEW k \in Calls,
         UNCHANGED <<readFiles, disk>>,
         \A j \in Calls \ {k} : call'[j] = call[j],
         call'[k].at \in {"fetched", "wrote"} => call'[k].seen = files[call'[k].file],
         call'[k].tool = "write" /\ call'[k].at \in {"fetch", "fetched"}
           => readFiles[call'[k].ctx][call'[k].file] # Unread
  PROVE  CurrentInv'
<1>1. UNCHANGED <<files, raced, outdated>>
  BY DEF disk
<1>2. RecordsCurrent'
  BY <1>1 DEF CurrentInv, RecordsCurrent
<1>3. SeenCurrent'
  BY <1>1 DEF CurrentInv, SeenCurrent
<1>4. ComparesRecord'
  BY DEF CurrentInv, ComparesRecord
<1> QED  BY <1>2, <1>3, <1>4 DEF CurrentInv

\* What a call hands to its context is what the file is, unless it raced.
LEMMA KnownKeeps ==
  ASSUME Shape, Placed, CurrentInv, NEW k \in Calls,
         call[k].at \in {"fetched", "wrote"}, Record(k), Known(k), Ends(k)
  PROVE  CurrentInv'
<1> DEFINE f == call[k].file  r == call[k].ctx
<1>1. f \in Files /\ r \in Requests /\ call[k].seen \in Contents
  BY DEF Placed
<1>2. /\ readFiles'[r][f] = call[k].seen
      /\ \A q \in Requests, g \in Files :
           <<q, g>> # <<r, f>> => readFiles'[q][g] = readFiles[q][g]
  BY <1>1 DEF Record, Shape
<1>3. /\ UNCHANGED <<files, raced>>
      /\ outdated' = IF k \in raced THEN outdated \cup {<<r, f>>}
                     ELSE outdated \ {<<r, f>>}
  BY DEF Known
<1>4. call'[k].at = "end" /\ \A j \in Calls \ {k} : call'[j] = call[j]
  BY DEF Ends, Shape, CallRecords
<1>5. ASSUME NEW q \in Requests, NEW g \in Files, readFiles'[q][g] # Unread,
             <<q, g>> \notin outdated'
      PROVE  readFiles'[q][g] = files'[g]
  <2>1. CASE <<q, g>> = <<r, f>>
    <3>1. k \notin raced
      BY <1>3, <1>5, <2>1
    <3>2. call[k].seen = files[f]
      BY <3>1 DEF CurrentInv, SeenCurrent
    <3> QED  BY <1>2, <1>3, <2>1, <3>2
  <2>2. CASE <<q, g>> # <<r, f>>
    <3>1. <<q, g>> \notin outdated /\ readFiles'[q][g] = readFiles[q][g]
      BY <1>2, <1>3, <1>5, <2>2
    <3> QED  BY <1>3, <1>5, <3>1 DEF CurrentInv, RecordsCurrent
  <2> QED  BY <2>1, <2>2
<1>6. SeenCurrent'
  BY <1>3, <1>4 DEF CurrentInv, SeenCurrent
<1>7. ASSUME NEW j \in Calls, call'[j].tool = "write",
             call'[j].at \in {"fetch", "fetched"}
      PROVE  readFiles'[call'[j].ctx][call'[j].file] # Unread
  <2>1. /\ call'[j] = call[j]
        /\ call[j].ctx \in Requests /\ call[j].file \in Files
    BY <1>4, <1>7 DEF Placed
  <2>2. readFiles[call[j].ctx][call[j].file] # Unread
    BY <1>7, <2>1 DEF CurrentInv, ComparesRecord
  <2>3. call[k].seen # Unread
    BY <1>1, NamesAssumption
  <2> QED  BY <1>2, <2>1, <2>2, <2>3
<1> QED  BY <1>5, <1>6, <1>7 DEF CurrentInv, RecordsCurrent, ComparesRecord

\* Every step of a call.
LEMMA StepKeepsCurrent ==
  ASSUME Shape, Placed, CurrentInv, NEW k \in Calls, CallStep(k)
  PROVE  CurrentInv'
<1>1. \A j \in Calls \ {k} : call'[j] = call[j]
  BY StepMoves
<1>2. CASE ReadEnds(k) \/ WriteEnds(k)
  BY <1>2, KnownKeeps DEF ReadEnds, WriteEnds
<1>3. ASSUME Ends(k)
      PROVE  call'[k].at = "end"
  BY <1>3 DEF Ends, Shape, CallRecords
<1>4. ASSUME Ends(k), UNCHANGED readFiles, NEW c, Becomes(call[k].file, c, {}),
             call[k].at \in {"fetched", "put"}
      PROVE  CurrentInv'
  <2>1. call[k].file \in Files
    BY <1>4 DEF Placed
  <2>2. RecordsCurrent' /\ \A j \in Calls :
          call'[j] = call[j] /\ j \notin raced' /\ call[j].at \in {"fetched", "wrote"}
            => call'[j].seen = files'[call'[j].file]
    BY <1>4, <2>1, BecomesKeeps
  <2>3. SeenCurrent'
    BY <1>1, <1>3, <1>4, <2>2 DEF SeenCurrent
  <2>4. ComparesRecord'
    BY <1>1, <1>3, <1>4 DEF CurrentInv, ComparesRecord
  <2> QED  BY <2>2, <2>3, <2>4 DEF CurrentInv
<1>5. CASE WritePuts(k)
  <2>1. PICK c \in Contents :
          /\ Becomes(call[k].file, c, {k})
          /\ call' = [call EXCEPT ![k].at = "wrote", ![k].seen = c]
    BY <1>5 DEF WritePuts
  <2>2. call[k].file \in Files /\ UNCHANGED readFiles
    BY <1>5 DEF WritePuts, Placed, agent
  <2>3. /\ call'[k].at = "wrote" /\ call'[k].seen = c
        /\ call'[k].file = call[k].file
    BY <2>1 DEF Shape, CallRecords
  <2>4. RecordsCurrent' /\ \A j \in Calls \ {k} :
          call'[j] = call[j] /\ j \notin raced' /\ call[j].at \in {"fetched", "wrote"}
            => call'[j].seen = files'[call'[j].file]
    BY <2>1, <2>2, BecomesKeeps
  <2>5. files'[call[k].file] = c
    BY <2>1, <2>2 DEF Becomes, Shape
  <2>6. SeenCurrent'
    BY <1>1, <2>3, <2>4, <2>5 DEF SeenCurrent
  <2>7. ComparesRecord'
    BY <1>1, <2>2, <2>3 DEF CurrentInv, ComparesRecord
  <2> QED  BY <2>4, <2>6, <2>7 DEF CurrentInv
<1>6. CASE EditPuts(k)
  BY <1>4, <1>6 DEF EditPuts, agent
<1>7. CASE PutFails(k)
  <2>1. CASE UNCHANGED disk
    BY <1>1, <1>3, <1>7, <2>1, LookKeeps DEF PutFails, agent
  <2>2. CASE ~UNCHANGED disk
    BY <1>4, <1>7, <2>2 DEF PutFails, agent
  <2> QED  BY <2>1, <2>2
<1>8. CASE Fetch(k)
  <2>1. /\ call'[k].at = "fetched" /\ call'[k].seen = files[call[k].file]
        /\ call'[k].file = call[k].file /\ call'[k].ctx = call[k].ctx
        /\ call'[k].tool = call[k].tool /\ call[k].at = "fetch"
        /\ UNCHANGED <<readFiles, disk>>
    BY <1>8 DEF Fetch, agent, Shape, CallRecords
  <2>2. call[k].tool = "write" => readFiles[call[k].ctx][call[k].file] # Unread
    BY <2>1 DEF CurrentInv, ComparesRecord
  <2> QED  BY <1>1, <2>1, <2>2, LookKeeps
<1>9. CASE WriteStat(k)
  <2>1. /\ call'[k].at \notin {"fetched", "wrote"}
        /\ call'[k].at = "fetch" => readFiles[call'[k].ctx][call'[k].file] # Unread
        /\ UNCHANGED <<readFiles, disk>>
    <3>1. UNCHANGED <<readFiles, disk>>
      BY <1>9 DEF WriteStat, agent
    <3>2. CASE Goes(k, "put")
      BY <3>1, <3>2 DEF Goes, Shape, CallRecords
    <3>3. CASE Ends(k)
      BY <1>3, <3>1, <3>3
    <3>4. CASE readFiles[call[k].ctx][call[k].file] # Unread /\ Goes(k, "fetch")
      <4>1. /\ call'[k].at = "fetch" /\ call'[k].ctx = call[k].ctx
            /\ call'[k].file = call[k].file
        BY <3>4 DEF Goes, Shape, CallRecords
      <4> QED  BY <3>1, <3>4, <4>1
    <3> QED  BY <1>9, <3>2, <3>3, <3>4 DEF WriteStat
  <2> QED  BY <1>1, <2>1, LookKeeps
<1>10. CASE WriteCompare(k)
  <2>1. call'[k].at \in {"put", "end"} /\ UNCHANGED <<readFiles, disk>>
    BY <1>10 DEF WriteCompare, Goes, Ends, agent, Shape, CallRecords
  <2> QED  BY <1>1, <2>1, LookKeeps
<1>11. CASE GitEnds(k) \/ FetchFails(k) \/ ReadRefused(k) \/ EditRefused(k)
  <2>1. Ends(k) /\ UNCHANGED <<readFiles, disk>>
    BY <1>11 DEF GitEnds, FetchFails, ReadRefused, EditRefused, agent
  <2> QED  BY <1>1, <1>3, <2>1, LookKeeps
<1> QED
  BY <1>2, <1>5, <1>6, <1>7, <1>8, <1>9, <1>10, <1>11 DEF CallStep

\* Where nothing else changed a file, file_write does not take it for changed.
THEOREM RefusalsAreOutdated == Spec => RefusedIsOutdated
<1>1. Init => CurrentInv
  BY DEF Init, Idle, CurrentInv, RecordsCurrent, SeenCurrent, ComparesRecord
<1>2. Shape /\ Placed /\ CurrentInv /\ [Next]_vars => CurrentInv'
  <2> SUFFICES ASSUME Shape, Placed, CurrentInv, [Next]_vars PROVE CurrentInv'
    OBVIOUS
  <2>1. ASSUME UNCHANGED <<readFiles, disk, call>> PROVE CurrentInv'
    BY <2>1 DEF disk, CurrentInv, RecordsCurrent, SeenCurrent, ComparesRecord
  <2>2. ASSUME NEW r \in Requests, RequestStep(r) PROVE CurrentInv'
    BY <2>1, <2>2 DEF RequestStep, Handle, Answer, agent
  <2>3. ASSUME NEW k \in Calls, CallBegins(k) PROVE CurrentInv'
    <3>1. PICK r \in Requests, tool \in Tools, f \in Files \cup {NoFile},
               at \in {"stat", "fetch", "bash", "threw", "end"} :
            /\ Begin(k, r, tool, f, at)
            /\ tool = "write" => at = "stat"
            /\ UNCHANGED <<context, readFiles>>
      BY <2>3, BeginSets
    <3>2. /\ call'[k] = [req |-> r, tool |-> tool, file |-> f, ctx |-> context,
                         at |-> at, seen |-> Missing]
          /\ \A j \in Calls \ {k} : call'[j] = call[j]
          /\ UNCHANGED disk
      BY <3>1 DEF Begin, Shape
    <3>3. call'[k].at \notin {"fetched", "wrote"}
          /\ (call'[k].tool = "write" => call'[k].at = "stat")
      BY <3>1, <3>2
    <3> QED  BY <3>1, <3>2, <3>3, LookKeeps
  <2>4. ASSUME NEW k \in Calls, CallStep(k) PROVE CurrentInv'
    BY <2>4, StepKeepsCurrent
  <2>5. ASSUME NEW f \in Files, FileChanges(f) PROVE CurrentInv'
    <3>1. PICK c \in Contents \cup {Missing} : Becomes(f, c, {})
      BY <2>5 DEF FileChanges
    <3>2. UNCHANGED <<readFiles, call>>
      BY <2>5 DEF FileChanges, agent
    <3>3. RecordsCurrent' /\ \A j \in Calls :
            call'[j] = call[j] /\ j \notin raced' /\ call[j].at \in {"fetched", "wrote"}
              => call'[j].seen = files'[call'[j].file]
      BY <3>1, <3>2, BecomesKeeps
    <3>4. SeenCurrent'  BY <3>2, <3>3 DEF SeenCurrent
    <3>5. ComparesRecord'  BY <3>2 DEF CurrentInv, ComparesRecord
    <3> QED  BY <3>3, <3>4, <3>5 DEF CurrentInv
  <2>6. CASE UNCHANGED vars  BY <2>1, <2>6 DEF vars, agent
  <2> QED  BY <2>2, <2>3, <2>4, <2>5, <2>6 DEF Next
<1> DEFINE Refusals ==
      \A k \in Calls :
        LET c == call[k] IN
        c.tool = "write" /\ c.at = "fetched" /\ call'[k].at = "end"
        => <<c.ctx, c.file>> \in outdated \/ k \in raced
<1>3. Shape /\ Placed /\ CurrentInv /\ [Next]_vars => [Refusals]_vars
  <2> SUFFICES ASSUME Shape, Placed, CurrentInv, Next,
                      NEW k \in Calls,
                      call[k].tool = "write", call[k].at = "fetched",
                      call'[k].at = "end"
               PROVE  <<call[k].ctx, call[k].file>> \in outdated \/ k \in raced
    BY DEF Refusals
  <2>1. ASSUME NEW r \in Requests, RequestStep(r) PROVE FALSE
    BY <2>1 DEF RequestStep, Handle, Answer
  <2>2. ASSUME NEW f \in Files, FileChanges(f) PROVE FALSE
    BY <2>2 DEF FileChanges
  <2>3. ASSUME NEW j \in Calls, CallBegins(j) PROVE FALSE
    <3>1. PICK r \in Requests, tool \in Tools, f \in Files \cup {NoFile},
               at \in {"stat", "fetch", "bash", "threw", "end"} :
            Begin(j, r, tool, f, at)
      BY <2>3, BeginSets
    <3> QED  BY <3>1 DEF Begin, Idle, Shape
  <2>4. ASSUME NEW j \in Calls, CallStep(j), j # k PROVE FALSE
    BY <2>4, StepMoves
  <2>5. ASSUME CallStep(k)
        PROVE  <<call[k].ctx, call[k].file>> \in outdated \/ k \in raced
    <3>1. call[k].seen # readFiles[call[k].ctx][call[k].file]
      BY <2>5 DEF CallStep, GitEnds, Fetch, FetchFails, ReadEnds, ReadRefused,
         WriteStat, WriteCompare, WritePuts, WriteEnds, EditPuts, EditRefused,
         PutFails, Goes, Shape, CallRecords
    <3>2. call[k].ctx \in Requests /\ call[k].file \in Files
      BY DEF Placed
    <3> QED
      BY <3>1, <3>2 DEF CurrentInv, RecordsCurrent, SeenCurrent, ComparesRecord
  <2> QED  BY <2>1, <2>2, <2>3, <2>4, <2>5 DEF Next
<1>4. Spec => [](Shape /\ Placed)
  BY ShapeHolds
<1>5. Refusals <=> \A k \in Calls :
        LET c == call[k] IN
        c.tool = "write" /\ c.at = "fetched" /\ call'[k].at = "end"
        => <<c.ctx, c.file>> \in outdated \/ k \in raced
  BY DEF Refusals
<1> HIDE DEF Refusals
<1> QED  BY <1>1, <1>2, <1>3, <1>4, <1>5, PTL DEF Spec, RefusedIsOutdated

----------------------------------------------------------------------------
(* FileTexts.  Its recursive functions are what satisfies their equation;   *)
(* instead of an induction, the proofs look at the first, or the last,     *)
(* position where the claim would fail.                                    *)

\* What stands for induction below: a set of numbers has a first member, and,
\* when it is bounded, a last one.
LEMMA FirstOf ==
  ASSUME NEW B, B \subseteq Nat, B # {}
  PROVE  \E m \in B : \A k \in B : m <= k
<1> DEFINE Less == {p \in Nat \X Nat : p[1] < p[2]}
<1>1. IsWellFoundedOn(Less, Nat)
  BY NatLessThanWellFounded DEF OpToRel
<1> HIDE DEF Less
<1>2. PICK x \in B : \A y \in B : <<y, x>> \notin Less
  BY <1>1, WFMin
<1>3. ASSUME NEW y \in B PROVE x <= y
  <2>1. x \in Nat /\ y \in Nat
    OBVIOUS
  <2>2. y < x => <<y, x>> \in Less
    BY <2>1 DEF Less
  <2> QED BY <1>2, <2>1, <2>2
<1> QED BY <1>3

\* A set of numbers that is bounded has a last one.
LEMMA LastOf ==
  ASSUME NEW n \in Int, NEW B, \A k \in B : k \in Nat /\ k <= n, B # {}
  PROVE  \E m \in B : \A k \in B : k <= m
<1> DEFINE Below == {n - k : k \in B}
<1>1. Below \subseteq Nat /\ Below # {}
  OBVIOUS
<1>2. PICK x \in Below : \A y \in Below : x <= y
  BY <1>1, FirstOf
<1>3. PICK m \in B : x = n - m
  OBVIOUS
<1>4. ASSUME NEW k \in B PROVE k <= m
  <2>1. x <= n - k /\ k \in Nat /\ m \in Nat
    BY <1>2
  <2> QED BY <1>3, <2>1
<1> QED BY <1>4

----------------------------------------------------------------------------
(* Pages.                                                                  *)

\* The lines of a file, or the results of a search, are a sequence.
LEMMA ItemsAre ==
  ASSUME NEW n \in Nat
  PROVE  Items(n) \in Seq(Nat) /\ Len(Items(n)) = n
BY DEF Items

\* A page and what is behind it are what is from its start on.
LEMMA PageOf ==
  ASSUME NEW S, NEW s \in Seq(S), NEW a \in Nat, NEW c \in Nat
  PROVE  /\ From(s, a + 1) = Slice(s, a, c) \o From(s, a + c + 1)
         /\ a + c >= Len(s) => Slice(s, a, c) = From(s, a + 1)
         /\ a >= Len(s) => From(s, a + 1) = <<>>
         /\ a < Len(s) /\ c > 0 => Slice(s, a, c) # <<>>
         /\ Slice(s, a, c) \in Seq(S)
<1>1. a >= Len(s) => From(s, a + 1) = <<>>
  BY SubSeqEmpty DEF From
<1>2. a + c >= Len(s) => Slice(s, a, c) = From(s, a + 1)
  BY DEF From, Slice
<1>3. a + c >= Len(s) => From(s, a + c + 1) = <<>>
  BY SubSeqEmpty DEF From
<1>4. From(s, a + 1) \in Seq(S)
  BY DEF From
<1>5. CASE a + c >= Len(s)
  <2>1. a + c >= Len(s) /\ a < Len(s) /\ c > 0 => Len(From(s, a + 1)) > 0
    BY DEF From
  <2> QED BY <1>1, <1>2, <1>3, <1>4, <1>5, <2>1, ConcatProperties
<1>6. CASE a + c < Len(s)
  <2>1. Slice(s, a, c) = SubSeq(s, a + 1, a + c)
    BY <1>6 DEF Slice
  <2>2. a + 1 \in 1 .. Len(s) + 1 /\ a + c \in (a + 1) - 1 .. Len(s) /\ Len(s) \in a + c .. Len(s)
    BY <1>6
  <2>3. SubSeq(s, a + 1, a + c) \o SubSeq(s, a + c + 1, Len(s)) = SubSeq(s, a + 1, Len(s))
    BY <2>2, ConcatAdjacentSubSeq
  <2>4. c > 0 => Len(Slice(s, a, c)) > 0
    BY <1>6, <2>1
  <2>5. SubSeq(s, a + 1, a + c) \in Seq(S)
    BY <1>6
  <2>6. From(s, a + 1) = Slice(s, a, c) \o From(s, a + c + 1)
    BY <2>1, <2>3 DEF From
  <2>7. c > 0 => Slice(s, a, c) # <<>>
    BY <2>4
  <2>8. ~(a + c >= Len(s)) /\ ~(a >= Len(s))
    BY <1>6
  <2> QED BY <2>1, <2>5, <2>6, <2>7, <2>8
<1> QED BY <1>5, <1>6

\* The pages of file_read, put together, are the lines from the offset on: that
\* is what the recursion of ReadOn is satisfied by, and a last offset where it
\* had another value would have its page's end for a later one.
LEMMA ReadOnCovers ==
  ASSUME NEW n \in Nat, NEW limit \in Nat, NEW offset \in Nat
  PROVE  ReadOn(n, limit)[offset] = From(Items(n), IF offset = 0 THEN 1 ELSE offset)
<1> DEFINE first(o) == IF o = 0 THEN 1 ELSE o
           step == IF limit = 0 THEN DefaultLimit ELSE limit
           page(o) == runRead(n, o, limit)
           rest == [o \in Nat |-> From(Items(n), first(o))]
           pages == ReadOn(n, limit)
<1>1. step \in Nat \ {0}
  BY PagesAssumption
<1>2. ASSUME NEW o \in Nat
      PROVE  /\ page(o).items \in Seq(Nat)
             /\ page(o).truncated => first(o) + step \in Nat /\ o < first(o) + step
                                    /\ first(o) + step <= n
             /\ rest[o] = page(o).items \o
                  (IF page(o).truncated THEN rest[first(o) + step] ELSE <<>>)
  <2> DEFINE a == first(o) - 1
  <2>1. a \in Nat /\ first(o) = a + 1 /\ o <= a + 1
    OBVIOUS
  <2>2. page(o) = [items |-> Slice(Items(n), a, step), truncated |-> n > a + step]
    BY DEF runRead
  <2>3. Items(n) \in Seq(Nat) /\ Len(Items(n)) = n
    BY ItemsAre
  <2> HIDE DEF a, step, first
  <2>4. /\ From(Items(n), a + 1) = Slice(Items(n), a, step) \o From(Items(n), a + step + 1)
        /\ a + step >= n => Slice(Items(n), a, step) = From(Items(n), a + 1)
        /\ Slice(Items(n), a, step) \in Seq(Nat)
    BY <1>1, <2>1, <2>3, PageOf
  <2>5. Slice(Items(n), a, step) \o <<>> = Slice(Items(n), a, step)
    BY <2>4, ConcatEmptySeq
  <2>6. a + step + 1 \in Nat /\ a + step + 1 # 0 /\ a + step + 1 = first(o) + step
    BY <1>1, <2>1
  <2>7. first(first(o) + step) = a + step + 1
    BY <2>6 DEF first
  <2>8. rest[first(o) + step] = From(Items(n), a + step + 1)
    BY <2>6, <2>7
  <2>9. rest[o] = From(Items(n), a + 1)
    BY <2>1
  <2> HIDE DEF page, rest
  <2>10. page(o).items = Slice(Items(n), a, step) /\ page(o).truncated = (n > a + step)
    BY <2>2
  <2>11. page(o).truncated => first(o) + step \in Nat /\ o < first(o) + step
                            /\ first(o) + step <= n
    <3>1. n > a + step => first(o) + step \in Nat /\ o < first(o) + step
                        /\ first(o) + step <= n
      BY <1>1, <2>1
    <3> QED BY <2>10, <3>1
  <2> DEFINE Joins == rest[o] = page(o).items \o
                 (IF page(o).truncated THEN rest[first(o) + step] ELSE <<>>)
  <2>12. ASSUME n > a + step PROVE Joins
    BY <2>4, <2>8, <2>9, <2>10, <2>12
  <2>13. ASSUME ~(n > a + step) PROVE Joins
    <3>1. a + step >= n
      BY <1>1, <2>1, <2>13
    <3> QED BY <2>4, <2>5, <2>9, <2>10, <2>13, <3>1
  <2> QED BY <2>4, <2>10, <2>11, <2>12, <2>13
<1> DEFINE Continues(p) == p = [o \in Nat |-> page(o).items \o
                         (IF page(o).truncated THEN p[first(o) + step] ELSE <<>>)]
<1>3. pages = CHOOSE p : Continues(p)
  BY DEF ReadOn
<1> HIDE DEF first, step, page, pages
<1>4. Continues(rest)
  BY <1>2
<1>5. Continues(pages)
  <2> HIDE DEF Continues
  <2> QED BY <1>3, <1>4, Zenon
<1> DEFINE Wrong == {o \in Nat : pages[o] # rest[o]}
<1> HIDE DEF rest, Continues
<1>6. ASSUME NEW o \in Wrong
      PROVE  o <= n /\ \E q \in Wrong : o < q
  <2>1. page(o).truncated /\ pages[first(o) + step] # rest[first(o) + step]
    BY <1>2, <1>5 DEF Continues
  <2>2. first(o) + step \in Wrong /\ o < first(o) + step /\ first(o) + step <= n
    BY <1>2, <2>1
  <2>3. o \in Nat /\ first(o) + step \in Nat
    BY <2>2
  <2>4. o <= n
    BY <2>2, <2>3
  <2> QED BY <2>2, <2>4
<1>7. Wrong = {}
  <2>1. SUFFICES ASSUME Wrong # {} PROVE FALSE
    OBVIOUS
  <2>2. \A o \in Wrong : o \in Nat /\ o <= n
    BY <1>6
  <2> HIDE DEF Wrong
  <2>3. PICK o \in Wrong : \A q \in Wrong : q <= o
    BY <2>1, <2>2, LastOf
  <2>4. \A p \in Wrong : \E q \in Wrong : p < q
    BY <1>6
  <2> QED BY <2>3, <2>2, <2>4
<1>8. pages[offset] = rest[offset]
  BY <1>7
<1> QED BY <1>8 DEF rest, pages, first

\* apply_pagination cuts what slice(offset, offset + head_limit) cuts.
LEMMA PaginationIsSlice ==
  ASSUME NEW S, NEW s \in Seq(S), NEW offset \in Nat, NEW limit \in Nat \ {0}
  PROVE  apply_pagination(s, offset, limit) = Slice(s, offset, limit)
<1> DEFINE tail == IF offset > 0 THEN From(s, offset + 1) ELSE s
<1>1. tail = From(s, offset + 1)
  BY SubSeqFull DEF From
<1>2. apply_pagination(s, offset, limit) = Slice(From(s, offset + 1), 0, limit)
  BY <1>1 DEF apply_pagination
<1>3. CASE offset >= Len(s)
  <2>1. From(s, offset + 1) = <<>>
    BY <1>3, PageOf
  <2>2. Slice(<<>>, 0, limit) = <<>>
    BY SubSeqEmpty DEF Slice
  <2>3. Slice(s, offset, limit) = <<>>
    BY <1>3, SubSeqEmpty DEF Slice
  <2> QED BY <1>2, <2>1, <2>2, <2>3
<1>4. CASE offset < Len(s)
  <2>1. /\ From(s, offset + 1) \in Seq(S)
        /\ Len(From(s, offset + 1)) = Len(s) - offset
        /\ \A i \in 1 .. Len(s) - offset : From(s, offset + 1)[i] = s[offset + i]
    <3>1. \A i \in offset + 1 .. Len(s) : s[i] \in S
      BY ElementOfSeq
    <3>2. offset + 1 \in Int /\ Len(s) \in Int
      OBVIOUS
    <3> QED BY <1>4, <3>1, <3>2, SubSeqProperties DEF From
  <2> DEFINE f == From(s, offset + 1)
             last == IF limit < Len(s) - offset THEN limit ELSE Len(s) - offset
  <2> HIDE DEF f
  <2>2. last \in 1 .. Len(s) - offset
    BY <1>4
  <2>3. Slice(f, 0, limit) = SubSeq(f, 1, last)
    BY <2>1, <1>4 DEF Slice, f
  <2>4. Slice(s, offset, limit) = SubSeq(s, offset + 1, offset + last)
    BY <1>4 DEF Slice
  <2> HIDE DEF last
  <2>5. SubSeq(f, 1, last) = SubSeq(s, offset + 1, offset + last)
    <3>1. /\ SubSeq(f, 1, last) \in Seq(S) /\ Len(SubSeq(f, 1, last)) = last
          /\ \A i \in 1 .. last : SubSeq(f, 1, last)[i] = f[i]
      BY <2>1, <2>2 DEF f
    <3>2. /\ SubSeq(s, offset + 1, offset + last) \in Seq(S)
          /\ Len(SubSeq(s, offset + 1, offset + last)) = last
          /\ \A i \in 1 .. last : SubSeq(s, offset + 1, offset + last)[i] = s[offset + i]
      BY <1>4, <2>2
    <3>3. \A i \in 1 .. last : f[i] = s[offset + i]
      BY <2>1, <2>2 DEF f
    <3> QED BY <3>1, <3>2, <3>3, SeqEqual
  <2> QED BY <1>2, <2>3, <2>4, <2>5 DEF f
<1> QED BY <1>3, <1>4

\* The pages of a search, put together, are the results it has seen from the
\* offset on, and it says so when there are others.
LEMMA SearchOnCovers ==
  ASSUME NEW n \in Nat, NEW limit \in Nat \ {0}, NEW offset \in Nat
  PROVE  LET seen == Slice(Items(n), 0, MaxResults) IN
         /\ SearchOn(n, limit)[offset] = From(seen, offset + 1)
         /\ runGrep(n, offset, limit).truncated = (seen # Items(n))
<1> DEFINE seen == Slice(Items(n), 0, MaxResults)
           page(o) == runGrep(n, o, limit).items
           rest == [o \in Nat |-> From(seen, o + 1)]
           pages == SearchOn(n, limit)
<1>1. Items(n) \in Seq(Nat) /\ Len(Items(n)) = n
  BY ItemsAre
<1>2. /\ seen \in Seq(Nat)
      /\ Len(seen) = IF n > MaxResults THEN MaxResults ELSE n
      /\ n <= MaxResults => seen = Items(n)
  BY <1>1, PagesAssumption DEF Slice
<1>3. (n > MaxResults) = (seen # Items(n))
  BY <1>1, <1>2, PagesAssumption
<1> HIDE DEF seen
<1>4. ASSUME NEW o \in Nat
      PROVE  /\ page(o) # <<>> => o <= Len(seen)
             /\ rest[o] = IF page(o) = <<>> THEN <<>> ELSE page(o) \o rest[o + limit]
  <2>1. page(o) = Slice(seen, o, limit)
    BY <1>2, PaginationIsSlice DEF runGrep, seen
  <2>2. /\ From(seen, o + 1) = Slice(seen, o, limit) \o From(seen, o + limit + 1)
        /\ o >= Len(seen) => From(seen, o + 1) = <<>>
        /\ o < Len(seen) => Slice(seen, o, limit) # <<>>
    BY <1>2, PageOf
  <2>3. o >= Len(seen) => Slice(seen, o, limit) = <<>>
    BY <1>2, SubSeqEmpty DEF Slice
  <2>4. rest[o] = From(seen, o + 1) /\ rest[o + limit] = From(seen, o + limit + 1)
    OBVIOUS
  <2>5. o >= Len(seen) \/ o < Len(seen)
    BY <1>2
  <2>6. o < Len(seen) => o <= Len(seen)
    BY <1>2
  <2> HIDE DEF rest, page
  <2> QED BY <2>1, <2>2, <2>4, <2>3, <2>5, <2>6
<1> DEFINE Searches(p) == p = [o \in Nat |-> IF page(o) = <<>> THEN <<>>
                                              ELSE page(o) \o p[o + limit]]
<1>5. pages = CHOOSE p : Searches(p)
  BY DEF SearchOn
<1> HIDE DEF page, pages
<1>6. Searches(rest)
  BY <1>4
<1>7. Searches(pages)
  <2> HIDE DEF Searches
  <2> QED BY <1>5, <1>6, Zenon
<1> DEFINE Wrong == {o \in Nat : pages[o] # rest[o]}
<1> HIDE DEF rest, Searches
<1>8. ASSUME NEW o \in Wrong
      PROVE  o \in Nat /\ o <= Len(seen) /\ \E q \in Wrong : o < q
  <2>1. page(o) # <<>> /\ pages[o + limit] # rest[o + limit]
    BY <1>4, <1>7 DEF Searches
  <2>2. o \in Nat /\ o + limit \in Wrong /\ o < o + limit
    BY <2>1
  <2>3. o <= Len(seen)
    BY <1>4, <2>1, <2>2
  <2> QED BY <2>2, <2>3
<1>9. Wrong = {}
  <2>1. \A o \in Wrong : o \in Nat /\ o <= Len(seen)
    BY <1>8
  <2>2. Len(seen) \in Int
    BY <1>2
  <2>3. \A o \in Wrong : \E q \in Wrong : o < q
    BY <1>8
  <2> HIDE DEF Wrong
  <2>4. SUFFICES ASSUME Wrong # {} PROVE FALSE
    OBVIOUS
  <2>5. PICK o \in Wrong : \A q \in Wrong : q <= o
    BY <2>1, <2>2, <2>4, LastOf
  <2> QED BY <2>1, <2>3, <2>5
<1>10. pages[offset] = From(seen, offset + 1)
  BY <1>9 DEF rest
<1>11. runGrep(n, offset, limit).truncated = (n > MaxResults)
  BY DEF runGrep
<1> QED BY <1>3, <1>10, <1>11 DEF pages, seen

\* PagesCover, for any number of lines or results, any page and any limits: who
\* reads on behind truncated pages of file_read gets all lines, none twice, and
\* the pages of a search cover the results up to the cap.
THEOREM PagesAreComplete == TextsSpec => []PagesCover
<1> DEFINE Inv == in \in TextCalls /\ PagesCover
<1>1. TextsInit => Inv
  BY DEF TextsInit, PagesCover, Called
<1>2. Inv /\ [TextsNext]_textVars => Inv'
  <2> SUFFICES ASSUME Inv, [TextsNext]_textVars PROVE Inv'
    OBVIOUS
  <2>1. in' = in
    BY DEF TextsNext, textVars
  <2>2. ASSUME in.tool = "read"
        PROVE  ReadOn(in.n, in.limit)[in.offset]
                 = From(Items(in.n), IF in.offset = 0 THEN 1 ELSE in.offset)
    <3>1. in.n \in Nat /\ in.limit \in Nat /\ in.offset \in Nat
      BY <2>2, PagesAssumption DEF TextCalls
    <3> QED BY <3>1, ReadOnCovers
  <2>3. ASSUME in.tool = "grep", in.limit > 0
        PROVE  LET seen == Slice(Items(in.n), 0, MaxResults) IN
               /\ SearchOn(in.n, in.limit)[in.offset] = From(seen, in.offset + 1)
               /\ runGrep(in.n, in.offset, in.limit).truncated = (seen # Items(in.n))
    <3>1. in.n \in Nat /\ in.limit \in Nat \ {0} /\ in.offset \in Nat
      BY <2>3, PagesAssumption DEF TextCalls
    <3> QED BY <3>1, SearchOnCovers
  <2>4. out' = out \/ (in.tool = "grep" => out' = runGrep(in.n, in.offset, in.limit))
    BY DEF TextsNext, textVars, Edits, Extracts, Reads, Greps
  <2> QED BY <2>1, <2>2, <2>3, <2>4 DEF PagesCover, Called
<1>3. Inv => PagesCover
  OBVIOUS
<1> QED BY <1>1, <1>2, <1>3, PTL DEF TextsSpec

----------------------------------------------------------------------------
(* Texts: where indexOf finds, and what the loops from place to place make. *)

\* Where a text occurs in another.
At(t, s) == {i \in 1 .. Len(t) + 1 - Len(s) : \A k \in 1 .. Len(s) : t[i + k - 1] = s[k]}

\* The first place from a position on.
IsFirst(i, P, pos) == i \in P /\ i >= pos /\ \A j \in P : j >= pos => i <= j

\* What Occurs compares with SubSeq, character by character.
LEMMA OccursIsAt ==
  ASSUME NEW S, NEW t \in Seq(S), NEW s \in Seq(S), s # <<>>, NEW i \in 1 .. Len(t)
  PROVE  Occurs(t, s, i) <=> i \in At(t, s)
<1>1. Len(s) \in Nat \ {0}
  BY EmptySeq
<1>2. CASE i + Len(s) - 1 <= Len(t)
  <2>1. /\ SubSeq(t, i, i + Len(s) - 1) \in Seq(S)
        /\ Len(SubSeq(t, i, i + Len(s) - 1)) = Len(s)
        /\ \A k \in 1 .. Len(s) : SubSeq(t, i, i + Len(s) - 1)[k] = t[i + k - 1]
    BY <1>1, <1>2
  <2>2. SubSeq(t, i, i + Len(s) - 1) = s <=> \A k \in 1 .. Len(s) : t[i + k - 1] = s[k]
    BY <2>1, SeqEqual
  <2>3. i \in 1 .. Len(t) + 1 - Len(s)
    BY <1>1, <1>2
  <2> QED BY <1>2, <2>2, <2>3 DEF Occurs, At
<1>3. CASE ~(i + Len(s) - 1 <= Len(t))
  BY <1>1, <1>3 DEF Occurs, At
<1> QED BY <1>2, <1>3

\* indexOf: the first place from a position on, or none.
LEMMA IndexOfFinds ==
  ASSUME NEW S, NEW t \in Seq(S), NEW s \in Seq(S), s # <<>>, NEW pos \in Nat \ {0}
  PROVE  \/ IndexOf(t, s, pos) = 0 /\ \A j \in At(t, s) : j < pos
         \/ IndexOf(t, s, pos) # 0 /\ IsFirst(IndexOf(t, s, pos), At(t, s), pos)
<1> DEFINE found == {i \in pos .. Len(t) : [j \in 1 .. Len(t) |-> Occurs(t, s, j)][i]}
<1>1. IndexOf(t, s, pos) = IF found # {} THEN Min(found) ELSE 0
  BY DEF IndexOf, SelectInSubSeq
<1>2. Len(s) \in Nat \ {0}
  BY EmptySeq
<1>3. \A i \in At(t, s) : i \in 1 .. Len(t)
  BY <1>2 DEF At
<1>4. found = {i \in At(t, s) : i >= pos}
  <2>1. ASSUME NEW i \in pos .. Len(t)
        PROVE  [j \in 1 .. Len(t) |-> Occurs(t, s, j)][i] <=> i \in At(t, s)
    BY OccursIsAt
  <2> DEFINE occurs(i) == [j \in 1 .. Len(t) |-> Occurs(t, s, j)][i]
  <2>2. found = {i \in pos .. Len(t) : occurs(i)}
    OBVIOUS
  <2> HIDE DEF occurs, found
  <2>3. \A i \in found : i \in At(t, s) /\ i >= pos
    <3>1. ASSUME NEW i \in found PROVE i \in pos .. Len(t) /\ i >= pos /\ occurs(i)
      BY <2>2
    <3> QED BY <2>1, <3>1 DEF occurs
  <2>4. \A i \in At(t, s) : i >= pos => i \in found
    <3>1. \A i \in At(t, s) : i >= pos => i \in pos .. Len(t)
      BY <1>3
    <3> QED BY <2>1, <2>2, <3>1 DEF occurs
  <2> QED BY <2>3, <2>4
<1>5. CASE found = {}
  <2>1. \A i \in At(t, s) : ~(i >= pos)
    BY <1>4, <1>5
  <2>2. \A i \in At(t, s) : i < pos
    BY <1>3, <2>1
  <2> HIDE DEF found
  <2> QED BY <1>1, <1>5, <2>2
<1>6. CASE found # {}
  <2>1. found \subseteq Nat
    OBVIOUS
  <2> HIDE DEF found
  <2>2. \E i \in found : \A j \in found : i <= j
    BY <1>6, <2>1, FirstOf
  <2>3. Min(found) \in found /\ \A j \in found : Min(found) <= j
    BY <2>2 DEF Min
  <2> QED BY <1>1, <1>3, <1>4, <1>6, <2>3 DEF IsFirst
<1> QED BY <1>5, <1>6

\* A recursion along a rank that falls has a solution: the functions that are
\* right up to a rank are extended to the next.  (The provers instantiate a
\* lemma on functions only when its conclusion is the name of a predicate.)
Solves(f, D, ends, base, nxt, op) ==
  \A p \in D : f[p] = IF p \in ends THEN base[p] ELSE op[p][f[nxt[p]]]

\* A recursion along a rank has a solution: of the ranks up to which there is none,
\* take the least.
LEMMA Recursion ==
  ASSUME NEW D, NEW V, NEW N \in Nat, NEW rank \in [D -> 0 .. N],
         NEW ends \in SUBSET D, NEW base \in [D -> V],
         NEW nxt \in [D \ ends -> D], \A p \in D \ ends : rank[nxt[p]] < rank[p],
         NEW op \in [D -> [V -> V]]
  PROVE  \E f \in [D -> V] : Solves(f, D, ends, base, nxt, op)
<1> DEFINE Holds(f, p) == f[p] = IF p \in ends THEN base[p] ELSE op[p][f[nxt[p]]]
           Up(f, k) == \A p \in D : rank[p] < k => Holds(f, p)
           Unsolved == {k \in 0 .. N + 1 : ~ \E f \in [D -> V] : Up(f, k)}
<1>1. Unsolved = {}
  <2>1. SUFFICES ASSUME Unsolved # {} PROVE FALSE
    OBVIOUS
  <2>2. PICK k \in Unsolved : \A j \in Unsolved : k <= j
    <3>1. Unsolved \subseteq Nat
      OBVIOUS
    <3> HIDE DEF Unsolved
    <3> QED BY <2>1, <3>1, FirstOf
  <2>3. k # 0
    <3>1. Up(base, 0)
      OBVIOUS
    <3> QED BY <3>1
  <2>4. k - 1 \in 0 .. N + 1 /\ k - 1 \notin Unsolved
    <3>1. k \in 0 .. N + 1 /\ k - 1 \in 0 .. N + 1
      BY <2>3
    <3>2. k - 1 \notin Unsolved
      <4> HIDE DEF Unsolved
      <4> QED BY <2>2, <3>1
    <3> QED BY <3>1, <3>2
  <2>5. PICK f \in [D -> V] : Up(f, k - 1)
    BY <2>4
  <2> DEFINE value(p) == IF p \in ends THEN base[p] ELSE op[p][f[nxt[p]]]
             g == [p \in D |-> IF rank[p] < k - 1 THEN f[p] ELSE value(p)]
  <2>6. \A p \in D : value(p) \in V
    OBVIOUS
  <2>7. g \in [D -> V]
    BY <2>6
  <2>8. ASSUME NEW p \in D, rank[p] < k PROVE Holds(g, p)
    <3>1. g[p] = value(p)
      BY <2>5
    <3>2. p \notin ends => g[nxt[p]] = f[nxt[p]]
      BY <2>8
    <3> QED BY <3>1, <3>2
  <2>9. Up(g, k)
    BY <2>8
  <2> QED BY <2>7, <2>9
<1>2. PICK f \in [D -> V] : Up(f, N + 1)
  <2>1. N + 1 \in 0 .. N + 1
    OBVIOUS
  <2>2. N + 1 \notin Unsolved
    <3> HIDE DEF Unsolved
    <3> QED BY <1>1
  <2> QED BY <2>1, <2>2
<1>3. \A p \in D : Holds(f, p)
  BY <1>2
<1> QED BY <1>3 DEF Solves

\* The choice of the places that are replaced, as in Replaced.
Greedy(R, P, m) ==
  /\ R \subseteq P
  /\ \A i, j \in R : (i < j + m /\ j < i + m) => i = j
  /\ \A i \in P \ R : \E j \in R : j < i /\ i < j + m /\ j < i + m

\* No place that is replaced reaches over a position.
Boundary(R, m, pos) == \A j \in R : j < pos => j + m <= pos

\* From left to right, place by place, a choice can always be made.
LEMMA GreedyExists ==
  ASSUME NEW L \in Nat, NEW P \in SUBSET (1 .. L), NEW m \in Nat \ {0}
  PROVE  \E R \in SUBSET P : Greedy(R, P, m)
<1> DEFINE Upto(k) == {i \in P : i <= k}
           Without == {k \in 0 .. L : ~ \E R \in SUBSET Upto(k) : Greedy(R, Upto(k), m)}
<1>1. \A i \in P : i \in Nat /\ 1 <= i /\ i <= L
  OBVIOUS
<1>2. Without = {}
  <2>1. SUFFICES ASSUME Without # {} PROVE FALSE
    OBVIOUS
  <2>2. PICK k \in Without : \A j \in Without : k <= j
    <3>1. Without \subseteq Nat
      OBVIOUS
    <3> HIDE DEF Without
    <3> QED BY <2>1, <3>1, FirstOf
  <2>3. k # 0
    <3>1. Upto(0) = {}
      <4>1. \A i \in P : ~(i <= 0)
        BY <1>1
      <4> QED BY <4>1
    <3>2. Greedy({}, Upto(0), m)
      BY <3>1 DEF Greedy
    <3> QED BY <3>2
  <2>4. k - 1 \in 0 .. L /\ k - 1 \notin Without
    <3>1. k \in 0 .. L /\ k - 1 \in 0 .. L
      BY <2>3
    <3>2. k - 1 \notin Without
      <4> HIDE DEF Without
      <4> QED BY <2>2, <3>1
    <3> QED BY <3>1, <3>2
  <2>5. PICK R \in SUBSET Upto(k - 1) : Greedy(R, Upto(k - 1), m)
    BY <2>4
  <2>6. Upto(k) = Upto(k - 1) \cup ({k} \cap P)
    <3>1. k \in Nat
      OBVIOUS
    <3>2. \A i \in P : i <= k <=> i <= k - 1 \/ i = k
      BY <1>1, <3>1
    <3> QED BY <3>2
  <2>7. CASE k \notin P
    <3>1. Upto(k) = Upto(k - 1)
      BY <2>6, <2>7
    <3> QED BY <2>5, <3>1
  <2>8. CASE k \in P /\ \E j \in R : k < j + m
    <3>1. R \in SUBSET Upto(k) /\ \A j \in R : j \in Nat /\ j < k
      BY <2>5, <2>6
    <3>2. Greedy(R, Upto(k), m)
      BY <2>5, <2>6, <2>8, <3>1 DEF Greedy
    <3> QED BY <3>1, <3>2
  <2>9. CASE k \in P /\ ~ \E j \in R : k < j + m
    <3>1. R \cup {k} \in SUBSET Upto(k) /\ \A j \in R : j \in Nat /\ j < k
      BY <2>5, <2>6, <2>9
    <3>2. Greedy(R \cup {k}, Upto(k), m)
      BY <2>5, <2>6, <2>9, <3>1 DEF Greedy
    <3> QED BY <3>1, <3>2
  <2> QED BY <2>7, <2>8, <2>9
<1>3. Upto(L) = P
  BY <1>1
<1>4. L \in 0 .. L /\ L \notin Without
  BY <1>2
<1> QED BY <1>3, <1>4

\* The first place from a boundary on is replaced, and ends at a boundary.
LEMMA FirstIsReplaced ==
  ASSUME NEW L \in Nat, NEW P \in SUBSET (1 .. L), NEW m \in Nat \ {0},
         NEW R, Greedy(R, P, m), NEW pos \in Nat, Boundary(R, m, pos),
         NEW i, IsFirst(i, P, pos)
  PROVE  /\ i \in R
         /\ Boundary(R, m, i + m)
         /\ \A j \in R : j >= pos <=> j = i \/ j >= i + m
<1>1. i \in P /\ i >= pos /\ \A j \in P : j >= pos => i <= j
  BY DEF IsFirst
<1>2. R \subseteq P /\ P \subseteq Nat /\ i \in Nat
  BY <1>1 DEF Greedy
<1>3. i \in R
  <2>1. SUFFICES ASSUME i \notin R PROVE FALSE
    OBVIOUS
  <2>2. PICK j \in R : j < i /\ i < j + m
    BY <1>1, <2>1 DEF Greedy
  <2>3. j \in Nat /\ j \in P
    BY <1>2
  <2>4. j < pos
    BY <1>1, <1>2, <2>2, <2>3
  <2>5. j + m <= pos
    BY <2>4 DEF Boundary
  <2> QED BY <1>1, <1>2, <2>2, <2>3, <2>5
<1>4. ASSUME NEW j \in R, j < i + m, j # i PROVE j + m <= i
  <2>1. j \in Nat
    BY <1>2
  <2>2. ~(i < j + m /\ j < i + m)
    BY <1>3, <1>4 DEF Greedy
  <2> QED BY <1>2, <1>4, <2>1, <2>2
<1>5. Boundary(R, m, i + m)
  <2> SUFFICES ASSUME NEW j \in R, j < i + m PROVE j + m <= i + m
    BY DEF Boundary
  <2>1. j \in Nat
    BY <1>2
  <2> QED BY <1>2, <1>4, <2>1
<1>6. ASSUME NEW j \in R PROVE j >= pos <=> j = i \/ j >= i + m
  <2>1. j \in Nat /\ j \in P
    BY <1>2
  <2> QED BY <1>1, <1>2, <1>4, <2>1
<1> QED BY <1>3, <1>5, <1>6

\* Where the loops go from a position: to the end of the first place from it on.
LEMMA NextPlace ==
  ASSUME NEW S, NEW t \in Seq(S), NEW s \in Seq(S), s # <<>>,
         NEW pos \in 1 .. Len(t) + 1
  PROVE  LET i == IndexOf(t, s, pos) IN
         \/ i = 0 /\ \A j \in At(t, s) : j < pos
         \/ /\ i # 0 /\ IsFirst(i, At(t, s), pos) /\ i \in 1 .. Len(t)
            /\ i + Len(s) \in 1 .. Len(t) + 1 /\ pos < i + Len(s)
<1>1. Len(t) \in Nat /\ Len(s) \in Nat \ {0}
  BY EmptySeq
<1>2. \A i \in At(t, s) : i \in 1 .. Len(t) /\ i + Len(s) \in 1 .. Len(t) + 1
  BY <1>1 DEF At
<1>3. pos \in Nat \ {0}
  OBVIOUS
<1> DEFINE i == IndexOf(t, s, pos)
<1>4. \/ i = 0 /\ \A j \in At(t, s) : j < pos
      \/ i # 0 /\ IsFirst(i, At(t, s), pos)
  BY <1>3, IndexOfFinds
<1> HIDE DEF i
<1>5. IsFirst(i, At(t, s), pos) =>
        i \in 1 .. Len(t) /\ i + Len(s) \in 1 .. Len(t) + 1 /\ pos < i + Len(s)
  BY <1>1, <1>2 DEF IsFirst
<1> QED BY <1>4, <1>5 DEF i

\* The loops have a result: the recursive functions that stand for them exist.
Loops(f, t, s, base, op) ==
  \A pos \in 1 .. Len(t) + 1 :
    LET i == IndexOf(t, s, pos) IN
    f[pos] = IF i = 0 THEN base[pos] ELSE op[pos][f[i + Len(s)]]

\* A loop over the places of a text has a value at each position, as indexOf never
\* finds a non-empty text behind the end.
LEMMA LoopsEnd ==
  ASSUME NEW S, NEW t \in Seq(S), NEW s \in Seq(S), s # <<>>, NEW V,
         NEW base \in [1 .. Len(t) + 1 -> V],
         NEW op \in [1 .. Len(t) + 1 -> [V -> V]]
  PROVE  \E f \in [1 .. Len(t) + 1 -> V] : Loops(f, t, s, base, op)
<1> DEFINE N == Len(t) + 1
           D == 1 .. N
           ends == {pos \in D : IndexOf(t, s, pos) = 0}
           after == [pos \in D \ ends |-> IndexOf(t, s, pos) + Len(s)]
           rank == [pos \in D |-> N - pos]
<1>1. rank \in [D -> 0 .. N] /\ N \in Nat /\ ends \in SUBSET D
  OBVIOUS
<1>2. ASSUME NEW pos \in D \ ends
      PROVE  after[pos] \in D /\ rank[after[pos]] < rank[pos]
  <2>1. IndexOf(t, s, pos) + Len(s) \in D /\ pos < IndexOf(t, s, pos) + Len(s)
    BY NextPlace
  <2> QED BY <2>1
<1>3. after \in [D \ ends -> D] /\ \A pos \in D \ ends : rank[after[pos]] < rank[pos]
  BY <1>2
<1>4. base \in [D -> V] /\ op \in [D -> [V -> V]]
  OBVIOUS
<1>5. PICK f \in [D -> V] : Solves(f, D, ends, base, after, op)
  <2> HIDE DEF N, D, ends, after, rank
  <2> QED BY <1>1, <1>3, <1>4, Recursion
<1>6. Loops(f, t, s, base, op)
  <2> SUFFICES ASSUME NEW pos \in D
               PROVE  f[pos] = IF IndexOf(t, s, pos) = 0 THEN base[pos]
                               ELSE op[pos][f[IndexOf(t, s, pos) + Len(s)]]
    BY DEF Loops
  <2>1. f[pos] = IF pos \in ends THEN base[pos] ELSE op[pos][f[after[pos]]]
    BY <1>5 DEF Solves
  <2>2. pos \notin ends => after[pos] = IndexOf(t, s, pos) + Len(s)
    OBVIOUS
  <2>3. pos \in ends <=> IndexOf(t, s, pos) = 0
    OBVIOUS
  <2> HIDE DEF ends, after
  <2> QED BY <2>1, <2>2, <2>3
<1> QED BY <1>6

\* countOccurrences counts the places that are replaced.
LEMMA CountIsReplaced ==
  ASSUME NEW S, NEW t \in Seq(S), NEW s \in Seq(S), s # <<>>,
         NEW R, Greedy(R, At(t, s), Len(s))
  PROVE  countOccurrences(t, s) = Cardinality(R)
<1> DEFINE L == Len(t)
           m == Len(s)
           P == At(t, s)
           D == 1 .. L + 1
           Counts(c) == c = [pos \in 1 .. Len(t) + 1 |->
                              LET i == IndexOf(t, s, pos) IN
                              IF i = 0 THEN 0 ELSE 1 + c[i + Len(s)]]
           count == CHOOSE c : Counts(c)
           left(pos) == {j \in R : j >= pos}
<1>1. L \in Nat /\ m \in Nat \ {0}
  BY EmptySeq
<1>2. P \in SUBSET (1 .. L)
  BY <1>1 DEF At
<1>3. countOccurrences(t, s) = count[1]
  BY DEF countOccurrences
<1>4. \E c : Counts(c)
  <2> DEFINE zero == [pos \in D |-> 0]
             more == [pos \in D |-> [v \in Nat |-> 1 + v]]
  <2>1. zero \in [D -> Nat] /\ more \in [D -> [Nat -> Nat]]
    OBVIOUS
  <2>2. PICK c \in [D -> Nat] : Loops(c, t, s, zero, more)
    <3> HIDE DEF zero, more
    <3> QED BY <2>1, LoopsEnd
  <2>3. ASSUME NEW pos \in D
        PROVE  c[pos] = IF IndexOf(t, s, pos) = 0 THEN 0 ELSE 1 + c[IndexOf(t, s, pos) + Len(s)]
    <3>1. IndexOf(t, s, pos) # 0 => IndexOf(t, s, pos) + Len(s) \in D
      BY NextPlace
    <3>2. IndexOf(t, s, pos) # 0 => c[IndexOf(t, s, pos) + Len(s)] \in Nat
      BY <3>1
    <3> QED BY <2>2, <3>2 DEF Loops
  <2>4. Counts(c)
    BY <2>2, <2>3
  <2> QED BY <2>4
<1>5. Counts(count)
  <2> HIDE DEF Counts
  <2> QED BY <1>4, Zenon
<1>6. R \subseteq P /\ IsFiniteSet(R)
  <2>1. R \subseteq P
    BY DEF Greedy
  <2>2. IsFiniteSet(1 .. L) /\ R \subseteq 1 .. L
    BY <1>1, <1>2, <2>1, FS_Interval
  <2> QED BY <2>1, <2>2, FS_Subset
<1> DEFINE Wrong == {pos \in D : Boundary(R, m, pos) /\ count[pos] # Cardinality(left(pos))}
<1> HIDE DEF count
<1>7. ASSUME NEW pos \in Wrong PROVE \E q \in Wrong : pos < q
  <2> DEFINE i == IndexOf(t, s, pos)
  <2>1. pos \in D /\ pos \in Nat /\ Boundary(R, m, pos) /\ count[pos] # Cardinality(left(pos))
    OBVIOUS
  <2>2. count[pos] = IF i = 0 THEN 0 ELSE 1 + count[i + m]
    BY <1>5, <2>1
  <2>3. \/ i = 0 /\ \A j \in P : j < pos
        \/ i # 0 /\ IsFirst(i, P, pos) /\ i \in 1 .. L /\ i + m \in D /\ pos < i + m
    BY <2>1, NextPlace
  <2> HIDE DEF i, Counts, P, Wrong, D, left
  <2>4. CASE i = 0
    <3>1. \A j \in R : j \in Nat /\ j < pos
      BY <1>2, <1>6, <2>3, <2>4
    <3>2. left(pos) = {}
      BY <2>1, <3>1 DEF left
    <3> QED BY <2>1, <2>2, <2>4, <3>2, FS_EmptySet
  <2>5. CASE i # 0
    <3>1. i \in R /\ Boundary(R, m, i + m) /\ \A j \in R : j >= pos <=> j = i \/ j >= i + m
      <4>1. Greedy(R, P, m)
        BY DEF P
      <4> HIDE DEF L, m
      <4> QED BY <1>1, <1>2, <2>1, <2>3, <2>5, <4>1, FirstIsReplaced
    <3>2. left(pos) = left(i + m) \cup {i}
      BY <3>1 DEF left
    <3>3. i \notin left(i + m) /\ IsFiniteSet(left(i + m))
      BY <1>1, <1>6, <2>3, <2>5, FS_Subset DEF left
    <3>4. Cardinality(left(pos)) = 1 + Cardinality(left(i + m))
      <4>1. Cardinality(left(i + m) \cup {i}) = Cardinality(left(i + m)) + 1
        BY <3>3, FS_AddElement
      <4>2. Cardinality(left(i + m)) \in Nat
        BY <3>3, FS_CardinalityType
      <4> QED BY <3>2, <4>1, <4>2
    <3>5. count[i + m] # Cardinality(left(i + m))
      BY <2>1, <2>2, <2>5, <3>4
    <3>6. i + m \in Wrong
      BY <2>3, <2>5, <3>1, <3>5 DEF Wrong
    <3> QED BY <2>3, <2>5, <3>6
  <2> QED BY <2>4, <2>5
<1>8. Wrong = {}
  <2>1. SUFFICES ASSUME Wrong # {} PROVE FALSE
    OBVIOUS
  <2>2. L + 1 \in Int /\ \A k \in Wrong : k \in Nat /\ k <= L + 1
    BY <1>1
  <2> HIDE DEF Wrong
  <2>3. PICK pos \in Wrong : \A q \in Wrong : q <= pos
    BY <2>1, <2>2, LastOf
  <2> QED BY <1>7, <2>2, <2>3
<1>9. 1 \in D /\ Boundary(R, m, 1) /\ left(1) = R
  BY <1>1, <1>2, <1>6 DEF Boundary
<1> QED BY <1>3, <1>8, <1>9
\* The texts that the first pieces of a text are joined to.
Joinings(S, L) == [0 .. L -> Seq(S)]

\* Concatenation is associative; for two pairs of parentheses, Regroup.
LEMMA Associative ==
  \A S : \A x, y, z \in Seq(S) : (x \o y) \o z = x \o (y \o z)
BY ConcatAssociative

Regroups(x, y, z, u) == x \o ((y \o z) \o u) = ((x \o y) \o z) \o u
LEMMA Regroup ==
  \A S : \A x, y, z, u \in Seq(S) : Regroups(x, y, z, u)
<1> SUFFICES ASSUME NEW S, NEW x \in Seq(S), NEW y \in Seq(S), NEW z \in Seq(S),
                    NEW u \in Seq(S)
             PROVE  Regroups(x, y, z, u)
  OBVIOUS
<1>1. x \o ((y \o z) \o u) = (x \o (y \o z)) \o u
  BY ConcatAssociative, ConcatProperties
<1>2. x \o (y \o z) = (x \o y) \o z
  BY ConcatAssociative
<1> QED BY <1>1, <1>2 DEF Regroups

\* FlattenSeq joins one sequence after the other.
LEMMA FlattenJoins ==
  ASSUME NEW S, NEW q \in Seq(Seq(S)), Len(q) > 0
  PROVE  \E flat \in Joinings(S, Len(q)) :
           /\ flat[0] = <<>>
           /\ \A k \in 1 .. Len(q) : flat[k] = flat[k - 1] \o q[k]
           /\ flat[Len(q)] = FlattenSeq(q)
<1> DEFINE D == 1 .. Len(q)
           Joins(f) == f = [i \in 1 .. Len(q) |-> IF i = 1 THEN q[i] ELSE f[i - 1] \o q[i]]
           f == CHOOSE g : Joins(g)
           V == Seq(S)
           ends == {1}
           before == [i \in D \ ends |-> i - 1]
           rank == [i \in D |-> i]
           op == [i \in D |-> [v \in V |-> v \o q[i]]]
           N == Len(q)
<1>1. Len(q) \in Nat /\ q \in [D -> V]
  BY LenProperties
<1>2. FlattenSeq(q) = f[Len(q)]
  BY <1>1 DEF FlattenSeq
<1>3. before \in [D \ ends -> D] /\ \A i \in D \ ends : rank[before[i]] < rank[i]
  BY <1>1
<1>4. rank \in [D -> 0 .. N] /\ ends \in SUBSET D /\ N \in Nat
  BY <1>1
<1>5. op \in [D -> [V -> V]]
  <2> SUFFICES ASSUME NEW i \in D, NEW v \in V PROVE v \o q[i] \in V
    OBVIOUS
  <2> QED BY <1>1, ConcatProperties
<1>6. PICK g \in [D -> V] : Solves(g, D, ends, q, before, op)
  <2> HIDE DEF D, V, ends, before, rank, op, N
  <2> QED BY <1>1, <1>3, <1>4, <1>5, Recursion
<1>7. Joins(g)
  <2>1. ASSUME NEW i \in D PROVE g[i] = IF i = 1 THEN q[i] ELSE g[i - 1] \o q[i]
    <3>1. CASE i = 1
      BY <1>6, <3>1 DEF Solves
    <3>2. CASE i # 1
      <4>1. i - 1 \in D
        BY <1>1, <3>2
      <4>2. g[i - 1] \in V
        BY <4>1
      <4> QED BY <1>6, <3>2, <4>2 DEF Solves
    <3> QED BY <3>1, <3>2
  <2> QED BY <2>1
<1>8. Joins(f)
  <2> HIDE DEF Joins
  <2> QED BY <1>7, Zenon
<1> HIDE DEF f
<1>9. \A i \in D : f[i] \in V
  <2> DEFINE Wrong == {i \in D : f[i] \notin V}
  <2>1. SUFFICES ASSUME Wrong # {} PROVE FALSE
    OBVIOUS
  <2>2. Wrong \subseteq Nat
    OBVIOUS
  <2>3. PICK i \in Wrong : \A j \in Wrong : i <= j
    <3> HIDE DEF Wrong
    <3> QED BY <2>1, <2>2, FirstOf
  <2>4. i # 1
    BY <1>1, <1>8
  <2>5. i - 1 \in D /\ i - 1 < i
    BY <1>1, <2>4
  <2>6. i - 1 \notin Wrong
    <3> HIDE DEF Wrong
    <3> QED BY <2>2, <2>3, <2>5
  <2>7. f[i - 1] \in V /\ q[i] \in V
    BY <1>1, <2>5, <2>6
  <2>8. f[i] = f[i - 1] \o q[i]
    BY <1>8, <2>4
  <2> QED BY <2>7, <2>8, ConcatProperties
<1> DEFINE flat == [k \in 0 .. Len(q) |-> IF k = 0 THEN <<>> ELSE f[k]]
<1>10. flat \in Joinings(S, Len(q))
  <2>1. \A k \in 0 .. Len(q) : k # 0 => k \in D
    BY <1>1
  <2> QED BY <1>9, <2>1, EmptySeq DEF Joinings
<1>11. ASSUME NEW k \in 1 .. Len(q) PROVE flat[k] = flat[k - 1] \o q[k]
  <2>1. CASE k = 1
    <3>1. flat[k] = q[k] /\ flat[k - 1] = <<>> /\ q[k] \in Seq(S)
      BY <1>1, <1>8, <2>1
    <3> QED BY <3>1, ConcatEmptySeq
  <2>2. CASE k # 1
    <3>1. k - 1 \in 0 .. Len(q) /\ k - 1 # 0 /\ k # 0 /\ k \in 0 .. Len(q)
      BY <1>1, <2>2
    <3>2. flat[k] = f[k] /\ flat[k - 1] = f[k - 1]
      BY <3>1
    <3>3. f[k] = f[k - 1] \o q[k]
      BY <1>8, <2>2
    <3> QED BY <3>2, <3>3
  <2> QED BY <2>1, <2>2
<1>12. flat[0] = <<>> /\ flat[Len(q)] = FlattenSeq(q)
  BY <1>1, <1>2
<1> QED BY <1>10, <1>11, <1>12

\* The text with the places in R replaced, character by character.
Pieces(text, R, m, new) ==
  [i \in DOMAIN text |->
    IF i \in R THEN new
    ELSE IF \E j \in R : j < i /\ i < j + m THEN <<>>
    ELSE <<text[i]>>]

\* What ReplaceAlong has left to write at a position.
RestAlong(text, norm, old, new) ==
  CHOOSE rest : rest = [pos \in 1 .. Len(text) + 1 |->
    LET i == IndexOf(norm, old, pos) IN
    IF i = 0 THEN From(text, pos)
    ELSE SubSeq(text, pos, i - 1) \o new \o rest[i + Len(old)]]

\* The same, as equations, with the type of the rest.
RestsOf(rest, S, text, norm, old, new) ==
  \A pos \in 1 .. Len(text) + 1 :
    LET i == IndexOf(norm, old, pos) IN
    /\ rest[pos] \in Seq(S)
    /\ i = 0 => rest[pos] = From(text, pos)
    /\ i # 0 => rest[pos] = SubSeq(text, pos, i - 1) \o new \o rest[i + Len(old)]

\* What is left to write is a text, and satisfies the recursion.
LEMMA RestAlongIs ==
  ASSUME NEW S, NEW text \in Seq(S), NEW norm \in Seq(S), Len(norm) = Len(text),
         NEW old \in Seq(S), old # <<>>, NEW new \in Seq(S)
  PROVE  RestsOf(RestAlong(text, norm, old, new), S, text, norm, old, new)
<1> DEFINE D == 1 .. Len(text) + 1
           V == Seq(S)
           Writes(rest) == rest = [pos \in 1 .. Len(text) + 1 |->
             LET i == IndexOf(norm, old, pos) IN
             IF i = 0 THEN From(text, pos)
             ELSE SubSeq(text, pos, i - 1) \o new \o rest[i + Len(old)]]
           tail == [pos \in D |-> From(text, pos)]
           on == [pos \in D |-> [v \in V |->
                    IF IndexOf(norm, old, pos) = 0 THEN v
                    ELSE SubSeq(text, pos, IndexOf(norm, old, pos) - 1) \o new \o v]]
           rest == RestAlong(text, norm, old, new)
<1>1. ASSUME NEW pos \in D, NEW e \in Int, e <= Len(text) PROVE SubSeq(text, pos, e) \in Seq(S)
  <2>1. \A k \in pos .. e : text[k] \in S
    BY <1>1, ElementOfSeq
  <2> QED BY <2>1, SubSeqProperties
<1>2. tail \in [D -> V]
  BY <1>1 DEF From
<1>3. on \in [D -> [V -> V]]
  <2> SUFFICES ASSUME NEW pos \in D, NEW v \in V, IndexOf(norm, old, pos) # 0
               PROVE  SubSeq(text, pos, IndexOf(norm, old, pos) - 1) \o new \o v \in V
    OBVIOUS
  <2>1. IndexOf(norm, old, pos) \in 1 .. Len(text)
    BY NextPlace
  <2>2. SubSeq(text, pos, IndexOf(norm, old, pos) - 1) \in V
    BY <1>1, <2>1
  <2> QED BY <2>2, ConcatProperties
<1>4. PICK f \in [D -> V] : Loops(f, norm, old, tail, on)
  <2>1. D = 1 .. Len(norm) + 1
    OBVIOUS
  <2> HIDE DEF D, V, tail, on
  <2> QED BY <1>2, <1>3, <2>1, LoopsEnd DEF V
<1>5. ASSUME NEW pos \in D
      PROVE  f[pos] = IF IndexOf(norm, old, pos) = 0 THEN From(text, pos)
                      ELSE SubSeq(text, pos, IndexOf(norm, old, pos) - 1) \o new
                           \o f[IndexOf(norm, old, pos) + Len(old)]
  <2>1. f[pos] = IF IndexOf(norm, old, pos) = 0 THEN tail[pos]
                 ELSE on[pos][f[IndexOf(norm, old, pos) + Len(old)]]
    BY <1>4 DEF Loops
  <2>2. IndexOf(norm, old, pos) # 0 => f[IndexOf(norm, old, pos) + Len(old)] \in V
    <3>1. IndexOf(norm, old, pos) # 0 => IndexOf(norm, old, pos) + Len(old) \in D
      BY NextPlace
    <3> QED BY <3>1
  <2> QED BY <2>1, <2>2
<1>6. Writes(f)
  BY <1>5
<1>7. Writes(rest)
  <2>1. rest = CHOOSE r : Writes(r)
    BY DEF RestAlong
  <2> HIDE DEF Writes, rest
  <2> QED BY <1>6, <2>1, Zenon
<1> HIDE DEF rest
<1>8. ASSUME NEW pos \in D
      PROVE  rest[pos] = IF IndexOf(norm, old, pos) = 0 THEN From(text, pos)
                         ELSE SubSeq(text, pos, IndexOf(norm, old, pos) - 1) \o new
                              \o rest[IndexOf(norm, old, pos) + Len(old)]
  BY <1>7
<1> DEFINE Wrong == {pos \in D : rest[pos] \notin V}
<1>9. ASSUME NEW pos \in Wrong PROVE \E q \in Wrong : pos < q
  <2> DEFINE i == IndexOf(norm, old, pos)
  <2>1. pos \in D /\ rest[pos] \notin V
    OBVIOUS
  <2>2. i # 0
    <3>1. SubSeq(text, pos, Len(text)) \in V
      BY <1>1, <2>1
    <3>2. i = 0 => rest[pos] = SubSeq(text, pos, Len(text))
      BY <1>8, <2>1 DEF From
    <3> QED BY <2>1, <3>1, <3>2
  <2>3. i \in 1 .. Len(text) /\ i + Len(old) \in D /\ pos < i + Len(old)
    BY <2>1, <2>2, NextPlace
  <2>4. SubSeq(text, pos, i - 1) \in V
    BY <1>1, <2>1, <2>3
  <2>5. rest[i + Len(old)] \notin V
    <3>1. rest[pos] = SubSeq(text, pos, i - 1) \o new \o rest[i + Len(old)]
      BY <1>8, <2>1, <2>2
    <3> HIDE DEF i
    <3> QED BY <2>1, <2>4, <3>1, ConcatProperties
  <2>6. i + Len(old) \in Wrong
    BY <2>3, <2>5
  <2> QED BY <2>3, <2>6
<1>10. Wrong = {}
  <2>1. SUFFICES ASSUME Wrong # {} PROVE FALSE
    OBVIOUS
  <2>2. Len(text) + 1 \in Int /\ \A k \in Wrong : k \in Nat /\ k <= Len(text) + 1
    OBVIOUS
  <2> HIDE DEF Wrong
  <2>3. PICK pos \in Wrong : \A q \in Wrong : q <= pos
    BY <2>1, <2>2, LastOf
  <2> QED BY <1>9, <2>2, <2>3
<1>11. \A pos \in D : rest[pos] \in V
  BY <1>10
<1> QED BY <1>8, <1>11 DEF rest, RestsOf

\* Every piece of a text is joined to those before it.
Joined(flat, text, R, m, new) ==
  \A k \in 1 .. Len(text) :
    LET over == \E j \in R : j < k /\ k < j + m IN
    /\ k \in R => flat[k] = flat[k - 1] \o new
    /\ k \notin R /\ over => flat[k] = flat[k - 1] \o <<>>
    /\ k \notin R /\ ~over => flat[k] = flat[k - 1] \o <<text[k]>>

\* What the pieces join to: a stretch that is copied, an occurrence that is passed
\* over, what is written so far with the rest, and a stretch without a place.
Copied(flat, text, pos, e) == flat[e] = flat[pos - 1] \o SubSeq(text, pos, e)
Passed(flat, m, new, i) == flat[i + m - 1] = flat[i - 1] \o new
Written(flat, rest, pos) == flat[pos - 1] \o rest[pos]
Free(R, first, last) == \A j \in R : ~(first <= j /\ j <= last)

\* The two parts of a step of the loop, on what the pieces join to: up to the
\* next place the text is copied, and behind it what is replaced is passed over.
LEMMA CopiesRun ==
  ASSUME NEW S, NEW L \in Nat, NEW text \in Seq(S), Len(text) = L,
         NEW m \in Nat \ {0}, NEW R \in SUBSET (1 .. L),
         NEW new, NEW flat \in Joinings(S, L), Joined(flat, text, R, m, new),
         NEW pos \in 1 .. L + 1, Boundary(R, m, pos),
         NEW e \in pos - 1 .. L, Free(R, pos, e)
  PROVE  Copied(flat, text, pos, e)
<1> DEFINE Wrong == {k \in pos - 1 .. e : flat[k] # flat[pos - 1] \o SubSeq(text, pos, k)}
<1>1. SUFFICES Wrong = {}
  <2>1. e \in pos - 1 .. e
    OBVIOUS
  <2> QED BY <2>1 DEF Copied
<1>2. SUFFICES ASSUME Wrong # {} PROVE FALSE
  OBVIOUS
<1>3. Wrong \subseteq Nat
  OBVIOUS
<1>4. PICK k \in Wrong : \A j \in Wrong : k <= j
  <2> HIDE DEF Wrong
  <2> QED BY <1>2, <1>3, FirstOf
<1>5. pos - 1 \in 0 .. L /\ flat[pos - 1] \in Seq(S)
  BY DEF Joinings
<1>6. k # pos - 1
  <2>1. SubSeq(text, pos, pos - 1) = <<>>
    BY SubSeqEmpty
  <2> QED BY <1>5, <2>1, ConcatEmptySeq
<1>7. k \in pos .. e /\ k \in 1 .. L /\ k - 1 \in pos - 1 .. e /\ k - 1 < k /\ k \in Nat
  BY <1>6
<1>8. k - 1 \notin Wrong
  <2> HIDE DEF Wrong
  <2> QED BY <1>3, <1>4, <1>7
<1>9. flat[k - 1] = flat[pos - 1] \o SubSeq(text, pos, k - 1)
  BY <1>7, <1>8
<1>10. flat[k] = flat[k - 1] \o <<text[k]>>
  <2>1. k \notin R
    BY <1>7 DEF Free
  <2>2. ASSUME NEW j \in R, j < k, k < j + m PROVE FALSE
    <3>1. j \in Nat /\ j < pos
      BY <1>7, <2>2 DEF Free
    <3>2. j + m <= pos
      BY <3>1 DEF Boundary
    <3> QED BY <1>7, <2>2, <3>1, <3>2
  <2> QED BY <1>7, <2>1, <2>2 DEF Joined
<1>11. SubSeq(text, pos, k) = SubSeq(text, pos, k - 1) \o <<text[k]>>
  <2>1. pos \in 1 .. Len(text) /\ k \in pos .. Len(text)
    BY <1>7
  <2> QED BY <2>1, SubSeqRecursiveSecond
<1>12. SubSeq(text, pos, k - 1) \in Seq(S) /\ <<text[k]>> \in Seq(S)
  <2>1. \A i \in pos .. k - 1 : text[i] \in S
    BY <1>7, ElementOfSeq
  <2>2. text[k] \in S /\ pos \in Int /\ k - 1 \in Int
    BY <1>7, ElementOfSeq
  <2> QED BY <2>1, <2>2, SubSeqProperties
<1>13. flat[k] = flat[pos - 1] \o SubSeq(text, pos, k)
  <2> DEFINE a == flat[pos - 1]
             b == SubSeq(text, pos, k - 1)
             c == <<text[k]>>
  <2>1. a \in Seq(S) /\ b \in Seq(S) /\ c \in Seq(S)
    BY <1>5, <1>12
  <2>2. flat[k] = (a \o b) \o c /\ SubSeq(text, pos, k) = b \o c
    BY <1>9, <1>10, <1>11
  <2> HIDE DEF a, b, c, Wrong
  <2>3. (a \o b) \o c = a \o (b \o c)
    BY <2>1, Associative
  <2> QED BY <2>2, <2>3 DEF a
<1> QED BY <1>13

\* Behind a place, the pieces of an occurrence add the new text and no more.
LEMMA PassesOver ==
  ASSUME NEW S, NEW L \in Nat, NEW text \in Seq(S), Len(text) = L,
         NEW m \in Nat \ {0}, NEW R \in SUBSET (1 .. L), NEW P, Greedy(R, P, m),
         NEW new \in Seq(S), NEW flat \in Joinings(S, L),
         Joined(flat, text, R, m, new),
         NEW i \in R, i + m <= L + 1
  PROVE  Passed(flat, m, new, i)
<1> DEFINE Wrong == {k \in i .. i + m - 1 : flat[k] # flat[i - 1] \o new}
<1>1. i \in 1 .. L /\ i \in Nat
  OBVIOUS
<1>2. SUFFICES Wrong = {}
  <2>1. i + m - 1 \in i .. i + m - 1
    BY <1>1
  <2> QED BY <2>1 DEF Passed
<1>3. SUFFICES ASSUME Wrong # {} PROVE FALSE
  OBVIOUS
<1>4. Wrong \subseteq Nat
  BY <1>1
<1>5. PICK k \in Wrong : \A j \in Wrong : k <= j
  <2> HIDE DEF Wrong
  <2> QED BY <1>3, <1>4, FirstOf
<1>6. k # i
  BY <1>1 DEF Joined
<1>7. k \in 1 .. L /\ k - 1 \in i .. i + m - 1 /\ k - 1 < k /\ i < k /\ k < i + m
  BY <1>1, <1>6
<1>8. k - 1 \notin Wrong
  <2> HIDE DEF Wrong
  <2> QED BY <1>4, <1>5, <1>7
<1>9. flat[k - 1] = flat[i - 1] \o new
  BY <1>7, <1>8
<1>10. k \notin R
  BY <1>1, <1>7 DEF Greedy
<1>11. flat[k] = flat[k - 1] \o <<>> /\ flat[k - 1] \in Seq(S)
  <2>1. flat[k] = flat[k - 1] \o <<>>
    BY <1>7, <1>10 DEF Joined
  <2>2. k - 1 \in 0 .. L
    BY <1>7
  <2> QED BY <2>1, <2>2 DEF Joinings
<1>12. flat[k] = flat[i - 1] \o new
  BY <1>9, <1>11, ConcatEmptySeq
<1> QED BY <1>12

\* The loop over the text writes the text with the places replaced.
LEMMA AlongReplaces ==
  ASSUME NEW S, NEW text \in Seq(S), NEW norm \in Seq(S), Len(norm) = Len(text),
         NEW old \in Seq(S), old # <<>>, NEW new \in Seq(S),
         NEW R, Greedy(R, At(norm, old), Len(old))
  PROVE  ReplaceAlong(text, norm, old, new)
           = FlattenSeq(Pieces(text, R, Len(old), new))
<1> DEFINE L == Len(text)
           m == Len(old)
           P == At(norm, old)
           D == 1 .. L + 1
           pieces == Pieces(text, R, m, new)
           rest == RestAlong(text, norm, old, new)
<1>1. L \in Nat /\ m \in Nat \ {0}
  BY EmptySeq
<1>2. R \subseteq P /\ P \in SUBSET (1 .. L)
  BY <1>1 DEF At, Greedy
<1>3. ReplaceAlong(text, norm, old, new) = rest[1]
  BY DEF ReplaceAlong, RestAlong
<1>4. pieces \in Seq(Seq(S)) /\ Len(pieces) = L
  <2> DEFINE piece(i) == IF i \in R THEN new
                         ELSE IF \E j \in R : j < i /\ i < j + m THEN <<>>
                         ELSE <<text[i]>>
  <2>1. \A i \in 1 .. L : piece(i) \in Seq(S)
    <3> SUFFICES ASSUME NEW i \in 1 .. L PROVE <<text[i]>> \in Seq(S)
      BY EmptySeq
    <3>1. text[i] \in S
      BY ElementOfSeq
    <3> QED BY <3>1
  <2>2. pieces = [i \in 1 .. L |-> piece(i)]
    BY DEF Pieces
  <2> HIDE DEF piece
  <2> QED BY <1>1, <2>1, <2>2
<1>5. CASE L = 0
  <2>1. pieces = <<>> /\ text = <<>>
    BY <1>4, <1>5, EmptySeq
  <2>2. FlattenSeq(pieces) = <<>>
    BY <2>1 DEF FlattenSeq
  <2>3. 1 \in D /\ 1 \in 1 .. Len(norm) + 1 /\ \A i : i \notin 1 .. Len(norm)
    BY <1>5
  <2>4. IndexOf(norm, old, 1) = 0
    BY <2>3, NextPlace
  <2>5. rest[1] = From(text, 1)
    BY <2>4, <2>3, RestAlongIs DEF RestsOf
  <2>6. From(text, 1) = <<>>
    BY <1>5, SubSeqEmpty DEF From
  <2> QED BY <1>3, <2>2, <2>5, <2>6
<1>6. \A pos \in D :
        LET i == IndexOf(norm, old, pos) IN
        /\ rest[pos] \in Seq(S)
        /\ i = 0 => rest[pos] = From(text, pos) /\ \A j \in P : j < pos
        /\ i # 0 => /\ rest[pos] = SubSeq(text, pos, i - 1) \o new \o rest[i + m]
                    /\ IsFirst(i, P, pos) /\ i \in 1 .. L /\ i + m \in D /\ pos < i + m
  <2> SUFFICES ASSUME NEW pos \in D
               PROVE  LET i == IndexOf(norm, old, pos) IN
        /\ rest[pos] \in Seq(S)
        /\ i = 0 => rest[pos] = From(text, pos) /\ \A j \in P : j < pos
        /\ i # 0 => /\ rest[pos] = SubSeq(text, pos, i - 1) \o new \o rest[i + m]
                    /\ IsFirst(i, P, pos) /\ i \in 1 .. L /\ i + m \in D /\ pos < i + m
    OBVIOUS
  <2>1. pos \in 1 .. Len(text) + 1 /\ pos \in 1 .. Len(norm) + 1
    OBVIOUS
  <2> DEFINE i == IndexOf(norm, old, pos)
  <2>2. /\ rest[pos] \in Seq(S)
        /\ i = 0 => rest[pos] = From(text, pos)
        /\ i # 0 => rest[pos] = SubSeq(text, pos, i - 1) \o new \o rest[i + m]
    <3>1. RestsOf(rest, S, text, norm, old, new)
      BY RestAlongIs
    <3> QED BY <2>1, <3>1 DEF RestsOf
  <2>3. \/ i = 0 /\ \A j \in P : j < pos
        \/ i # 0 /\ IsFirst(i, P, pos) /\ i \in 1 .. L /\ i + m \in D /\ pos < i + m
    BY <2>1, NextPlace
  <2> HIDE DEF i, rest, P, D, m, L
  <2> QED BY <2>2, <2>3 DEF i
<1>7. ASSUME L > 0 PROVE rest[1] = FlattenSeq(pieces)
  <2> HIDE DEF pieces, L
  <2>1. PICK flat \in Joinings(S, L) :
          /\ flat[0] = <<>>
          /\ \A k \in 1 .. L : flat[k] = flat[k - 1] \o pieces[k]
          /\ flat[L] = FlattenSeq(pieces)
    BY <1>4, <1>7, FlattenJoins
  <2>2. \A k \in 1 .. L : pieces[k] = IF k \in R THEN new
                         ELSE IF \E j \in R : j < k /\ k < j + m THEN <<>>
                         ELSE <<text[k]>>
    BY DEF Pieces, pieces, L
  <2>3. R \in SUBSET (1 .. L) /\ Len(text) = L
    BY <1>2 DEF L
  <2>4. Joined(flat, text, R, m, new)
    BY <2>1, <2>2, <2>3 DEF Joined
  <2> HIDE DEF m
  <2> DEFINE Wrong == {pos \in D : Boundary(R, m, pos) /\ Written(flat, rest, pos) # flat[L]}
  <2> HIDE DEF rest, P
  <2>5. ASSUME NEW pos \in Wrong PROVE \E q \in Wrong : pos < q
    <3> DEFINE i == IndexOf(norm, old, pos)
    <3>1. pos \in D /\ Boundary(R, m, pos) /\ Written(flat, rest, pos) # flat[L]
      OBVIOUS
    <3>2. pos \in D /\ pos \in Nat /\ Boundary(R, m, pos) /\ Written(flat, rest, pos) # flat[L]
          /\ 1 <= pos /\ pos <= L + 1
      <4>1. pos \in Nat /\ 1 <= pos /\ pos <= L + 1
        BY <1>1, <3>1
      <4> QED BY <3>1, <4>1
    <3>3. /\ rest[pos] \in Seq(S)
          /\ i = 0 => rest[pos] = From(text, pos)
          /\ i # 0 => rest[pos] = SubSeq(text, pos, i - 1) \o new \o rest[i + m]
      BY <1>6, <3>2
    <3>4. \/ i = 0 /\ \A j \in P : j < pos
          \/ i # 0 /\ IsFirst(i, P, pos) /\ i \in 1 .. L /\ i + m \in D /\ pos < i + m
      BY <1>6, <3>2
    <3> HIDE DEF i, Wrong
    <3>5. CASE i = 0
      <4>1. Free(R, pos, L)
        <5>1. \A j \in R : j \in Nat /\ j < pos
          BY <1>2, <3>4, <3>5
        <5> QED BY <3>2, <5>1 DEF Free
      <4>2. L \in pos - 1 .. L
        BY <1>1, <3>2
      <4>3. flat[L] = flat[pos - 1] \o SubSeq(text, pos, L)
        <5>1. Copied(flat, text, pos, L)
          BY <1>1, <2>1, <2>3, <2>4, <3>2, <4>1, <4>2, CopiesRun
        <5> QED BY <5>1 DEF Copied
      <4> QED BY <2>3, <3>2, <3>3, <3>5, <4>3 DEF From, Written
    <3>6. CASE i # 0
      <4>1. IsFirst(i, P, pos) /\ i \in 1 .. L /\ i + m \in D /\ pos < i + m
        BY <3>4, <3>6
      <4>2. i \in R /\ Boundary(R, m, i + m)
        <5>1. Greedy(R, P, m)
          BY DEF P, m
        <5> QED BY <1>1, <1>2, <3>2, <4>1, <5>1, FirstIsReplaced
      <4>3. Free(R, pos, i - 1)
        <5>1. \A j \in R : j \in Nat /\ j \in P
          BY <1>2
        <5> QED BY <3>2, <4>1, <5>1 DEF IsFirst, Free
      <4>4. i - 1 \in pos - 1 .. L
        BY <1>1, <3>2, <4>1 DEF IsFirst
      <4>5. flat[i - 1] = flat[pos - 1] \o SubSeq(text, pos, i - 1)
        <5>1. Copied(flat, text, pos, i - 1)
          BY <1>1, <2>1, <2>3, <2>4, <3>2, <4>3, <4>4, CopiesRun
        <5> QED BY <5>1 DEF Copied
      <4>6. flat[i + m - 1] = flat[i - 1] \o new
        <5>1. i + m <= L + 1 /\ Greedy(R, P, m)
          BY <1>1, <4>1 DEF P, m
        <5>2. Passed(flat, m, new, i)
          BY <1>1, <2>1, <2>3, <2>4, <4>2, <5>1, PassesOver
        <5> QED BY <5>2 DEF Passed
      <4>7. Written(flat, rest, pos) = Written(flat, rest, i + m)
        <5>1. flat[pos - 1] \in Seq(S)
          BY <1>1, <3>2 DEF Joinings
        <5>2. SubSeq(text, pos, i - 1) \in Seq(S)
          <6>1. \A k \in pos .. i - 1 : text[k] \in S
            BY <1>1, <2>3, <3>2, <4>1, ElementOfSeq
          <6> QED BY <3>2, <4>1, <6>1, SubSeqProperties
        <5>3. rest[i + m] \in Seq(S)
          BY <1>6, <4>1
        <5> DEFINE a == flat[pos - 1]
                   b == SubSeq(text, pos, i - 1)
                   d == rest[i + m]
        <5>4. rest[pos] = (b \o new) \o d /\ flat[i + m - 1] = (a \o b) \o new
          BY <3>3, <3>6, <4>5, <4>6
        <5>5. a \in Seq(S) /\ b \in Seq(S) /\ d \in Seq(S)
          BY <5>1, <5>2, <5>3
        <5> HIDE DEF a, b, d
        <5>6. a \o ((b \o new) \o d) = ((a \o b) \o new) \o d
          <6>1. Regroups(a, b, new, d)
            BY <5>5, Regroup
          <6> QED BY <6>1 DEF Regroups
        <5>7. Written(flat, rest, pos) = a \o rest[pos]
          BY DEF a, Written
        <5>8. Written(flat, rest, i + m) = flat[i + m - 1] \o d
          <6>1. (i + m) - 1 = i + m - 1
            BY <1>1, <4>1
          <6>2. Written(flat, rest, i + m) = flat[(i + m) - 1] \o rest[i + m]
            BY DEF Written
          <6> QED BY <6>1, <6>2, Zenon DEF d
        <5> QED BY <5>4, <5>6, <5>7, <5>8
      <4>8. i + m \in Wrong
        <5>1. Written(flat, rest, i + m) # flat[L]
          BY <3>2, <4>7
        <5> QED BY <3>2, <4>1, <4>2, <4>7, <5>1 DEF Wrong
      <4> QED BY <4>1, <4>8
    <3> QED BY <3>5, <3>6
  <2>6. Wrong = {}
    <3>1. SUFFICES ASSUME Wrong # {} PROVE FALSE
      OBVIOUS
    <3>2. L + 1 \in Int /\ \A k \in D : k \in Nat /\ k <= L + 1
      BY <1>1
    <3>3. L + 1 \in Int /\ \A k \in Wrong : k \in Nat /\ k <= L + 1
      BY <3>2
    <3> HIDE DEF Wrong
    <3>4. PICK pos \in Wrong : \A q \in Wrong : q <= pos
      BY <3>1, <3>3, LastOf
    <3> QED BY <2>5, <3>3, <3>4
  <2>7. 1 \in D /\ Boundary(R, m, 1)
    BY <1>1, <2>3 DEF Boundary
  <2>8. Written(flat, rest, 1) = flat[L]
    BY <2>6, <2>7
  <2>9. flat[0] \o rest[1] = flat[L]
    <3>1. 1 - 1 = 0
      OBVIOUS
    <3>2. Written(flat, rest, 1) = flat[1 - 1] \o rest[1]
      BY DEF Written
    <3> QED BY <2>8, <3>1, <3>2, Zenon
  <2>10. rest[1] \in Seq(S)
    BY <1>6, <2>7
  <2> QED BY <2>1, <2>9, <2>10, ConcatEmptySeq
<1> QED BY <1>1, <1>3, <1>5, <1>7 DEF rest, pieces

\* A single replacement is the loop's.
LEMMA FirstIsAlong ==
  ASSUME NEW S, NEW text \in Seq(S), NEW norm \in Seq(S), Len(norm) = Len(text),
         NEW old \in Seq(S), old # <<>>, NEW new \in Seq(S),
         NEW R, Greedy(R, At(norm, old), Len(old)), Cardinality(R) = 1
  PROVE  ReplaceFirst(text, norm, old, new) = ReplaceAlong(text, norm, old, new)
<1> DEFINE L == Len(text)
           m == Len(old)
           P == At(norm, old)
           rest == RestAlong(text, norm, old, new)
           i == IndexOf(norm, old, 1)
           k == IndexOf(norm, old, i + m)
<1>1. L \in Nat /\ m \in Nat \ {0} /\ 1 \in 1 .. L + 1
  BY EmptySeq
<1>2. R \subseteq P /\ P \in SUBSET (1 .. L) /\ IsFiniteSet(R)
  <2>1. P \in SUBSET (1 .. L)
    BY <1>1 DEF At
  <2>2. R \subseteq P /\ R \subseteq 1 .. L
    BY <2>1 DEF Greedy
  <2>3. IsFiniteSet(1 .. L)
    BY <1>1, FS_Interval
  <2> HIDE DEF P
  <2> QED BY <2>1, <2>2, <2>3, FS_Subset
<1>3. RestsOf(rest, S, text, norm, old, new)
  BY RestAlongIs
<1>4. PICK x : R = {x}
  BY <1>2, FS_Singleton
<1>5. /\ i # 0 /\ IsFirst(i, P, 1) /\ i \in 1 .. L
      /\ i + m \in 1 .. L + 1
  <2>1. x \in P /\ x \in Nat /\ ~(x < 1)
    BY <1>2, <1>4
  <2>2. 1 \in 1 .. Len(norm) + 1
    BY <1>1
  <2>3. \/ i = 0 /\ \A j \in P : j < 1
        \/ /\ i # 0 /\ IsFirst(i, P, 1) /\ i \in 1 .. L
           /\ i + m \in 1 .. L + 1 /\ 1 < i + m
    BY <2>2, NextPlace
  <2> HIDE DEF i, P
  <2> QED BY <2>1, <2>3
<1>6. i \in R /\ Boundary(R, m, i + m)
  <2>1. Boundary(R, m, 1)
    BY <1>2 DEF Boundary
  <2>2. Greedy(R, P, m)
    OBVIOUS
  <2> HIDE DEF i, P, m, L
  <2> QED BY <1>1, <1>2, <1>5, <2>1, <2>2, FirstIsReplaced
<1>7. k = 0
  <2>1. SUFFICES ASSUME k # 0 PROVE FALSE
    OBVIOUS
  <2>2. i + m \in 1 .. Len(norm) + 1
    BY <1>5
  <2>3. k # 0 => IsFirst(k, P, i + m)
    BY <2>2, NextPlace
  <2>4. Greedy(R, P, m)
    OBVIOUS
  <2>5. k \in R
    <3> HIDE DEF i, k, P, m, L
    <3>1. i + m \in Nat
      BY <1>1, <1>5
    <3> QED BY <1>1, <1>2, <1>6, <2>1, <2>3, <2>4, <3>1, FirstIsReplaced
  <2>6. k = i
    BY <1>4, <1>6, <2>5
  <2>7. i >= i + m
    <3> HIDE DEF i, k, P, m
    <3> QED BY <2>1, <2>3, <2>6 DEF IsFirst
  <2> QED BY <1>1, <1>5, <2>7
<1>8. rest[i + m] = From(text, i + m)
  BY <1>3, <1>5, <1>7 DEF RestsOf
<1>9. rest[1] = SubSeq(text, 1, i - 1) \o new \o rest[i + m]
  BY <1>1, <1>3, <1>5 DEF RestsOf
<1>10. ReplaceAlong(text, norm, old, new) = rest[1]
  BY DEF ReplaceAlong, RestAlong
<1>11. ReplaceFirst(text, norm, old, new) = SubSeq(text, 1, i - 1) \o new \o From(text, i + m)
  BY DEF ReplaceFirst
<1> HIDE DEF rest, i, m
<1> QED BY <1>8, <1>9, <1>10, <1>11

\* With quotes normalized, what is alike is the same.
LEMMA Normalized ==
  ASSUME NEW S, NEW t \in Seq(S)
  PROVE  /\ normalizeQuotes(t) \in Seq(S \cup {"quote"})
         /\ Len(normalizeQuotes(t)) = Len(t)
         /\ \A k \in 1 .. Len(t) :
              normalizeQuotes(t)[k] = IF t[k] = "curly" THEN "quote" ELSE t[k]
<1>1. normalizeQuotes(t) = [k \in 1 .. Len(t) |-> IF t[k] = "curly" THEN "quote" ELSE t[k]]
  BY DEF normalizeQuotes
<1>2. \A k \in 1 .. Len(t) : (IF t[k] = "curly" THEN "quote" ELSE t[k]) \in S \cup {"quote"}
  BY ElementOfSeq
<1> QED BY <1>1, <1>2

\* Characters are alike when they normalize to the same one.
LEMMA AlikeIsNormalized ==
  ASSUME NEW a, NEW b
  PROVE  Alike(a, b) <=> (IF a = "curly" THEN "quote" ELSE a) = (IF b = "curly" THEN "quote" ELSE b)
BY DEF Alike

\* Nothing is replaced only when old_string is nowhere.
LEMMA NoneReplaced ==
  ASSUME NEW P, NEW m, NEW R, Greedy(R, P, m), IsFiniteSet(R)
  PROVE  Cardinality(R) = 0 <=> P = {}
<1>1. Cardinality(R) = 0 <=> R = {}
  BY FS_EmptySet
<1>2. R = {} <=> P = {}
  BY DEF Greedy
<1> QED BY <1>1, <1>2

\* An edit of an old_string that is not empty does what EditIsExact says; with one
\* that overlaps itself, the leftmost of its places are what is replaced.
LEMMA EditReplaces ==
  ASSUME in \in TextCalls, in.tool = "edit", in.old # <<>>
  PROVE  LET n == Cardinality(Replaced) IN
         runEdit(in) = IF in.old = in.new \/ n = 0 \/ (n > 1 /\ ~in.all) THEN Refused
                       ELSE [ok |-> TRUE, made |-> n, text |-> Rewritten]
<1> DEFINE S == Chars \cup {"quote"}
           text == in.text
           m == Len(in.old)
           plain == Exact # {}
           norm == IF plain THEN text ELSE normalizeQuotes(text)
           old == IF plain THEN in.old ELSE normalizeQuotes(in.old)
           n == Cardinality(Replaced)
<1>1. /\ text \in Seq(Chars) /\ in.old \in Seq(Chars) /\ in.old # <<>>
      /\ in.new \in Seq(Chars) /\ in.all \in BOOLEAN
  <2>1. in.text \in Texts /\ in.old \in Olds /\ in.new \in News /\ in.all \in BOOLEAN
    BY DEF TextCalls
  <2> QED BY <2>1, TextsAssumption
<1>2. text \in Seq(S) /\ in.old \in Seq(S) /\ in.new \in Seq(S)
  <2>1. Seq(Chars) \subseteq Seq(S)
    OBVIOUS
  <2> HIDE DEF S
  <2> QED BY <1>1, <2>1
<1>3. Len(text) \in Nat /\ m \in Nat \ {0}
  BY <1>1, EmptySeq
<1>4. Exact = At(text, in.old)
  BY <1>1, LenProperties DEF Exact, Starts, At
<1>5. Loose = At(normalizeQuotes(text), normalizeQuotes(in.old))
  <2> DEFINE nt == normalizeQuotes(text)
             no == normalizeQuotes(in.old)
             same(a) == IF a = "curly" THEN "quote" ELSE a
  <2>1. Len(nt) = Len(text) /\ \A k \in 1 .. Len(text) : nt[k] = same(text[k])
    BY <1>1, Normalized
  <2>2. Len(no) = m /\ \A k \in 1 .. m : no[k] = same(in.old[k])
    BY <1>1, Normalized
  <2>3. \A a, b : Alike(a, b) <=> same(a) = same(b)
    BY AlikeIsNormalized
  <2> HIDE DEF nt, no, same
  <2>4. ASSUME NEW i \in Starts, NEW k \in 1 .. m
        PROVE  Alike(text[i + k - 1], in.old[k]) <=> nt[i + k - 1] = no[k]
    <3>1. i + k - 1 \in 1 .. Len(text)
      BY <1>3 DEF Starts
    <3> QED BY <2>1, <2>2, <2>3, <3>1
  <2>5. DOMAIN in.old = 1 .. m
    BY <1>1, LenProperties
  <2>6. Starts = 1 .. Len(nt) + 1 - Len(no)
    BY <2>1, <2>2 DEF Starts
  <2>7. Loose = {i \in Starts : \A k \in 1 .. m : nt[i + k - 1] = no[k]}
    BY <2>4, <2>5 DEF Loose
  <2> QED BY <2>2, <2>6, <2>7 DEF At, nt, no
<1>6. /\ norm \in Seq(S) /\ Len(norm) = Len(text)
      /\ old \in Seq(S) /\ Len(old) = m /\ old # <<>>
      /\ Places = At(norm, old)
  <2>1. normalizeQuotes(text) \in Seq(S) /\ Len(normalizeQuotes(text)) = Len(text)
    BY <1>1, Normalized
  <2>2. normalizeQuotes(in.old) \in Seq(S) /\ Len(normalizeQuotes(in.old)) = m
    BY <1>1, Normalized
  <2>3. norm \in Seq(S) /\ Len(norm) = Len(text) /\ old \in Seq(S) /\ Len(old) = m
    BY <1>2, <2>1, <2>2
  <2>4. Places = At(norm, old)
    BY <1>4, <1>5 DEF Places
  <2> HIDE DEF norm, old, S
  <2> QED BY <1>3, <2>3, <2>4
<1>7. Exact \in SUBSET (1 .. Len(text)) /\ Places \in SUBSET (1 .. Len(text))
  <2>1. ASSUME NEW i \in Starts PROVE i \in 1 .. Len(text)
    BY <1>3 DEF Starts
  <2> QED BY <2>1 DEF Exact, Loose, Places
<1>8. Greedy(Replaced, Places, m)
  <2>1. \E R \in SUBSET Places : Greedy(R, Places, m)
    BY <1>3, <1>7, GreedyExists
  <2>2. \A R \in SUBSET Places : Greedy(R, Places, m) <=>
          /\ \A i, j \in R : Overlapping(i, j) => i = j
          /\ \A i \in Places \ R : \E j \in R : j < i /\ Overlapping(i, j)
    BY DEF Greedy, Overlapping
  <2>3. \E R \in SUBSET Places :
          /\ \A i, j \in R : Overlapping(i, j) => i = j
          /\ \A i \in Places \ R : \E j \in R : j < i /\ Overlapping(i, j)
    BY <2>1, <2>2
  <2>4. /\ Replaced \in SUBSET Places
        /\ \A i, j \in Replaced : Overlapping(i, j) => i = j
        /\ \A i \in Places \ Replaced : \E j \in Replaced : j < i /\ Overlapping(i, j)
    BY <2>3, Zenon DEF Replaced
  <2> QED BY <2>2, <2>4
<1>9. countOccurrences(text, in.old) > 0 <=> plain
  <2>1. PICK R \in SUBSET Exact : Greedy(R, Exact, m)
    BY <1>3, <1>7, GreedyExists
  <2>2. IsFiniteSet(R)
    <3>1. IsFiniteSet(1 .. Len(text))
      BY <1>3, FS_Interval
    <3>2. R \subseteq 1 .. Len(text)
      BY <1>7
    <3> QED BY <3>1, <3>2, FS_Subset
  <2>3. Cardinality(R) \in Nat /\ (Cardinality(R) = 0 <=> Exact = {})
    BY <2>1, <2>2, FS_CardinalityType, NoneReplaced
  <2>4. countOccurrences(text, in.old) = Cardinality(R)
    BY <1>1, <1>4, <2>1, CountIsReplaced
  <2> QED BY <2>3, <2>4
<1>10. countOccurrences(norm, old) = n
  <2> HIDE DEF norm, old
  <2> QED BY <1>6, <1>8, CountIsReplaced
<1>11. ReplaceAlong(text, norm, old, in.new) = Rewritten
  <2>1. Pieces(text, Replaced, m, in.new) =
          [i \in DOMAIN in.text |->
            IF i \in Replaced THEN in.new
            ELSE IF \E j \in Replaced : j < i /\ i < j + Len(in.old) THEN <<>>
            ELSE <<in.text[i]>>]
    BY DEF Pieces
  <2>2. Rewritten = FlattenSeq(Pieces(text, Replaced, m, in.new))
    BY <2>1 DEF Rewritten
  <2> HIDE DEF norm, old, S, text, m
  <2> QED BY <1>2, <1>6, <1>8, <2>2, AlongReplaces
<1>12. n = 1 => ReplaceFirst(text, norm, old, in.new) = Rewritten
  <2> HIDE DEF norm, old, S, text, m
  <2> QED BY <1>2, <1>6, <1>8, <1>11, FirstIsAlong
<1>13. n \in Nat
  <2>1. IsFiniteSet(1 .. Len(text))
    BY <1>3, FS_Interval
  <2>2. Replaced \subseteq 1 .. Len(text)
    BY <1>7, <1>8 DEF Greedy
  <2>3. IsFiniteSet(Replaced)
    BY <2>1, <2>2, FS_Subset
  <2> QED BY <2>3, FS_CardinalityType
<1>14. runEdit(in) =
         IF in.old = in.new \/ n = 0 \/ (n > 1 /\ ~in.all) THEN Refused
         ELSE [ok |-> TRUE, made |-> n,
               text |-> IF in.all THEN ReplaceAlong(text, norm, old, in.new)
                                  ELSE ReplaceFirst(text, norm, old, in.new)]
  <2>1. runEdit(in) =
         LET c == countOccurrences(norm, old) IN
         IF in.old = in.new \/ c = 0 \/ (c > 1 /\ ~in.all) THEN Refused
         ELSE [ok |-> TRUE, made |-> c,
               text |-> IF in.all THEN ReplaceAlong(text, norm, old, in.new)
                                  ELSE ReplaceFirst(text, norm, old, in.new)]
    BY <1>9 DEF runEdit
  <2> HIDE DEF norm, old, n
  <2> QED BY <1>10, <2>1
<1> HIDE DEF norm, old, n
<1>15. ~(n = 0 \/ (n > 1 /\ ~in.all)) => in.all \/ n = 1
  BY <1>13
<1> QED BY <1>1, <1>11, <1>12, <1>14, <1>15 DEF n

\* The places that are replaced are some of the places, and none only where there
\* is none.
LEMMA ReplacedSome ==
  ASSUME in \in TextCalls, in.tool = "edit", in.old # <<>>
  PROVE  LET n == Cardinality(Replaced) IN
         /\ n \in Nat /\ (n = 0 <=> Places = {})
         /\ Cardinality(Places) = 1 => n <= 1
<1> DEFINE text == in.text  m == Len(in.old)
<1>1. /\ text \in Seq(Chars) /\ in.old \in Seq(Chars)
      /\ Len(text) \in Nat /\ m \in Nat \ {0}
  <2>1. in.text \in Texts /\ in.old \in Olds
    BY DEF TextCalls
  <2> QED BY <2>1, TextsAssumption, EmptySeq
<1>2. Places \in SUBSET (1 .. Len(text))
  <2>1. ASSUME NEW i \in Starts PROVE i \in 1 .. Len(text)
    BY <1>1 DEF Starts
  <2> QED BY <2>1 DEF Exact, Loose, Places
<1>3. /\ Replaced \in SUBSET Places
      /\ \A i \in Places \ Replaced : \E j \in Replaced : j < i /\ Overlapping(i, j)
  <2>1. \E R \in SUBSET Places : Greedy(R, Places, m)
    BY <1>1, <1>2, GreedyExists
  <2>2. \E R \in SUBSET Places :
          /\ \A i, j \in R : Overlapping(i, j) => i = j
          /\ \A i \in Places \ R : \E j \in R : j < i /\ Overlapping(i, j)
    BY <2>1 DEF Greedy, Overlapping
  <2> QED BY <2>2, Zenon DEF Replaced
<1>4. IsFiniteSet(Places) /\ IsFiniteSet(Replaced)
  <2>1. IsFiniteSet(1 .. Len(text))
    BY <1>1, FS_Interval
  <2>2. IsFiniteSet(Places)
    BY <1>2, <2>1, FS_Subset
  <2> QED BY <1>3, <2>2, FS_Subset
<1>5. Cardinality(Replaced) = 0 <=> Places = {}
  <2>1. Cardinality(Replaced) = 0 <=> Replaced = {}
    BY <1>4, FS_EmptySet
  <2> QED BY <1>3, <2>1
<1>6. Cardinality(Replaced) \in Nat /\ Cardinality(Replaced) <= Cardinality(Places)
  BY <1>3, <1>4, FS_CardinalityType, FS_Subset
<1> QED BY <1>5, <1>6

\* EditIsExact, for all texts: what file_edit writes has old_string replaced where
\* it is and nothing else, also where it was found by normalizing quotes; it
\* refuses when it is nowhere or, without replace_all, in several places that do
\* not overlap, and edits where there is one place.
THEOREM EditsAreExact == TextsSpec => []EditIsExact
<1> DEFINE Inv == in \in TextCalls /\ EditIsExact
<1>1. TextsInit => Inv
  BY DEF TextsInit, EditIsExact, Called
<1>2. Inv /\ [TextsNext]_textVars => Inv'
  <2> SUFFICES ASSUME Inv, [TextsNext]_textVars PROVE Inv'
    OBVIOUS
  <2>1. in' = in
    BY DEF TextsNext, textVars
  <2>2. out' = out \/ (in.tool = "edit" => out' = runEdit(in))
    BY DEF TextsNext, textVars, Edits, Extracts, Reads, Greps
  <2>3. Replaced' = Replaced /\ Rewritten' = Rewritten
    <3>1. Starts' = Starts
      BY <2>1 DEF Starts
    <3>2. Places' = Places
      BY <2>1, <3>1 DEF Places, Exact, Loose
    <3>3. \A i, j : Overlapping(i, j)' = Overlapping(i, j)
      BY <2>1 DEF Overlapping
    <3>4. Replaced' = Replaced
      BY <2>1, <3>2, <3>3 DEF Replaced, Overlapping
    <3> QED BY <2>1, <3>4 DEF Rewritten
  <2>4. Places' = Places
    BY <2>1 DEF Places, Exact, Loose, Starts
  <2>5. CASE out' = out
    BY <2>1, <2>3, <2>4, <2>5 DEF EditIsExact, Called
  <2>6. CASE out' # out /\ in.tool # "edit"
    BY <2>1, <2>6 DEF EditIsExact, Called
  <2>7. CASE out' # out /\ in.tool = "edit" /\ in.old = <<>>
    <3>1. in.new = <<>>
      BY <2>7 DEF TextsNext, textVars, Edits, Extracts, Reads, Greps
    <3>2. runEdit(in) = Refused
      BY <2>7, <3>1 DEF runEdit
    <3>3. out' = Refused
      BY <2>2, <2>7, <3>2
    <3> QED  BY <2>1, <2>7, <3>1, <3>3 DEF EditIsExact, Called
  <2>8. CASE out' # out /\ in.tool = "edit" /\ in.old # <<>>
    <3> DEFINE n == Cardinality(Replaced)
               edited == [ok |-> TRUE, made |-> n, text |-> Rewritten]
    <3>1. out' = IF in.old = in.new \/ n = 0 \/ (n > 1 /\ ~in.all) THEN Refused
                 ELSE edited
      BY <2>2, <2>8, EditReplaces
    <3>2. /\ n \in Nat /\ (n = 0 <=> Places = {})
          /\ Cardinality(Places) = 1 => n <= 1
      BY <2>8, ReplacedSome
    <3>3. Refused # edited
      <4>1. Refused.ok = FALSE /\ edited.ok = TRUE
        BY DEF Refused
      <4> HIDE DEF edited
      <4> QED  BY <4>1
    <3> HIDE DEF n, edited
    <3>4. Cardinality(Places) = 1 => Places # {}
      BY FS_EmptySet
    <3>5. /\ out' # Refused => out' = edited
          /\ in.old = in.new \/ Places = {} \/ (n > 1 /\ ~in.all) => out' = Refused
          /\ in.old # in.new /\ Places # {} /\ (in.all \/ Cardinality(Places) = 1)
               => out' # Refused
      BY <3>1, <3>2, <3>3, <3>4
    <3> QED
      BY <2>1, <2>3, <2>4, <3>5 DEF EditIsExact, Called, n, edited, Refused
  <2> QED  BY <2>5, <2>6, <2>7, <2>8
<1>3. Inv => EditIsExact
  OBVIOUS
<1> QED BY <1>1, <1>2, <1>3, PTL DEF TextsSpec

----------------------------------------------------------------------------
(* extractJSON.                                                            *)

\* A character is escaped by a backslash before it that is not escaped itself.
LEMMA EscapedNext ==
  ASSUME NEW o, NEW i \in Nat \ {0}
  PROVE  Escaped(o, i + 1) <=> o[i] = "backslash" /\ ~Escaped(o, i)
<1> DEFINE Run(n, k) == /\ k \in 1 .. n - 1 /\ (n - k) % 2 = 1
                        /\ \A j \in k .. n - 1 : o[j] = "backslash"
                        /\ k = 1 \/ o[k - 1] # "backslash"
<1>0. \A n : Escaped(o, n) <=> \E k : Run(n, k)
  BY DEF Escaped
<1>1. ASSUME NEW k, Run(i + 1, k) PROVE o[i] = "backslash" /\ ~Escaped(o, i)
  <2>1. k \in 1 .. i /\ (i + 1 - k) % 2 = 1 /\ \A j \in k .. i : o[j] = "backslash"
    BY <1>1
  <2>2. o[i] = "backslash"
    BY <2>1
  <2>3. ASSUME NEW l, Run(i, l) PROVE FALSE
    <3>1. l \in 1 .. i - 1 /\ \A j \in l .. i - 1 : o[j] = "backslash"
      BY <2>3
    <3>2. CASE k < l
      <4>1. l - 1 \in k .. i
        BY <2>1, <3>1, <3>2
      <4> QED BY <2>1, <2>3, <3>1, <3>2, <4>1
    <3>3. CASE l < k
      <4>1. k - 1 \in l .. i - 1 /\ k # 1
        BY <2>1, <3>1, <3>3
      <4> QED BY <1>1, <3>1, <4>1
    <3>4. CASE k = l
      <4>1. (i - k) % 2 = 1 /\ (i + 1 - k) % 2 = 1
        BY <2>1, <2>3, <3>4
      <4> QED BY <2>1, <4>1
    <3> QED BY <2>1, <3>1, <3>2, <3>3, <3>4
  <2> HIDE DEF Run
  <2> QED BY <1>0, <2>2, <2>3
<1>2. ASSUME o[i] = "backslash", ~Escaped(o, i) PROVE \E k : Run(i + 1, k)
  <2> DEFINE Starting == {k \in 1 .. i : \A j \in k .. i : o[j] = "backslash"}
  <2>1. i \in Starting /\ Starting \subseteq Nat
    BY <1>2
  <2>2. PICK k \in Starting : \A l \in Starting : k <= l
    <3> HIDE DEF Starting
    <3> QED BY <2>1, FirstOf
  <2>3. k \in 1 .. i /\ \A j \in k .. i : o[j] = "backslash"
    OBVIOUS
  <2>4. k = 1 \/ o[k - 1] # "backslash"
    <3>1. SUFFICES ASSUME k # 1, o[k - 1] = "backslash" PROVE FALSE
      OBVIOUS
    <3>2. k - 1 \in 1 .. i /\ \A j \in k - 1 .. i : j = k - 1 \/ j \in k .. i
      BY <2>3, <3>1
    <3>3. k - 1 \in Starting
      BY <2>3, <3>1, <3>2
    <3> HIDE DEF Starting
    <3> QED BY <2>2, <2>3, <3>3
  <2>5. CASE (i + 1 - k) % 2 = 1
    <3>1. Run(i + 1, k)
      BY <2>3, <2>4, <2>5
    <3> QED BY <3>1
  <2>6. CASE (i + 1 - k) % 2 # 1
    <3>1. (i - k) % 2 = 1 /\ k # i
      BY <2>3, <2>6
    <3>2. Run(i, k)
      BY <2>3, <2>4, <3>1
    <3> HIDE DEF Run
    <3> QED BY <1>0, <1>2, <3>2
  <2> QED BY <2>5, <2>6
<1> HIDE DEF Run
<1> QED BY <1>0, <1>1, <1>2

\* Counting up to a position is counting up to the one before it, and it.
LEMMA CountNext ==
  ASSUME NEW Q, NEW i \in Nat \ {0}
  PROVE  /\ Cardinality({j \in 1 .. i - 1 : j \in Q}) \in Nat
         /\ Cardinality({j \in 1 .. i : j \in Q}) \in Nat
         /\ Cardinality({j \in 1 .. i : j \in Q})
              = Cardinality({j \in 1 .. i - 1 : j \in Q}) + (IF i \in Q THEN 1 ELSE 0)
<1> DEFINE before == {j \in 1 .. i - 1 : j \in Q}
           upto == {j \in 1 .. i : j \in Q}
<1>1. IsFiniteSet(before) /\ IsFiniteSet(upto)
  <2>1. IsFiniteSet(1 .. i)
    BY FS_Interval
  <2>2. before \subseteq 1 .. i /\ upto \subseteq 1 .. i
    OBVIOUS
  <2> QED BY <2>1, <2>2, FS_Subset
<1>2. i \notin before
  OBVIOUS
<1>3. upto = IF i \in Q THEN before \cup {i} ELSE before
  OBVIOUS
<1> HIDE DEF before, upto
<1>4. Cardinality(before) \in Nat /\ Cardinality(upto) \in Nat
  BY <1>1, FS_CardinalityType
<1>5. Cardinality(upto) = Cardinality(before) + (IF i \in Q THEN 1 ELSE 0)
  BY <1>1, <1>2, <1>3, <1>4, FS_AddElement
<1> QED BY <1>4, <1>5 DEF before, upto

\* A quote that is not escaped begins or ends a string.
LEMMA InStringNext ==
  ASSUME NEW o, NEW i \in Nat \ {0}
  PROVE  /\ InString(o, i) <=> IF o[i] = "quote" /\ ~Escaped(o, i)
                               THEN ~InString(o, i - 1) ELSE InString(o, i - 1)
         /\ ~InString(o, 0)
<1> DEFINE Q == {j \in Nat : o[j] = "quote" /\ ~Escaped(o, j)}
           n(k) == Cardinality({j \in 1 .. k : j \in Q})
<1>1. \A k \in Nat : {j \in 1 .. k : o[j] = "quote" /\ ~Escaped(o, j)} = {j \in 1 .. k : j \in Q}
  OBVIOUS
<1>2. \A k \in Nat : InString(o, k) <=> n(k) % 2 = 1
  BY <1>1 DEF InString
<1>3. n(i) \in Nat /\ n(i - 1) \in Nat /\ n(i) = n(i - 1) + (IF i \in Q THEN 1 ELSE 0)
  <2> HIDE DEF Q
  <2> QED BY CountNext
<1>4. n(0) = 0
  <2>1. {j \in 1 .. 0 : j \in Q} = {}
    OBVIOUS
  <2> HIDE DEF Q
  <2> QED BY <2>1, FS_EmptySet
<1>5. i \in Q <=> o[i] = "quote" /\ ~Escaped(o, i)
  OBVIOUS
<1> HIDE DEF n, Q
<1> QED BY <1>2, <1>3, <1>4, <1>5

\* A brace outside strings opens or closes a level.
LEMMA DepthNext ==
  ASSUME NEW o, NEW i \in Nat \ {0}
  PROVE  /\ Depth(o, i) = Depth(o, i - 1) + (IF InString(o, i) THEN 0 ELSE Turn(o[i]))
         /\ Depth(o, i) \in Int /\ Depth(o, i - 1) \in Int
         /\ Depth(o, 0) = 0
<1> DEFINE Opening == {j \in Nat : o[j] = "{" /\ ~InString(o, j)}
           Closing == {j \in Nat : o[j] = "}" /\ ~InString(o, j)}
           opened(k) == Cardinality({j \in 1 .. k : j \in Opening})
           closed(k) == Cardinality({j \in 1 .. k : j \in Closing})
<1>1. ASSUME NEW b, NEW k \in Nat
      PROVE  {j \in 1 .. k : o[j] = b /\ ~InString(o, j)}
               = {j \in 1 .. k : j \in {l \in Nat : o[l] = b /\ ~InString(o, l)}}
  OBVIOUS
<1>2. \A k \in Nat : Depth(o, k) = opened(k) - closed(k)
  BY <1>1 DEF Depth
<1>3. /\ opened(i) \in Nat /\ opened(i - 1) \in Nat
      /\ opened(i) = opened(i - 1) + (IF i \in Opening THEN 1 ELSE 0)
  <2> HIDE DEF Opening
  <2> QED BY CountNext
<1>4. /\ closed(i) \in Nat /\ closed(i - 1) \in Nat
      /\ closed(i) = closed(i - 1) + (IF i \in Closing THEN 1 ELSE 0)
  <2> HIDE DEF Closing
  <2> QED BY CountNext
<1>5. opened(0) = 0 /\ closed(0) = 0
  <2>1. {j \in 1 .. 0 : j \in Opening} = {} /\ {j \in 1 .. 0 : j \in Closing} = {}
    OBVIOUS
  <2> HIDE DEF Opening, Closing
  <2> QED BY <2>1, FS_EmptySet
<1>6. /\ i \in Opening <=> o[i] = "{" /\ ~InString(o, i)
      /\ i \in Closing <=> o[i] = "}" /\ ~InString(o, i)
  OBVIOUS
<1>7. Turn(o[i]) = IF o[i] = "{" THEN 1 ELSE IF o[i] = "}" THEN -1 ELSE 0
  BY DEF Turn
<1> HIDE DEF opened, closed, Opening, Closing
<1>8. /\ Depth(o, i) = opened(i) - closed(i) /\ Depth(o, 0) = opened(0) - closed(0)
      /\ Depth(o, i - 1) = opened(i - 1) - closed(i - 1)
  BY <1>2
<1>9. Depth(o, i) \in Int /\ Depth(o, i - 1) \in Int /\ Depth(o, 0) = 0
  BY <1>3, <1>4, <1>5, <1>8
<1>10. CASE i \in Opening
  <2>1. i \notin Closing /\ ~InString(o, i) /\ Turn(o[i]) = 1
    BY <1>6, <1>7, <1>10
  <2> QED BY <1>3, <1>4, <1>8, <1>9, <1>10, <2>1
<1>11. CASE i \in Closing
  <2>1. i \notin Opening /\ ~InString(o, i) /\ Turn(o[i]) = -1
    BY <1>6, <1>7, <1>11
  <2> QED BY <1>3, <1>4, <1>8, <1>9, <1>11, <2>1
<1>12. CASE i \notin Opening /\ i \notin Closing
  <2>1. InString(o, i) \/ Turn(o[i]) = 0
    BY <1>6, <1>7, <1>12
  <2> QED BY <1>3, <1>4, <1>8, <1>9, <1>12, <2>1
<1> QED BY <1>10, <1>11, <1>12

\* The states of the loop over the characters.
ScanStates == [depth : Int, inString : BOOLEAN, escaped : BOOLEAN, end : Nat]

\* A character takes the loop from state to state.
LEMMA ScanCharType ==
  ASSUME NEW s \in ScanStates, NEW ch, NEW i \in Nat
  PROVE  ScanChar(s, ch, i) \in ScanStates
<1>1. Turn(ch) \in Int
  BY DEF Turn
<1>2. Nest(s, ch, i) \in ScanStates
  <2> DEFINE d == s.depth + Turn(ch)
             e == IF s.depth + Turn(ch) = 0 THEN i ELSE 0
  <2>1. d \in Int /\ e \in Nat
    BY <1>1 DEF ScanStates
  <2>2. Nest(s, ch, i) = [s EXCEPT !.depth = d, !.end = e]
    BY DEF Nest
  <2> HIDE DEF d, e
  <2> QED BY <2>1, <2>2 DEF ScanStates
<1> QED BY <1>2 DEF ScanChar, ScanStates

\* What the loop knows when it has read the first i characters of an object.
Knows(s, o, i) ==
  /\ s.depth = Depth(o, i) /\ (s.inString <=> InString(o, i))
  /\ s.escaped <=> InString(o, i) /\ Escaped(o, i + 1)
  /\ s.end = IF i = Len(o) THEN i ELSE 0

\* Reading the next character of an object keeps what the loop knows true of it:
\* the loop ends at the object's last character and at no other.
LEMMA ScanCharKnows ==
  ASSUME NEW o, IsObject(o), Len(o) \in Nat, DOMAIN o = 1 .. Len(o), NEW i \in 1 .. Len(o),
         NEW s \in ScanStates, Knows(s, o, i - 1)
  PROVE  Knows(ScanChar(s, o[i], i), o, i)
<1> DEFINE r == ScanChar(s, o[i], i)
           quoted == o[i] = "quote" /\ ~Escaped(o, i)
<1>1. s.end = 0 /\ i \in Nat \ {0}
  BY DEF Knows
<1>2. /\ s.depth = Depth(o, i - 1) /\ (s.inString <=> InString(o, i - 1))
      /\ s.escaped <=> InString(o, i - 1) /\ Escaped(o, i)
  BY DEF Knows
<1>3. Escaped(o, i + 1) <=> o[i] = "backslash" /\ ~Escaped(o, i)
  BY <1>1, EscapedNext
<1>4. InString(o, i) <=> IF quoted THEN ~InString(o, i - 1) ELSE InString(o, i - 1)
  BY <1>1, InStringNext
<1>5. /\ Depth(o, i) = Depth(o, i - 1) + (IF InString(o, i) THEN 0 ELSE Turn(o[i]))
      /\ Depth(o, i) \in Int /\ Depth(o, i - 1) \in Int
  BY <1>1, DepthNext
<1>6. (Depth(o, i) = 0 <=> i = Len(o)) /\ (Depth(o, i - 1) = 0 /\ i # 1 => FALSE)
  <2>1. i # 1 => i - 1 \in DOMAIN o /\ i - 1 # Len(o)
    OBVIOUS
  <2> QED BY <2>1 DEF IsObject
<1>7. o[i] = "backslash" => InString(o, i)
  BY DEF IsObject
<1>8. Escaped(o, i) => InString(o, i - 1)
  <2>1. SUFFICES ASSUME Escaped(o, i) PROVE InString(o, i - 1)
    OBVIOUS
  <2>2. i # 1
    BY <2>1 DEF Escaped
  <2>3. i - 1 \in Nat \ {0} /\ i - 1 \in DOMAIN o
    BY <1>1, <2>2
  <2>4. o[i - 1] = "backslash"
    BY <2>1, <2>3, EscapedNext
  <2> QED BY <2>3, <2>4 DEF IsObject
<1>9. Turn(o[i]) \in Int
  BY DEF Turn
<1>10. o[i] \in {"quote", "backslash"} => Turn(o[i]) = 0
  BY DEF Turn
<1>a. (InString(o, i - 1) \/ o[i] = "quote") /\ Depth(o, i) = Depth(o, i - 1) => i # Len(o)
  <2>1. ~InString(o, 0)
    BY <1>1, InStringNext
  <2>2. o[1] # "quote"
    BY DEF IsObject
  <2>3. InString(o, i - 1) \/ o[i] = "quote" => i # 1
    BY <2>1, <2>2
  <2> QED BY <1>1, <1>5, <1>6, <2>3
<1>b. r \in ScanStates
  BY <1>1, ScanCharType
<1>11. CASE s.escaped
  <2>1. r = [s EXCEPT !.escaped = FALSE]
    BY <1>1, <1>11 DEF ScanChar
  <2>2. InString(o, i) /\ ~Escaped(o, i + 1) /\ Depth(o, i) = Depth(o, i - 1)
    BY <1>2, <1>3, <1>4, <1>5, <1>11
  <2>3. i # Len(o)
    BY <1>2, <1>11, <1>a, <2>2
  <2>4. r.depth = s.depth /\ r.inString = s.inString /\ ~r.escaped /\ r.end = 0
    BY <1>1, <2>1 DEF ScanStates
  <2> QED BY <1>2, <1>11, <2>2, <2>3, <2>4 DEF Knows
<1>12. CASE ~s.escaped /\ o[i] = "backslash" /\ s.inString
  <2>1. r = [s EXCEPT !.escaped = TRUE]
    BY <1>1, <1>12 DEF ScanChar
  <2>2. InString(o, i) /\ Escaped(o, i + 1) /\ Depth(o, i) = Depth(o, i - 1)
    BY <1>2, <1>3, <1>4, <1>5, <1>12
  <2>3. i # Len(o)
    BY <1>2, <1>12, <1>a, <2>2
  <2>4. r.depth = s.depth /\ r.inString = s.inString /\ r.escaped /\ r.end = 0
    BY <1>1, <2>1 DEF ScanStates
  <2> QED BY <1>2, <1>12, <2>2, <2>3, <2>4 DEF Knows
<1>13. CASE ~s.escaped /\ o[i] = "quote"
  <2>1. r = [s EXCEPT !.inString = ~@]
    BY <1>1, <1>13 DEF ScanChar
  <2>2. /\ ~Escaped(o, i) /\ ~Escaped(o, i + 1) /\ (InString(o, i) <=> ~InString(o, i - 1))
        /\ Depth(o, i) = Depth(o, i - 1)
    BY <1>2, <1>3, <1>4, <1>5, <1>8, <1>10, <1>13
  <2>3. i # Len(o)
    BY <1>13, <1>a, <2>2
  <2>4. r.depth = s.depth /\ r.inString = ~s.inString /\ ~r.escaped /\ r.end = 0
    BY <1>1, <1>13, <2>1 DEF ScanStates
  <2> QED BY <1>2, <2>2, <2>3, <2>4 DEF Knows
<1>14. CASE ~s.escaped /\ o[i] \notin {"quote", "backslash"} /\ s.inString
  <2>1. r = s
    BY <1>1, <1>14 DEF ScanChar
  <2>2. InString(o, i) /\ ~Escaped(o, i + 1) /\ Depth(o, i) = Depth(o, i - 1)
    BY <1>2, <1>3, <1>4, <1>5, <1>14
  <2>3. i # Len(o)
    BY <1>2, <1>14, <1>a, <2>2
  <2> QED BY <1>1, <1>2, <1>14, <2>1, <2>2, <2>3 DEF Knows
<1>15. CASE ~s.escaped /\ o[i] # "quote" /\ ~s.inString
  <2>1. r = Nest(s, o[i], i)
    BY <1>1, <1>15 DEF ScanChar
  <2>2. ~InString(o, i) /\ Depth(o, i) = Depth(o, i - 1) + Turn(o[i])
    BY <1>2, <1>3, <1>4, <1>5, <1>15
  <2>3. /\ r.depth = s.depth + Turn(o[i]) /\ r.inString = s.inString
        /\ r.escaped = s.escaped
        /\ r.end = IF s.depth + Turn(o[i]) = 0 THEN i ELSE 0
    BY <2>1 DEF Nest, ScanStates
  <2> QED BY <1>2, <1>6, <1>15, <2>2, <2>3 DEF Knows
<1> QED BY <1>2, <1>11, <1>12, <1>13, <1>14, <1>15

\* The fold of the loop over a text.
ScanOf(t) ==
  CHOOSE scan : scan = [i \in 0 .. Len(t) |->
    IF i = 0 THEN ScanStart ELSE ScanChar(scan[i - 1], t[i], i)]

\* The loop has a state after each character, and stays where it has ended.
Scans(scan, t) ==
  /\ scan[0] = ScanStart
  /\ \A i \in 1 .. Len(t) : scan[i] = ScanChar(scan[i - 1], t[i], i)

\* The recursive function of the loop exists and has its equation.
LEMMA ScanOfIs ==
  ASSUME NEW S, NEW t \in Seq(S)
  PROVE  ScanOf(t) \in [0 .. Len(t) -> ScanStates] /\ Scans(ScanOf(t), t)
<1> DEFINE L == Len(t)
           D == 0 .. Len(t)
           Is(scan) == scan = [i \in 0 .. Len(t) |->
                         IF i = 0 THEN ScanStart ELSE ScanChar(scan[i - 1], t[i], i)]
           rank == [i \in D |-> i]
           base == [i \in D |-> ScanStart]
           back == [i \in D \ {0} |-> i - 1]
           op == [i \in D |-> [s \in ScanStates |-> ScanChar(s, t[i], i)]]
<1>1. ScanStart \in ScanStates
  BY DEF ScanStart, ScanStates
<1>2. L \in Nat /\ rank \in [D -> 0 .. L] /\ {0} \in SUBSET D /\ base \in [D -> ScanStates]
  BY <1>1
<1>3. back \in [D \ {0} -> D] /\ \A i \in D \ {0} : rank[back[i]] < rank[i]
  OBVIOUS
<1>4. op \in [D -> [ScanStates -> ScanStates]]
  BY ScanCharType
<1>5. PICK f \in [D -> ScanStates] : Solves(f, D, {0}, base, back, op)
  <2> HIDE DEF L, D, rank, base, back, op
  <2> QED BY <1>2, <1>3, <1>4, Recursion
<1>6. ASSUME NEW i \in D
      PROVE  f[i] = IF i = 0 THEN ScanStart ELSE ScanChar(f[i - 1], t[i], i)
  <2>1. f[i] = IF i \in {0} THEN base[i] ELSE op[i][f[back[i]]]
    BY <1>5 DEF Solves
  <2>2. i # 0 => i - 1 \in D
    OBVIOUS
  <2>3. i # 0 => op[i][f[back[i]]] = ScanChar(f[i - 1], t[i], i)
    BY <2>2
  <2> QED BY <2>1, <2>3
<1>7. Is(f)
  <2> DEFINE g == [i \in D |-> IF i = 0 THEN ScanStart ELSE ScanChar(f[i - 1], t[i], i)]
  <2>1. g = [i \in D |-> f[i]]
    BY <1>6
  <2> QED BY <2>1
<1>8. Is(ScanOf(t))
  BY <1>7 DEF ScanOf
<1> DEFINE scan == ScanOf(t)
<1>9. \A i \in D : scan[i] = IF i = 0 THEN ScanStart ELSE ScanChar(scan[i - 1], t[i], i)
  <2> HIDE DEF scan
  <2> QED BY <1>8 DEF scan
<1>10. Scans(scan, t)
  <2> HIDE DEF scan
  <2> QED BY <1>2, <1>9 DEF Scans
<1>11. scan = [i \in D |-> scan[i]]
  BY <1>8
<1>12. \A i \in D : scan[i] \in ScanStates
  <2> DEFINE Bad == {i \in D : scan[i] \notin ScanStates}
  <2>1. SUFFICES ASSUME Bad # {} PROVE FALSE
    OBVIOUS
  <2>2. Bad \subseteq Nat
    OBVIOUS
  <2>3. PICK i \in Bad : \A j \in Bad : i <= j
    <3> HIDE DEF Bad
    <3> QED BY <2>1, <2>2, FirstOf
  <2>4. i \in D /\ scan[i] \notin ScanStates
    OBVIOUS
  <2>5. i # 0
    <3> HIDE DEF scan
    <3> QED BY <1>1, <1>9, <2>4
  <2>6. i - 1 \in D /\ i - 1 \notin Bad
    <3>1. i - 1 \in D /\ i \in Nat
      BY <2>4, <2>5
    <3> HIDE DEF Bad
    <3> QED BY <2>3, <3>1
  <2>7. scan[i - 1] \in ScanStates
    BY <2>6
  <2> HIDE DEF scan
  <2> QED BY <1>9, <2>4, <2>5, <2>7, ScanCharType
<1> HIDE DEF scan
<1>13. scan \in [D -> ScanStates]
  BY <1>11, <1>12
<1> QED BY <1>10, <1>13 DEF scan

\* An object has a first character.
LEMMA ObjectIs ==
  ASSUME NEW S, NEW o \in Seq(S), IsObject(o)
  PROVE  Len(o) \in Nat \ {0} /\ DOMAIN o = 1 .. Len(o) /\ o[1] \in S
<1>1. Len(o) > 0
  BY DEF IsObject
<1> QED BY <1>1, ElementOfSeq

\* What is in an interval and is not its first is behind another of it.
LEMMA NotTheFirst ==
  ASSUME NEW a \in Nat \ {0}, NEW b \in Nat, NEW i \in a .. b, i # a
  PROVE  i - 1 \in a .. b /\ i \in 1 .. b /\ i - 1 < i
OBVIOUS

\* Over a text that begins with an object, the loop ends at the object's last
\* character.
LEMMA ScanEnds ==
  ASSUME NEW S, NEW t \in Seq(S), NEW o \in Seq(S), IsObject(o), Len(o) <= Len(t),
         \A i \in 1 .. Len(o) : t[i] = o[i]
  PROVE  ScanOf(t)[Len(t)].end = Len(o)
<1> DEFINE scan == ScanOf(t)
           Wrong == {i \in 0 .. Len(o) : ~Knows(scan[i], o, i)}
           Moved == {i \in Len(o) .. Len(t) : scan[i].end # Len(o)}
<1>1. /\ \A i \in 0 .. Len(t) : scan[i] \in ScanStates
      /\ scan[0] = ScanStart
      /\ \A i \in 1 .. Len(t) : scan[i] = ScanChar(scan[i - 1], t[i], i)
  BY ScanOfIs DEF Scans
<1>2. Len(o) \in Nat \ {0} /\ Len(t) \in Nat /\ DOMAIN o = 1 .. Len(o)
  BY ObjectIs
<1> HIDE DEF scan
<1>3. Knows(scan[0], o, 0)
  <2>1. Depth(o, 0) = 0 /\ ~InString(o, 0)
    BY DepthNext, InStringNext
  <2> QED BY <1>1, <1>2, <2>1 DEF Knows, ScanStart
<1>4. Wrong = {}
  <2>1. SUFFICES ASSUME Wrong # {} PROVE FALSE
    OBVIOUS
  <2>2. Wrong \subseteq Nat
    BY <1>2
  <2>3. PICK i \in Wrong : \A j \in Wrong : i <= j
    <3> HIDE DEF Wrong
    <3> QED BY <2>1, <2>2, FirstOf
  <2>4. i \in 1 .. Len(o) /\ ~Knows(scan[i], o, i)
    BY <1>3, <2>2
  <2>5. i - 1 \in 0 .. Len(o) /\ i - 1 \notin Wrong
    <3>1. i - 1 \in 0 .. Len(o) /\ i \in Nat
      BY <1>2, <2>4
    <3> HIDE DEF Wrong
    <3> QED BY <2>3, <3>1
  <2>6. Knows(scan[i - 1], o, i - 1)
    BY <2>5
  <2>7. scan[i] = ScanChar(scan[i - 1], o[i], i) /\ scan[i - 1] \in ScanStates
    BY <1>1, <1>2, <2>4, <2>5
  <2> QED BY <1>2, <2>4, <2>6, <2>7, ScanCharKnows
<1>5. scan[Len(o)].end = Len(o)
  <2>1. Len(o) \in 0 .. Len(o)
    BY <1>2
  <2>2. Knows(scan[Len(o)], o, Len(o))
    BY <1>4, <2>1
  <2> QED BY <2>2 DEF Knows
<1>6. Moved = {}
  <2>1. SUFFICES ASSUME Moved # {} PROVE FALSE
    OBVIOUS
  <2>2. Moved \subseteq Nat
    BY <1>2
  <2>3. PICK i \in Moved : \A j \in Moved : i <= j
    <3> HIDE DEF Moved
    <3> QED BY <2>1, <2>2, FirstOf
  <2>4. i \in Len(o) .. Len(t) /\ i # Len(o) /\ scan[i].end # Len(o)
    BY <1>5
  <2> HIDE DEF Moved
  <2> HIDE DEF Wrong
  <2>5. i - 1 \in Len(o) .. Len(t) /\ i \in 1 .. Len(t) /\ i - 1 < i
    BY <1>2, <2>4, NotTheFirst
  <2>6. scan[i - 1].end = Len(o)
    <3>1. i - 1 \notin Moved
      BY <2>2, <2>3, <2>5
    <3> QED BY <2>5, <3>1 DEF Moved
  <2>7. scan[i] = scan[i - 1]
    BY <1>1, <1>2, <2>5, <2>6 DEF ScanChar
  <2> QED BY <2>4, <2>6, <2>7
<1> QED BY <1>2, <1>6 DEF scan

\* No object begins another.
LEMMA NoneBegins ==
  ASSUME NEW S, NEW o \in Seq(S), NEW p \in Seq(S), IsObject(o), IsObject(p),
         Len(p) <= Len(o), \A i \in 1 .. Len(p) : o[i] = p[i]
  PROVE  p = o
<1>1. ScanOf(o)[Len(o)].end = Len(p)
  BY ScanEnds
<1>2. ScanOf(o)[Len(o)].end = Len(o)
  BY ScanEnds
<1> QED BY <1>1, <1>2, SeqEqual

\* Where a character is first, from a position on.
FindsChar(t, c, pos) ==
  LET i == IndexOf(t, <<c>>, pos) IN
  \/ i = 0 /\ \A j \in 1 .. Len(t) : t[j] = c => j < pos
  \/ /\ i \in 1 .. Len(t) /\ i >= pos /\ t[i] = c
     /\ \A j \in 1 .. Len(t) : t[j] = c /\ j >= pos => i <= j

\* indexOf of one character finds it where it is first.
LEMMA IndexOfChar ==
  ASSUME NEW S, NEW t \in Seq(S), NEW c \in S, NEW pos \in Nat \ {0}
  PROVE  FindsChar(t, c, pos)
<1>1. At(t, <<c>>) = {i \in 1 .. Len(t) : t[i] = c}
  BY DEF At
<1>2. <<c>> \in Seq(S) /\ <<c>> # <<>>
  OBVIOUS
<1> QED BY <1>1, <1>2, IndexOfFinds DEF IsFirst, FindsChar

\* The scan begins behind prose without a brace, and ends at the object's end.
Isolates(p, o, a, open) ==
  LET t == p \o o \o a
      start == IndexOf(t, <<open>>, 1)
      tail == From(t, start)
  IN  /\ start # 0 /\ ScanOf(tail)[Len(tail)].end # 0
      /\ SubSeq(tail, 1, ScanOf(tail)[Len(tail)].end) = o

LEMMA BehindProse ==
  ASSUME NEW S, NEW p \in Seq(S), NEW o \in Seq(S), NEW a \in Seq(S), IsObject(o),
         NEW open, o[1] = open, \A i \in 1 .. Len(p) : p[i] # open
  PROVE  Isolates(p, o, a, open)
<1> DEFINE t == p \o o \o a
           start == IndexOf(t, <<open>>, 1)
           tail == From(t, start)
<1>1. Len(o) \in Nat \ {0} /\ Len(p) \in Nat /\ Len(a) \in Nat /\ open \in S
  BY ObjectIs
<1>2. /\ t \in Seq(S) /\ Len(t) = Len(p) + Len(o) + Len(a)
      /\ \A i \in 1 .. Len(p) : t[i] = p[i]
      /\ \A i \in 1 .. Len(o) : t[Len(p) + i] = o[i]
  BY ConcatProperties
<1> HIDE DEF t
<1>3. start = Len(p) + 1
  <2>1. Len(p) + 1 \in 1 .. Len(t) /\ t[Len(p) + 1] = open
    BY <1>1, <1>2
  <2>2. start \in 1 .. Len(t) /\ t[start] = open /\ start <= Len(p) + 1
    <3>1. FindsChar(t, open, 1)
      BY <1>1, <1>2, IndexOfChar
    <3>2. \/ start = 0 /\ \A j \in 1 .. Len(t) : t[j] = open => j < 1
          \/ /\ start \in 1 .. Len(t) /\ t[start] = open
             /\ \A j \in 1 .. Len(t) : t[j] = open /\ j >= 1 => start <= j
      BY <3>1, Zenon DEF FindsChar
    <3> HIDE DEF start
    <3>3. Len(p) + 1 >= 1 /\ ~(Len(p) + 1 < 1)
      BY <1>1
    <3> QED BY <2>1, <3>2, <3>3, Zenon
  <2> HIDE DEF start
  <2>3. start \notin 1 .. Len(p)
    BY <1>2, <2>2
  <2> QED BY <1>1, <2>2, <2>3
<1> HIDE DEF start
<1>4. /\ tail \in Seq(S) /\ Len(tail) = Len(o) + Len(a)
      /\ \A i \in 1 .. Len(o) : tail[i] = o[i]
  <2>1. tail = SubSeq(t, Len(p) + 1, Len(t)) /\ Len(t) \in Nat
    BY <1>2, <1>3 DEF From
  <2> HIDE DEF tail
  <2>2. tail \in Seq(S) /\ Len(tail) = Len(t) - Len(p)
    BY <1>1, <1>2, <2>1
  <2>3. ASSUME NEW i \in 1 .. Len(o) PROVE tail[i] = t[Len(p) + i]
    BY <1>1, <1>2, <2>1
  <2> QED BY <1>1, <1>2, <2>2, <2>3
<1> HIDE DEF tail
<1>5. ScanOf(tail)[Len(tail)].end = Len(o)
  <2>1. Len(o) <= Len(tail)
    BY <1>1, <1>4
  <2> QED BY <1>4, <2>1, ScanEnds
<1>6. SubSeq(tail, 1, Len(o)) = o
  BY <1>1, <1>4, SeqEqual
<1> QED BY <1>1, <1>3, <1>5, <1>6 DEF t, start, tail, Isolates

\* The scan finds an object behind prose without a brace.
LEMMA ScanFinds ==
  ASSUME NEW S, NEW p \in Seq(S), NEW o \in Seq(S), NEW a \in Seq(S), IsObject(o),
         \A i \in 1 .. Len(p) : p[i] # "{"
  PROVE  Scan(p \o o \o a) = o
<1> DEFINE t == p \o o \o a
           start == IndexOf(t, <<"{">>, 1)
           tail == From(t, start)
<1>1. o[1] = "{"
  BY DEF IsObject
<1>2. Isolates(p, o, a, "{")
  BY <1>1, BehindProse, Zenon
<1>3. Scan(t) = IF start = 0 \/ ScanOf(tail)[Len(tail)].end = 0 THEN <<>>
                ELSE SubSeq(tail, 1, ScanOf(tail)[Len(tail)].end)
  BY Zenon DEF Scan, ScanOf
<1> QED BY <1>2, <1>3, Zenon DEF Isolates

\* An answer that is an object, but for prose, is the object.
LEMMA WholeIsObject ==
  ASSUME NEW S, NEW p \in Seq(S), NEW o \in Seq(S), NEW a \in Seq(S),
         IsObject(o), IsObject(p \o o \o a), NEW open, o[1] = open,
         (p \o o \o a)[1] = open, \A i \in 1 .. Len(p) : p[i] # open
  PROVE  p \o o \o a = o
<1> DEFINE t == p \o o \o a
<1>1. /\ t \in Seq(S) /\ Len(t) = Len(p) + Len(o) + Len(a)
      /\ \A i \in 1 .. Len(p) : t[i] = p[i]
      /\ \A i \in 1 .. Len(o) : t[Len(p) + i] = o[i]
  BY ConcatProperties
<1>2. Len(p) \in Nat /\ Len(o) \in Nat /\ Len(a) \in Nat
  OBVIOUS
<1>3. IsObject(t) /\ t[1] = open
  OBVIOUS
<1> HIDE DEF t
<1>4. Len(p) = 0
  BY <1>1, <1>2, <1>3
<1>5. Len(o) <= Len(t) /\ \A i \in 1 .. Len(o) : t[i] = o[i]
  BY <1>1, <1>2, <1>4
<1>6. o = t
  BY <1>1, <1>3, <1>5, NoneBegins
<1> QED BY <1>6 DEF t

\* Without a fence nothing is between two.
LEMMA NoneFenced ==
  ASSUME NEW S, NEW t \in Seq(S), \A i \in 1 .. Len(t) : t[i] # "fence"
  PROVE  Fenced(t) = <<>>
<1>1. t \in Seq(S \cup {"fence"})
  BY ElementOfSeq
<1>2. FindsChar(t, "fence", 1)
  BY <1>1, IndexOfChar
<1>3. IndexOf(t, <<"fence">>, 1) = 0
  BY <1>2 DEF FindsChar
<1> QED BY <1>3 DEF Fenced

\* The first fence is the one before the object, and the next is the one behind
\* it or in one of its strings: what is between them begins as the object does.
BeginOf(f, S, o) ==
  f \in Seq(S) /\ Len(f) <= Len(o) /\ \A k \in 1 .. Len(f) : o[k] = f[k]

LEMMA FencedIsPrefix ==
  ASSUME NEW S, NEW b \in Seq(S), NEW o \in Seq(S), NEW a \in Seq(S), "fence" \in S,
         \A i \in 1 .. Len(b) : b[i] # "fence"
  PROVE  BeginOf(Fenced((b \o <<"fence">>) \o o \o (<<"fence">> \o a)), S, o)
<1> DEFINE t == (b \o <<"fence">>) \o o \o (<<"fence">> \o a)
           i == IndexOf(t, <<"fence">>, 1)
           j == IndexOf(t, <<"fence">>, i + 1)
           n == Len(b) + 1
<1>1. Len(b) \in Nat /\ Len(o) \in Nat /\ Len(a) \in Nat
  OBVIOUS
<1>2. /\ b \o <<"fence">> \in Seq(S) /\ Len(b \o <<"fence">>) = n
      /\ \A k \in 1 .. Len(b) : (b \o <<"fence">>)[k] = b[k]
      /\ (b \o <<"fence">>)[n] = "fence"
  BY <1>1
<1>3. /\ <<"fence">> \o a \in Seq(S) /\ Len(<<"fence">> \o a) = 1 + Len(a)
      /\ (<<"fence">> \o a)[1] = "fence"
  BY <1>1
<1>4. /\ t \in Seq(S) /\ Len(t) = n + Len(o) + 1 + Len(a)
      /\ \A k \in 1 .. n : t[k] = (b \o <<"fence">>)[k]
      /\ \A k \in 1 .. Len(o) : t[n + k] = o[k]
      /\ t[n + Len(o) + 1] = (<<"fence">> \o a)[1]
  BY <1>1, <1>2, <1>3, ConcatProperties
<1> HIDE DEF t
<1>6. i = n
  <2>1. n \in 1 .. Len(t) /\ t[n] = "fence"
    BY <1>1, <1>2, <1>4
  <2>2. i \in 1 .. Len(t) /\ t[i] = "fence" /\ i <= n
    <3>1. FindsChar(t, "fence", 1)
      BY <1>4, IndexOfChar
    <3> QED BY <1>1, <1>4, <2>1, <3>1 DEF FindsChar
  <2> HIDE DEF i
  <2>3. \A k \in 1 .. Len(b) : t[k] # "fence"
    <3>1. ASSUME NEW k \in 1 .. Len(b) PROVE t[k] = b[k]
      <4>1. k \in 1 .. n
        BY <1>1
      <4>2. t[k] = (b \o <<"fence">>)[k]
        BY <1>4, <4>1
      <4>3. (b \o <<"fence">>)[k] = b[k]
        BY <1>2
      <4> QED BY <4>2, <4>3
    <3> QED BY <3>1
  <2>4. i \notin 1 .. Len(b)
    BY <2>2, <2>3
  <2> QED BY <1>1, <2>2, <2>4
<1> HIDE DEF i
<1>7. j \in 1 .. Len(t) /\ j >= n + 1 /\ j <= n + Len(o) + 1
  <2>1. n + Len(o) + 1 \in 1 .. Len(t) /\ t[n + Len(o) + 1] = "fence"
    BY <1>1, <1>3, <1>4
  <2>2. i + 1 \in Nat \ {0} /\ i + 1 = n + 1
    BY <1>1, <1>6
  <2>3. FindsChar(t, "fence", i + 1)
    BY <1>4, <2>2, IndexOfChar
  <2> QED BY <1>1, <1>4, <2>1, <2>2, <2>3 DEF FindsChar
<1>8. Fenced(t) = SubSeq(t, n + 1, j - 1)
  <2>1. i # 0 /\ j # 0
    BY <1>1, <1>6, <1>7
  <2> QED BY <1>6, <2>1 DEF Fenced, i, j
<1> HIDE DEF j
<1> DEFINE f == Fenced(t)
<1>9. /\ f \in Seq(S) /\ Len(f) = j - 1 - n
      /\ \A k \in 1 .. Len(f) : f[k] = t[n + k]
  BY <1>1, <1>4, <1>7, <1>8
<1> HIDE DEF f
<1>10. Len(f) <= Len(o) /\ \A k \in 1 .. Len(f) : o[k] = f[k]
  BY <1>1, <1>4, <1>7, <1>9
<1>11. BeginOf(f, S, o)
  BY <1>9, <1>10 DEF BeginOf
<1> QED BY <1>11 DEF f, t

\* An answer is prose without a brace, the object and more prose; and neither the
\* whole of it nor what is in its first fence is another object.
NothingElseParses(b, o, a, f, open) ==
  LET t == b \o f \o o \o f \o a
      p == b \o f
      q == f \o a
      S == Chars \cup {"fence"}
  IN  /\ t = p \o o \o q
      /\ p \in Seq(S) /\ o \in Seq(S) /\ q \in Seq(S)
      /\ \A i \in 1 .. Len(p) : p[i] # open
      /\ Parses(t) /\ t \notin OtherValues => t = o
      /\ Parses(Fenced(t)) => Fenced(t) = o

\* When the object is behind prose without the brace that opens it, and is in a
\* fence or there is none, nothing else parses.
LEMMA OnlyObjectParses ==
  ASSUME NEW b \in Seq(Chars), NEW o \in Objects, NEW a \in Seq(Chars),
         NEW f \in {<<>>, <<"fence">>}, NEW open, open # "fence",
         \A x \in Objects : x[1] = open,
         \A v \in OtherValues : v # <<>> /\ v[1] # open,
         \A i \in 1 .. Len(b) : b[i] # open /\ b[i] # "fence",
         f = <<>> => \A i \in 1 .. Len(o \o a) : (o \o a)[i] # "fence"
  PROVE  NothingElseParses(b, o, a, f, open)
<1> DEFINE t == b \o f \o o \o f \o a
           p == b \o f
           q == f \o a
           S == Chars \cup {"fence"}
<1>1. Objects \subseteq Seq(Chars) /\ \A x \in Objects : IsObject(x)
  BY ObjectsAssumption
<1>2. Chars \subseteq S /\ "fence" \in S
  OBVIOUS
<1>3. /\ b \in Seq(S) /\ a \in Seq(S) /\ f \in Seq(S)
      /\ \A x \in Objects : x \in Seq(S)
  <2>1. \A s \in Seq(Chars) : s \in Seq(S)
    BY <1>2, ElementOfSeq
  <2>2. <<>> \in Seq(S) /\ <<"fence">> \in Seq(S)
    BY <1>2
  <2> QED BY <1>1, <2>1, <2>2
<1> HIDE DEF S
<1>4. p \in Seq(S) /\ q \in Seq(S) /\ o \in Seq(S)
  BY <1>3, ConcatProperties
<1>5. t = p \o o \o q
  BY <1>3, <1>4, ConcatAssociative
<1>6. \A i \in 1 .. Len(p) : p[i] # open
  <2>1. CASE f = <<>>
    BY <1>3, <2>1, ConcatEmptySeq
  <2>2. CASE f = <<"fence">>
    BY <1>3, <2>2
  <2> QED BY <2>1, <2>2
<1>7. Parses(t) /\ t \notin OtherValues => t = o
  <2>1. SUFFICES ASSUME t \in Objects PROVE t = o
    BY DEF Parses
  <2>2. IsObject(t) /\ t[1] = open /\ o[1] = open /\ IsObject(o)
    BY <1>1, <2>1
  <2> HIDE DEF p, q
  <2> QED BY <1>4, <1>5, <1>6, <2>2, WholeIsObject
<1>8. Parses(Fenced(t)) => Fenced(t) = o
  <2>1. SUFFICES ASSUME Parses(Fenced(t)) PROVE Fenced(t) = o
    OBVIOUS
  <2>2. IsObject(o) /\ o[1] = open /\ Len(o) \in Nat \ {0}
    BY <1>1, <1>3, ObjectIs
  <2>3. CASE f = <<>>
    <3>1. t = b \o (o \o a)
      BY <1>3, <1>5, <2>3, ConcatEmptySeq, ConcatAssociative
    <3>2. o \o a \in Seq(S) /\ t \in Seq(S)
      BY <1>3, <3>1, ConcatProperties
    <3>3. \A i \in 1 .. Len(t) : t[i] # "fence"
      <4> DEFINE r == o \o a
      <4>1. \A i \in 1 .. Len(r) : r[i] # "fence"
        BY <2>3
      <4>2. t = b \o r /\ r \in Seq(S)
        BY <3>1, <3>2
      <4> HIDE DEF r, t
      <4> QED BY <1>3, <4>1, <4>2
    <3>4. Fenced(t) = <<>>
      BY <3>2, <3>3, NoneFenced
    <3> HIDE DEF t
    <3>5. <<>> \in Objects
      BY <2>1, <3>4 DEF Parses
    <3>6. IsObject(<<>>) /\ <<>> \in Seq(S) /\ Len(<<>>) = 0
      BY <1>1, <3>5
    <3>7. Len(<<>>) \in Nat \ {0}
      BY <3>6, ObjectIs
    <3> QED BY <3>6, <3>7
  <2>4. CASE f = <<"fence">>
    <3>1. t = (b \o <<"fence">>) \o o \o (<<"fence">> \o a)
      BY <1>5, <2>4
    <3> DEFINE g == Fenced(t)
    <3>2. BeginOf(g, S, o)
      <4>1. "fence" \in S /\ b \in Seq(S) /\ o \in Seq(S) /\ a \in Seq(S)
        BY <1>2, <1>3
      <4>2. BeginOf(Fenced((b \o <<"fence">>) \o o \o (<<"fence">> \o a)), S, o)
        BY <4>1, FencedIsPrefix
      <4> HIDE DEF t
      <4> QED BY <3>1, <4>2
    <3> HIDE DEF t, g
    <3>3. g = <<>> \/ g[1] = open
      BY <2>2, <3>2, EmptySeq DEF BeginOf
    <3>4. Parses(g)
      BY <2>1 DEF g
    <3>5. g \notin OtherValues
      BY <3>3, <3>4
    <3>6. IsObject(g)
      BY <1>1, <3>4, <3>5 DEF Parses
    <3>7. g = o
      BY <1>3, <2>2, <3>2, <3>6, NoneBegins DEF BeginOf
    <3> QED BY <3>7 DEF g
  <2> QED BY <2>3, <2>4
<1> QED BY <1>4, <1>5, <1>6, <1>7, <1>8 DEF NothingElseParses, S

\* The object is found behind prose without a brace, when it is in a fence or when
\* there is none.
LEMMA ObjectIsExtracted ==
  ASSUME NEW b \in Seq(Chars), NEW o \in Objects, NEW a \in Seq(Chars),
         NEW f \in {<<>>, <<"fence">>},
         \A i \in 1 .. Len(b) : b[i] # "{" /\ b[i] # "fence",
         f = <<>> => \A i \in 1 .. Len(o \o a) : (o \o a)[i] # "fence",
         b \o f \o o \o f \o a \notin OtherValues
  PROVE  extractJSON(b \o f \o o \o f \o a) = [ok |-> TRUE, value |-> o]
<1>1. /\ IsObject(o) /\ \A x \in Objects : x[1] = "{"
      /\ \A v \in OtherValues : v # <<>> /\ v[1] # "{"
  BY ObjectsAssumption, Zenon DEF IsObject
<1>2. NothingElseParses(b, o, a, f, "{")
  BY <1>1, OnlyObjectParses, Zenon
<1>3. Scan((b \o f) \o o \o (f \o a)) = o
  BY <1>1, <1>2, ScanFinds, Zenon DEF NothingElseParses
<1> DEFINE t == b \o f \o o \o f \o a
<1>4. /\ Scan(t) = o
      /\ Parses(t) => t = o
      /\ Parses(Fenced(t)) => Fenced(t) = o
  BY <1>2, <1>3, Zenon DEF NothingElseParses
<1>5. Parses(o)
  BY DEF Parses
<1> HIDE DEF t
<1>6. extractJSON(t) = [ok |-> TRUE, value |-> o]
  BY <1>4, <1>5, Zenon DEF extractJSON
<1> QED BY <1>6, Zenon DEF t

\* A sequence's elements are in its set.
LEMMA InItsSet ==
  ASSUME NEW S, NEW s \in Seq(S)
  PROVE  \A i \in 1 .. Len(s) : s[i] \in ToSet(s)
BY DEF ToSet

\* An unambiguous answer holds its object.
LEMMA SaidIsExtracted ==
  ASSUME in \in TextCalls, in.tool = "json", Unambiguous
  PROVE  extractJSON(Said(in)) = [ok |-> TRUE, value |-> in.object]
<1> DEFINE fence == IF in.fenced THEN <<"fence">> ELSE <<>>
<1>1. /\ in.before \in Seq(Chars) /\ in.object \in Objects /\ in.after \in Seq(Chars)
      /\ in.object \in Seq(Chars)
  BY TextsAssumption, ObjectsAssumption DEF TextCalls
<1>2. fence \in {<<>>, <<"fence">>} /\ (fence = <<>> => ~in.fenced)
  OBVIOUS
<1>3. \A i \in 1 .. Len(in.before) : in.before[i] \in ToSet(in.before)
  BY <1>1, InItsSet
<1>4. \A i \in 1 .. Len(in.before) : in.before[i] # "{" /\ in.before[i] # "fence"
  BY <1>3, Zenon DEF Unambiguous
<1>5. in.object \o in.after \in Seq(Chars)
  BY <1>1, ConcatProperties
<1>6. \A i \in 1 .. Len(in.object \o in.after) :
        (in.object \o in.after)[i] \in ToSet(in.object \o in.after)
  BY <1>5, InItsSet
<1>7. fence = <<>> => \A i \in 1 .. Len(in.object \o in.after) :
                        (in.object \o in.after)[i] # "fence"
  BY <1>2, <1>6, Zenon DEF Unambiguous
<1>8. Said(in) = in.before \o fence \o in.object \o fence \o in.after
  BY DEF Said
<1> HIDE DEF fence
<1>9. extractJSON(in.before \o fence \o in.object \o fence \o in.after)
        = [ok |-> TRUE, value |-> in.object]
  <2> DEFINE clear(b) == \A i \in 1 .. Len(b) : b[i] # "{" /\ b[i] # "fence"
             alone(r) == \A i \in 1 .. Len(r) : r[i] # "fence"
             found(b, o, a, f) ==
               extractJSON(b \o f \o o \o f \o a) = [ok |-> TRUE, value |-> o]
  <2>1. ASSUME NEW b \in Seq(Chars), NEW o \in Objects, NEW a \in Seq(Chars),
               NEW f \in {<<>>, <<"fence">>}, clear(b), f = <<>> => alone(o \o a),
               b \o f \o o \o f \o a \notin OtherValues
        PROVE  found(b, o, a, f)
    BY <2>1, ObjectIsExtracted, Zenon
  <2>2. /\ clear(in.before) /\ (fence = <<>> => alone(in.object \o in.after))
        /\ in.before \o fence \o in.object \o fence \o in.after \notin OtherValues
    BY <1>4, <1>7, <1>8, Zenon DEF Unambiguous
  <2>3. found(in.before, in.object, in.after, fence)
    <3> HIDE DEF clear, alone, found
    <3> QED BY <1>1, <1>2, <2>1, <2>2
  <2> QED BY <2>3, Zenon
<1> QED BY <1>8, <1>9, Zenon

\* ObjectIsFound, for all objects, and for all answers that are not as a whole
\* another JSON value: the tool call of an LLM's answer
\* is found to its last brace, whatever braces, quotes and escapes its strings
\* hold and whatever prose follows.
THEOREM ObjectsAreFound == TextsSpec => []ObjectIsFound
<1> DEFINE Inv == in \in TextCalls /\ ObjectIsFound
<1>1. TextsInit => Inv
  BY DEF TextsInit, ObjectIsFound, Called
<1>2. Inv /\ [TextsNext]_textVars => Inv'
  <2> SUFFICES ASSUME Inv, [TextsNext]_textVars PROVE Inv'
    OBVIOUS
  <2>1. in' = in
    BY DEF TextsNext, textVars
  <2>2. out' = out \/ (in.tool = "json" => out' = extractJSON(Said(in)))
    BY DEF TextsNext, textVars, Edits, Extracts, Reads, Greps
  <2>3. Unambiguous' = Unambiguous
    BY <2>1, Zenon DEF Unambiguous
  <2>4. in.tool = "json" /\ Unambiguous
          => extractJSON(Said(in)) = [ok |-> TRUE, value |-> in.object]
    BY SaidIsExtracted
  <2> QED BY <2>1, <2>2, <2>3, <2>4 DEF ObjectIsFound, Called
<1>3. Inv => ObjectIsFound
  OBVIOUS
<1> QED BY <1>1, <1>2, <1>3, PTL DEF TextsSpec
=============================================================================
