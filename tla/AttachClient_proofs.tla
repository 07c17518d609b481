------------------------ MODULE AttachClient_proofs ------------------------
(***************************************************************************)
(* Proofs about AttachClient, for every set of error codes and all bounds. *)
(***************************************************************************)
EXTENDS AttachClient, TLAPS

----------------------------------------------------------------------------
(* Types.                                                                  *)

\* What a read consumes.
LEMMA HeadTail ==
  ASSUME NEW S, NEW q \in Seq(S), Len(q) > 0
  PROVE  Head(q) \in S /\ Tail(q) \in Seq(S) /\ Len(Tail(q)) = Len(q) - 1
  OBVIOUS

\* What a write adds.
LEMMA Concatenation ==
  ASSUME NEW S, NEW q \in Seq(S), NEW r \in Seq(S)
  PROVE  q \o r \in Seq(S) /\ Len(q \o r) = Len(q) + Len(r)
  OBVIOUS

\* What a promise of the handshake can be settled with.
LEMMA SettlementTypes ==
  /\ Unset \in Settlements
  /\ \A v \in Identities \cup {"none"} : Fulfilled(v) \in Settlements
  /\ \A e \in Codes \cup {Generic} : Failed(e) \in Settlements
  /\ \A s \in Settlements : ~s.ok /\ s # Unset => s.arg \in Codes \cup {Generic}
<1>1. Unset \in Settlements
  BY DEF Settlements
<1>2. \A v \in Identities \cup {"none"} : Fulfilled(v) \in Settlements
  BY DEF Settlements
<1>3. \A e \in Codes \cup {Generic} : Failed(e) \in Settlements
  BY DEF Settlements
<1>4. \A s \in Settlements : ~s.ok /\ s # Unset => s.arg \in Codes \cup {Generic}
  BY DEF Settlements, Fulfilled, Failed
<1> QED BY <1>1, <1>2, <1>3, <1>4

\* What a frame can carry.
LEMMA FrameTypes ==
  /\ \A who \in Identities : Frame("hello_ok", who) \in Frames
  /\ \A c \in Codes : Frame("attach_error", c) \in Frames
  /\ \A s \in {"open", "closed"} : Frame("ws_state", s) \in Frames
  /\ \A t \in {"attach_ok", "detached", "pong", "garbage"} :
        Frame(t, "none") \in Frames
  /\ \A f \in Frames : f.type = "attach_error" => f.arg \in Codes
  /\ \A f \in Frames : f.type \in Waits => f.arg \in Identities \cup {"none"}
<1>1. \A who \in Identities : Frame("hello_ok", who) \in Frames
  BY DEF Frames
<1>2. \A c \in Codes : Frame("attach_error", c) \in Frames
  BY DEF Frames
<1>3. \A s \in {"open", "closed"} : Frame("ws_state", s) \in Frames
  BY DEF Frames
<1>4. \A t \in {"attach_ok", "detached", "pong", "garbage"} :
        Frame(t, "none") \in Frames
  BY DEF Frames
<1>5. \A f \in Frames : f.type = "attach_error" => f.arg \in Codes
  BY DEF Frames, Frame
<1>6. \A f \in Frames : f.type \in Waits => f.arg \in Identities \cup {"none"}
  BY DEF Frames, Frame, Waits
<1> QED BY <1>1, <1>2, <1>3, <1>4, <1>5, <1>6

\* _fail, the catch of attach() and a send keep the types of what they touch.
LEMMA CloseType ==
  ASSUME TypeOK, Close
  PROVE  closed' \in BOOLEAN /\ ping' \in BOOLEAN /\ notices' \in Nat
<1>1. closed' \in BOOLEAN
  BY DEF TypeOK, Close
<1>2. ping' \in BOOLEAN
  BY DEF TypeOK, Close
<1>3. notices' \in Nat
  BY DEF TypeOK, Close
<1> QED BY <1>1, <1>2, <1>3

LEMMA FailType ==
  ASSUME TypeOK, Fail
  PROVE  closed' \in BOOLEAN /\ ping' \in BOOLEAN /\ notices' \in Nat
           /\ entry' \in BOOLEAN
  BY CloseType DEF TypeOK, Fail

LEMMA FailAndRejectType ==
  ASSUME TypeOK, FailAndReject
  PROVE  /\ closed' \in BOOLEAN /\ ping' \in BOOLEAN /\ notices' \in Nat
         /\ entry' \in BOOLEAN
         /\ waiter' \in Waits \cup {"none"} /\ settled' \in Settlements
  BY FailType, SettlementTypes DEF TypeOK, FailAndReject, Settle

LEMMA ThrowType ==
  ASSUME TypeOK, NEW code \in Codes \cup {Generic}, Throw(code)
  PROVE  /\ closed' \in BOOLEAN /\ ping' \in BOOLEAN /\ notices' \in Nat
         /\ entry' \in BOOLEAN
         /\ waiter' = "none" /\ settled' \in Settlements
         /\ pc' = "failed" /\ err' \in Codes \cup {Generic, "none"}
  BY FailType, SettlementTypes DEF TypeOK, Throw

LEMMA SendType ==
  ASSUME TypeOK, NEW req \in Requests, Send(req)
  PROVE  outbox' \in Seq(Requests)
  BY DEF TypeOK, Send

LEMMA OnFrameType ==
  ASSUME TypeOK, OnFrame
  PROVE  TypeOK'
<1> DEFINE f == Head(inbox)
<1>1. /\ chunk \in Nat /\ chunk > 0 /\ inbox \in Seq(Frames)
      /\ chunk <= Len(inbox) /\ chunk <= MaxChunk /\ MaxChunk \in Nat
  BY BoundsAssumption DEF TypeOK, OnFrame, BoundsAssumption
<1>2. f \in Frames /\ inbox' \in Seq(Frames) /\ Len(inbox') = Len(inbox) - 1
  BY <1>1, HeadTail DEF OnFrame
<1>3. chunk' \in 0 .. MaxChunk /\ chunk' <= Len(inbox')
  BY <1>1, <1>2 DEF OnFrame
<1>4. /\ closed' \in BOOLEAN /\ ping' \in BOOLEAN /\ notices' \in Nat
      /\ entry' \in BOOLEAN
      /\ waiter' \in Waits \cup {"none"} /\ settled' \in Settlements
  <2> DEFINE frame(t, a) == [type |-> t, arg |-> a]
  <2>1. CASE FailAndReject
    BY <2>1, FailAndRejectType
  <2>2. CASE NoFail /\ UNCHANGED <<waiter, settled>>
    BY <2>2 DEF TypeOK, NoFail
  <2>3. CASE /\ Fail
             /\ IF closed \/ waiter = "none"
                THEN Settle("attach_ok", Failed(Generic))
                ELSE Settle(waiter, Failed(Generic))
    BY <2>3, FailType, SettlementTypes DEF TypeOK, Settle, Waits
  <2>4. CASE f.type = "attach_error"
               /\ Settle("attach_ok", Refusal(f.arg)) /\ NoFail
    BY <2>4, <1>2, FrameTypes, SettlementTypes
      DEF TypeOK, Settle, NoFail, Refusal
  <2>5. CASE f.type \in Waits /\ Settle(f.type, Fulfilled(f.arg)) /\ NoFail
    BY <2>5, <1>2, FrameTypes, SettlementTypes DEF TypeOK, Settle, NoFail
  <2> QED BY <2>1, <2>2, <2>3, <2>4, <2>5 DEF OnFrame
<1>5. mishap' \in BOOLEAN
  BY DEF OnFrame, TypeOK
<1> QED BY <1>2, <1>3, <1>4, <1>5 DEF TypeOK, OnFrame, cli

LEMMA CliWriteType ==
  ASSUME TypeOK, NEW f \in Frames, CliWrites(<<f>>), UNCHANGED chunk
  PROVE  inbox' \in Seq(Frames) /\ chunk' <= Len(inbox')
<1>1. /\ inbox' = inbox \o <<f>> /\ inbox \in Seq(Frames)
      /\ chunk <= Len(inbox) /\ chunk \in Nat /\ <<f>> \in Seq(Frames)
  BY BoundsAssumption DEF TypeOK, CliWrites, BoundsAssumption
<1>2. Len(inbox') = Len(inbox) + 1 /\ inbox' \in Seq(Frames)
  BY <1>1, Concatenation
<1> QED BY <1>1, <1>2

LEMMA CliReadType ==
  ASSUME TypeOK, CliReads
  PROVE  outbox' \in Seq(Requests)
  BY HeadTail DEF TypeOK, CliReads

LEMMA CliType ==
  ASSUME TypeOK, Cli
  PROVE  TypeOK'
<1> USE DEF TypeOK
<1>1. CASE CliHello
  <2>1. inbox' \in Seq(Frames) /\ chunk' <= Len(inbox')
    BY <1>1, CliWriteType, FrameTypes DEF CliHello
  <2> QED BY <1>1, <2>1, CliReadType DEF CliHello, client
<1>2. ASSUME NEW code \in Codes, CliRefusesAttach(code) PROVE TypeOK'
  <2>1. inbox' \in Seq(Frames) /\ chunk' <= Len(inbox')
    BY <1>2, CliWriteType, FrameTypes DEF CliRefusesAttach
  <2> QED BY <1>2, <2>1, CliReadType DEF CliRefusesAttach, client, cli
<1>3. CASE CliDials
  BY <1>3, CliReadType DEF CliDials, client, Desks
<1>4. CASE CliDialed
  <2>1. /\ inbox' = inbox \o <<Frame("ws_state", "open"),
                               Frame("attach_ok", "none")>>
        /\ <<Frame("ws_state", "open"), Frame("attach_ok", "none")>>
              \in Seq(Frames)
    BY <1>4, FrameTypes DEF CliDialed, CliWrites
  <2>2. inbox' \in Seq(Frames) /\ Len(inbox') = Len(inbox) + 2
    BY <2>1, Concatenation
  <2>3. chunk' <= Len(inbox')
    BY <1>4, <2>2, BoundsAssumption DEF CliDialed, BoundsAssumption
  <2> QED BY <1>4, <2>2, <2>3 DEF CliDialed, client, Desks
<1>5. ASSUME NEW code \in Codes, CliDialFails(code) PROVE TypeOK'
  <2>1. inbox' \in Seq(Frames) /\ chunk' <= Len(inbox')
    BY <1>5, CliWriteType, FrameTypes DEF CliDialFails
  <2> QED BY <1>5, <2>1 DEF CliDialFails, client, Desks
<1>6. CASE CliDesktopLost
  <2>1. inbox' \in Seq(Frames) /\ chunk' <= Len(inbox')
    BY <1>6, CliWriteType, FrameTypes DEF CliDesktopLost
  <2> QED BY <1>6, <2>1 DEF CliDesktopLost, client, Desks
<1>7. CASE CliPong
  <2>1. inbox' \in Seq(Frames) /\ chunk' <= Len(inbox')
    BY <1>7, CliWriteType, FrameTypes DEF CliPong
  <2> QED BY <1>7, <2>1, CliReadType DEF CliPong, client, cli
<1>8. CASE CliSetsMode
  BY <1>8, CliReadType DEF CliSetsMode, client, cli
<1>9. CASE CliDetached
  BY <1>9, CliReadType DEF CliDetached, client, Desks
<1>10. CASE CliGarbage
  <2>1. inbox' \in Seq(Frames) /\ chunk' <= Len(inbox')
    BY <1>10, CliWriteType, FrameTypes DEF CliGarbage
  <2> QED BY <1>10, <2>1 DEF CliGarbage, client, cli
<1>11. CASE CliHangsUp
  <2>1. eof' \in BOOLEAN
    BY <1>11 DEF CliHangsUp
  <2>2. cliUp' \in BOOLEAN
    BY <1>11 DEF CliHangsUp
  <2>3. desk' \in Desks
    BY <1>11 DEF CliHangsUp, Desks
  <2> QED BY <1>11, <2>1, <2>2, <2>3 DEF CliHangsUp, client
<1>12. CASE CliDies
  <2>1. cliUp' \in BOOLEAN
    BY <1>12 DEF CliDies
  <2> QED BY <1>12, <2>1 DEF CliDies, client
<1> QED BY <1>1, <1>2, <1>3, <1>4, <1>5, <1>6, <1>7, <1>8, <1>9, <1>10,
           <1>11, <1>12 DEF Cli

LEMMA AttachingType ==
  ASSUME TypeOK, Attaching
  PROVE  TypeOK'
<1> USE SettlementTypes DEF TypeOK
<1>1. CASE Connected
  BY <1>1 DEF Connected, cli, Waits, Requests
<1>2. CASE ConnectFails
  BY <1>2, ThrowType DEF ConnectFails, cli
<1>3. CASE HelloAnswered
  <2>1. CASE ~Verified
    BY <1>3, <2>1, ThrowType DEF HelloAnswered, cli
  <2>2. CASE Verified
    BY <1>3, <2>2, SendType DEF HelloAnswered, cli, Waits, Requests
  <2> QED BY <2>1, <2>2
<1>4. CASE AttachAnswered
  BY <1>4 DEF AttachAnswered, cli
<1>5. CASE AnswerFailed
  BY <1>5, ThrowType DEF AnswerFailed, cli
<1>6. CASE Timeout
  BY <1>6 DEF Timeout, cli
<1> QED BY <1>1, <1>2, <1>3, <1>4, <1>5, <1>6 DEF Attaching

LEMMA HolderType ==
  ASSUME TypeOK, Holder
  PROVE  TypeOK'
<1> USE DEF TypeOK
<1>1. CASE PingTick
  <2>1. CASE SocketOpen
    <3>1. outbox' \in Seq(Requests)
      BY <1>1, <2>1, SendType DEF PingTick, Requests
    <3> QED BY <1>1, <2>1, <3>1 DEF PingTick, cli, NoFail
  <2>2. CASE ~SocketOpen
    BY <1>1, <2>2, FailAndRejectType DEF PingTick, cli
  <2> QED BY <2>1, <2>2
<1>2. CASE SetPermissionMode
  BY <1>2, SendType DEF SetPermissionMode, client, cli, Requests
<1>3. CASE Detach
  BY <1>3, SendType, CloseType DEF Detach, cli, Requests
<1>4. CASE Reap
  BY <1>4, CloseType DEF Reap, cli
<1> QED BY <1>1, <1>2, <1>3, <1>4 DEF Holder

\* Every variable keeps its type, and a read never runs past what is there.
THEOREM TypeCorrect == Spec => []TypeOK
<1>1. Init => TypeOK
  <2> SUFFICES ASSUME Init PROVE TypeOK
    OBVIOUS
  <2>1. eof \in BOOLEAN
    BY DEF Init
  <2>2. settled \in Settlements
    BY SettlementTypes DEF Init
  <2>3. chunk \in 0 .. MaxChunk /\ chunk <= Len(inbox)
    BY BoundsAssumption DEF Init, BoundsAssumption
  <2>4. /\ closed \in BOOLEAN /\ ping \in BOOLEAN /\ entry \in BOOLEAN
        /\ cliUp \in BOOLEAN /\ greeted \in BOOLEAN /\ mishap \in BOOLEAN
    BY DEF Init
  <2>5. /\ pc = "connect" /\ waiter = "none" /\ err = "none"
        /\ notices \in Nat /\ token = "none" /\ identity \in Identities
        /\ desk \in Desks
        /\ inbox \in Seq(Frames) /\ outbox \in Seq(Requests)
    BY DEF Init, Desks
  <2> QED BY <2>1, <2>2, <2>3, <2>4, <2>5 DEF TypeOK
<1>2. TypeOK /\ [Next]_vars => TypeOK'
  <2> SUFFICES ASSUME TypeOK, [Next]_vars PROVE TypeOK'
    OBVIOUS
  <2>1. CASE SocketEvent
    <3>1. ASSUME NEW n \in 1 .. MaxChunk, Read(n) PROVE TypeOK'
      BY <3>1, BoundsAssumption
        DEF TypeOK, Read, Readable, client, cli, BoundsAssumption
    <3>2. CASE SocketClosed
      BY <3>2, FailAndRejectType DEF TypeOK, SocketClosed, cli
    <3> QED BY <2>1, <3>1, <3>2, OnFrameType DEF SocketEvent
  <2>2. CASE UNCHANGED vars
    BY <2>2 DEF vars, client, cli, TypeOK
  <2> QED BY <2>1, <2>2, AttachingType, HolderType, CliType DEF Next
<1> QED BY <1>1, <1>2, PTL DEF Spec

----------------------------------------------------------------------------
(* The handshake invariant.                                                *)

\* What is left of a queue after its head was taken.
LEMMA TailElements ==
  ASSUME NEW S, NEW q \in Seq(S), Len(q) > 0
  PROVE  \A i \in 1 .. Len(Tail(q)) : i + 1 \in 1 .. Len(q)
                                        /\ Tail(q)[i] = q[i + 1]
  OBVIOUS

\* What a queue holds after a write.
LEMMA AppendedElements ==
  ASSUME NEW S, NEW q \in Seq(S), NEW r \in Seq(S)
  PROVE  \A i \in 1 .. Len(q \o r) :
           \/ i \in 1 .. Len(q) /\ (q \o r)[i] = q[i]
           \/ i - Len(q) \in 1 .. Len(r) /\ (q \o r)[i] = r[i - Len(q)]
  OBVIOUS

\* The CLI writes frames that say what is so.
LEMMA WriteKeepsFrames ==
  ASSUME TypeOK, FramesTruthful, UNCHANGED identity,
         desk \in {"up", "down"} => desk' \in {"up", "down"},
         NEW fs \in Seq(Frames), CliWrites(fs),
         \A i \in 1 .. Len(fs) :
           /\ fs[i].type = "hello_ok" => fs[i].arg = identity
           /\ fs[i].type = "attach_ok" => desk' \in {"up", "down"}
  PROVE  FramesTruthful'
<1>1. inbox \in Seq(Frames) /\ inbox' = inbox \o fs
  BY DEF TypeOK, CliWrites
<1> SUFFICES ASSUME NEW i \in 1 .. Len(inbox')
             PROVE  /\ inbox'[i].type = "hello_ok" => inbox'[i].arg = identity'
                    /\ inbox'[i].type = "attach_ok" => desk' \in {"up", "down"}
  BY DEF FramesTruthful
<1>2. \/ i \in 1 .. Len(inbox) /\ inbox'[i] = inbox[i]
      \/ i - Len(inbox) \in 1 .. Len(fs) /\ inbox'[i] = fs[i - Len(inbox)]
  BY <1>1, AppendedElements
<1> QED BY <1>2 DEF FramesTruthful

\* The same for a single frame.
LEMMA OneFrameKeepsFrames ==
  ASSUME TypeOK, FramesTruthful, UNCHANGED identity,
         desk \in {"up", "down"} => desk' \in {"up", "down"},
         NEW f \in Frames, CliWrites(<<f>>),
         f.type = "hello_ok" => f.arg = identity, f.type # "attach_ok"
  PROVE  FramesTruthful'
<1>1. <<f>> \in Seq(Frames) /\ \A i \in 1 .. Len(<<f>>) : <<f>>[i] = f
  OBVIOUS
<1> DEFINE fs == <<f>>
<1>2. /\ fs \in Seq(Frames) /\ CliWrites(fs)
      /\ \A i \in 1 .. Len(fs) :
           /\ fs[i].type = "hello_ok" => fs[i].arg = identity
           /\ fs[i].type = "attach_ok" => desk' \in {"up", "down"}
  BY <1>1
<1> HIDE DEF fs
<1> QED BY <1>2, WriteKeepsFrames

LEMMA FramesStayTruthful ==
  ASSUME TypeOK, HandshakeInv, [Next]_vars
  PROVE  FramesTruthful'
<1> USE DEF HandshakeInv
<1>1. CASE UNCHANGED <<inbox, identity, desk>>
  BY <1>1 DEF FramesTruthful
<1>2. CASE OnFrame
  <2>1. inbox \in Seq(Frames) /\ Len(inbox) > 0 /\ inbox' = Tail(inbox)
    BY <1>2, BoundsAssumption DEF TypeOK, OnFrame, BoundsAssumption
  <2>2. UNCHANGED <<identity, desk>>
    BY <1>2 DEF OnFrame, cli
  <2> QED BY <2>1, <2>2, TailElements DEF FramesTruthful
<1>3. CASE CliHello
  <2> DEFINE f == Frame("hello_ok", identity)
  <2>1. f \in Frames /\ f.type = "hello_ok" /\ f.arg = identity
    BY FrameTypes DEF TypeOK, Frame
  <2>2. CliWrites(<<f>>) /\ UNCHANGED <<identity, desk>>
    BY <1>3 DEF CliHello
  <2> HIDE DEF f
  <2> QED BY <2>1, <2>2, OneFrameKeepsFrames
<1>4. ASSUME NEW code \in Codes, CliRefusesAttach(code) \/ CliDialFails(code)
      PROVE  FramesTruthful'
  <2> DEFINE f == Frame("attach_error", code)
  <2>1. f \in Frames /\ f.type = "attach_error"
    BY FrameTypes DEF Frame
  <2>2. CliWrites(<<f>>) /\ UNCHANGED identity
          /\ (desk \in {"up", "down"} => desk' \in {"up", "down"})
    BY <1>4 DEF CliRefusesAttach, CliDialFails, cli
  <2> HIDE DEF f
  <2> QED BY <2>1, <2>2, OneFrameKeepsFrames
<1>5. CASE CliDialed
  <2> DEFINE f == Frame("ws_state", "open")
             g == Frame("attach_ok", "none")
  <2>1. f \in Frames /\ g \in Frames /\ f.type = "ws_state"
    BY FrameTypes DEF Frame
  <2>2. CliWrites(<<f, g>>) /\ UNCHANGED identity /\ desk' = "up"
    BY <1>5 DEF CliDialed
  <2>3. g.type = "attach_ok"
    BY DEF Frame
  <2> HIDE DEF f, g
  <2>4. <<f, g>> \in Seq(Frames)
    BY <2>1
  <2>5. \A i \in 1 .. Len(<<f, g>>) : <<f, g>>[i].type # "hello_ok"
    BY <2>1, <2>3
  <2> QED BY <2>2, <2>4, <2>5, WriteKeepsFrames
<1>6. CASE CliDesktopLost \/ CliPong \/ CliGarbage
  <2>1. /\ UNCHANGED identity
        /\ (desk \in {"up", "down"} => desk' \in {"up", "down"})
        /\ \E f \in {Frame("ws_state", "closed"), Frame("detached", "none"),
                     Frame("pong", "none"), Frame("garbage", "none")} :
             CliWrites(<<f>>)
    BY <1>6 DEF CliDesktopLost, CliPong, CliGarbage, cli
  <2>2. PICK f \in {Frame("ws_state", "closed"), Frame("detached", "none"),
                     Frame("pong", "none"), Frame("garbage", "none")} :
             CliWrites(<<f>>)
    BY <2>1
  <2>3. f \in Frames /\ f.type \notin {"hello_ok", "attach_ok"}
    BY FrameTypes DEF Frame
  <2> QED BY <2>1, <2>2, <2>3, OneFrameKeepsFrames
<1>7. CASE CliDials \/ CliSetsMode \/ CliDetached \/ CliHangsUp \/ CliDies
  <2>1. UNCHANGED <<inbox, identity>>
          /\ (desk \in {"up", "down"} => desk' \in {"up", "down"})
    BY <1>7 DEF CliDials, CliSetsMode, CliDetached, CliHangsUp, CliDies, cli
  <2> QED BY <2>1 DEF FramesTruthful
<1>8. CASE Attaching \/ Holder \/ SocketClosed \/ UNCHANGED vars
  <2>1. UNCHANGED <<inbox, identity, desk>>
    BY <1>8 DEF Attaching, Holder, SocketClosed, vars, Connected,
      ConnectFails, HelloAnswered, AttachAnswered, AnswerFailed, Timeout,
      PingTick, SetPermissionMode, Detach, Reap, cli
  <2> QED BY <2>1, <1>1
<1>9. ASSUME NEW n \in 1 .. MaxChunk, Read(n) PROVE FramesTruthful'
  BY <1>9, <1>1 DEF Read, cli
<1> QED BY <1>2, <1>3, <1>4, <1>5, <1>6, <1>7, <1>8, <1>9
       DEF Next, Cli, SocketEvent

LEMMA RequestsStayTruthful ==
  ASSUME TypeOK, HandshakeInv, [Next]_vars
  PROVE  RequestsTruthful'
<1> USE DEF HandshakeInv
<1>1. CASE UNCHANGED <<outbox, token>>
  BY <1>1 DEF RequestsTruthful
<1>2. ASSUME NEW req \in Requests, Send(req), req # "attach", UNCHANGED token
      PROVE  RequestsTruthful'
  <2>1. outbox \in Seq(Requests)
    BY DEF TypeOK
  <2>2. CASE outbox' = Append(outbox, req)
    <3> SUFFICES ASSUME NEW i \in 1 .. Len(outbox'), outbox'[i] = "attach"
                 PROVE  token' = "asked"
      BY DEF RequestsTruthful
    <3>1. Len(outbox') = Len(outbox) + 1 /\ outbox'[Len(outbox) + 1] = req
            /\ \A k \in 1 .. Len(outbox) : outbox'[k] = outbox[k]
      BY <2>1, <2>2
    <3>2. i \in 1 .. Len(outbox) /\ outbox[i] = "attach"
      BY <1>2, <2>1, <3>1
    <3> QED BY <1>2, <3>2 DEF RequestsTruthful
  <2> QED BY <1>2, <1>1, <2>2 DEF Send
<1>3. CASE CliReads /\ UNCHANGED token
  <2>1. outbox \in Seq(Requests) /\ Len(outbox) > 0 /\ outbox' = Tail(outbox)
    BY <1>3 DEF TypeOK, CliReads
  <2> QED BY <1>3, <2>1, TailElements DEF RequestsTruthful
<1>4. CASE Connected
  BY <1>4 DEF Connected, RequestsTruthful
<1>5. CASE HelloAnswered
  <2>1. CASE ~Verified \/ ~SocketOpen
    <3>1. UNCHANGED <<outbox, token>>
      BY <1>5, <2>1 DEF HelloAnswered, Send
    <3> QED BY <3>1, <1>1
  <2>2. CASE Verified /\ SocketOpen
    <3>1. token' = "asked"
      BY <1>5, <2>2 DEF HelloAnswered, Verified, PhaseKnows
    <3> QED BY <3>1 DEF RequestsTruthful
  <2> QED BY <2>1, <2>2
<1>6. CASE PingTick \/ SetPermissionMode \/ Detach
  <2>1. UNCHANGED token
    BY <1>6 DEF PingTick, SetPermissionMode, Detach, client
  <2>2. UNCHANGED outbox \/ \E req \in {"ping", "set_permission_mode",
                                        "detach"} : Send(req)
    BY <1>6 DEF PingTick, SetPermissionMode, Detach
  <2> QED BY <2>1, <2>2, <1>1, <1>2 DEF Requests
<1>7. CASE \/ ConnectFails \/ AttachAnswered \/ AnswerFailed \/ Timeout
           \/ SocketEvent \/ Reap \/ UNCHANGED vars
  <2>1. UNCHANGED <<outbox, token>>
    BY <1>7 DEF ConnectFails, AttachAnswered, AnswerFailed, Timeout,
      SocketEvent, Read, OnFrame, SocketClosed, Reap, vars, client
  <2> QED BY <2>1, <1>1
<1>8. CASE Cli
  <2>1. (CliReads /\ UNCHANGED token) \/ UNCHANGED <<outbox, token>>
    BY <1>8 DEF Cli, CliHello, CliRefusesAttach, CliDials, CliDialed,
      CliDialFails, CliDesktopLost, CliPong, CliSetsMode, CliDetached,
      CliGarbage, CliHangsUp, CliDies, client
  <2> QED BY <2>1, <1>1, <1>3
<1> QED BY <1>4, <1>5, <1>6, <1>7, <1>8 DEF Next, Attaching, Holder

\* Closing the client: it is closed from then on, and 'detached' was emitted.
LEMMA CloseNotifies ==
  ASSUME TypeOK, NotifiedOnce, Close
  PROVE  closed' = TRUE /\ NotifiedOnce' /\ (ping' => ping /\ closed)
<1>1. CASE closed
  BY <1>1 DEF TypeOK, NotifiedOnce, Close
<1>2. CASE ~closed
  <2>1. notices' = 1 /\ closed' = TRUE /\ ping' = FALSE
    BY <1>2 DEF TypeOK, NotifiedOnce, Close
  <2> QED BY <2>1 DEF NotifiedOnce
<1> QED BY <1>1, <1>2

\* What the phases know, and the properties that follow, are kept by every
\* step of the client and of the CLI.
LEMMA StepKeepsPhases ==
  ASSUME TypeOK, HandshakeInv, [Next]_vars
  PROVE  /\ PhaseKnows' /\ TokenOnlyToAskedCli' /\ RecordedOnlyWithDesktop'
         /\ NothingLeaked' /\ NotifiedOnce'
<1> DEFINE Phases == /\ PhaseKnows /\ TokenOnlyToAskedCli
                     /\ RecordedOnlyWithDesktop
                     /\ NothingLeaked /\ NotifiedOnce
<1> SUFFICES Phases'
  OBVIOUS
<1> USE DEF HandshakeInv, PhaseKnows, TokenOnlyToAskedCli,
            RecordedOnlyWithDesktop, NothingLeaked
<1>0. UNCHANGED <<closed, notices>> => NotifiedOnce'
  BY DEF NotifiedOnce
<1> USE <1>0
<1>1. CASE Connected
  BY <1>1 DEF Connected, cli, Unset, Generic
<1>2. ASSUME NEW code, Throw(code), pc \in {"connect", "hello", "attach"},
             UNCHANGED <<token, identity, desk>>
      PROVE  Phases'
  BY <1>2, CloseNotifies DEF Throw, Fail, Unset
<1>3. CASE ConnectFails
  BY <1>3, <1>2 DEF ConnectFails, cli
<1>4. CASE HelloAnswered
  <2>1. CASE ~Verified
    BY <1>4, <2>1, <1>2 DEF HelloAnswered, cli
  <2>2. CASE Verified
    BY <1>4, <2>2 DEF HelloAnswered, Verified, SocketOpen, Unset, cli
  <2> QED BY <2>1, <2>2
<1>5. CASE AttachAnswered
  BY <1>5 DEF AttachAnswered, Answered, Unset, cli
<1>6. CASE AnswerFailed
  BY <1>6, <1>2 DEF AnswerFailed, cli
<1>7. CASE Timeout
  BY <1>7 DEF Timeout, TimeLimited, Failed, cli
<1>8. ASSUME Fail, UNCHANGED <<pc, token, cli>>,
             \/ UNCHANGED <<waiter, settled>> /\ (waiter = "none" \/ closed)
             \/ /\ waiter # "none"
                /\ waiter' = "none" /\ settled' = Failed(Generic)
      PROVE  Phases'
  <2>1. /\ closed' = TRUE /\ NotifiedOnce' /\ (ping' => ping)
        /\ (entry' => entry)
    BY <1>8, CloseNotifies DEF Fail
  <2>2. UNCHANGED <<pc, token, identity, desk>>
    BY <1>8 DEF cli
  <2>3. CASE UNCHANGED <<waiter, settled>>
    BY <2>1, <2>2, <2>3
  <2>4. CASE waiter # "none" /\ waiter' = "none" /\ settled' = Failed(Generic)
    <3>1. pc \in {"hello", "attach"}
      BY <2>4 DEF TypeOK, Waits
    <3>2. ~settled'.ok
      BY <2>4 DEF Failed
    <3> QED BY <2>1, <2>2, <2>4, <3>1, <3>2
  <2> QED BY <1>8, <2>3, <2>4
<1>9. ASSUME NEW n \in 1 .. MaxChunk, Read(n) PROVE Phases'
  BY <1>9 DEF Read, client, cli
<1>10. CASE OnFrame
  <2> DEFINE f == Head(inbox)
  <2>1. UNCHANGED <<pc, token, cli>>
    BY <1>10 DEF OnFrame
  <2>2. /\ f.type = "hello_ok" => f.arg = identity
        /\ f.type = "attach_ok" => desk \in {"up", "down"}
    <3>1. inbox \in Seq(Frames) /\ Len(inbox) > 0
      BY <1>10, BoundsAssumption DEF TypeOK, OnFrame, BoundsAssumption
    <3>2. 1 \in 1 .. Len(inbox) /\ f = inbox[1]
      BY <3>1
    <3> QED BY <3>2 DEF FramesTruthful
  <2> HIDE DEF f
  <2>3. CASE NoFail /\ UNCHANGED <<waiter, settled>>
    BY <2>1, <2>3 DEF NoFail, cli
  <2>4. CASE /\ Fail
             /\ IF closed \/ waiter = "none"
                THEN Settle("attach_ok", Failed(Generic))
                ELSE Settle(waiter, Failed(Generic))
    BY <2>1, <2>4, <1>8 DEF Settle
  <2>5. CASE Settle("attach_ok", Refusal(f.arg)) /\ NoFail
    BY <2>1, <2>5 DEF Settle, NoFail, Refusal, Failed, cli
  <2>6. CASE f.type \in Waits /\ Settle(f.type, Fulfilled(f.arg)) /\ NoFail
    BY <2>1, <2>2, <2>6 DEF Settle, NoFail, Fulfilled, cli, Waits
  <2>7. CASE FailAndReject
    BY <2>1, <2>7, <1>8 DEF FailAndReject, Settle
  <2> QED BY <1>10, <2>3, <2>4, <2>5, <2>6, <2>7 DEF OnFrame, f
<1>11. CASE SocketClosed
  BY <1>11, <1>8 DEF SocketClosed, FailAndReject, Settle
<1>12. CASE PingTick
  <2>1. CASE SocketOpen
    BY <1>12, <2>1 DEF PingTick, NoFail, cli
  <2>2. CASE ~SocketOpen
    BY <1>12, <2>2, <1>8 DEF PingTick, FailAndReject, Settle
  <2> QED BY <2>1, <2>2
<1>13. CASE SetPermissionMode
  BY <1>13 DEF SetPermissionMode, client, cli
<1>14. CASE Detach
  BY <1>14, CloseNotifies DEF Detach, cli
<1>15. CASE Reap
  BY <1>15, CloseNotifies DEF Reap, cli
<1>16. CASE Cli
  <2>1. UNCHANGED <<client, identity>>
          /\ (desk \in {"up", "down"} => desk' \in {"up", "down"})
    BY <1>16 DEF Cli, CliHello, CliRefusesAttach, CliDials, CliDialed,
      CliDialFails, CliDesktopLost, CliPong, CliSetsMode, CliDetached,
      CliGarbage, CliHangsUp, CliDies, cli
  <2>2. desk' # "none" => token = "asked"
    <3>1. CASE CliDials
      <4>1. outbox \in Seq(Requests) /\ outbox # <<>> /\ Head(outbox) = "attach"
        BY <3>1 DEF TypeOK, CliDials, CliReads
      <4>2. 1 \in 1 .. Len(outbox) /\ outbox[1] = "attach"
        BY <4>1
      <4> QED BY <4>2 DEF RequestsTruthful
    <3>2. CASE ~CliDials
      <4>1. desk' # "none" => desk # "none"
        BY <1>16, <3>2 DEF Cli, CliHello, CliRefusesAttach, CliDialed,
          CliDialFails, CliDesktopLost, CliPong, CliSetsMode, CliDetached,
          CliGarbage, CliHangsUp, CliDies, cli
      <4> QED BY <4>1
    <3> QED BY <3>1, <3>2
  <2> QED BY <2>1, <2>2 DEF client
<1>17. CASE UNCHANGED vars
  BY <1>17 DEF vars, client, cli
<1> QED BY <1>1, <1>3, <1>4, <1>5, <1>6, <1>7, <1>9, <1>10, <1>11, <1>12,
           <1>13, <1>14, <1>15, <1>16, <1>17
       DEF Next, Attaching, SocketEvent, Holder

\* The handshake invariant holds of every run.
THEOREM HandshakeInvariant == Spec => []HandshakeInv
<1>1. Init => HandshakeInv
  BY DEF Init, HandshakeInv, FramesTruthful, RequestsTruthful, PhaseKnows,
    TokenOnlyToAskedCli, RecordedOnlyWithDesktop, NothingLeaked,
    NotifiedOnce, Unset
<1>2. TypeOK /\ HandshakeInv /\ [Next]_vars => HandshakeInv'
  BY FramesStayTruthful, RequestsStayTruthful, StepKeepsPhases
    DEF HandshakeInv
<1> QED BY <1>1, <1>2, TypeCorrect, PTL DEF Spec

\* The token reaches only the CLI that was asked for; an entry stands only
\* for a CLI that had its WebSocket up; a failed attach leaks nothing; and
\* 'detached' is emitted exactly when the client closes.
THEOREM HandshakeSafe ==
  Spec => [](/\ TokenOnlyToAskedCli /\ RecordedOnlyWithDesktop
             /\ NothingLeaked /\ NotifiedOnce)
<1>1. HandshakeInv => /\ TokenOnlyToAskedCli /\ RecordedOnlyWithDesktop
                      /\ NothingLeaked /\ NotifiedOnce
  BY DEF HandshakeInv
<1> QED BY <1>1, HandshakeInvariant, PTL

----------------------------------------------------------------------------
(* attach() implements AttachContract.                                     *)

\* A step of the client that keeps attach() where it is: the connection is
\* as it was, or lost.
LEMMA SameOutcome ==
  ASSUME UNCHANGED <<pc, token, desk>>,
         UNCHANGED closed \/ closed' = TRUE
  PROVE  [Contract!Next]_(Contract!vars)
<1>1. CASE UNCHANGED closed
  BY <1>1 DEF Contract!vars
<1>2. CASE ~closed /\ closed' = TRUE
  <2>1. Contract!Lose
    BY <1>2 DEF Contract!Lose
  <2> QED BY <2>1 DEF Contract!Next
<1>3. CASE closed /\ closed' = TRUE
  BY <1>3 DEF Contract!vars
<1> QED BY <1>1, <1>2, <1>3

LEMMA ThrowRejects ==
  ASSUME NEW code, Throw(code), pc \in {"connect", "hello", "attach"},
         UNCHANGED <<token, desk>>
  PROVE  [Contract!Next]_(Contract!vars)
<1>1. pc' = "failed" /\ Close
  BY DEF Throw, Fail
<1>2. closed'
  <2>1. CASE closed
    BY <1>1, <2>1 DEF Close
  <2>2. CASE ~closed
    BY <1>1, <2>2 DEF Close
  <2> QED BY <2>1, <2>2
<1>3. Contract!Reject
  BY <1>1, <1>2 DEF Contract!Reject
<1> QED BY <1>3 DEF Contract!Next

LEMMA StepKeepsContract ==
  ASSUME TypeOK, HandshakeInv, [Next]_vars
  PROVE  [Contract!Next]_(Contract!vars)
<1> USE DEF HandshakeInv, PhaseKnows
<1>1. CASE Connected
  BY <1>1 DEF Connected, cli, Contract!vars
<1>2. CASE ConnectFails
  BY <1>2, ThrowRejects DEF ConnectFails, cli
<1>3. CASE HelloAnswered
  <2>1. CASE ~Verified
    BY <1>3, <2>1, ThrowRejects DEF HelloAnswered, cli
  <2>2. CASE Verified /\ SocketOpen
    <3>1. Contract!Disclose
      BY <1>3, <2>2
        DEF HelloAnswered, Verified, SocketOpen, cli, Contract!Disclose
    <3> QED BY <3>1 DEF Contract!Next
  <2>3. CASE Verified /\ ~SocketOpen
    BY <1>3, <2>3 DEF HelloAnswered, cli, Contract!vars
  <2> QED BY <2>1, <2>2, <2>3
<1>4. CASE AttachAnswered
  <2>1. Contract!Fulfil
    BY <1>4 DEF AttachAnswered, Answered, cli, Contract!Fulfil
  <2> QED BY <2>1 DEF Contract!Next
<1>5. CASE AnswerFailed
  BY <1>5, ThrowRejects DEF AnswerFailed, cli
<1>6. CASE Timeout \/ (\E n \in 1 .. MaxChunk : Read(n)) \/ SetPermissionMode
  BY <1>6, SameOutcome DEF Timeout, Read, SetPermissionMode, client, cli
<1>7. CASE OnFrame \/ SocketClosed \/ PingTick \/ Detach \/ Reap
  <2>1. UNCHANGED <<pc, token, desk>>
    BY <1>7 DEF OnFrame, SocketClosed, PingTick, Detach, Reap, cli
  <2>2. UNCHANGED closed \/ closed' = TRUE
    BY <1>7 DEF OnFrame, SocketClosed, PingTick, Detach, Reap, NoFail,
      FailAndReject, Fail, Close
  <2> QED BY <2>1, <2>2, SameOutcome
<1>8. CASE Cli
  <2>1. CASE CliDialed
    <3>1. Contract!DesktopUp
      BY <2>1, <1>8
        DEF CliDialed, client, TokenOnlyToAskedCli, Contract!DesktopUp
    <3> QED BY <3>1 DEF Contract!Next
  <2>2. CASE ~CliDialed
    <3>1. UNCHANGED client /\ ((desk \in {"up", "down"})
                                 <=> (desk' \in {"up", "down"}))
      BY <1>8, <2>2 DEF Cli, CliHello, CliRefusesAttach, CliDials,
        CliDialFails, CliDesktopLost, CliPong, CliSetsMode, CliDetached,
        CliGarbage, CliHangsUp, CliDies, cli
    <3> QED BY <3>1 DEF client, Contract!vars
  <2> QED BY <2>1, <2>2
<1>9. CASE UNCHANGED vars
  BY <1>9, SameOutcome DEF vars, client, cli
<1> QED BY <1>1, <1>2, <1>3, <1>4, <1>5, <1>6, <1>7, <1>8, <1>9
       DEF Next, Attaching, SocketEvent, Holder

\* attach() keeps the contract its callers rely on, however the CLI behaves
\* and however its frames are cut into reads.
THEOREM Implementation == Spec => KeepsContract
<1>1. Init => Contract!Init
  BY DEF Init, Contract!Init
<1>2. TypeOK /\ HandshakeInv /\ [Next]_vars => [Contract!Next]_(Contract!vars)
  BY StepKeepsContract
<1> QED BY <1>1, <1>2, TypeCorrect, HandshakeInvariant, PTL
       DEF Spec, KeepsContract, Contract!Spec

----------------------------------------------------------------------------
(* Refusals.                                                               *)

\* Unless something else ended the wait, what it failed with is a code.
CodeUnderWay ==
  /\ RefusalKeepsItsCode
  /\ ~mishap /\ ~settled.ok /\ settled # Unset => settled.arg \in Codes

LEMMA CodeStays ==
  ASSUME TypeOK, HandshakeInv, CodeUnderWay, [Next]_vars
  PROVE  CodeUnderWay'
<1> USE DEF CodeUnderWay, RefusalKeepsItsCode
<1>1. ASSUME mishap' PROVE CodeUnderWay'
  BY <1>1
<1>2. ASSUME UNCHANGED <<pc, err, settled, identity, mishap>> PROVE CodeUnderWay'
  BY <1>2 DEF Unset
<1>3. ASSUME NEW code, Throw(code), UNCHANGED <<identity, mishap>>,
             ~mishap /\ identity = "asked" => code \in Codes
      PROVE  CodeUnderWay'
  BY <1>3 DEF Throw, Unset
<1>4. CASE Connected
  BY <1>4, <1>2 DEF Connected, cli
<1>5. CASE ConnectFails \/ Timeout \/ SocketClosed
  BY <1>5, <1>1 DEF ConnectFails, Timeout, SocketClosed
<1>6. CASE HelloAnswered
  <2>1. CASE ~Verified
    BY <1>6, <2>1, <1>3 DEF HelloAnswered, Verified, HandshakeInv, PhaseKnows, cli
  <2>2. CASE Verified
    BY <1>6, <2>2 DEF HelloAnswered, Unset, cli
  <2> QED BY <2>1, <2>2
<1>7. CASE AttachAnswered
  BY <1>7 DEF AttachAnswered, Unset
<1>8. CASE AnswerFailed
  BY <1>8, <1>3 DEF AnswerFailed, cli
<1>9. ASSUME NEW n \in 1 .. MaxChunk, Read(n) PROVE CodeUnderWay'
  BY <1>9, <1>2 DEF Read, client, cli
<1>10. CASE OnFrame
  <2> DEFINE f == Head(inbox)
  <2>1. UNCHANGED <<pc, err, identity>> /\ (mishap => mishap')
    BY <1>10 DEF OnFrame, cli
  <2>2. CASE mishap'
    BY <2>2
  <2>3. CASE ~mishap'
    <3>1. /\ f.type \notin {"garbage", "detached"}
          /\ f # Frame("ws_state", "closed") /\ ~mishap
      BY <1>10, <2>3 DEF OnFrame
    <3>2. CASE UNCHANGED settled
      BY <2>1, <3>1, <3>2
    <3>3. CASE settled' = Refusal(f.arg) /\ f.type = "attach_error"
      <4>1. f.arg \in Codes
        <5>1. /\ chunk \in Nat /\ chunk > 0 /\ inbox \in Seq(Frames)
              /\ chunk <= Len(inbox)
          BY <1>10, BoundsAssumption DEF TypeOK, OnFrame, BoundsAssumption
        <5>2. f \in Frames
          BY <5>1, HeadTail
        <5> QED BY <3>3, <5>2, FrameTypes
      <4> QED BY <2>1, <3>1, <3>3, <4>1 DEF Refusal, Failed
    <3>4. CASE settled' = Fulfilled(f.arg)
      BY <2>1, <3>1, <3>4 DEF Fulfilled
    <3>5. f # Frame("garbage", "none")
      BY <3>1 DEF Frame
    <3> QED BY <1>10, <3>1, <3>2, <3>3, <3>4, <3>5 DEF OnFrame, Settle
  <2> QED BY <2>2, <2>3
<1>11. CASE PingTick
  <2>1. waiter = "none"
    BY <1>11 DEF PingTick, HandshakeInv, PhaseKnows, TypeOK, Waits
  <2>2. UNCHANGED settled
    BY <1>11, <2>1 DEF PingTick, FailAndReject
  <2> QED BY <1>11, <2>2, <1>2 DEF PingTick, cli
<1>12. CASE SetPermissionMode
  BY <1>12, <1>2 DEF SetPermissionMode, client, cli
<1>13. CASE Detach \/ Reap
  BY <1>13, <1>2 DEF Detach, Reap, cli
<1>14. CASE Cli
  <2>1. UNCHANGED <<client, mishap, identity>>
    BY <1>14 DEF Cli, CliHello, CliRefusesAttach, CliDials, CliDialed,
      CliDialFails, CliDesktopLost, CliPong, CliSetsMode, CliDetached,
      CliGarbage, CliHangsUp, CliDies, cli
  <2> QED BY <2>1, <1>2 DEF client
<1>15. CASE UNCHANGED vars
  BY <1>15, <1>2 DEF vars, client, cli
<1> QED BY <1>4, <1>5, <1>6, <1>7, <1>8, <1>9, <1>10, <1>11, <1>12, <1>13,
           <1>14, <1>15
       DEF Next, Attaching, SocketEvent, Holder

\* An attach that the CLI it asked for refused is reported with the CLI's
\* code, unless a timer, the socket or a bad frame ended it first.
THEOREM RefusalsKept == Spec => []RefusalKeepsItsCode
<1>1. Init => CodeUnderWay
  BY DEF Init, CodeUnderWay, RefusalKeepsItsCode, Unset
<1>2. TypeOK /\ HandshakeInv /\ CodeUnderWay /\ [Next]_vars => CodeUnderWay'
  BY CodeStays
<1>3. CodeUnderWay => RefusalKeepsItsCode
  BY DEF CodeUnderWay
<1> QED BY <1>1, <1>2, <1>3, TypeCorrect, HandshakeInvariant, PTL DEF Spec

----------------------------------------------------------------------------
(* Reads of a single frame.                                                *)

LEMMA LostStaysSettled ==
  ASSUME MaxChunk = 1, TypeOK, HandshakeInv, LostIsSettled, [Next]_vars
  PROVE  LostIsSettled'
<1> USE DEF LostIsSettled
<1>0. closed \in BOOLEAN /\ entry \in BOOLEAN /\ chunk \in Nat
  BY BoundsAssumption DEF TypeOK, BoundsAssumption
<1>1. ASSUME Fail, chunk' = 0, waiter' = "none", ~settled'.ok,
             pc' # "connect"
      PROVE  LostIsSettled'
  <2>1. ~entry'
    BY <1>1 DEF Fail
  <2> QED BY <1>1, <2>1
<1>2. ASSUME NEW code, Throw(code), UNCHANGED chunk, chunk = 0
      PROVE  LostIsSettled'
  BY <1>2, <1>1 DEF Throw, Unset
<1>3. ASSUME FailAndReject, chunk' = 0, settled = Unset, pc' # "connect"
      PROVE  LostIsSettled'
  <2>1. Fail /\ waiter' = "none"
    BY <1>3 DEF FailAndReject, Settle
  <2>2. ~settled'.ok
    BY <1>3 DEF FailAndReject, Settle, Unset, Failed
  <2> QED BY <1>1, <1>3, <2>1, <2>2
<1>4. CASE Connected
  BY <1>4 DEF Connected, HandshakeInv, PhaseKnows
<1>5. CASE ConnectFails
  BY <1>5, <1>2 DEF ConnectFails
<1>6. CASE HelloAnswered
  BY <1>6, <1>2 DEF HelloAnswered, Unset
<1>7. CASE AttachAnswered
  BY <1>7 DEF AttachAnswered, Answered, Unset
<1>8. CASE AnswerFailed
  BY <1>8, <1>2 DEF AnswerFailed
<1>9. CASE Timeout
  BY <1>9 DEF Timeout, Quiet, Failed
<1>10. ASSUME NEW n \in 1 .. MaxChunk, Read(n) PROVE LostIsSettled'
  BY <1>10 DEF Read, Quiet, SocketOpen, client
<1>11. CASE OnFrame
  <2>1. chunk = 1 /\ settled = Unset /\ ~closed /\ pc' # "connect"
    BY <1>11, <1>0 DEF OnFrame, TypeOK
  <2>2. chunk' = 0
    BY <1>11, <2>1 DEF OnFrame
  <2>3. ASSUME Fail,
               \/ FailAndReject
               \/ IF closed \/ waiter = "none"
                  THEN Settle("attach_ok", Failed(Generic))
                  ELSE Settle(waiter, Failed(Generic))
        PROVE  LostIsSettled'
    BY <2>2, <2>3, <2>1, <1>3, <1>1 DEF FailAndReject, Settle, Failed, Unset
  <2>4. CASE NoFail
    BY <2>1, <2>2, <2>4 DEF NoFail
  <2> QED BY <1>11, <2>3, <2>4 DEF OnFrame, FailAndReject
<1>12. CASE SocketClosed
  BY <1>12, <1>3 DEF SocketClosed, Quiet, SocketOpen
<1>13. CASE PingTick
  <2>1. CASE SocketOpen
    BY <1>13, <2>1 DEF PingTick, Quiet, NoFail, SocketOpen
  <2>2. CASE ~SocketOpen
    BY <1>13, <2>2, <1>3 DEF PingTick, Quiet, HandshakeInv, PhaseKnows
  <2> QED BY <2>1, <2>2
<1>14. CASE SetPermissionMode
  BY <1>14 DEF SetPermissionMode, client
<1>15. CASE Detach \/ Reap
  <2>1. waiter = "none" /\ pc = "up"
    BY <1>15 DEF Detach, Reap, HandshakeInv, PhaseKnows, TypeOK, Waits
  <2> QED BY <1>15, <2>1 DEF Detach, Reap, Quiet, Unset
<1>16. CASE Cli
  <2>1. UNCHANGED <<client, chunk>>
    BY <1>16 DEF Cli, CliHello, CliRefusesAttach, CliDials, CliDialed,
      CliDialFails, CliDesktopLost, CliPong, CliSetsMode, CliDetached,
      CliGarbage, CliHangsUp, CliDies
  <2> QED BY <2>1 DEF client
<1>17. CASE UNCHANGED vars
  BY <1>17 DEF vars, client
<1> QED BY <1>4, <1>5, <1>6, <1>7, <1>8, <1>9, <1>10, <1>11, <1>12, <1>13,
           <1>14, <1>15, <1>16, <1>17
       DEF Next, Attaching, SocketEvent, Holder

\* If no read ever holds two frames, the map entry goes with its client and
\* attach() never waits on a dead socket.  Without that assumption it is not
\* so: see the run attach_coalesced.
THEOREM SingleFrameReads ==
  ASSUME MaxChunk = 1
  PROVE  Spec => [](EntryGoneWithClient /\ NoWaitOnDeadSocket)
<1>1. Init => LostIsSettled
  BY DEF Init, LostIsSettled, Unset
<1>2. TypeOK /\ HandshakeInv /\ LostIsSettled /\ [Next]_vars => LostIsSettled'
  BY LostStaysSettled
<1>3. LostIsSettled => EntryGoneWithClient /\ NoWaitOnDeadSocket
  BY DEF LostIsSettled, EntryGoneWithClient, NoWaitOnDeadSocket
<1> QED BY <1>1, <1>2, <1>3, TypeCorrect, HandshakeInvariant, PTL DEF Spec
=============================================================================
