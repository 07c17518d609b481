---------------------------- MODULE PcAgent_proofs ----------------------------
(***************************************************************************)
(* Proofs about BaseAgent (types, the socket, the requests) and about      *)
(* PcAgent: that the HTTP server and its uploads leave BaseAgent's         *)
(* properties alone, and that uploads settle.  For any set of requests and *)
(* uploads and any number of frames.                                       *)
(***************************************************************************)
EXTENDS PcAgent, TLAPS

----------------------------------------------------------------------------
(* Types.                                                                  *)

\* Writing a frame, or dropping it, leaves a sequence of frames.
LEMMA SendType ==
  ASSUME NEW frame \in Frames, wire \in Seq(Frames), Send(frame)
  PROVE  wire' \in Seq(Frames)
BY DEF Send

LEMMA TypeInit == Init => TypeOK
<1>1. Init => wire \in Seq(Frames)
  BY DEF Init
<1>2. Init => /\ handling \in [Requests -> {"new", "running", "late", "done"}]
              /\ answers \in [Requests -> Nat]
  BY DEF Init
<1> QED
  BY <1>1, <1>2 DEF Init, TypeOK

LEMMA TypeStep == TypeOK /\ [Next]_vars => TypeOK'
<1> SUFFICES ASSUME TypeOK, [Next]_vars PROVE TypeOK'
  OBVIOUS
<1> USE DEF TypeOK
<1>0. CASE UNCHANGED vars
  BY <1>0 DEF vars, socket
<1>1. CASE Start \/ ReconnectFires
  <2>0. wire' = wire \/ wire' = <<>>
    BY <1>1 DEF Start, ReconnectFires, Connect
  <2>1. wire' \in Seq(Frames)
    <3>1. CASE wire' = wire
      BY <3>1
    <3>2. CASE wire' = <<>>
      <4>1. <<>> \in Seq(Frames)
        OBVIOUS
      <4> QED
        BY <3>2, <4>1, Zenon
    <3> QED
      BY <2>0, <3>1, <3>2
  <2>2. ws' \in {"connecting", "open"}
    BY <1>1 DEF Start, ReconnectFires, Connect
  <2>3. pingOut' \in BOOLEAN
    BY <1>1 DEF Start, ReconnectFires, Connect
  <2>4. UNCHANGED <<peer, connected, pingInterval, pongReceived,
                    shutdownRequested, handling, answers>>
    BY <1>1 DEF Start, ReconnectFires, Connect
  <2>5. reconnectTimer' = FALSE
    BY <1>1 DEF Start, ReconnectFires, Connect
  <2> QED
    BY <2>1, <2>2, <2>3, <2>4, <2>5
<1>2. CASE Opened
  BY <1>2 DEF Opened, Frames
<1>3. CASE HandshakeFails \/ CloseReported
  BY <1>3 DEF HandshakeFails, CloseReported, Down
<1>4. CASE PingTick
  BY <1>4 DEF PingTick
<1>5. CASE Pong
  BY <1>5 DEF Pong
<1>6. CASE Shutdown
  BY <1>6 DEF Shutdown
<1>7. CASE PeerVanishes \/ PeerCloses
  BY <1>7 DEF PeerVanishes, PeerCloses
<1>8. CASE OnHealth
  <2>1. wire' \in Seq(Frames)
    BY <1>8, SendType DEF OnHealth, Frames
  <2> QED
    BY <1>8, <2>1 DEF OnHealth, socket
<1>9. ASSUME NEW r \in Requests, OnRequest(r) PROVE TypeOK'
  BY <1>9 DEF OnRequest, socket
<1>10. ASSUME NEW r \in Requests, HandleEnds(r) PROVE TypeOK'
  <2>1. wire' \in Seq(Frames)
    BY <1>10, SendType DEF HandleEnds, Answer, Frames
  <2> QED
    BY <1>10, <2>1 DEF HandleEnds, Answer, socket
<1>11. ASSUME NEW r \in Requests, HandleTimesOut(r) PROVE TypeOK'
  <2>1. wire' \in Seq(Frames)
    BY <1>11, SendType DEF HandleTimesOut, Answer, Frames
  <2> QED
    BY <1>11, <2>1 DEF HandleTimesOut, Answer, socket
<1>12. ASSUME NEW r \in Requests, ToolStatus(r) PROVE TypeOK'
  <2>1. wire' \in Seq(Frames)
    BY <1>12, SendType DEF ToolStatus, Frames
  <2> QED
    BY <1>12, <2>1 DEF ToolStatus, socket
<1> QED
  BY <1>0, <1>1, <1>2, <1>3, <1>4, <1>5, <1>6, <1>7, <1>8, <1>9, <1>10, <1>11,
     <1>12 DEF Next

\* Every variable of the agent keeps its type.
THEOREM TypeCorrect == Spec => []TypeOK
BY TypeInit, TypeStep, PTL DEF Spec

----------------------------------------------------------------------------
(* The socket.                                                             *)

\* A socket that was never opened has written nothing, an open one has
\* registered.
WireFollowsSocket ==
  /\ ws = "connecting" => wire = <<>>
  /\ ws = "open" => wire # <<>>

SocketInv ==
  /\ LadderHolds /\ PingedWhileUp /\ OnlyUnansweredCut
  /\ RegisterFirst /\ WireFollowsSocket

\* Only the manifest is written as "register"; what comes after the first
\* frame changes nothing about the order.
LEMMA SendKeepsOrder ==
  ASSUME NEW frame \in Frames \ {"register"}, TypeOK, SocketInv,
         Send(frame), UNCHANGED ws
  PROVE  RegisterFirst' /\ WireFollowsSocket'
<1>1. CASE ws = "open"
  <2>1. /\ wire' = Append(wire, frame) /\ wire \in Seq(Frames)
        /\ Len(wire) >= 1 /\ Len(wire') = Len(wire) + 1
    BY <1>1 DEF Send, SocketInv, WireFollowsSocket, TypeOK
  <2>2. \A i \in 1 .. Len(wire) : wire'[i] = wire[i]
    BY <2>1
  <2>3. wire'[Len(wire) + 1] = frame
    BY <2>1
  <2>4. RegisterFirst'
    BY <2>1, <2>2, <2>3 DEF RegisterFirst, SocketInv
  <2>5. wire' # <<>>
    BY <2>1
  <2> QED
    BY <1>1, <2>4, <2>5 DEF WireFollowsSocket
<1>2. CASE ws # "open"
  BY <1>2 DEF Send, SocketInv, RegisterFirst, WireFollowsSocket
<1> QED
  BY <1>1, <1>2

LEMMA SocketInit == Init => SocketInv
BY DEF Init, SocketInv, LadderHolds, PingedWhileUp, OnlyUnansweredCut,
       RegisterFirst, WireFollowsSocket

LEMMA SocketStep ==
  ASSUME TypeOK, SocketInv, WireAssumption, [Next]_vars
  PROVE  SocketInv'
<1> USE DEF SocketInv
<1> DEFINE Flags == LadderHolds /\ PingedWhileUp /\ OnlyUnansweredCut
<1>0. CASE UNCHANGED vars
  BY <1>0 DEF vars, socket, LadderHolds, PingedWhileUp, OnlyUnansweredCut,
              RegisterFirst, WireFollowsSocket
<1>1. CASE Start \/ ReconnectFires
  <2>1. Flags'
    BY <1>1 DEF Start, ReconnectFires, Connect, LadderHolds, PingedWhileUp,
                OnlyUnansweredCut, TypeOK
  <2>2. RegisterFirst' /\ WireFollowsSocket'
    BY <1>1 DEF Start, ReconnectFires, Connect, LadderHolds, RegisterFirst,
                WireFollowsSocket, TypeOK
  <2> QED
    BY <2>1, <2>2
<1>2. CASE Opened
  <2>1. Flags'
    BY <1>2 DEF Opened, LadderHolds, PingedWhileUp, OnlyUnansweredCut, TypeOK
  <2>2. wire' = <<"register">>
    BY <1>2 DEF Opened, WireFollowsSocket
  <2>3. RegisterFirst' /\ WireFollowsSocket'
    BY <1>2, <2>2 DEF Opened, RegisterFirst, WireFollowsSocket
  <2> QED
    BY <2>1, <2>3
<1>3. CASE HandshakeFails \/ CloseReported
  <2>1. Flags'
    BY <1>3 DEF HandshakeFails, CloseReported, Down, LadderHolds,
                PingedWhileUp, OnlyUnansweredCut, TypeOK
  <2>2. RegisterFirst' /\ WireFollowsSocket'
    BY <1>3 DEF HandshakeFails, CloseReported, Down, RegisterFirst,
                WireFollowsSocket
  <2> QED
    BY <2>1, <2>2
<1>4. CASE PingTick
  <2>1. Flags'
    BY <1>4 DEF PingTick, LadderHolds, PingedWhileUp, OnlyUnansweredCut, TypeOK
  <2>2. RegisterFirst' /\ WireFollowsSocket'
    BY <1>4 DEF PingTick, RegisterFirst, WireFollowsSocket
  <2> QED
    BY <2>1, <2>2
<1>5. CASE Pong
  BY <1>5 DEF Pong, LadderHolds, PingedWhileUp, OnlyUnansweredCut,
              RegisterFirst, WireFollowsSocket
<1>6. CASE Shutdown
  BY <1>6 DEF Shutdown, LadderHolds, PingedWhileUp, OnlyUnansweredCut,
              RegisterFirst, WireFollowsSocket
<1>7. CASE PeerVanishes \/ PeerCloses
  <2>1. Flags'
    BY <1>7 DEF PeerVanishes, PeerCloses, Hears, LadderHolds, PingedWhileUp,
                OnlyUnansweredCut
  <2>2. RegisterFirst' /\ WireFollowsSocket'
    BY <1>7 DEF PeerVanishes, PeerCloses, RegisterFirst, WireFollowsSocket
  <2> QED
    BY <2>1, <2>2
<1>8. ASSUME NEW frame \in Frames \ {"register"}, Send(frame),
             UNCHANGED <<socket, shutdownRequested, pingOut>>
      PROVE  SocketInv'
  <2>1. Flags'
    BY <1>8 DEF socket, LadderHolds, PingedWhileUp, OnlyUnansweredCut
  <2>2. RegisterFirst' /\ WireFollowsSocket'
    BY <1>8, SendKeepsOrder DEF socket
  <2> QED
    BY <2>1, <2>2
<1>9. ASSUME UNCHANGED <<socket, shutdownRequested, pingOut, wire>>
      PROVE  SocketInv'
  BY <1>9 DEF socket, LadderHolds, PingedWhileUp, OnlyUnansweredCut,
              RegisterFirst, WireFollowsSocket
<1>10. Requests \subseteq Frames \ {"register"}
       /\ {"health", "status"} \subseteq Frames \ {"register"}
  BY WireAssumption DEF WireAssumption, Frames
<1>11. CASE OnHealth
  BY <1>8, <1>10, <1>11 DEF OnHealth
<1>12. ASSUME NEW r \in Requests, OnRequest(r) PROVE SocketInv'
  BY <1>9, <1>12 DEF OnRequest
<1>13. ASSUME NEW r \in Requests, HandleEnds(r) PROVE SocketInv'
  BY <1>8, <1>9, <1>10, <1>13 DEF HandleEnds, Answer
<1>14. ASSUME NEW r \in Requests, HandleTimesOut(r) PROVE SocketInv'
  BY <1>8, <1>10, <1>14 DEF HandleTimesOut, Answer
<1>15. ASSUME NEW r \in Requests, ToolStatus(r) PROVE SocketInv'
  BY <1>8, <1>10, <1>15 DEF ToolStatus
<1> QED
  BY <1>0, <1>1, <1>2, <1>3, <1>4, <1>5, <1>6, <1>7, <1>11, <1>12, <1>13,
     <1>14, <1>15 DEF Next

\* The reconnect ladder neither stalls nor doubles, exactly the sockets that
\* are up are pinged, none is cut for a pong of an earlier one, and each
\* registers first and once.
THEOREM SocketSafe == Spec => []SocketInStep
<1>1. TypeOK /\ SocketInv /\ [Next]_vars => SocketInv'
  BY SocketStep, WireAssumption
<1>2. SocketInv => SocketInStep
  BY DEF SocketInv, SocketInStep
<1> QED
  BY TypeCorrect, SocketInit, <1>1, <1>2, PTL DEF Spec

----------------------------------------------------------------------------
(* The requests.                                                           *)

\* A request is answered once, by its result or by the timeout.
THEOREM AnswersOnce == Spec => []AnsweredOnce
<1>1. Init => AnsweredOnce
  BY DEF Init, AnsweredOnce
<1>2. ASSUME TypeOK, AnsweredOnce, [Next]_vars PROVE AnsweredOnce'
  <2>1. CASE UNCHANGED <<handling, answers>>
    BY <1>2, <2>1 DEF AnsweredOnce
  <2>2. ASSUME NEW r \in Requests, OnRequest(r) PROVE AnsweredOnce'
    BY <1>2, <2>2 DEF OnRequest, AnsweredOnce, TypeOK
  <2>3. ASSUME NEW r \in Requests, HandleEnds(r) PROVE AnsweredOnce'
    BY <1>2, <2>3 DEF HandleEnds, Answer, AnsweredOnce, TypeOK
  <2>4. ASSUME NEW r \in Requests, HandleTimesOut(r) PROVE AnsweredOnce'
    BY <1>2, <2>4 DEF HandleTimesOut, Answer, AnsweredOnce, TypeOK
  <2> QED
    BY <1>2, <2>1, <2>2, <2>3, <2>4 DEF Next, vars, Start, ReconnectFires,
       Connect, Opened, HandshakeFails, CloseReported, Down, PingTick, Pong,
       Shutdown, OnHealth, PeerVanishes, PeerCloses, ToolStatus
<1> QED
  BY TypeCorrect, <1>1, <1>2, PTL DEF Spec

----------------------------------------------------------------------------
(* What is proved of BaseAgent holds of the whole process.                 *)

LEMMA StepImplements == [PcNext]_allVars => [Next]_vars
<1>1. ASSUME NEW u \in Uploads, UploadStep(u) PROVE UNCHANGED vars
  BY <1>1 DEF UploadStep, Post, BodyRead, StatDone, Probed, RemuxWrites,
              RemuxEnds, SendEnds, Unlinked, Sends, Turn
<1>2. ReadyChanges => UNCHANGED vars
  BY DEF ReadyChanges
<1> QED
  BY <1>1, <1>2 DEF PcNext, allVars

\* Uploads take nothing from the connection and its requests: with them beside
\* it, the ladder, the pings and the manifest are kept as by BaseAgent alone
\* (startHealthServer, src/agent.js, beside sdk/base-agent.js).
THEOREM SocketSafeBesideUploads == PcSpec => []SocketInStep
<1>1. PcSpec => Spec
  BY StepImplements, PTL DEF PcSpec, PcInit, Spec
<1> QED
  BY <1>1, SocketSafe, PTL

\* A request is answered once while uploads run beside it.
THEOREM AnswersOnceBesideUploads == PcSpec => []AnsweredOnce
<1>1. PcSpec => Spec
  BY StepImplements, PTL DEF PcSpec, PcInit, Spec
<1> QED
  BY <1>1, AnswersOnce, PTL

----------------------------------------------------------------------------
(* Uploads.                                                                *)

UploadInv == UploadTypeOK /\ UploadsSettle

LEMMA UploadInitially == UploadInit => UploadInv
<1>1. <<>> \in Seq(Statuses) /\ Len(<<>>) = 0
  OBVIOUS
<1> SUFFICES ASSUME UploadInit PROVE UploadInv
  OBVIOUS
<1>2. UploadTypeOK
  BY <1>1 DEF UploadInit, UploadTypeOK, Phases
<1>3. UploadsSettle
  BY <1>1 DEF UploadInit, UploadsSettle, SentIsWhole, CopyGoesAway,
              PostAnsweredOnce
<1> QED
  BY <1>2, <1>3 DEF UploadInv

\* The invariant, of one upload.
Settles(p, t, r) ==
  /\ p \in Phases /\ t \in {"none", "partial", "whole"} /\ r \in Seq(Statuses)
  /\ p = "remuxed" => t = "whole"
  /\ t = "whole" => p \in {"remuxed", "unlink", "kept"}
  /\ Len(r) = IF p \in {"unlink", "ended", "kept"} THEN 1 ELSE 0

\* A step of a handler: where it was, where it goes, and what becomes of copy
\* and response, none of it of another upload.
Moves(u, from, to) ==
  /\ Turn(u, from, to) /\ to \in Phases
  /\ temp' = [temp EXCEPT ![u] = temp'[u]]
  /\ reply' = [reply EXCEPT ![u] = reply'[u]]

LEMMA OneUpload ==
  ASSUME UploadInv, NEW u \in Uploads, NEW from, NEW to, Moves(u, from, to),
         Settles(from, temp[u], reply[u]) => Settles(to, temp'[u], reply'[u])
  PROVE  UploadInv'
<1> USE DEF UploadInv, UploadTypeOK, UploadsSettle, SentIsWhole, CopyGoesAway,
            PostAnsweredOnce
<1>1. phase[u] = from /\ phase' = [phase EXCEPT ![u] = to] /\ ready' = ready
  BY DEF Moves, Turn
<1>2. Settles(from, temp[u], reply[u])
  BY <1>1 DEF Settles
<1>3. Settles(to, temp'[u], reply'[u])
  BY <1>2
<1>4. ASSUME NEW v \in Uploads PROVE Settles(phase'[v], temp'[v], reply'[v])
  <2>1. CASE v = u
    BY <1>1, <1>3, <2>1
  <2>2. CASE v # u
    <3>1. phase'[v] = phase[v] /\ temp'[v] = temp[v] /\ reply'[v] = reply[v]
      BY <1>1, <2>2 DEF Moves
    <3>2. Settles(phase[v], temp[v], reply[v])
      BY DEF Settles
    <3> QED
      BY <3>1, <3>2
  <2> QED
    BY <2>1, <2>2
<1>5. UploadTypeOK'
  <2>1. /\ temp'[u] \in {"none", "partial", "whole"}
        /\ reply'[u] \in Seq(Statuses)
    BY <1>3 DEF Settles
  <2> QED
    BY <1>1, <2>1 DEF Moves
<1> QED
  BY <1>4, <1>5 DEF Settles

\* The response of an upload that has none gets its first status.
LEMMA FirstReply ==
  ASSUME NEW r \in Seq(Statuses), Len(r) = 0, NEW s \in Statuses
  PROVE  Append(r, s) \in Seq(Statuses) /\ Len(Append(r, s)) = 1
OBVIOUS

\* A turn that leaves copy and response alone.
LEMMA QuietTurn ==
  ASSUME UploadInv, NEW u \in Uploads, NEW from, NEW to \in Phases, Turn(u, from, to),
         UNCHANGED <<temp, reply>>,
         from \notin {"remuxed", "unlink", "ended", "kept"},
         to \notin {"remuxed", "unlink", "ended", "kept"}
  PROVE  UploadInv'
<1>1. Moves(u, from, to)
  BY DEF UploadInv, UploadTypeOK, Moves
<1>2. Settles(from, temp[u], reply[u]) => Settles(to, temp'[u], reply'[u])
  BY DEF Settles
<1> QED
  BY <1>1, <1>2, OneUpload

\* A turn that answers, before anything was remuxed.
LEMMA AnsweringTurn ==
  ASSUME UploadInv, NEW u \in Uploads, NEW from, Turn(u, from, "ended"),
         from \notin {"remuxed", "unlink", "ended", "kept"},
         UNCHANGED temp, NEW s \in Statuses, Reply(u, s)
  PROVE  UploadInv'
<1>1. Moves(u, from, "ended")
  BY DEF UploadInv, UploadTypeOK, Moves, Reply, Phases
<1>2. reply'[u] = Append(reply[u], s)
  BY DEF Reply, UploadInv, UploadTypeOK
<1>3. Settles(from, temp[u], reply[u]) => Settles("ended", temp'[u], reply'[u])
  BY <1>2, FirstReply DEF Settles, Phases
<1> QED
  BY <1>1, <1>3, OneUpload

\* The original is handed to Telegram, or refused for want of a client.
LEMMA OriginalSent ==
  ASSUME UploadInv, NEW u \in Uploads, NEW from,
         from \notin {"remuxed", "unlink", "ended", "kept"},
         UNCHANGED temp, Sends(u, from, "original")
  PROVE  UploadInv'
<1>1. CASE ready
  BY <1>1, QuietTurn DEF Sends, Phases
<1>2. CASE ~ready
  BY <1>2, AnsweringTurn DEF Sends, Statuses
<1> QED
  BY <1>1, <1>2

\* The same of the copy, which is whole by now.
LEMMA CopySent ==
  ASSUME UploadInv, NEW u \in Uploads, temp' = [temp EXCEPT ![u] = "whole"],
         Sends(u, "remux", "remuxed")
  PROVE  UploadInv'
<1>0. /\ temp \in [Uploads -> {"none", "partial", "whole"}]
      /\ reply \in [Uploads -> Seq(Statuses)]
  BY DEF UploadInv, UploadTypeOK
<1>1. CASE ready
  <2>1. Moves(u, "remux", "remuxed") /\ reply'[u] = reply[u] /\ temp'[u] = "whole"
    BY <1>0, <1>1 DEF Sends, Moves, Phases
  <2>2. Settles("remux", temp[u], reply[u]) => Settles("remuxed", temp'[u], reply'[u])
    BY <2>1 DEF Settles, Phases
  <2> QED
    BY <2>1, <2>2, OneUpload
<1>2. CASE ~ready
  <2>1. /\ Moves(u, "remux", "unlink") /\ reply'[u] = Append(reply[u], 502)
        /\ temp'[u] = "whole"
    BY <1>0, <1>2 DEF Sends, Reply, Moves, Phases
  <2>2. Settles("remux", temp[u], reply[u]) => Settles("unlink", temp'[u], reply'[u])
    BY <2>1, FirstReply DEF Settles, Phases, Statuses
  <2> QED
    BY <2>1, <2>2, OneUpload
<1> QED
  BY <1>1, <1>2

LEMMA UploadKept ==
  ASSUME UploadInv, NEW u \in Uploads, UploadStep(u)
  PROVE  UploadInv'
<1>0. /\ temp \in [Uploads -> {"none", "partial", "whole"}]
      /\ reply \in [Uploads -> Seq(Statuses)]
  BY DEF UploadInv, UploadTypeOK
<1>1. CASE Post(u)
  BY <1>1, QuietTurn DEF Post, Phases
<1>2. CASE BodyRead(u)
  BY <1>2, QuietTurn, AnsweringTurn DEF BodyRead, Phases, Statuses
<1>3. CASE StatDone(u)
  BY <1>3, QuietTurn, AnsweringTurn DEF StatDone, Phases, Statuses
<1>4. CASE Probed(u)
  BY <1>4, QuietTurn, OriginalSent DEF Probed, Phases
<1>5. CASE RemuxWrites(u)
  <2>1. Moves(u, "remux", "remux") /\ temp'[u] = "partial" /\ reply'[u] = reply[u]
    BY <1>0, <1>5 DEF RemuxWrites, Moves, Phases
  <2>2. Settles("remux", temp[u], reply[u]) => Settles("remux", temp'[u], reply'[u])
    BY <2>1 DEF Settles
  <2> QED
    BY <2>1, <2>2, OneUpload
<1>6. CASE RemuxEnds(u)
  BY <1>6, CopySent, OriginalSent DEF RemuxEnds
<1>7. CASE SendEnds(u)
  <2>1. PICK s \in {200, 502} : /\ Reply(u, s)
                                /\ Turn(u, "original", "ended") \/ Turn(u, "remuxed", "unlink")
    BY <1>7 DEF SendEnds
  <2>2. s \in Statuses /\ UNCHANGED temp
    BY <1>7 DEF SendEnds, Statuses
  <2>3. CASE Turn(u, "original", "ended")
    BY <2>1, <2>2, <2>3, AnsweringTurn
  <2>4. CASE Turn(u, "remuxed", "unlink")
    <3>1. Moves(u, "remuxed", "unlink") /\ temp'[u] = temp[u]
      BY <1>0, <2>1, <2>2, <2>4 DEF Reply, Moves, Phases
    <3>2. reply'[u] = Append(reply[u], s)
      BY <1>0, <2>1 DEF Reply
    <3>3. Settles("remuxed", temp[u], reply[u]) => Settles("unlink", temp'[u], reply'[u])
      BY <2>2, <3>1, <3>2, FirstReply DEF Settles, Phases
    <3> QED
      BY <3>1, <3>3, OneUpload
  <2> QED
    BY <2>1, <2>3, <2>4
<1>8. CASE Unlinked(u)
  <2>1. PICK to \in {"ended", "kept"} :
          /\ Moves(u, "unlink", to) /\ reply'[u] = reply[u]
          /\ temp'[u] = IF to = "ended" THEN "none" ELSE temp[u]
    BY <1>0, <1>8 DEF Unlinked, Moves, Phases
  <2>2. Settles("unlink", temp[u], reply[u]) => Settles(to, temp'[u], reply'[u])
    BY <2>1 DEF Settles, Phases
  <2> QED
    BY <2>1, <2>2, OneUpload
<1> QED
  BY <1>1, <1>2, <1>3, <1>4, <1>5, <1>6, <1>7, <1>8 DEF UploadStep

\* Whatever fails and whenever Telegram comes and goes, an upload is answered
\* once and only a whole copy is sent; the copy is removed afterwards, unless just
\* that fails (POST /api/v1/tg-upload of src/agent.js).
THEOREM UploadsSafe == PcSpec => []UploadsSettle
<1>1. UploadInv /\ [PcNext]_allVars => UploadInv'
  <2> SUFFICES ASSUME UploadInv, [PcNext]_allVars PROVE UploadInv'
    OBVIOUS
  <2>1. CASE UNCHANGED uploadVars
    BY <2>1 DEF uploadVars, UploadInv, UploadTypeOK, UploadsSettle, SentIsWhole,
                CopyGoesAway, PostAnsweredOnce
  <2>2. CASE ReadyChanges
    BY <2>2 DEF ReadyChanges, UploadInv, UploadTypeOK, UploadsSettle, SentIsWhole,
                CopyGoesAway, PostAnsweredOnce
  <2>3. CASE \E u \in Uploads : UploadStep(u)
    BY <2>3, UploadKept
  <2> QED
    BY <2>1, <2>2, <2>3 DEF PcNext, allVars
<1>2. UploadInv => UploadsSettle
  BY DEF UploadInv
<1> QED
  BY <1>1, <1>2, UploadInitially, PTL DEF PcSpec, PcInit
=============================================================================
