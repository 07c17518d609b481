------------------------------- MODULE PcAgent -------------------------------
(***************************************************************************)
(* The process of the agent: BaseAgent's socket and, beside it, the HTTP   *)
(* server of startHealthServer with the route POST /api/v1/tg-upload       *)
(* (src/agent.js), which sends a local file to Telegram's Saved Messages.  *)
(* A soundless video is sent as a remuxed copy in the temp directory.      *)
(*                                                                         *)
(* One action is one turn of the handler between two awaits.  The handler  *)
(* catches all it awaits, so that the 500 of the server is never sent.     *)
(* ffmpeg and Telegram are awaited without a limit.  A temp file has a     *)
(* random name: every upload has its own.                                  *)
(*                                                                         *)
(* External: the HTTP client, the file system, ffprobe, ffmpeg, and the    *)
(* Telegram client, which may be replaced while it sends.                  *)
(***************************************************************************)
EXTENDS BaseAgent

CONSTANT Uploads   \* POSTs of a file

VARIABLES
  phase,    \* upload -> where its handler is
  temp,     \* upload -> its temp file: "none", "partial", "whole"
  reply,    \* upload -> statuses written to its response
  ready     \* telegram.isReady()

uploadVars == <<phase, temp, reply, ready>>
allVars == <<vars, uploadVars>>

Phases == {"none", "body", "stat", "probe", "remux", "original", "remuxed",
           "unlink", "ended", "kept"}
Statuses == {200, 400, 404, 413, 502}

UploadTypeOK ==
  /\ phase \in [Uploads -> Phases]
  /\ temp \in [Uploads -> {"none", "partial", "whole"}]
  /\ reply \in [Uploads -> Seq(Statuses)]
  /\ ready \in BOOLEAN

UploadInit ==
  /\ phase = [u \in Uploads |-> "none"]
  /\ temp = [u \in Uploads |-> "none"]
  /\ reply = [u \in Uploads |-> <<>>]
  /\ ready = FALSE

----------------------------------------------------------------------------
\* A turn of an upload's handler, from one await to the next.
Turn(u, from, to) ==
  /\ ~shutdownRequested /\ phase[u] = from
  /\ phase' = [phase EXCEPT ![u] = to]
  /\ UNCHANGED <<vars, ready>>

Reply(u, status) == reply' = [reply EXCEPT ![u] = Append(@, status)]

\* The request is routed and its body is read.
Post(u) == Turn(u, "none", "body") /\ UNCHANGED <<temp, reply>>

\* readJsonBody: no JSON, a body over 1MB or one without a filePath is
\* answered 400 (over 1MB the socket is destroyed, and nobody hears it).
BodyRead(u) ==
  /\ UNCHANGED temp
  /\ \/ Turn(u, "body", "stat") /\ UNCHANGED reply
     \/ Turn(u, "body", "ended") /\ Reply(u, 400)

StatDone(u) ==
  /\ UNCHANGED temp
  /\ \/ Turn(u, "stat", "probe") /\ UNCHANGED reply
     \/ Turn(u, "stat", "ended") /\ \E s \in {404, 413} : Reply(u, s)

\* sendDocumentToSelf: sent by the client, or refused with no client.
Sends(u, from, what) ==
  IF ready THEN Turn(u, from, what) /\ UNCHANGED reply
  ELSE /\ Turn(u, from, IF what = "remuxed" THEN "unlink" ELSE "ended")
       /\ Reply(u, 502)

\* classifyMedia: ffmpeg is started for a soundless video; what is no video,
\* has sound or cannot be probed is sent as it is.
Probed(u) ==
  /\ UNCHANGED temp
  /\ \/ Turn(u, "probe", "remux") /\ UNCHANGED reply
     \/ Sends(u, "probe", "original")

\* ffmpeg writes to the temp file as soon as it has opened it.
RemuxWrites(u) ==
  /\ Turn(u, "remux", "remux") /\ temp[u] = "none"
  /\ temp' = [temp EXCEPT ![u] = "partial"]
  /\ UNCHANGED reply

\* Mutant: the path is chosen before ffmpeg has succeeded.
RemuxEndsEagerly(u) ==
  \/ /\ temp[u] = "partial" /\ temp' = [temp EXCEPT ![u] = "whole"]
     /\ Sends(u, "remux", "remuxed")
  \/ UNCHANGED temp /\ Sends(u, "remux", "remuxed")

\* addSilentAudio returns its file, or throws: then the original is sent, and
\* what ffmpeg left of the temp file stays, as its path was not returned.
RemuxEnds(u) ==
  \/ /\ temp[u] = "partial" /\ temp' = [temp EXCEPT ![u] = "whole"]
     /\ Sends(u, "remux", "remuxed")
  \/ UNCHANGED temp /\ Sends(u, "remux", "original")

\* Mutant: the temp file is removed only when the file was sent.
SendEndsKeepingFailed(u) ==
  /\ UNCHANGED temp
  /\ \/ \E s \in {200, 502} : Turn(u, "original", "ended") /\ Reply(u, s)
     \/ Turn(u, "remuxed", "unlink") /\ Reply(u, 200)
     \/ Turn(u, "remuxed", "ended") /\ Reply(u, 502)

\* client.sendFile resolves or rejects: 200 or 502, and unlink is started in
\* either case.
SendEnds(u) ==
  /\ UNCHANGED temp
  /\ \E s \in {200, 502} :
       /\ Reply(u, s)
       /\ Turn(u, "original", "ended") \/ Turn(u, "remuxed", "unlink")

\* fsp.unlink, which nobody awaits and whose failure nobody hears of: then the
\* copy is kept.
Unlinked(u) ==
  /\ UNCHANGED reply
  /\ \/ Turn(u, "unlink", "ended") /\ temp' = [temp EXCEPT ![u] = "none"]
     \/ Turn(u, "unlink", "kept") /\ UNCHANGED temp

\* External: the Telegram client comes and goes (Telegram.tla).
ReadyChanges ==
  /\ ~shutdownRequested /\ ready' = ~ready
  /\ UNCHANGED <<vars, phase, temp, reply>>

UploadStep(u) ==
  \/ Post(u) \/ BodyRead(u) \/ StatDone(u) \/ Probed(u) \/ RemuxWrites(u)
  \/ RemuxEnds(u) \/ SendEnds(u) \/ Unlinked(u)

PcNext ==
  \/ Next /\ UNCHANGED uploadVars
  \/ \E u \in Uploads : UploadStep(u)
  \/ ReadyChanges

PcInit == Init /\ UploadInit

PcSpec == PcInit /\ [][PcNext]_allVars

\* As in BaseAgent: nothing is assumed of ffmpeg, Telegram or the file system.
FairPcSpec ==
  /\ PcSpec
  /\ WF_vars(Start) /\ WF_vars(ReconnectFires)
  /\ WF_vars(Opened \/ HandshakeFails) /\ WF_vars(CloseReported)
  /\ WF_vars(PingTick)
  /\ \A r \in Requests : WF_vars(HandleTimesOut(r))

----------------------------------------------------------------------------
(* Properties.                                                             *)

\* What Telegram reads is whole, and stays until it was read.
SentIsWhole == \A u \in Uploads : phase[u] = "remuxed" => temp[u] = "whole"

\* A remuxed copy does not outlive its upload, sent or not, unless the file
\* system refuses to remove it: every other failure leads to the unlink.
CopyGoesAway ==
  \A u \in Uploads :
    temp[u] = "whole" => phase[u] \in {"remuxed", "unlink", "kept"}

\* A POST is answered once, however its steps fail.
PostAnsweredOnce ==
  \A u \in Uploads :
    Len(reply[u]) = IF phase[u] \in {"unlink", "ended", "kept"} THEN 1 ELSE 0

UploadsSettle == SentIsWhole /\ CopyGoesAway /\ PostAnsweredOnce
=============================================================================
