------------------------------- MODULE Telegram -------------------------------
(***************************************************************************)
(* The Telegram side of the agent: the loop that keeps a client connected  *)
(* (manageTelegram in src/index.js, initialize and isReady in              *)
(* src/telegram.js), the subscription that forwards messages, and          *)
(* collectReplies, which listens for a bot's answers until it falls        *)
(* silent.  A new client starts without the handlers of the old one; the   *)
(* module's variables still name them.                                     *)
(*                                                                         *)
(* External: the Telegram library with its connections, and everybody who  *)
(* writes and edits messages.  Edits of a message are delivered in order,  *)
(* but the library may run an edit's handler before the handler of the     *)
(* message itself, and a handler that awaits its turn runs also when it    *)
(* was removed or its client was disconnected meanwhile.  disconnect() may *)
(* fail, and the old client go on; bound: until the next replacement.      *)
(***************************************************************************)
EXTENDS Naturals, Sequences, FiniteSets

CONSTANTS
  Clients,      \* client objects; one that was replaced stands for a new one
  Collects,     \* bound: the calls of collectReplies, all for one bot
  Subs,         \* bound: the calls of subscribeNewMessages
  Msgs,         \* bound: the messages written
  BotMsgs,      \* those among them that the bot writes
  MaxVersion,   \* bound: a message is edited MaxVersion - 1 times
  None

ASSUME BoundsAssumption ==
  /\ BotMsgs \subseteq Msgs /\ MaxVersion \in Nat
  /\ None \notin Clients \cup Subs \cup Collects /\ Subs \cap Collects = {}
  /\ Cardinality(Clients) >= 2

VARIABLES
  loop,      \* manageTelegram: "check", "disconnect", "connect", "sleep"
  client,    \* the module's client
  ready,     \* the module's flag
  link,      \* client -> its connection; "stray": replaced, but not disconnected
  handlers,  \* client -> the handlers added to it
  sub,       \* _newMessageHandler with its status handler, or None
  collect,   \* call -> "idle", "listening", "done"
  caller,    \* call -> the operation that awaits it
  silence,   \* calls with a pending silence timer
  maxWait,   \* calls with a pending REPLY_TIMEOUT_MS timer
  replies,   \* call -> the messages array
  version,   \* message -> version it is at, 0 before it is written
  events,    \* client -> updates for collectors, not yet handled
  late,      \* call -> updates whose handlers were on their way when removed
  heard      \* history: call -> message -> versions its handlers got

lib == <<link, handlers, events, late>>
bot == <<collect, caller, silence, maxWait, replies, heard>>
vars == <<loop, client, ready, lib, sub, bot, version>>

Events == [msg : Msgs, kind : {"new", "edit"}, version : 1 .. MaxVersion]
\* version: of text, buttons and entities; media: of hasMedia and mediaType.
Entries == [msg : Msgs, version : 1 .. MaxVersion, media : 1 .. MaxVersion]

TypeOK ==
  /\ loop \in {"check", "disconnect", "connect", "sleep"}
  /\ client \in Clients \cup {None} /\ ready \in BOOLEAN
  /\ loop \in {"disconnect", "connect"} => client # None
  /\ link \in [Clients -> {"none", "up", "down", "stray"}]
  /\ handlers \in [Clients -> SUBSET (Subs \cup Collects)]
  /\ sub \in Subs \cup {None}
  /\ collect \in [Collects -> {"idle", "listening", "done"}]
  /\ caller \in [Collects -> {"idle", "sending", "waiting", "returned", "threw"}]
  /\ silence \subseteq Collects /\ maxWait \subseteq Collects
  /\ replies \in [Collects -> Seq(Entries)]
  /\ version \in [Msgs -> 0 .. MaxVersion]
  /\ events \in [Clients -> SUBSET Events]
  /\ late \in [Collects -> SUBSET Events]
  /\ heard \in [Collects -> [Msgs -> SUBSET (1 .. MaxVersion)]]

Init ==
  /\ loop = "check" /\ client = None /\ ready = FALSE
  /\ link = [g \in Clients |-> "none"]
  /\ handlers = [g \in Clients |-> {}] /\ events = [g \in Clients |-> {}]
  /\ sub = None
  /\ collect = [c \in Collects |-> "idle"]
  /\ caller = [c \in Collects |-> "idle"]
  /\ silence = {} /\ maxWait = {}
  /\ replies = [c \in Collects |-> <<>>]
  /\ version = [m \in Msgs |-> 0]
  /\ late = [c \in Collects |-> {}]
  /\ heard = [c \in Collects |-> [m \in Msgs |-> {}]]

----------------------------------------------------------------------------
(* isReady: every operation asks it first, and it notices a lost client.   *)

Connected == client # None /\ link[client] = "up"

\* Mutant: the flag alone.
FlagOnly == ready

IsReady == ready /\ Connected

NoticeReady == ready' = IsReady

----------------------------------------------------------------------------
(* Handlers.                                                               *)

\* The filters: newMsgHandler hears of the bot's messages, editHandler of
\* anybody's edits.
Takes(e) == e.kind = "edit" \/ e.msg \in BotMsgs

\* Handlers of calls in cs leave client g while the library has begun with some
\* of its updates: for those they still run.
Overtaken(g, cs) ==
  \E begun \in SUBSET events[g] :
    late' = [c \in Collects |-> IF c \in cs /\ c \in handlers[g]
                                 THEN late[c] \cup begun ELSE late[c]]

----------------------------------------------------------------------------
(* manageTelegram                                                          *)

\* Mutant: the old client goes on.
NewClientOnly ==
  \E g \in Clients \ {client} :
    /\ client' = g
    /\ link' = [link EXCEPT ![g] = "down"]
    /\ handlers' = [handlers EXCEPT ![g] = {}]
    /\ events' = [events EXCEPT ![g] = {}]
    /\ UNCHANGED late

\* Mutant: the module has no client until it is connected.
NewClientLater ==
  /\ client' = None
  /\ link' = IF client = None THEN link ELSE [link EXCEPT ![client] = "none"]
  /\ UNCHANGED <<handlers, events, late>>

\* initialize from its first await on: the old client is disconnected, unless
\* that fails, a new one connecting and without handlers.
NewClient ==
  \E g \in Clients \ {client}, l \in {"none", "stray"} :
    /\ client' = g
    /\ link' = [h \in Clients |->
                  CASE h = g -> "down" [] h = client -> l [] OTHER -> link[h]]
    /\ handlers' = [h \in Clients |-> IF link'[h] = "stray" THEN handlers[h] ELSE {}]
    /\ events' = [h \in Clients |-> IF link'[h] = "stray" THEN events[h] ELSE {}]
    /\ IF client = None \/ l = "stray" THEN UNCHANGED late
       ELSE Overtaken(client, Collects)

\* The loop finds Telegram ready, or initializes it.
Check ==
  /\ loop = "check"
  /\ NoticeReady
  /\ \/ IsReady /\ loop' = "sleep" /\ UNCHANGED <<client, lib>>
     \/ ~IsReady /\ client # None /\ loop' = "disconnect"
        /\ UNCHANGED <<client, lib>>
     \/ ~IsReady /\ client = None /\ NewClient /\ loop' = "connect"
  /\ UNCHANGED <<sub, bot, version>>

Disconnected ==
  /\ loop = "disconnect"
  /\ NewClient
  /\ loop' = "connect" /\ ready' = FALSE
  /\ UNCHANGED <<sub, bot, version>>

ConnectSucceeds ==
  /\ loop = "connect"
  /\ link' = [link EXCEPT ![client] = "up"]
  /\ ready' = TRUE /\ loop' = "sleep"
  /\ UNCHANGED <<client, handlers, events, late, sub, bot, version>>

\* connect() failed, or took 30s; the client stays.
ConnectFails ==
  /\ loop = "connect"
  /\ loop' = "sleep"
  /\ UNCHANGED <<client, ready, lib, sub, bot, version>>

\* The sleep, 30s or 5min, is over.
Wakes ==
  /\ loop = "sleep"
  /\ loop' = "check"
  /\ UNCHANGED <<client, ready, lib, sub, bot, version>>

LoopStep ==
  Check \/ Disconnected \/ ConnectSucceeds \/ ConnectFails \/ Wakes

----------------------------------------------------------------------------
(* telegram_subscribe, telegram_unsubscribe                                *)

\* The handlers of the module's subscription leave the module's client.
Without(s) == [handlers EXCEPT ![client] = @ \ {s}]

Subscribe(s) ==
  /\ s # sub /\ \A g \in Clients : s \notin handlers[g]
  /\ NoticeReady
  /\ IF IsReady
     THEN /\ handlers' = [Without(sub) EXCEPT ![client] = @ \cup {s}]
          /\ sub' = s
     ELSE UNCHANGED <<handlers, sub>>
  /\ UNCHANGED <<loop, client, link, events, late, bot, version>>

Unsubscribe ==
  /\ client # None
  /\ handlers' = Without(sub)
  /\ sub' = None
  /\ UNCHANGED <<loop, client, ready, link, events, late, bot, version>>

----------------------------------------------------------------------------
(* sendAndWait, sendPhotoAndWait, clickButtonAndWait                       *)

\* collectReplies starts to listen, then the operation sends.
BotSend(c) ==
  /\ caller[c] = "idle"
  /\ NoticeReady
  /\ IF IsReady
     THEN /\ handlers' = [handlers EXCEPT ![client] = @ \cup {c}]
          /\ collect' = [collect EXCEPT ![c] = "listening"]
          /\ silence' = silence \cup {c} /\ maxWait' = maxWait \cup {c}
          /\ caller' = [caller EXCEPT ![c] = "sending"]
     ELSE /\ caller' = [caller EXCEPT ![c] = "threw"]
          /\ UNCHANGED <<handlers, collect, silence, maxWait>>
  /\ UNCHANGED <<loop, client, link, events, late, sub, replies, heard,
                 version>>

\* The send ended; its error leaves the collector behind.
SendEnds(c) ==
  /\ caller[c] = "sending"
  /\ \E how \in {"threw", IF collect[c] = "done" THEN "returned" ELSE "waiting"} :
       caller' = [caller EXCEPT ![c] = how]
  /\ UNCHANGED <<loop, client, ready, lib, sub, collect, silence, maxWait,
                 replies, heard, version>>

\* Mutant: the handlers stay.
FinishListening(c) ==
  /\ silence' = silence \ {c} /\ maxWait' = maxWait \ {c}
  /\ collect' = [collect EXCEPT ![c] = "done"]
  /\ caller' = [caller EXCEPT ![c] = IF @ = "waiting" THEN "returned" ELSE @]
  /\ UNCHANGED <<handlers, late>>

\* finish: the handlers leave the client of now, which may not be the one
\* they were added to.  It runs again after a message that came too late.
Finish(c) ==
  /\ silence' = silence \ {c} /\ maxWait' = maxWait \ {c}
  /\ handlers' = [handlers EXCEPT ![client] = @ \ {c}]
  /\ Overtaken(client, {c})
  /\ collect' = [collect EXCEPT ![c] = "done"]
  /\ caller' = [caller EXCEPT ![c] = IF @ = "waiting" THEN "returned" ELSE @]

TimerFires(c) ==
  /\ c \in silence \cup maxWait
  /\ Finish(c)
  /\ UNCHANGED <<loop, client, ready, link, events, sub, replies, heard,
                 version>>

----------------------------------------------------------------------------
(* Updates.                                                                *)

Ids(entries) == {entries[i].msg : i \in DOMAIN entries}
Entry(e) == [msg |-> e.msg, version |-> e.version, media |-> e.version]

\* Mutant: an edit of an unknown message is not kept in seenIds.
CollectedTwice(entries, e) ==
  IF e.kind = "new" \/ e.msg \notin Ids(entries)
  THEN Append(entries, Entry(e))
  ELSE [i \in DOMAIN entries |->
          IF entries[i].msg = e.msg THEN Entry(e) ELSE entries[i]]

\* A message is pushed unless it is there; an edit replaces text, buttons and
\* entities, and leaves the media fields.
Collected(entries, e) ==
  IF e.msg \notin Ids(entries) THEN Append(entries, Entry(e))
  ELSE IF e.kind = "new" THEN entries
  ELSE [i \in DOMAIN entries |->
          IF entries[i].msg # e.msg THEN entries[i]
          ELSE [Entry(e) EXCEPT !.media = entries[i].media]]

\* Mutant: an edit stops the timers and starts none.
TimersStopped(taking, e) ==
  /\ maxWait' = maxWait \ taking
  /\ silence' = silence \ taking

\* Every message ends the long wait; one that is not there yet, and every edit,
\* starts the silence timer anew, also of a call that is done.
Timers(taking, e) ==
  /\ maxWait' = maxWait \ taking
  /\ silence' = silence \cup
       {c \in taking : e.kind = "edit" \/ e.msg \notin Ids(replies[c])}

\* The handlers of the calls in taking run.
Hear(taking, e) ==
  /\ replies' = [c \in Collects |->
       IF c \in taking THEN Collected(replies[c], e) ELSE replies[c]]
  /\ heard' = [c \in Collects |->
       IF c \in taking THEN [heard[c] EXCEPT ![e.msg] = @ \cup {e.version}]
       ELSE heard[c]]
  /\ Timers(taking, e)
  /\ UNCHANGED <<loop, client, ready, link, handlers, sub, collect, caller,
                 version>>

\* External: edits of a message come in order.
IsNext(e, waiting) ==
  e \in waiting /\ (e.kind = "edit" => \A d \in waiting :
    d.kind = "edit" /\ d.msg = e.msg => d.version >= e.version)

\* The handlers on a client get an update.
Update(g, e) ==
  /\ link[g] \in {"up", "stray"} /\ IsNext(e, events[g])
  /\ events' = [events EXCEPT ![g] = @ \ {e}]
  /\ Hear(handlers[g] \cap Collects, e)
  /\ UNCHANGED late

\* A handler that was removed too late for this update.
LateUpdate(c, e) ==
  /\ IsNext(e, late[c])
  /\ late' = [late EXCEPT ![c] = @ \ {e}]
  /\ Hear({c}, e)
  /\ UNCHANGED events

\* Somebody writes a message or edits it; clients that are up hear of it.
Written(m) ==
  /\ version[m] < MaxVersion
  /\ version' = [version EXCEPT ![m] = @ + 1]
  /\ LET e == [msg |-> m, version |-> version'[m],
               kind |-> IF version[m] = 0 THEN "new" ELSE "edit"] IN
       events' = [g \in Clients |->
                    IF link[g] \in {"up", "stray"} /\ Takes(e)
                    THEN events[g] \cup {e} ELSE events[g]]
  /\ UNCHANGED <<loop, client, ready, link, handlers, late, sub, bot>>

\* The connection breaks, or the library restores it by itself.
LinkChanges(g) ==
  /\ \/ link[g] = "up" /\ link' = [link EXCEPT ![g] = "down"]
     \/ link[g] = "down" /\ link' = [link EXCEPT ![g] = "up"]
  /\ UNCHANGED <<loop, client, ready, handlers, events, late, sub, bot,
                 version>>

----------------------------------------------------------------------------

Next ==
  \/ LoopStep
  \/ \E s \in Subs : Subscribe(s)
  \/ Unsubscribe
  \/ \E c \in Collects :
       BotSend(c) \/ SendEnds(c) \/ TimerFires(c) \/ \E e \in late[c] : LateUpdate(c, e)
  \/ \E g \in Clients : (\E e \in events[g] : Update(g, e)) \/ LinkChanges(g)
  \/ \E m \in Msgs : Written(m)

Spec == Init /\ [][Next]_vars

\* The loop's awaits end (connect has its time limit), and timers fire once
\* the bot is silent.  The network and the people owe nothing.
FairSpec ==
  /\ Spec
  /\ WF_vars(LoopStep)
  /\ \A c \in Collects : WF_vars(TimerFires(c))

----------------------------------------------------------------------------
(* Properties.                                                             *)

\* The replies are what the collector heard: each message once, with text,
\* buttons and entities of its newest version and the media fields of one that
\* was heard, in whatever order messages and their edits come, also too late.
RepliesComplete ==
  \A c \in Collects :
    /\ Len(replies[c]) = Cardinality(Ids(replies[c]))
    /\ Ids(replies[c]) = {m \in Msgs : heard[c][m] # {}}
    /\ \A i \in DOMAIN replies[c] :
         LET r == replies[c][i]
             versions == heard[c][r.msg]
         IN  r.version \in versions /\ r.media \in versions
             /\ \A v \in versions : v <= r.version

\* Clients that may get updates, but for those that could not be disconnected:
\* what handlers they have nobody can take away.
Hearing == {g \in Clients : link[g] \in {"up", "down"}}

\* A collector that is done does not time out any more, and has no handler on
\* a client that may still get updates.
DoneLeavesNothing ==
  \A c \in Collects : collect[c] = "done" =>
    c \notin maxWait /\ \A g \in Hearing : c \notin handlers[g]

\* Nobody hears a message twice: clients that may get updates have one
\* subscription between them, also after reconnects and new subscriptions.
OneSubscription ==
  Cardinality({s \in Subs : \E g \in Hearing : s \in handlers[g]}) <= 1

\* Who is registered where, and with which timers, fits what is under way.
HandlersInStep == TypeOK /\ DoneLeavesNothing /\ OneSubscription

\* A collector ends, whether the bot answers or not, the send fails, or the
\* client is replaced.
CollectEnds ==
  \A c \in Collects : collect[c] = "listening" ~> collect[c] = "done"

\* A lost connection is noticed and a new one tried, unless the library
\* restored it meanwhile.
Reconnects ==
  client # None /\ link[client] = "down"
    ~> (client # None /\ link[client] = "up") \/ loop = "connect"
=============================================================================
