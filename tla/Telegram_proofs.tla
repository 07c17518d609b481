--------------------------- MODULE Telegram_proofs ---------------------------
(***************************************************************************)
(* Proofs about Telegram: that handlers, timers and the subscription fit   *)
(* what is under way, and that a collector returns what it heard.  For any *)
(* clients, collectors, subscriptions and messages with any number of      *)
(* edits.                                                                  *)
(***************************************************************************)
EXTENDS Telegram, FiniteSetTheorems, SequenceTheorems, TLAPS

\* Only the module's client has a connection, but for clients that could not be
\* disconnected.
OneLink == \A g \in Clients \ {client} : link[g] \in {"none", "stray"}

\* How far a collector is: before it listens it has nothing and is nowhere, the
\* long wait runs while it listens, and it came to a client.
Collecting ==
  \A c \in Collects :
    /\ caller[c] = "idle" => collect[c] = "idle"
    /\ collect[c] = "idle" =>
         /\ replies[c] = <<>> /\ late[c] = {} /\ c \notin silence
         /\ \A m \in Msgs : heard[c][m] = {}
         /\ \A g \in Clients : c \notin handlers[g]
    /\ c \in maxWait => collect[c] = "listening"
    /\ collect[c] # "idle" => client # None

\* Whose handlers the module's client has.
Registered ==
  client # None =>
    /\ \A c \in Collects : collect[c] = "done" => c \notin handlers[client]
    /\ \A s \in Subs : s \in handlers[client] => s = sub

\* A collector hears from one place: a client, or what was on its way from one.
OneSource ==
  \A c \in Collects :
    /\ \A g, h \in Clients : c \in handlers[g] /\ c \in handlers[h] => g = h
    /\ late[c] # {} => \A g \in Clients : c \notin handlers[g]

\* The updates a collector may still hear.
Coming(c) == late[c] \cup UNION {events[g] : g \in {h \in Clients : c \in handlers[h]}}

\* An update that waits tells of a version there was; the first one is new.
Told(e) == e.version <= version[e.msg] /\ (e.kind = "new" => e.version = 1)

Updates ==
  /\ \A g \in Clients : \A e \in events[g] : Told(e)
  /\ \A c \in Collects : \A e \in late[c] : Told(e)

\* An edit that waits is none that a collector has got a later version of.
EditsInOrder ==
  \A c \in Collects : \A e \in Coming(c) :
    e.kind = "edit" => \A v \in heard[c][e.msg] : v <= e.version

HeardWritten == \A c \in Collects, m \in Msgs : \A v \in heard[c][m] : v <= version[m]

\* An array that has just what was heard, each message once.
Holds(r, h) ==
  /\ r \in Seq(Entries) /\ h \in [Msgs -> SUBSET (1 .. MaxVersion)]
  /\ \A i, j \in 1 .. Len(r) : r[i].msg = r[j].msg => i = j
  /\ \A i \in 1 .. Len(r) :
       /\ r[i].version \in h[r[i].msg] /\ r[i].media \in h[r[i].msg]
       /\ \A v \in h[r[i].msg] : v <= r[i].version
  /\ \A m \in Msgs : h[m] # {} => \E i \in 1 .. Len(r) : r[i].msg = m

RepliesHeard == \A c \in Collects : Holds(replies[c], heard[c])

Inv ==
  /\ TypeOK /\ OneLink /\ Collecting /\ Registered /\ OneSource
  /\ Updates /\ EditsInOrder /\ HeardWritten /\ RepliesHeard

----------------------------------------------------------------------------
(* Steps that leave the collectors' arrays alone.                          *)

LEMMA Frame ==
  /\ OneLink /\ UNCHANGED <<client, link>> => OneLink'
  /\ Collecting /\ UNCHANGED <<bot, client, handlers, late>> => Collecting'
  /\ Registered /\ UNCHANGED <<client, handlers, sub, collect>> => Registered'
  /\ OneSource /\ UNCHANGED <<handlers, late>> => OneSource'
  /\ Updates /\ UNCHANGED <<events, late, version>> => Updates'
  /\ EditsInOrder /\ UNCHANGED <<handlers, events, late, heard>> => EditsInOrder'
  /\ HeardWritten /\ UNCHANGED <<heard, version>> => HeardWritten'
  /\ RepliesHeard /\ UNCHANGED <<replies, heard>> => RepliesHeard'
<1>1. OneLink /\ UNCHANGED <<client, link>> => OneLink'
  BY DEF OneLink
<1>2. Collecting /\ UNCHANGED <<bot, client, handlers, late>> => Collecting'
  BY DEF Collecting, bot
<1>3. Registered /\ UNCHANGED <<client, handlers, sub, collect>> => Registered'
  BY DEF Registered
<1>4. OneSource /\ UNCHANGED <<handlers, late>> => OneSource'
  BY DEF OneSource
<1>5. Updates /\ UNCHANGED <<events, late, version>> => Updates'
  BY DEF Updates, Told
<1>6. EditsInOrder /\ UNCHANGED <<handlers, events, late, heard>> => EditsInOrder'
  BY DEF EditsInOrder, Coming
<1>7. HeardWritten /\ UNCHANGED <<heard, version>> => HeardWritten'
  BY DEF HeardWritten
<1>8. RepliesHeard /\ UNCHANGED <<replies, heard>> => RepliesHeard'
  BY DEF RepliesHeard
<1> QED  BY <1>1, <1>2, <1>3, <1>4, <1>5, <1>6, <1>7, <1>8

\* Collectors hear of less when handlers leave a client: of updates the library
\* has begun with there they still hear.
LEMMA Leaving ==
  ASSUME Inv, NEW g \in Clients, NEW cs, Overtaken(g, cs),
         UNCHANGED <<events, heard, version>>,
         handlers' \in [Clients -> SUBSET (Subs \cup Collects)],
         \A h \in Clients : handlers'[h] \cap Collects \subseteq handlers[h],
         handlers'[g] \cap cs = {}
  PROVE  /\ late' \in [Collects -> SUBSET Events]
         /\ OneSource' /\ Updates' /\ EditsInOrder'
         /\ \A c \in Collects : c \notin handlers[g] => late'[c] = late[c]
<1>1. PICK begun \in SUBSET events[g] :
        late' = [c \in Collects |-> IF c \in cs /\ c \in handlers[g]
                                      THEN late[c] \cup begun ELSE late[c]]
  BY DEF Overtaken
<1>2. late' \in [Collects -> SUBSET Events]
  BY <1>1 DEF Inv, TypeOK
<1>3. OneSource'
  BY <1>1 DEF Inv, OneSource
<1>4. Updates'
  BY <1>1 DEF Inv, Updates, Told
<1>5. \A c \in Collects : Coming(c)' \subseteq Coming(c)
  BY <1>1 DEF Coming
<1>6. EditsInOrder'
  BY <1>5 DEF Inv, EditsInOrder
<1> QED  BY <1>1, <1>2, <1>3, <1>4, <1>6

\* initialize takes a client without handlers and updates, and closes the old
\* one or leaves it to itself.
LEMMA NewClientStep ==
  ASSUME Inv, NewClient, loop' = "connect", ready' \in BOOLEAN,
         UNCHANGED <<sub, bot, version>>
  PROVE  Inv'
<1>1. PICK g \in Clients \ {client}, l \in {"none", "stray"} :
        /\ client' = g
        /\ link' = [h \in Clients |->
              CASE h = g -> "down" [] h = client -> l [] OTHER -> link[h]]
        /\ handlers' = [h \in Clients |->
              IF link'[h] = "stray" THEN handlers[h] ELSE {}]
        /\ events' = [h \in Clients |->
              IF link'[h] = "stray" THEN events[h] ELSE {}]
        /\ IF client = None \/ l = "stray" THEN UNCHANGED late
           ELSE Overtaken(client, Collects)
  BY DEF NewClient
<1>2. PICK begun \in SUBSET Events :
        /\ late' = [c \in Collects |->
              IF client \in Clients /\ link'[client] = "none" /\ c \in handlers[client]
              THEN late[c] \cup begun ELSE late[c]]
        /\ client \in Clients => begun \subseteq events[client]
  <2>1. CASE client = None \/ l = "stray"
    <3>1. client \in Clients => link'[client] # "none"
      BY <1>1, <2>1, BoundsAssumption
    <3>2. late = [c \in Collects |-> late[c]]
      BY DEF Inv, TypeOK
    <3>3. late' = late
      BY <1>1, <2>1
    <3>4. late' = [c \in Collects |->
            IF client \in Clients /\ link'[client] = "none" /\ c \in handlers[client]
            THEN late[c] \cup {} ELSE late[c]]
      BY <3>1, <3>2, <3>3
    <3>5. {} \in SUBSET Events /\ (client \in Clients => {} \subseteq events[client])
      OBVIOUS
    <3> WITNESS {} \in SUBSET Events
    <3> QED  BY <3>4, <3>5
  <2>2. CASE client # None /\ l = "none"
    <3>1. client \in Clients /\ link'[client] = "none" /\ events[client] \subseteq Events
      BY <1>1, <2>2 DEF Inv, TypeOK
    <3>2. PICK begun \in SUBSET events[client] :
            late' = [c \in Collects |-> IF c \in Collects /\ c \in handlers[client]
                                          THEN late[c] \cup begun ELSE late[c]]
      BY <1>1, <2>2 DEF Overtaken
    <3> QED  BY <3>1, <3>2
  <2> QED  BY <1>1, <2>1, <2>2
<1>3. TypeOK'
  <2>1. link' \in [Clients -> {"none", "up", "down", "stray"}]
    BY <1>1 DEF Inv, TypeOK
  <2>2. handlers' \in [Clients -> SUBSET (Subs \cup Collects)]
    BY <1>1 DEF Inv, TypeOK
  <2>3. events' \in [Clients -> SUBSET Events]
    BY <1>1 DEF Inv, TypeOK
  <2>4. late' \in [Collects -> SUBSET Events]
    BY <1>2 DEF Inv, TypeOK
  <2>5. client' \in Clients /\ client' # None
    BY <1>1, BoundsAssumption
  <2> QED
    BY <2>1, <2>2, <2>3, <2>4, <2>5 DEF Inv, TypeOK, bot
<1>4. OneLink'
  <2>1. \A h \in Clients \ {g} : link'[h] = IF h = client THEN l ELSE link[h]
    BY <1>1
  <2> QED
    BY <1>1, <2>1 DEF Inv, OneLink
<1>5. client' = g /\ client' # None /\ handlers'[g] = {}
  BY <1>1, BoundsAssumption
<1>6. \A h \in Clients : handlers'[h] \subseteq handlers[h] /\ events'[h] \subseteq events[h]
  BY <1>1
<1>7. client \in Clients /\ link'[client] = "none" => handlers'[client] = {}
  BY <1>1
<1>8. Collecting'
  BY <1>2, <1>5, <1>6 DEF Inv, TypeOK, Collecting, bot
<1>9. Registered'
  BY <1>5 DEF Registered
<1>10. OneSource'
  BY <1>2, <1>6, <1>7 DEF Inv, OneSource
<1>11. Updates'
  BY <1>2, <1>6 DEF Inv, Updates, Told
<1>12. \A c \in Collects : Coming(c)' \subseteq Coming(c)
  BY <1>2, <1>6 DEF Coming
<1>13. EditsInOrder'
  BY <1>12 DEF Inv, EditsInOrder, bot
<1> QED
  BY <1>3, <1>4, <1>8, <1>9, <1>10, <1>11, <1>13, Frame DEF Inv, bot

LEMMA LoopStepKeeps ==
  ASSUME Inv, LoopStep
  PROVE  Inv'
<1>1. CASE NewClient /\ loop' = "connect" /\ ready' \in BOOLEAN
           /\ UNCHANGED <<sub, bot, version>>
  BY <1>1, NewClientStep
<1>2. CASE /\ UNCHANGED <<client, lib, sub, bot, version>>
           /\ loop' \in {"check", "disconnect", "connect", "sleep"}
           /\ ready' \in BOOLEAN
           /\ loop' \in {"disconnect", "connect"} => client # None
  <2>1. TypeOK'
    BY <1>2 DEF Inv, TypeOK, lib, bot
  <2> QED
    BY <1>2, <2>1, Frame DEF Inv, lib, bot
<1>3. CASE ConnectSucceeds
  <2>1. /\ client \in Clients /\ link' = [link EXCEPT ![client] = "up"]
        /\ UNCHANGED <<client, handlers, events, late, sub, bot, version>>
        /\ ready' = TRUE /\ loop' = "sleep"
    BY <1>3 DEF ConnectSucceeds, Inv, TypeOK
  <2>2. TypeOK'
    BY <2>1 DEF Inv, TypeOK, bot
  <2>3. OneLink'
    BY <2>1 DEF Inv, TypeOK, OneLink
  <2> QED
    BY <2>1, <2>2, <2>3, Frame DEF Inv, bot
<1>4. ready \in BOOLEAN /\ IsReady \in BOOLEAN
  BY DEF Inv, TypeOK, IsReady, Connected
<1>5. CASE Check
  BY <1>1, <1>2, <1>4, <1>5 DEF Check, NoticeReady
<1>6. CASE Disconnected
  BY <1>1, <1>6 DEF Disconnected
<1>7. CASE ConnectFails \/ Wakes
  BY <1>2, <1>4, <1>7 DEF ConnectFails, Wakes
<1> QED  BY <1>3, <1>5, <1>6, <1>7 DEF LoopStep

LEMMA SubscribeStep ==
  ASSUME Inv, NEW s \in Subs, Subscribe(s)
  PROVE  Inv'
<1>1. UNCHANGED <<loop, client, link, events, late, bot, version>> /\ ready' \in BOOLEAN
  BY DEF Subscribe, NoticeReady, IsReady, Connected, Inv, TypeOK
<1>2. CASE IsReady
  <2>1. /\ client \in Clients /\ client # None /\ sub' = s
        /\ handlers' = [Without(sub) EXCEPT ![client] = @ \cup {s}]
    BY <1>2 DEF Subscribe, IsReady, Connected, Inv, TypeOK
  <2>2. /\ handlers' \in [Clients -> SUBSET (Subs \cup Collects)]
        /\ handlers'[client] = (handlers[client] \ {sub}) \cup {s}
    BY <2>1 DEF Without, Inv, TypeOK
  <2>3. TypeOK'
    BY <1>1, <2>1, <2>2 DEF Inv, TypeOK, bot
  <2>4. Registered'
    BY <1>1, <2>1, <2>2, BoundsAssumption DEF Inv, Registered, bot
  <2>5. \A c \in Collects, g \in Clients : c \in handlers'[g] <=> c \in handlers[g]
    BY <2>1, <2>2, BoundsAssumption DEF Without, Inv, TypeOK
  <2>6. Collecting' /\ OneSource'
    BY <1>1, <2>5 DEF Inv, Collecting, OneSource, bot
  <2>7. \A c \in Collects : Coming(c)' = Coming(c)
    BY <1>1, <2>5 DEF Coming
  <2>8. EditsInOrder'
    BY <1>1, <2>7 DEF Inv, EditsInOrder, bot
  <2> QED
    BY <1>1, <2>3, <2>4, <2>6, <2>8, Frame DEF Inv, bot
<1>3. CASE ~IsReady
  <2>1. UNCHANGED <<handlers, sub>>
    BY <1>3 DEF Subscribe
  <2>2. TypeOK'
    BY <1>1, <2>1 DEF Inv, TypeOK, bot
  <2> QED
    BY <1>1, <2>1, <2>2, Frame DEF Inv, bot
<1> QED  BY <1>2, <1>3

LEMMA UnsubscribeStep ==
  ASSUME Inv, Unsubscribe
  PROVE  Inv'
<1>1. /\ UNCHANGED <<loop, client, ready, link, events, late, bot, version>>
      /\ client \in Clients /\ sub' = None
  BY DEF Unsubscribe, Inv, TypeOK
<1>2. /\ handlers' \in [Clients -> SUBSET (Subs \cup Collects)]
      /\ handlers'[client] = handlers[client] \ {sub}
      /\ \A c \in Collects, g \in Clients : c \in handlers'[g] <=> c \in handlers[g]
  BY <1>1, BoundsAssumption DEF Unsubscribe, Without, Inv, TypeOK
<1>3. TypeOK'
  BY <1>1, <1>2 DEF Inv, TypeOK, bot
<1>4. Registered'
  BY <1>1, <1>2 DEF Inv, Registered, bot
<1>5. Collecting' /\ OneSource'
  BY <1>1, <1>2 DEF Inv, Collecting, OneSource, bot
<1>6. \A c \in Collects : Coming(c)' = Coming(c)
  BY <1>1, <1>2 DEF Coming
<1>7. EditsInOrder'
  BY <1>1, <1>6 DEF Inv, EditsInOrder, bot
<1> QED
  BY <1>1, <1>3, <1>4, <1>5, <1>7, Frame DEF Inv, bot

\* collectReplies begins with nothing heard.
LEMMA BotSendStep ==
  ASSUME Inv, NEW c \in Collects, BotSend(c)
  PROVE  Inv'
<1>1. /\ UNCHANGED <<loop, client, link, events, late, sub, replies, heard, version>>
      /\ ready' \in BOOLEAN /\ caller[c] = "idle" /\ collect[c] = "idle"
  BY DEF BotSend, NoticeReady, IsReady, Connected, Inv, TypeOK, Collecting
<1>2. CASE IsReady
  <2>1. /\ client \in Clients /\ client # None
        /\ handlers' = [handlers EXCEPT ![client] = @ \cup {c}]
        /\ collect' = [collect EXCEPT ![c] = "listening"]
        /\ silence' = silence \cup {c} /\ maxWait' = maxWait \cup {c}
        /\ caller' = [caller EXCEPT ![c] = "sending"]
    BY <1>2 DEF BotSend, IsReady, Connected, Inv, TypeOK
  <2>2. /\ handlers' \in [Clients -> SUBSET (Subs \cup Collects)]
        /\ handlers'[client] = handlers[client] \cup {c}
    BY <2>1 DEF Inv, TypeOK
  <2>3. TypeOK'
    BY <1>1, <2>1, <2>2 DEF Inv, TypeOK
  <2>4. Collecting'
    BY <1>1, <2>1 DEF Inv, TypeOK, Collecting
  <2>5. Registered'
    BY <1>1, <2>1, <2>2, BoundsAssumption DEF Inv, TypeOK, Registered
  <2>6. OneSource'
    BY <1>1, <2>1, <2>2 DEF Inv, TypeOK, Collecting, OneSource
  <2>7. \A d \in Collects \ {c} : Coming(d)' = Coming(d)
    <3>1. \A d \in Collects \ {c}, g \in Clients : d \in handlers'[g] <=> d \in handlers[g]
      BY <2>1 DEF Inv, TypeOK
    <3> QED  BY <1>1, <3>1 DEF Coming
  <2>8. \A e \in Coming(c)' : heard[c][e.msg] = {}
    <3>1. \A e \in Coming(c)' : e \in Events
      BY <1>1 DEF Coming, Inv, TypeOK
    <3> QED  BY <1>1, <3>1 DEF Inv, Collecting, Events
  <2>9. EditsInOrder'
    BY <1>1, <2>7, <2>8 DEF Inv, EditsInOrder
  <2> QED
    BY <1>1, <2>3, <2>4, <2>5, <2>6, <2>9, Frame DEF Inv
<1>3. CASE ~IsReady
  <2>1. /\ caller' = [caller EXCEPT ![c] = "threw"]
        /\ UNCHANGED <<handlers, collect, silence, maxWait>>
    BY <1>3 DEF BotSend
  <2>2. TypeOK'
    BY <1>1, <2>1 DEF Inv, TypeOK
  <2>3. Collecting'
    BY <1>1, <2>1 DEF Inv, TypeOK, Collecting
  <2> QED
    BY <1>1, <2>1, <2>2, <2>3, Frame DEF Inv
<1> QED  BY <1>2, <1>3

LEMMA SendEndsStep ==
  ASSUME Inv, NEW c \in Collects, SendEnds(c)
  PROVE  Inv'
<1>1. PICK how \in {"threw", "returned", "waiting"} :
        caller' = [caller EXCEPT ![c] = how]
  BY DEF SendEnds
<1>2. UNCHANGED <<loop, client, ready, lib, sub, collect, silence, maxWait,
                  replies, heard, version>>
  BY DEF SendEnds
<1>3. TypeOK'
  BY <1>1, <1>2 DEF Inv, TypeOK, lib
<1>4. \A d \in Collects : caller'[d] = "idle" => caller[d] = "idle"
  BY <1>1 DEF Inv, TypeOK
<1>5. Collecting'
  BY <1>2, <1>4 DEF Inv, Collecting, lib
<1> QED
  BY <1>2, <1>3, <1>5, Frame DEF Inv, lib

LEMMA TimerFiresStep ==
  ASSUME Inv, NEW c \in Collects, TimerFires(c)
  PROVE  Inv'
<1>1. /\ UNCHANGED <<loop, client, ready, link, events, sub, replies, heard, version>>
      /\ silence' = silence \ {c} /\ maxWait' = maxWait \ {c}
      /\ handlers' = [handlers EXCEPT ![client] = @ \ {c}]
      /\ Overtaken(client, {c})
      /\ collect' = [collect EXCEPT ![c] = "done"]
      /\ caller' = [caller EXCEPT ![c] = IF @ = "waiting" THEN "returned" ELSE @]
  BY DEF TimerFires, Finish
<1>2. client \in Clients /\ client # None /\ collect[c] # "idle"
  BY DEF TimerFires, Inv, TypeOK, Collecting
<1>3. /\ handlers' \in [Clients -> SUBSET (Subs \cup Collects)]
      /\ handlers'[client] = handlers[client] \ {c}
      /\ \A g \in Clients : handlers'[g] \subseteq handlers[g]
  BY <1>1, <1>2 DEF Inv, TypeOK
<1>4. /\ late' \in [Collects -> SUBSET Events]
      /\ OneSource' /\ Updates' /\ EditsInOrder'
      /\ \A d \in Collects : d \notin handlers[client] => late'[d] = late[d]
  BY <1>1, <1>2, <1>3, Leaving
<1>5. TypeOK'
  BY <1>1, <1>3, <1>4 DEF Inv, TypeOK
<1>6. Collecting'
  BY <1>1, <1>2, <1>3, <1>4 DEF Inv, TypeOK, Collecting
<1>7. Registered'
  BY <1>1, <1>3 DEF Inv, TypeOK, Registered
<1> QED
  BY <1>1, <1>4, <1>5, <1>6, <1>7, Frame DEF Inv

LEMMA LinkChangesStep ==
  ASSUME Inv, NEW g \in Clients, LinkChanges(g)
  PROVE  Inv'
<1>1. UNCHANGED <<loop, client, ready, handlers, events, late, sub, bot, version>>
  BY DEF LinkChanges
<1>2. PICK l \in {"up", "down"} : link' = [link EXCEPT ![g] = l]
  BY DEF LinkChanges
<1>3. g = client
  BY DEF LinkChanges, Inv, OneLink
<1>4. TypeOK' /\ OneLink'
  BY <1>1, <1>2, <1>3 DEF Inv, TypeOK, OneLink, bot
<1> QED
  BY <1>1, <1>4, Frame DEF Inv, bot

LEMMA WrittenStep ==
  ASSUME Inv, NEW m \in Msgs, Written(m)
  PROVE  Inv'
<1>0. PICK e : e = [msg |-> m, version |-> version'[m],
                    kind |-> IF version[m] = 0 THEN "new" ELSE "edit"]
  OBVIOUS
<1>1. /\ UNCHANGED <<loop, client, ready, link, handlers, late, sub, bot>>
      /\ version[m] < MaxVersion /\ version' = [version EXCEPT ![m] = @ + 1]
      /\ events' = [g \in Clients |->
                      IF link[g] \in {"up", "stray"} /\ Takes(e)
                      THEN events[g] \cup {e} ELSE events[g]]
  BY <1>0 DEF Written
<1>2. /\ version[m] \in Nat /\ version'[m] = version[m] + 1
      /\ version' \in [Msgs -> 0 .. MaxVersion]
      /\ \A n \in Msgs : version[n] \in Nat /\ version'[n] \in Nat /\ version[n] <= version'[n]
  BY <1>1, BoundsAssumption DEF Inv, TypeOK
<1>3. e \in Events /\ e.msg = m /\ e.version = version[m] + 1
      /\ (e.kind = "new" => e.version = 1)
  BY <1>0, <1>1, <1>2, BoundsAssumption DEF Events, Inv, TypeOK
<1>4. \A g \in Clients : events'[g] \subseteq events[g] \cup {e}
  BY <1>1
<1>5. events' \in [Clients -> SUBSET Events]
  BY <1>1, <1>3 DEF Inv, TypeOK
<1>6. TypeOK'
  BY <1>1, <1>2, <1>5 DEF Inv, TypeOK, bot
<1>7. \A d \in Events : Told(d) => Told(d)'
  <2> SUFFICES ASSUME NEW d \in Events, Told(d) PROVE Told(d)'
    OBVIOUS
  <2>1. d.msg \in Msgs /\ d.version \in Nat
    BY BoundsAssumption DEF Events
  <2> QED  BY <1>2, <2>1 DEF Told
<1>8. Told(e)'
  BY <1>2, <1>3 DEF Told
<1>9. Updates'
  BY <1>1, <1>4, <1>7, <1>8 DEF Inv, TypeOK, Updates
<1>10. \A c \in Collects, n \in Msgs : \A v \in heard[c][n] :
         v \in Nat /\ v <= version[n]
  BY BoundsAssumption DEF Inv, TypeOK, HeardWritten
<1>11. HeardWritten'
  BY <1>1, <1>2, <1>10 DEF HeardWritten, bot
<1>12. \A c \in Collects : Coming(c)' \subseteq Coming(c) \cup {e}
  BY <1>1, <1>4 DEF Coming
<1>13. \A c \in Collects : \A v \in heard[c][m] : v <= e.version
  BY <1>2, <1>3, <1>10
<1>14. EditsInOrder'
  BY <1>1, <1>3, <1>12, <1>13 DEF Inv, EditsInOrder, bot
<1> QED
  BY <1>1, <1>6, <1>9, <1>11, <1>14, Frame DEF Inv, bot

----------------------------------------------------------------------------
(* An update at the handlers of a collector.                               *)

\* An array that has what was heard still has, with an update that is no
\* older than what was heard of its message.
LEMMA CollectedHeard ==
  ASSUME NEW r, NEW h, Holds(r, h), NEW e \in Events,
         e.kind = "new" => e.version = 1,
         e.kind = "edit" => \A v \in h[e.msg] : v <= e.version,
         NEW r2, r2 = Collected(r, e),
         NEW h2, h2 = [h EXCEPT ![e.msg] = @ \cup {e.version}]
  PROVE  Holds(r2, h2)
<1> SUFFICES ASSUME r \in Seq(Entries), h \in [Msgs -> SUBSET (1 .. MaxVersion)],
                    \A i, j \in 1 .. Len(r) : r[i].msg = r[j].msg => i = j,
                    \A i \in 1 .. Len(r) :
                      /\ r[i].version \in h[r[i].msg] /\ r[i].media \in h[r[i].msg]
                      /\ \A v \in h[r[i].msg] : v <= r[i].version,
                    \A m \in Msgs : h[m] # {} => \E i \in 1 .. Len(r) : r[i].msg = m
             PROVE  Holds(r2, h2)
  BY DEF Holds
<1>1. /\ e.msg \in Msgs /\ e.version \in 1 .. MaxVersion /\ e.version \in Nat
      /\ e.kind \in {"new", "edit"} /\ MaxVersion \in Nat
      /\ Entry(e) \in Entries /\ Entry(e).msg = e.msg
      /\ Entry(e).version = e.version /\ Entry(e).media = e.version
  BY BoundsAssumption DEF Events, Entries, Entry
<1>2. /\ Len(r) \in Nat /\ DOMAIN r = 1 .. Len(r)
      /\ \A i \in 1 .. Len(r) :
           /\ r[i] \in Entries /\ r[i].msg \in Msgs
           /\ r[i].version \in Nat /\ r[i].version >= 1
  <2>1. Len(r) \in Nat /\ r \in [1 .. Len(r) -> Entries]
    OBVIOUS
  <2>2. \A i \in 1 .. Len(r) : r[i] \in Entries
    BY <2>1
  <2> QED  BY <1>1, <2>1, <2>2 DEF Entries
<1>3. e.msg \in Ids(r) <=> \E i \in 1 .. Len(r) : r[i].msg = e.msg
  BY <1>2 DEF Ids
<1>4. /\ h2 \in [Msgs -> SUBSET (1 .. MaxVersion)]
      /\ h2[e.msg] = h[e.msg] \cup {e.version}
      /\ \A m \in Msgs : m # e.msg => h2[m] = h[m]
  BY <1>1
<1>5. CASE e.msg \notin Ids(r)
  <2>1. h2[e.msg] = {e.version}
    BY <1>1, <1>3, <1>4, <1>5
  <2>2. r2 = Append(r, Entry(e))
    BY <1>5 DEF Collected
  <2>3. /\ r2 \in Seq(Entries) /\ Len(r2) = Len(r) + 1
        /\ \A i \in 1 .. Len(r) : r2[i] = r[i]
        /\ r2[Len(r) + 1] = Entry(e)
    BY <1>1, <2>2
  <2>4. \A i \in 1 .. Len(r2) : i \in 1 .. Len(r) \/ i = Len(r) + 1
    BY <1>2, <2>3
  <2>5. \A i \in 1 .. Len(r) : r2[i].msg \in Msgs /\ r2[i].msg # e.msg
    BY <1>2, <1>3, <1>5, <2>3
  <2>6. \A i, j \in 1 .. Len(r2) : r2[i].msg = r2[j].msg => i = j
    BY <1>1, <2>3, <2>4, <2>5
  <2>7. \A i \in 1 .. Len(r2) :
          /\ r2[i].version \in h2[r2[i].msg] /\ r2[i].media \in h2[r2[i].msg]
          /\ \A v \in h2[r2[i].msg] : v <= r2[i].version
    BY <1>1, <1>4, <2>1, <2>3, <2>4, <2>5
  <2>8. \A m \in Msgs : h2[m] # {} => \E i \in 1 .. Len(r2) : r2[i].msg = m
    <3> SUFFICES ASSUME NEW m \in Msgs, h2[m] # {}
                 PROVE  \E i \in 1 .. Len(r2) : r2[i].msg = m
      OBVIOUS
    <3>1. CASE m = e.msg
      BY <1>1, <1>2, <2>3, <3>1
    <3>2. CASE m # e.msg
      <4>1. PICK i \in 1 .. Len(r) : r[i].msg = m
        BY <1>4, <3>2
      <4> QED  BY <1>2, <2>3, <4>1
    <3> QED  BY <3>1, <3>2
  <2> QED  BY <1>4, <2>3, <2>6, <2>7, <2>8 DEF Holds
<1>6. ASSUME e.msg \in Ids(r)
      PROVE  \A m \in Msgs : h2[m] # {} => \E i \in 1 .. Len(r) : r[i].msg = m
  BY <1>3, <1>4, <1>6
<1>7. CASE e.msg \in Ids(r) /\ e.kind = "new"
  <2>1. r2 = r
    BY <1>7 DEF Collected
  <2>2. \A i \in 1 .. Len(r) :
          /\ r[i].version \in h2[r[i].msg] /\ r[i].media \in h2[r[i].msg]
          /\ \A v \in h2[r[i].msg] : v <= r[i].version
    BY <1>2, <1>4, <1>7
  <2>3. Holds(r, h2)
    BY <1>4, <1>6, <1>7, <2>1, <2>2 DEF Holds
  <2> QED  BY <2>1, <2>3
<1>8. CASE e.msg \in Ids(r) /\ e.kind # "new"
  <2>1. r2 = [i \in DOMAIN r |->
                IF r[i].msg # e.msg THEN r[i]
                ELSE [Entry(e) EXCEPT !.media = r[i].media]]
    BY <1>8 DEF Collected
  <2>2. ASSUME NEW i \in 1 .. Len(r), r[i].msg = e.msg
        PROVE  /\ r2[i] \in Entries /\ r2[i].msg = e.msg
               /\ r2[i].version = e.version /\ r2[i].media = r[i].media
    <3>1. r2[i] = [Entry(e) EXCEPT !.media = r[i].media]
      BY <1>2, <2>1, <2>2
    <3>2. r[i].media \in 1 .. MaxVersion
      BY <1>2 DEF Entries
    <3>3. r2[i] = [msg |-> e.msg, version |-> e.version, media |-> r[i].media]
      BY <3>1 DEF Entry
    <3> QED  BY <1>1, <3>2, <3>3 DEF Entries
  <2>3. ASSUME NEW i \in 1 .. Len(r), r[i].msg # e.msg
        PROVE  r2[i] = r[i]
    BY <1>2, <2>1, <2>3
  <2>4. \A i \in 1 .. Len(r) : r2[i] \in Entries /\ r2[i].msg = r[i].msg
    BY <1>2, <2>2, <2>3
  <2>5. r2 \in Seq(Entries) /\ Len(r2) = Len(r)
    <3>1. r2 \in [1 .. Len(r) -> Entries]
      BY <1>2, <2>1, <2>4
    <3> QED  BY <1>2, <3>1
  <2>6. ASSUME NEW i \in 1 .. Len(r)
        PROVE  /\ r2[i].version \in h2[r2[i].msg] /\ r2[i].media \in h2[r2[i].msg]
               /\ \A v \in h2[r2[i].msg] : v <= r2[i].version
    <3>1. CASE r[i].msg = e.msg
      <4>1. e.kind = "edit"
        BY <1>1, <1>8
      <4> QED  BY <1>1, <1>4, <2>2, <3>1, <4>1
    <3>2. CASE r[i].msg # e.msg
      BY <1>2, <1>4, <2>3, <3>2
    <3> QED  BY <3>1, <3>2
  <2>7. \A i, j \in 1 .. Len(r2) : r2[i].msg = r2[j].msg => i = j
    BY <2>4, <2>5
  <2>8. \A m \in Msgs : h2[m] # {} => \E i \in 1 .. Len(r2) : r2[i].msg = m
    BY <1>6, <1>8, <2>4, <2>5
  <2> QED  BY <1>4, <2>5, <2>6, <2>7, <2>8 DEF Holds
<1> QED  BY <1>5, <1>7, <1>8

\* Handlers run with an update that is next for their collectors.
LEMMA HearKeeps ==
  ASSUME Inv, NEW e \in Events, NEW taking \in SUBSET Collects, Hear(taking, e),
         Told(e),
         \A c \in taking : e \in Coming(c),
         \A c \in taking : \A d \in Coming(c)' :
           e.kind = "edit" /\ d.kind = "edit" /\ d.msg = e.msg
             => d.version >= e.version,
         events' \in [Clients -> SUBSET Events], late' \in [Collects -> SUBSET Events],
         \A g \in Clients : events'[g] \subseteq events[g],
         \A c \in Collects : late'[c] \subseteq late[c]
  PROVE  Inv'
<1>1. /\ UNCHANGED <<loop, client, ready, link, handlers, sub, collect, caller, version>>
      /\ replies' = [c \in Collects |->
            IF c \in taking THEN Collected(replies[c], e) ELSE replies[c]]
      /\ heard' = [c \in Collects |->
            IF c \in taking THEN [heard[c] EXCEPT ![e.msg] = @ \cup {e.version}]
            ELSE heard[c]]
      /\ maxWait' = maxWait \ taking
      /\ silence' \subseteq silence \cup taking
  BY DEF Hear, Timers
<1>2. /\ e.msg \in Msgs /\ e.version \in 1 .. MaxVersion /\ e.version \in Nat
      /\ e.kind \in {"new", "edit"} /\ e.version <= version[e.msg]
      /\ e.kind = "new" => e.version = 1
  BY BoundsAssumption DEF Events, Told
<1>3. \A c \in taking : collect[c] # "idle"
  BY DEF Inv, Collecting, Coming
<1>4. \A c \in taking : e.kind = "edit" => \A v \in heard[c][e.msg] : v <= e.version
  BY DEF Inv, EditsInOrder
<1>5. ASSUME NEW c \in Collects
      PROVE  Holds(replies'[c], heard'[c])
  <2>1. Holds(replies[c], heard[c])
    BY DEF Inv, RepliesHeard
  <2>2. CASE c \notin taking
    <3>1. replies'[c] = replies[c] /\ heard'[c] = heard[c]
      BY <1>1, <2>2
    <3> QED  BY <2>1, <3>1
  <2>3. CASE c \in taking
    <3>1. /\ replies'[c] = Collected(replies[c], e)
          /\ heard'[c] = [heard[c] EXCEPT ![e.msg] = @ \cup {e.version}]
      BY <1>1, <2>3
    <3>2. e.kind = "edit" => \A v \in heard[c][e.msg] : v <= e.version
      BY <1>4, <2>3
    <3> QED  BY <1>2, <2>1, <3>1, <3>2, CollectedHeard
  <2> QED  BY <2>2, <2>3
<1>6. RepliesHeard'
  BY <1>5 DEF RepliesHeard
<1>7. TypeOK'
  <2>1. replies' \in [Collects -> Seq(Entries)]
        /\ heard' \in [Collects -> [Msgs -> SUBSET (1 .. MaxVersion)]]
    BY <1>1, <1>5 DEF Holds
  <2>2. maxWait' \subseteq Collects /\ silence' \subseteq Collects
    BY <1>1 DEF Inv, TypeOK
  <2> QED
    BY <1>1, <2>1, <2>2 DEF Inv, TypeOK
<1>8. Collecting'
  <2>1. \A c \in Collects : collect[c] = "idle" =>
          /\ replies'[c] = replies[c] /\ heard'[c] = heard[c]
          /\ c \in silence' => c \in silence
          /\ late[c] = {} => late'[c] = {}
    BY <1>1, <1>3
  <2> QED
    BY <1>1, <2>1 DEF Inv, Collecting
<1>9. Updates' /\ OneSource'
  BY <1>1 DEF Inv, TypeOK, Updates, Told, OneSource
<1>10. ASSUME NEW c \in Collects, NEW m \in Msgs
       PROVE  /\ heard[c][m] \subseteq 1 .. MaxVersion
              /\ \A v \in heard'[c][m] :
                   v \in heard[c][m] \/ (m = e.msg /\ v = e.version /\ c \in taking)
  BY <1>1, <1>2 DEF Inv, TypeOK
<1>11. HeardWritten'
  BY <1>1, <1>2, <1>10 DEF Inv, HeardWritten
<1>12. EditsInOrder'
  <2> SUFFICES ASSUME NEW c \in Collects, NEW d \in Coming(c)', d.kind = "edit",
                      NEW v \in heard'[c][d.msg]
               PROVE  v <= d.version
    BY DEF EditsInOrder
  <2>1. d \in Coming(c)
    BY <1>1 DEF Coming
  <2>2. d \in Events
    BY <2>1 DEF Coming, Inv, TypeOK
  <2>3. d.msg \in Msgs /\ d.version \in Nat /\ d.version >= 1
    BY <2>2, BoundsAssumption DEF Events
  <2>4. CASE v \in heard[c][d.msg]
    BY <2>1, <2>4 DEF Inv, EditsInOrder
  <2>5. CASE d.msg = e.msg /\ v = e.version /\ c \in taking
    <3>1. CASE e.kind = "new"
      BY <1>2, <2>3, <2>5, <3>1
    <3>2. CASE e.kind = "edit"
      BY <1>2, <2>3, <2>5, <3>2
    <3> QED  BY <1>2, <3>1, <3>2
  <2> QED  BY <1>10, <2>3, <2>4, <2>5
<1> QED
  BY <1>1, <1>6, <1>7, <1>8, <1>9, <1>11, <1>12, Frame DEF Inv

LEMMA UpdateStep ==
  ASSUME Inv, NEW g \in Clients, NEW e \in events[g], Update(g, e)
  PROVE  Inv'
<1> DEFINE taking == handlers[g] \cap Collects
<1>1. /\ events' = [events EXCEPT ![g] = @ \ {e}] /\ late' = late
      /\ Hear(taking, e) /\ UNCHANGED handlers
      /\ \A d \in events[g] : e.kind = "edit" /\ d.kind = "edit" /\ d.msg = e.msg
                              => d.version >= e.version
  BY DEF Update, IsNext, Hear
<1>2. e \in Events /\ Told(e)
  BY DEF Inv, TypeOK, Updates
<1>3. /\ events' \in [Clients -> SUBSET Events] /\ late' \in [Collects -> SUBSET Events]
      /\ \A h \in Clients : events'[h] \subseteq events[h]
      /\ \A c \in Collects : late'[c] \subseteq late[c]
  BY <1>1 DEF Inv, TypeOK
<1>4. \A c \in taking : e \in Coming(c) /\ Coming(c)' \subseteq events[g]
  <2> SUFFICES ASSUME NEW c \in taking
               PROVE  e \in Coming(c) /\ Coming(c)' \subseteq events[g]
    OBVIOUS
  <2>1. late[c] = {} /\ \A h \in Clients : c \in handlers[h] => h = g
    BY DEF Inv, OneSource
  <2> QED  BY <1>1, <1>3, <2>1 DEF Coming
<1> HIDE DEF taking
<1>5. taking \in SUBSET Collects
  BY DEF taking
<1> QED  BY <1>1, <1>2, <1>3, <1>4, <1>5, HearKeeps

\* Updates that were on their way come to the collector in their order, too.
LEMMA LateUpdateStep ==
  ASSUME Inv, NEW c \in Collects, NEW e \in late[c], LateUpdate(c, e)
  PROVE  Inv'
<1>1. /\ late' = [late EXCEPT ![c] = @ \ {e}] /\ events' = events
      /\ Hear({c}, e) /\ UNCHANGED handlers
      /\ \A d \in late[c] : e.kind = "edit" /\ d.kind = "edit" /\ d.msg = e.msg
                             => d.version >= e.version
  BY DEF LateUpdate, IsNext, Hear
<1>2. e \in Events /\ Told(e)
  BY DEF Inv, TypeOK, Updates
<1>3. /\ events' \in [Clients -> SUBSET Events] /\ late' \in [Collects -> SUBSET Events]
      /\ \A h \in Clients : events'[h] \subseteq events[h]
      /\ \A d \in Collects : late'[d] \subseteq late[d]
  BY <1>1 DEF Inv, TypeOK
<1>4. e \in Coming(c) /\ Coming(c)' \subseteq late[c]
  <2>1. \A g \in Clients : c \notin handlers[g]
    BY DEF Inv, OneSource
  <2> QED  BY <1>1, <1>3, <2>1 DEF Coming
<1> QED  BY <1>1, <1>2, <1>3, <1>4, HearKeeps

----------------------------------------------------------------------------
(* The invariant, and what follows from it.                                *)

LEMMA InitInv == Init => Inv
<1> SUFFICES ASSUME Init PROVE Inv
  OBVIOUS
<1> USE DEF Init
<1>1. TypeOK
  <2>1. MaxVersion \in Nat /\ 0 \in 0 .. MaxVersion
    BY BoundsAssumption
  <2>2. /\ version \in [Msgs -> 0 .. MaxVersion]
        /\ heard \in [Collects -> [Msgs -> SUBSET (1 .. MaxVersion)]]
    BY <2>1
  <2>3. replies \in [Collects -> Seq(Entries)]
    OBVIOUS
  <2> QED  BY <2>2, <2>3 DEF TypeOK
<1>2. OneLink /\ Collecting /\ Registered /\ OneSource /\ Updates /\ EditsInOrder
  BY DEF OneLink, Collecting, Registered, OneSource, Updates, EditsInOrder, Coming
<1>3. HeardWritten /\ RepliesHeard
  BY BoundsAssumption DEF HeardWritten, RepliesHeard, Holds
<1> QED  BY <1>1, <1>2, <1>3 DEF Inv

LEMMA NextInv == Inv /\ [Next]_vars => Inv'
<1> SUFFICES ASSUME Inv, [Next]_vars PROVE Inv'
  OBVIOUS
<1>1. CASE LoopStep
  BY <1>1, LoopStepKeeps
<1>2. CASE (\E s \in Subs : Subscribe(s)) \/ Unsubscribe
  BY <1>2, SubscribeStep, UnsubscribeStep
<1>3. CASE \E c \in Collects : BotSend(c) \/ SendEnds(c) \/ TimerFires(c)
                              \/ \E e \in late[c] : LateUpdate(c, e)
  BY <1>3, BotSendStep, SendEndsStep, TimerFiresStep, LateUpdateStep
<1>4. CASE \E g \in Clients : (\E e \in events[g] : Update(g, e)) \/ LinkChanges(g)
  BY <1>4, UpdateStep, LinkChangesStep
<1>5. CASE \E m \in Msgs : Written(m)
  BY <1>5, WrittenStep
<1>6. CASE UNCHANGED vars
  <2>1. TypeOK'
    BY <1>6 DEF Inv, TypeOK, vars, lib, bot
  <2> QED  BY <1>6, <2>1, Frame DEF Inv, vars, lib, bot
<1> QED  BY <1>1, <1>2, <1>3, <1>4, <1>5, <1>6 DEF Next

THEOREM InvHolds == Spec => []Inv
BY InitInv, NextInv, PTL DEF Spec

\* A collector that is done does not time out, and has no handler on the client
\* of now; nobody hears a message twice.  Through every replacement of the
\* client that closes the old one (finish, subscribeNewMessages, initialize).
THEOREM HandlersStayInStep == Spec => []HandlersInStep
<1>1. Inv => HandlersInStep
  <2> SUFFICES ASSUME Inv PROVE HandlersInStep
    OBVIOUS
  <2> DEFINE S == {s \in Subs : \E g \in Hearing : s \in handlers[g]}
  <2>0. \A g \in Hearing : g = client /\ client # None
    BY BoundsAssumption DEF Hearing, Inv, OneLink
  <2>1. DoneLeavesNothing
    BY <2>0 DEF DoneLeavesNothing, Inv, Collecting, Registered
  <2>2. S \subseteq {sub}
    BY <2>0 DEF Inv, Registered
  <2>3. (S = {} \/ S = {sub}) => Cardinality(S) <= 1
    <3> HIDE DEF S
    <3>1. S = {} => Cardinality(S) = 0
      BY FS_EmptySet
    <3>2. S = {sub} => Cardinality(S) = 1
      BY FS_Singleton
    <3> QED  BY <3>1, <3>2
  <2>4. OneSubscription
    BY <2>2, <2>3 DEF OneSubscription
  <2> QED
    BY <2>1, <2>4 DEF HandlersInStep, Inv
<1> QED  BY <1>1, InvHolds, PTL

\* collectReplies returns each message it heard once, with text, buttons and
\* entities of the newest version it heard and media fields of a version it
\* heard, in whatever order the library runs the handlers of messages and edits
\* (newMsgHandler, editHandler), also when it runs them too late.
THEOREM RepliesStayComplete == Spec => []RepliesComplete
<1>1. Inv => RepliesComplete
  <2> SUFFICES ASSUME Inv, NEW c \in Collects
               PROVE  /\ Len(replies[c]) = Cardinality(Ids(replies[c]))
                      /\ Ids(replies[c]) = {m \in Msgs : heard[c][m] # {}}
                      /\ \A i \in DOMAIN replies[c] :
                           /\ replies[c][i].version \in heard[c][replies[c][i].msg]
                           /\ replies[c][i].media \in heard[c][replies[c][i].msg]
                           /\ \A v \in heard[c][replies[c][i].msg] :
                                v <= replies[c][i].version
    BY DEF RepliesComplete
  <2> DEFINE r == replies[c]
             n == Len(r)
  <2>1. n \in Nat /\ DOMAIN r = 1 .. n /\ r \in [1 .. n -> Entries]
    BY DEF Inv, TypeOK
  <2>2. \A i \in 1 .. n : r[i].msg \in Msgs
    BY <2>1 DEF Entries
  <2>3. /\ \A i, j \in 1 .. n : r[i].msg = r[j].msg => i = j
        /\ \A i \in 1 .. n :
             /\ r[i].version \in heard[c][r[i].msg] /\ r[i].media \in heard[c][r[i].msg]
             /\ \A v \in heard[c][r[i].msg] : v <= r[i].version
        /\ \A m \in Msgs : heard[c][m] # {} => \E i \in 1 .. n : r[i].msg = m
    BY DEF Inv, RepliesHeard, Holds
  <2> HIDE DEF r, n
  <2>4. Cardinality(Ids(r)) = n
    <3> DEFINE f == [i \in 1 .. n |-> r[i].msg]
    <3>1. f \in Bijection(1 .. n, Ids(r))
      BY <2>1, <2>3 DEF Bijection, Injection, Surjection, IsInjective, Ids
    <3>2. ExistsBijection(1 .. n, Ids(r))
      BY <3>1 DEF ExistsBijection
    <3> QED  BY <2>1, <3>2, FS_CountingElements
  <2>5. Ids(r) = {m \in Msgs : heard[c][m] # {}}
    BY <2>1, <2>2, <2>3 DEF Ids
  <2> QED  BY <2>1, <2>3, <2>4, <2>5 DEF r, n
<1> QED  BY <1>1, InvHolds, PTL
=============================================================================
