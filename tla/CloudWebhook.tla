---------------------------- MODULE CloudWebhook ----------------------------
(***************************************************************************)
(* The way of a WhatsApp Cloud notification from the webhook to the        *)
(* application (provider/whatsappcloud: webhook.go and provider.go).       *)
(*                                                                         *)
(* Meta posts each notification until it is acknowledged, and sometimes    *)
(* again after that.  The HTTP handler queues it on the events channel of  *)
(* the session of Listen that runs; the goroutine of that session takes    *)
(* notifications one at a time and hands them over.  A session ends with   *)
(* its context, and Listen may start another.  A notification carries one  *)
(* message or one reaction here; statuses are the matter of CloudOutbox.   *)
(***************************************************************************)
EXTENDS Integers, Sequences, FiniteSets

CONSTANTS
  Inbound,         \* notifications carrying a message
  Reactions,       \* notifications carrying a reaction
  Handlers,        \* concurrent requests to the webhook
  Idle,            \* no notification
  Sessions,        \* 1..n: the sessions of Listen, one after the other
  EventBuffer,     \* eventBufferSize, 64 in the code
  ReactionBuffer,  \* the capacity of the reactions channel, 16 in the code
  SeenLimit,       \* the size from which seen is pruned, 4096 in the code
  MaxPosts         \* bound: how often Meta posts altogether

Notifications == Inbound \union Reactions

ASSUME WebhookAssumption ==
  /\ Inbound \intersect Reactions = {}
  /\ Idle \notin Notifications
  /\ IsFiniteSet(Sessions) /\ Sessions = 1..Cardinality(Sessions)
  /\ {EventBuffer, ReactionBuffer} \subseteq Nat \ {0}
  /\ {SeenLimit, MaxPosts} \subseteq Nat

VARIABLES
  events,     \* p.events: the session whose channel it is, 0 for nil
  started,    \* how many sessions were started
  cancelled,  \* those whose context ended
  listener,   \* [Sessions -> the goroutine of Listen]
  queue,      \* [Sessions -> the channel of events: [body, number], oldest first]
  current,    \* [Sessions -> the notification being handed over]
  seen,       \* p.seen: the identifiers of the messages received
  outdated,   \* the notifications Meta first posted more than seenTTL ago
  request,    \* [Handlers -> the notification, the channel it read, and where it stands]
  posts,      \* how often Meta posted
  enqueued,   \* history: how many notifications were queued
  acked,      \* history: which notification was acknowledged for which session
  reacting,   \* p.reactions is not nil
  reactions,  \* what its channel holds
  handed,     \* what the application received, in order
  reacted,    \* history: the reactions emitted or dropped
  abandoned   \* history: what a session had taken when it ended

listening == <<events, started, cancelled, listener>>
seeing == <<seen, outdated>>
web == <<request, posts, enqueued, acked>>
feedback == <<reacting, reactions, reacted>>
vars == <<listening, queue, current, seeing, web, feedback, handed, abandoned>>

Nothing == [body |-> Idle, number |-> 0]
NoRequest == [body |-> Idle, session |-> 0, pc |-> "none"]

Init ==
  /\ events = 0 /\ started = 0 /\ cancelled = {}
  /\ listener = [s \in Sessions |-> "none"]
  /\ queue = [s \in Sessions |-> <<>>]
  /\ current = [s \in Sessions |-> Nothing]
  /\ seen = {} /\ outdated = {}
  /\ request = [h \in Handlers |-> NoRequest]
  /\ posts = 0 /\ enqueued = 0 /\ acked = {}
  /\ reacting = FALSE /\ reactions = <<>> /\ reacted = {}
  /\ handed = <<>> /\ abandoned = {}

-----------------------------------------------------------------------------
(* Listen.                                                                 *)

\* faulty: the messages received before are forgotten
ListenAfresh ==
  /\ events = 0 /\ started + 1 \in Sessions
  /\ started' = started + 1
  /\ events' = started'
  /\ listener' = [listener EXCEPT ![started'] = "waiting"]
  /\ seen' = {} /\ UNCHANGED outdated
  /\ UNCHANGED <<cancelled, queue, current, web, feedback, handed, abandoned>>

\* faulty: another session may be running
ListenTwice ==
  /\ started + 1 \in Sessions
  /\ started' = started + 1
  /\ events' = started'
  /\ listener' = [listener EXCEPT ![started'] = "waiting"]
  /\ UNCHANGED <<cancelled, queue, current, seeing, web, feedback, handed, abandoned>>

Listen ==
  /\ events = 0 /\ started + 1 \in Sessions
  /\ started' = started + 1
  /\ events' = started'
  /\ listener' = [listener EXCEPT ![started'] = "waiting"]
  /\ UNCHANGED <<cancelled, queue, current, seeing, web, feedback, handed, abandoned>>

Cancel(s) ==
  /\ s \in 1..started /\ s \notin cancelled
  /\ cancelled' = cancelled \union {s}
  /\ UNCHANGED <<events, started, listener, queue, current, seeing, web, feedback, handed, abandoned>>

\* the loop of Listen returns: p.events is reset, messages is closed
Leave(s) ==
  /\ listener[s] = "waiting" /\ s \in cancelled
  /\ listener' = [listener EXCEPT ![s] = "closed"]
  /\ events' = 0
  /\ UNCHANGED <<started, cancelled, queue, current, seeing, web, feedback, handed, abandoned>>

-----------------------------------------------------------------------------
(* The webhook: handleNotification and enqueue.                            *)

\* Meta posts what it may; the handler reads p.events
Post(h, n) ==
  /\ request[h] = NoRequest /\ posts < MaxPosts /\ n \notin outdated
  /\ posts' = posts + 1
  /\ request' = [request EXCEPT ![h] = [body |-> n, session |-> events, pc |-> "read"]]
  /\ UNCHANGED <<listening, queue, current, seeing, enqueued, acked, feedback, handed, abandoned>>

Answer(h, ack) ==
  /\ request' = [request EXCEPT ![h] = NoRequest]
  /\ acked' = IF ack THEN acked \union {<<request[h].body, request[h].session>>} ELSE acked
  /\ enqueued' = IF ack THEN enqueued + 1 ELSE enqueued

\* faulty: acknowledged although the channel is full
EnqueueAcksFull(h) ==
  LET s == request[h].session IN
  /\ request[h].pc = "read" /\ s # 0
  /\ queue' = IF Len(queue[s]) < EventBuffer
              THEN [queue EXCEPT ![s] = Append(@, [body |-> request[h].body, number |-> enqueued + 1])]
              ELSE queue
  /\ Answer(h, TRUE)
  /\ UNCHANGED <<listening, current, seeing, posts, feedback, handed, abandoned>>

\* faulty: the channel has no bound
EnqueueUnbounded(h) ==
  LET s == request[h].session IN
  /\ request[h].pc = "read" /\ s # 0
  /\ queue' = [queue EXCEPT ![s] = Append(@, [body |-> request[h].body, number |-> enqueued + 1])]
  /\ Answer(h, TRUE)
  /\ UNCHANGED <<listening, current, seeing, posts, feedback, handed, abandoned>>

\* 200, even if the session of the channel is over by now
Enqueue(h) ==
  LET s == request[h].session IN
  /\ request[h].pc = "read" /\ s # 0 /\ Len(queue[s]) < EventBuffer
  /\ queue' = [queue EXCEPT ![s] = Append(@, [body |-> request[h].body, number |-> enqueued + 1])]
  /\ Answer(h, TRUE)
  /\ UNCHANGED <<listening, current, seeing, posts, feedback, handed, abandoned>>

\* 503: not listening, or too far behind
Refuse(h) ==
  LET s == request[h].session IN
  /\ request[h].pc = "read"
  /\ s # 0 => Len(queue[s]) = EventBuffer
  /\ Answer(h, FALSE)
  /\ UNCHANGED <<listening, queue, current, seeing, posts, feedback, handed, abandoned>>

-----------------------------------------------------------------------------
(* The goroutine of Listen: process, firstSeen, handleMessage.             *)

\* faulty: handed over first, remembered afterwards, if at all
FirstSeenForgets(n) == UNCHANGED <<seen, outdated>>

\* an identifier not seen yet is remembered; too many, and the old ones go
FirstSeen(n) ==
  /\ seen' = (IF Cardinality(seen) >= SeenLimit THEN seen \ outdated ELSE seen) \union {n}
  /\ UNCHANGED outdated

TakeDuplicate(s) ==
  /\ listener[s] = "waiting" /\ queue[s] # <<>>
  /\ Head(queue[s]).body \in seen
  /\ queue' = [queue EXCEPT ![s] = Tail(@)]
  /\ UNCHANGED <<listening, current, seeing, web, feedback, handed, abandoned>>

TakeMessage(s) ==
  /\ listener[s] = "waiting" /\ queue[s] # <<>>
  /\ Head(queue[s]).body \in Inbound \ seen
  /\ FirstSeen(Head(queue[s]).body)
  /\ queue' = [queue EXCEPT ![s] = Tail(@)]
  /\ current' = [current EXCEPT ![s] = Head(queue[s])]
  /\ listener' = [listener EXCEPT ![s] = "handing"]
  /\ UNCHANGED <<events, started, cancelled, web, feedback, handed, abandoned>>

\* faulty: waits for room on the reactions channel
TakeReactionWaits(s) ==
  /\ listener[s] = "waiting" /\ queue[s] # <<>>
  /\ Head(queue[s]).body \in Reactions \ seen
  /\ reacting => Len(reactions) < ReactionBuffer
  /\ FirstSeen(Head(queue[s]).body)
  /\ queue' = [queue EXCEPT ![s] = Tail(@)]
  /\ reactions' = IF reacting THEN Append(reactions, Head(queue[s]).body) ELSE reactions
  /\ reacted' = reacted \union {Head(queue[s]).body}
  /\ UNCHANGED <<listening, current, web, reacting, handed, abandoned>>

\* emitReaction: dropped when nobody listens or reads
TakeReaction(s) ==
  /\ listener[s] = "waiting" /\ queue[s] # <<>>
  /\ Head(queue[s]).body \in Reactions \ seen
  /\ FirstSeen(Head(queue[s]).body)
  /\ queue' = [queue EXCEPT ![s] = Tail(@)]
  /\ reactions' = IF reacting /\ Len(reactions) < ReactionBuffer
                  THEN Append(reactions, Head(queue[s]).body) ELSE reactions
  /\ reacted' = reacted \union {Head(queue[s]).body}
  /\ UNCHANGED <<listening, current, web, reacting, handed, abandoned>>

\* the application (external) receives: the channel is not buffered
Handover(s) ==
  /\ listener[s] = "handing"
  /\ handed' = Append(handed, current[s])
  /\ current' = [current EXCEPT ![s] = Nothing]
  /\ listener' = [listener EXCEPT ![s] = "waiting"]
  /\ UNCHANGED <<events, started, cancelled, queue, seeing, web, feedback, abandoned>>

\* the context ended first: the message is seen, and nobody has it
Abandon(s) ==
  /\ listener[s] = "handing" /\ s \in cancelled
  /\ abandoned' = abandoned \union {current[s].body}
  /\ current' = [current EXCEPT ![s] = Nothing]
  /\ listener' = [listener EXCEPT ![s] = "waiting"]
  /\ UNCHANGED <<events, started, cancelled, queue, seeing, web, feedback, handed>>

-----------------------------------------------------------------------------
(* ListenReactions, and time.                                              *)

ListenReactions ==
  /\ ~reacting /\ reacting' = TRUE
  /\ reactions' = <<>>
  /\ UNCHANGED <<listening, queue, current, seeing, web, reacted, handed, abandoned>>

\* its context ends: what the closed channel holds can still be read
EndReactions ==
  /\ reacting /\ reacting' = FALSE
  /\ UNCHANGED <<listening, queue, current, seeing, web, reactions, reacted, handed, abandoned>>

ReadReaction ==
  /\ reactions # <<>> /\ reactions' = Tail(reactions)
  /\ UNCHANGED <<listening, queue, current, seeing, web, reacting, reacted, handed, abandoned>>

\* Meta does not post again what it posted more than seenTTL ago
Outdate(n) ==
  /\ n \in seen \ outdated
  /\ \A s \in Sessions : \A i \in DOMAIN queue[s] : queue[s][i].body # n
  /\ \A h \in Handlers : request[h].body # n
  /\ outdated' = outdated \union {n}
  /\ UNCHANGED <<listening, queue, current, seen, web, feedback, handed, abandoned>>

-----------------------------------------------------------------------------
\* the goroutine of a session, the application reading its messages
Process(s) == TakeDuplicate(s) \/ TakeMessage(s) \/ TakeReaction(s) \/ Handover(s)

Next ==
  \/ Listen
  \/ \E s \in Sessions : Cancel(s) \/ Leave(s) \/ Process(s) \/ Abandon(s)
  \/ \E h \in Handlers :
       \/ Enqueue(h) \/ Refuse(h)
       \/ \E n \in Notifications : Post(h, n)
  \/ ListenReactions \/ EndReactions \/ ReadReaction
  \/ \E n \in Notifications : Outdate(n)

(* A session goes on and its application reads messages; nobody has to     *)
(* read the reactions, and Meta has to post nothing.                       *)
Fairness == \A s \in Sessions : WF_vars(Process(s))

Spec == Init /\ [][Next]_vars /\ Fairness

-----------------------------------------------------------------------------
(* Properties.                                                             *)

Entries == [body : Notifications, number : 1..enqueued]

(* The variables have their types; no channel holds more than it can.      *)
TypeOK ==
  /\ events \in {0} \union Sessions /\ started \in {0} \union Sessions
  /\ cancelled \subseteq 1..started
  /\ listener \in [Sessions -> {"none", "waiting", "handing", "closed"}]
  /\ queue \in [Sessions -> Seq(Entries)]
  /\ \A s \in Sessions : Len(queue[s]) <= EventBuffer
  /\ current \in [Sessions -> Entries \union {Nothing}]
  /\ outdated \union seen \subseteq Notifications
  /\ request \in [Handlers -> [body : Notifications \union {Idle}, session : {0} \union Sessions,
                               pc : {"none", "read"}]]
  /\ posts \in 0..MaxPosts /\ enqueued \in 0..posts
  /\ acked \subseteq Notifications \X Sessions
  /\ reacting \in BOOLEAN /\ reactions \in Seq(Reactions) /\ Len(reactions) <= ReactionBuffer
  /\ reacted \subseteq Reactions /\ abandoned \subseteq Inbound
  /\ handed \in Seq(Entries)

(* The application gets a message once, however often Meta posts it, to    *)
(* however many requests at once, and across sessions (provider.go:207,    *)
(* 310-338).                                                               *)
HandedOnce ==
  \A i, j \in DOMAIN handed : handed[i].body = handed[j].body => i = j

(* Messages are handed over in the order in which they were queued, across *)
(* sessions too: two goroutines never hand over at the same time           *)
(* (provider.go:104-111, 182-184).  The channels hold at most what they    *)
(* have room for (TypeOK).                                                 *)
OrderKept ==
  TypeOK /\ \A i, j \in DOMAIN handed : i < j => handed[i].number < handed[j].number

(* A notification that was acknowledged reaches the application, or its    *)
(* session ends, or the message was taken by a session that ended with it. *)
(* Reactions nobody reads hold nothing up (provider.go:265-268).           *)
AcknowledgedIsHandled ==
  \A n \in Notifications, s \in Sessions :
    <<n, s>> \in acked ~>
      \/ n \in reacted \/ \E i \in DOMAIN handed : handed[i].body = n
      \/ s \in cancelled \/ n \in abandoned
=============================================================================
