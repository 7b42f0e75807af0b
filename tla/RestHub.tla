------------------------------ MODULE RestHub ------------------------------
(***************************************************************************)
(* The hub of provider/rest/hub.go and the event handlers of handler.go    *)
(* that feed its subscribers to their clients.                             *)
(*                                                                         *)
(* The channels of a hub share nothing but its lock, so the module is the  *)
(* channelHub of one of them.  Every hub method holds the lock throughout  *)
(* and never blocks: each is one action.  A handler works outside the      *)
(* lock, one write at a time.  The n-th message has the identifier n.      *)
(***************************************************************************)
EXTENDS Integers, Sequences

CONSTANTS
  Clients,       \* who follows the channel (external)
  Subs,          \* subscribers: one per running event handler
  NoSub,         \* a client without a connection
  HistorySize,   \* opts.HistorySize
  BufferSize,    \* opts.SubscriberBufferSize
  Unreadable,    \* the messages with a text part that cannot be opened (again)
  MaxPublished,  \* bound: messages published
  MaxDrops       \* bound: connections lost by the network

ASSUME HistoryAssumption == HistorySize \in Nat
ASSUME BufferAssumption == BufferSize \in Nat \ {0}
ASSUME UnreadableAssumption == Unreadable \subseteq Nat
ASSUME NoSubAssumption == NoSub \notin Subs

VARIABLES
  published,    \* messages published so far
  history,      \* channel.history
  subscribers,  \* channel.subscribers
  chan,         \* the channel of each subscriber: open or closed
  queue,        \* what it holds
  dropped,      \* sub.dropped
  handler,      \* each event handler: not running, writing the backlog, live
  backlog,      \* the backlog the handler still has to write
  conn,         \* the connection of each client
  stalled,      \* the clients that do not read for now (external)
  seen,         \* what each client received
  closed,       \* the server was shut down and close was called
  drops         \* connections lost so far

hub == <<published, history, subscribers, chan, queue, dropped>>
vars == <<hub, handler, backlog, conn, stalled, seen, closed, drops>>

TypeOK ==
  /\ published \in Nat
  /\ history \in Seq(Nat) /\ Len(history) <= HistorySize
  /\ subscribers \subseteq Subs
  /\ chan \in [Subs -> {"open", "closed"}]
  /\ queue \in [Subs -> Seq(Nat)] /\ \A k \in Subs : Len(queue[k]) <= BufferSize
  /\ dropped \subseteq Subs
  /\ handler \in [Subs -> {"none", "backlog", "live"}]
  /\ backlog \in [Subs -> Seq(Nat)]
  /\ conn \in [Clients -> Subs \cup {NoSub}]
  /\ stalled \subseteq Clients
  /\ seen \in [Clients -> Seq(Nat)]
  /\ closed \in BOOLEAN
  /\ drops \in Nat

Init ==
  /\ published = 0
  /\ history = <<>>
  /\ subscribers = {}
  /\ chan = [k \in Subs |-> "closed"]
  /\ queue = [k \in Subs |-> <<>>]
  /\ dropped = {}
  /\ handler = [k \in Subs |-> "none"]
  /\ backlog = [k \in Subs |-> <<>>]
  /\ conn = [c \in Clients |-> NoSub]
  /\ stalled = {}
  /\ seen = [c \in Clients |-> <<>>]
  /\ closed = FALSE
  /\ drops = 0

-----------------------------------------------------------------------------
LastOf(s) == s[Len(s)]

(* Faulty variant: the message kept last is the one thrown away.           *)
RecordedDropsNewest(n) ==
  IF HistorySize = 0 THEN history
  ELSE IF Len(history) < HistorySize THEN Append(history, n) ELSE history

(* Faulty variant: the length is compared before the message is added.     *)
RecordedOneMore(n) ==
  IF HistorySize = 0 THEN history
  ELSE IF Len(history) <= HistorySize THEN Append(history, n)
  ELSE SubSeq(Append(history, n), Len(history) + 2 - HistorySize, Len(history) + 1)

(* The history once message n is recorded.                                 *)
Recorded(n) ==
  IF HistorySize = 0 THEN history
  ELSE IF Len(history) < HistorySize THEN Append(history, n)
  ELSE SubSeq(Append(history, n), Len(history) + 2 - HistorySize, Len(history) + 1)

Full == {k \in subscribers : Len(queue[k]) >= BufferSize}

(* Faulty variant: a full queue makes room by losing its oldest message.   *)
PublishOverwrites ==
  LET n == published + 1 IN
  /\ published < MaxPublished
  /\ published' = n
  /\ history' = Recorded(n)
  /\ queue' = [k \in Subs |->
       IF k \in Full \cap subscribers /\ queue[k] # <<>> THEN Append(Tail(queue[k]), n)
       ELSE IF k \in subscribers THEN Append(queue[k], n) ELSE queue[k]]
  /\ UNCHANGED <<subscribers, chan, dropped, handler, backlog, conn, stalled, seen, closed,
                 drops>>

(* Faulty variant: the channel of a full subscriber is closed and stays    *)
(* registered.                                                             *)
PublishKeepsFull ==
  LET n == published + 1 IN
  /\ published < MaxPublished
  /\ published' = n
  /\ history' = Recorded(n)
  /\ dropped' = dropped \cup Full
  /\ chan' = [k \in Subs |-> IF k \in Full THEN "closed" ELSE chan[k]]
  /\ queue' = [k \in Subs |->
                 IF k \in subscribers \ Full THEN Append(queue[k], n) ELSE queue[k]]
  /\ UNCHANGED <<subscribers, handler, backlog, conn, stalled, seen, closed, drops>>

(* The message is recorded and offered to every subscriber; one whose      *)
(* queue is full is disconnected.                                          *)
Publish ==
  LET n == published + 1 IN
  /\ published < MaxPublished
  /\ published' = n
  /\ history' = Recorded(n)
  /\ dropped' = dropped \cup Full
  /\ subscribers' = subscribers \ Full
  /\ chan' = [k \in Subs |-> IF k \in Full THEN "closed" ELSE chan[k]]
  /\ queue' = [k \in Subs |->
                 IF k \in subscribers \ Full THEN Append(queue[k], n) ELSE queue[k]]
  /\ UNCHANGED <<handler, backlog, conn, stalled, seen, closed, drops>>

(* The Last-Event-ID header of the client; 0 when it has none.             *)
LastEventID(c) == IF seen[c] = <<>> THEN 0 ELSE LastOf(seen[c])

(* Faulty variant: the last message seen is replayed too.                  *)
BacklogFrom(id) ==
  IF \E i \in DOMAIN history : history[i] = id
  THEN SubSeq(history, CHOOSE i \in DOMAIN history : history[i] = id, Len(history))
  ELSE <<>>

(* What was recorded after an identifier: nothing for an unknown one.      *)
BacklogAfter(id) ==
  IF \E i \in DOMAIN history : history[i] = id
  THEN SubSeq(history, 1 + (CHOOSE i \in DOMAIN history : history[i] = id), Len(history))
  ELSE <<>>

(* handleEvents subscribes: the registration and the backlog are one step. *)
(* The hub does not know it was closed: a request the server accepted      *)
(* before it stopped may still subscribe, and nothing closes its channel.  *)
Connect(c, k) ==
  /\ conn[c] = NoSub /\ handler[k] = "none"
  /\ conn' = [conn EXCEPT ![c] = k]
  /\ handler' = [handler EXCEPT ![k] = "backlog"]
  /\ backlog' = [backlog EXCEPT ![k] = BacklogAfter(LastEventID(c))]
  /\ subscribers' = subscribers \cup {k}
  /\ chan' = [chan EXCEPT ![k] = "open"]
  /\ queue' = [queue EXCEPT ![k] = <<>>]
  /\ dropped' = dropped \ {k}
  /\ UNCHANGED <<published, history, stalled, seen, closed, drops>>

(* What is written to the connection reaches the client that is still on   *)
(* it, and nobody else.                                                    *)
Deliver(k, n) ==
  seen' = [c \in Clients |-> IF conn[c] = k THEN Append(seen[c], n) ELSE seen[c]]

(* The server sets no WriteTimeout: a write waits until the client reads.  *)
Blocked(k) == \E c \in stalled : conn[c] = k

WriteBacklog(k) ==
  /\ handler[k] = "backlog" /\ backlog[k] # <<>> /\ ~Blocked(k)
  /\ Head(backlog[k]) \notin Unreadable
  /\ Deliver(k, Head(backlog[k]))
  /\ backlog' = [backlog EXCEPT ![k] = Tail(@)]
  /\ UNCHANGED <<hub, handler, conn, stalled, closed, drops>>

BacklogWritten(k) ==
  /\ handler[k] = "backlog" /\ backlog[k] = <<>>
  /\ handler' = [handler EXCEPT ![k] = "live"]
  /\ UNCHANGED <<hub, backlog, conn, stalled, seen, closed, drops>>

WriteEvent(k) ==
  /\ handler[k] = "live" /\ queue[k] # <<>> /\ ~Blocked(k)
  /\ Head(queue[k]) \notin Unreadable
  /\ Deliver(k, Head(queue[k]))
  /\ queue' = [queue EXCEPT ![k] = Tail(@)]
  /\ UNCHANGED <<published, history, subscribers, chan, dropped, handler, backlog,
                 conn, stalled, closed, drops>>

(* The handler returns and the connection with it: unsubscribe closes the  *)
(* channel, unless publish or close was first.                             *)
Leave(k) ==
  /\ handler' = [handler EXCEPT ![k] = "none"]
  /\ backlog' = [backlog EXCEPT ![k] = <<>>]
  /\ subscribers' = subscribers \ {k}
  /\ chan' = [chan EXCEPT ![k] = "closed"]
  /\ conn' = [c \in Clients |-> IF conn[c] = k THEN NoSub ELSE conn[c]]
  /\ UNCHANGED <<published, history, queue, dropped, stalled, seen, closed, drops>>

(* Faulty variant: only publish is expected to close the channel.          *)
DisconnectedIfDropped(k) ==
  /\ handler[k] = "live" /\ queue[k] = <<>> /\ chan[k] = "closed"
  /\ k \in dropped
  /\ Leave(k)

(* The channel was closed by the hub and is empty.                         *)
Disconnected(k) ==
  /\ handler[k] = "live" /\ queue[k] = <<>> /\ chan[k] = "closed"
  /\ Leave(k)

(* writeEvent cannot render a message whose text it inlines: the handler   *)
(* gives up, and the client is cut off in front of that message.           *)
WriteFails(k) ==
  /\ \/ handler[k] = "backlog" /\ backlog[k] # <<>> /\ Head(backlog[k]) \in Unreadable
     \/ handler[k] = "live" /\ queue[k] # <<>> /\ Head(queue[k]) \in Unreadable
  /\ Leave(k)

(* The request context ended, or a write failed, since the client left.    *)
RequestEnds(k) ==
  /\ handler[k] # "none"
  /\ \A c \in Clients : conn[c] # k
  /\ Leave(k)

(* The network loses a connection; the handler finds out later.            *)
LoseConnection(c) ==
  /\ conn[c] # NoSub /\ drops < MaxDrops
  /\ conn' = [conn EXCEPT ![c] = NoSub]
  /\ drops' = drops + 1
  /\ UNCHANGED <<hub, handler, backlog, stalled, seen, closed>>

(* A client stops reading, and may read on.                                *)
Stall(c) ==
  /\ c \notin stalled
  /\ stalled' = stalled \cup {c}
  /\ UNCHANGED <<hub, handler, backlog, conn, seen, closed, drops>>

Resume(c) ==
  /\ c \in stalled
  /\ stalled' = stalled \ {c}
  /\ UNCHANGED <<hub, handler, backlog, conn, seen, closed, drops>>

(* The server was shut down.                                               *)
Close ==
  /\ ~closed /\ closed' = TRUE
  /\ subscribers' = {}
  /\ chan' = [k \in Subs |-> IF k \in subscribers THEN "closed" ELSE chan[k]]
  /\ UNCHANGED <<published, history, queue, dropped, handler, backlog, conn, stalled, seen,
                 drops>>

-----------------------------------------------------------------------------
(* A step of the event handler of a subscriber.                            *)
Progress(k) ==
  \/ WriteBacklog(k) \/ BacklogWritten(k) \/ WriteEvent(k)
  \/ WriteFails(k) \/ Disconnected(k) \/ RequestEnds(k)

(* A handler that its client does not hold up (an event or a keep-alive    *)
(* may block it otherwise), and an event source that reconnects.           *)
Served(k) == ~Blocked(k) /\ Progress(k)
Reconnects(c) == ~closed /\ \E k \in Subs : Connect(c, k)

Next ==
  \/ Publish \/ Close
  \/ \E c \in Clients : LoseConnection(c) \/ \E k \in Subs : Connect(c, k)
  \/ \E c \in Clients : Stall(c) \/ Resume(c)
  \/ \E k \in Subs : Progress(k)

(* A running handler makes progress while its client reads, and a client   *)
(* reconnects as long as there is a server; nobody has to publish or to    *)
(* read, and nothing is assumed of the network.                            *)
Fairness ==
  /\ \A k \in Subs : WF_vars(Served(k))
  /\ \A c \in Clients : WF_vars(Reconnects(c))

Spec == Init /\ [][Next]_vars /\ Fairness

-----------------------------------------------------------------------------
(* A subscriber is registered exactly as long as its channel is open: no   *)
(* publish, unsubscribe or close ever closes a channel a second time or    *)
(* sends on a closed one (hub.go:56-64, 94-101, 109-114).                  *)
RegisteredIffOpen == \A k \in Subs : k \in subscribers <=> chan[k] = "open"

(* Each client sees the stream EventStream promises: over all of its       *)
(* connections nothing comes twice or out of order, and a gap appears only *)
(* after the client fell more than the history behind.                     *)
Stream == INSTANCE EventStream WITH
  Clients <- Clients, HistorySize <- HistorySize, published <- published, seen <- seen
EventStreamSpec == Stream!Spec

(* A client that reconnects catches up with the channel (hub.go:9-11),     *)
(* unless it stops reading, the history does not reach back to what it saw *)
(* last, the server is gone, or the next message cannot be rendered: in    *)
(* front of that one the client is cut off again and again.                *)
CatchesUpTo(c) ==
  \/ Stream!LastSeen(c) = published
  \/ Stream!FellBehind(c)
  \/ closed
  \/ c \in stalled

CatchesUp ==
  \A c \in Clients :
    ~Stream!Fresh(c) ~> CatchesUpTo(c) \/ Stream!LastSeen(c) + 1 \in Unreadable

(* An event handler whose channel the hub closed, because its client fell  *)
(* behind or because the server stops, returns: it does not wait for       *)
(* messages nobody can publish to it any more.  Only a client that stops   *)
(* reading without leaving keeps it, in the middle of a write; nothing     *)
(* bounds that one.                                                        *)
DisconnectedEnds ==
  \A k \in Subs : chan[k] = "closed" ~> handler[k] = "none" \/ Blocked(k)
-----------------------------------------------------------------------------
(* Why the stream holds, over every connection: the history is the last of *)
(* what was published, a handler still has an unbroken run to write, and   *)
(* the run begins where its client can go on.                              *)
Kept == IF published < HistorySize THEN published ELSE HistorySize

HistoryIsRecent ==
  /\ Len(history) = Kept
  /\ \A i \in 1 .. Kept : history[i] = published - Kept + i

(* The identifiers of s follow each other from n on.                       *)
RunFrom(s, n) == \A i \in 1 .. Len(s) : s[i] = n + i - 1

(* What the handler of k writes next.                                      *)
NextOf(k) ==
  IF backlog[k] # <<>> THEN backlog[k][1]
  ELSE IF queue[k] # <<>> THEN queue[k][1]
  ELSE published + 1

(* What k has to write, from its backlog and then from its queue.          *)
RunPending(k) ==
  LET n == NextOf(k)
      m == Len(backlog[k])
      l == Len(queue[k]) IN
  /\ n \in Nat \ {0}
  /\ RunFrom(backlog[k], n) /\ RunFrom(queue[k], n + m)
  /\ n + m + l <= published + 1
  /\ k \in subscribers => n + m + l = published + 1

(* What a running handler still has to write are messages that follow each *)
(* other without a gap or an overlap, up to the last one published as long *)
(* as it is registered: nothing falls between the backlog and the          *)
(* registration (hub.go:76-85).                                            *)
PendingIsRun == \A k \in Subs : handler[k] # "none" => RunPending(k)

(* A handler reads its queue only after its backlog.                       *)
LiveHasNoBacklog == \A k \in Subs : handler[k] = "live" => backlog[k] = <<>>

(* A connection is served by a running handler of its own.                 *)
OwnHandler ==
  /\ \A c \in Clients : conn[c] # NoSub => handler[conn[c]] # "none"
  /\ \A c, d \in Clients : conn[c] = conn[d] /\ conn[c] # NoSub => c = d

(* The identifier 0 stands for a client that saw nothing.                  *)
SeenWasPublished ==
  \A c \in Clients : /\ LastEventID(c) \in 0 .. published
                     /\ LastEventID(c) = 0 => Stream!Fresh(c)

FitsNext(c, n) ==
  \/ Stream!Fresh(c)
  \/ n = LastEventID(c) + 1
  \/ n > LastEventID(c) /\ Stream!FellBehind(c)

(* The handler of k will write again.                                      *)
StillWrites(k) == k \in subscribers \/ backlog[k] # <<>> \/ queue[k] # <<>>

GoesOn ==
  \A c \in Clients :
    conn[c] # NoSub /\ StillWrites(conn[c]) => FitsNext(c, NextOf(conn[c]))

IInv ==
  /\ TypeOK /\ RegisteredIffOpen /\ HistoryIsRecent /\ PendingIsRun
  /\ LiveHasNoBacklog /\ OwnHandler /\ SeenWasPublished /\ GoesOn
=============================================================================
