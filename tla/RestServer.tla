----------------------------- MODULE RestServer -----------------------------
(***************************************************************************)
(* The life of the HTTP server of the REST provider (provider/rest:        *)
(* provider.go, server.go and the POST handler of handler.go): Listen      *)
(* starts a server, the end of its context stops it while requests are     *)
(* still being handled, and Listen may start the next one.                 *)
(*                                                                         *)
(* Three goroutines belong to a server: the one that runs it and then      *)
(* closes the incoming channel, the one that shuts it down, and one per    *)
(* request.  net/http is external: ListenAndServe returns as soon as       *)
(* Shutdown is called, Shutdown itself only once no request is left or its *)
(* ten seconds are over, and neither interrupts a handler.                 *)
(***************************************************************************)
EXTENDS Integers, Sequences, FiniteSets

CONSTANTS
  Posts,       \* POST requests, each with a message of its own
  Streams,     \* requests of the event endpoint
  Outgoing,    \* messages the application sends
  Servers,     \* 1..n: the servers Listen starts, one after the other
  MaxUploads,  \* bound: the files of a POST
  BufferSize   \* opts.IncomingBufferSize

ASSUME ServerAssumption ==
  /\ IsFiniteSet(Servers) /\ Servers = 1..Cardinality(Servers)
  /\ Posts \intersect Streams = {} /\ Outgoing \intersect (Posts \union Streams) = {}
  /\ MaxUploads \in Nat
  /\ BufferSize \in Nat \ {0}

VARIABLES
  server,     \* p.server; 0 for nil
  started,    \* how many servers were started
  listener,   \* [Servers -> "off", "open" or "closed"]: the TCP listener
  run,        \* [Servers -> the goroutine of Listen]
  shutdown,   \* [Servers -> the goroutine of Run that waits for the context]
  timedOut,   \* the servers whose Shutdown gave up
  incoming,   \* [Servers -> the messages the channel of Listen holds]
  parts,      \* [Servers -> the messages whose parts are indexed]
  release,    \* [Servers -> the uploads to release]
  post,       \* [Posts -> where the handler stands]
  at,         \* [Posts \union Streams \union Outgoing -> its server, 0 before]
  uploads,    \* [Posts -> the files it read so far]
  buffers,    \* the uploads whose content is held, in memory or on disk
  stream,     \* [Streams -> where the handler stands]
  send,       \* [Outgoing -> where its Send stands]
  read        \* the messages the application received

life == <<server, started, listener, run, shutdown, timedOut>>
requests == <<post, uploads, buffers, release, stream>>
vars == <<life, requests, incoming, parts, at, send, read>>

Init ==
  /\ server = 0 /\ started = 0 /\ timedOut = {}
  /\ listener = [s \in Servers |-> "off"]
  /\ run = [s \in Servers |-> "none"]
  /\ shutdown = [s \in Servers |-> "none"]
  /\ incoming = [s \in Servers |-> <<>>]
  /\ parts = [s \in Servers |-> {}]
  /\ release = [s \in Servers |-> {}]
  /\ post = [p \in Posts |-> "none"]
  /\ at = [r \in Posts \union Streams \union Outgoing |-> 0]
  /\ uploads = [p \in Posts |-> 0]
  /\ buffers = {}
  /\ stream = [e \in Streams |-> "none"]
  /\ send = [m \in Outgoing |-> "none"]
  /\ read = {}

-----------------------------------------------------------------------------
(* Listen, Run and Shutdown.                                               *)

Listen ==
  /\ server = 0 /\ started + 1 \in Servers
  /\ started' = started + 1
  /\ server' = started'
  /\ run' = [run EXCEPT ![started'] = "starting"]
  /\ shutdown' = [shutdown EXCEPT ![started'] = "waiting"]
  /\ UNCHANGED <<listener, timedOut, requests, incoming, parts, at, send, read>>

\* the context ends: Shutdown closes the listener, then waits
Cancel(s) ==
  /\ shutdown[s] = "waiting"
  /\ shutdown' = [shutdown EXCEPT ![s] = "draining"]
  /\ listener' = [listener EXCEPT ![s] = "closed"]
  /\ UNCHANGED <<server, started, run, timedOut, requests, incoming, parts, at, send, read>>

Serve(s) ==
  /\ run[s] = "starting" /\ listener[s] = "off"
  /\ listener' = [listener EXCEPT ![s] = "open"]
  /\ run' = [run EXCEPT ![s] = "serving"]
  /\ UNCHANGED <<server, started, shutdown, timedOut, requests, incoming, parts, at, send, read>>

\* faulty: the provider forgets a server before its Run has returned
UnregisterEarly(s) ==
  /\ run[s] \in {"starting", "serving"}
  /\ server' = 0
  /\ run' = [run EXCEPT ![s] = IF listener[s] = "closed" THEN "unregistered" ELSE @]
  /\ UNCHANGED <<started, listener, shutdown, timedOut, requests, incoming, parts, at, send, read>>

\* Run returns, the port being taken or Shutdown called, and p.server is reset
Unregister(s) ==
  /\ run[s] = "starting" \/ (run[s] = "serving" /\ listener[s] = "closed")
  /\ server' = 0
  /\ run' = [run EXCEPT ![s] = "unregistered"]
  /\ UNCHANGED <<started, listener, shutdown, timedOut, requests, incoming, parts, at, send, read>>

CloseIncoming(s) ==
  /\ run[s] = "unregistered"
  /\ run' = [run EXCEPT ![s] = "closed"]
  /\ UNCHANGED <<server, started, listener, shutdown, timedOut, requests, incoming,
                 parts, at, send, read>>

\* the requests of a server that were accepted and have not returned
Running(s) ==
  {p \in Posts : at[p] = s /\ post[p] \in {"reading", "buffered", "sending"}}
    \union {e \in Streams : at[e] = s /\ stream[e] \in {"accepted", "live"}}

\* faulty: Shutdown without a deadline
ShutdownWaits(s) ==
  /\ shutdown[s] = "draining" /\ Running(s) = {}
  /\ shutdown' = [shutdown EXCEPT ![s] = "drained"]
  /\ UNCHANGED <<server, started, listener, run, timedOut, requests, incoming, parts,
                 at, send, read>>

ShutdownReturns(s) ==
  /\ shutdown[s] = "draining"
  /\ shutdown' = [shutdown EXCEPT ![s] = "drained"]
  /\ timedOut' = IF Running(s) = {} THEN timedOut ELSE timedOut \union {s}
  /\ UNCHANGED <<server, started, listener, run, requests, incoming, parts, at, send,
                 read>>

\* faulty: the uploads are released without waiting for Shutdown
CleanupEarly(s) ==
  /\ shutdown[s] \in {"draining", "drained"}
  /\ shutdown' = [shutdown EXCEPT ![s] = "done"]
  /\ stream' = [e \in Streams |-> IF at[e] = s /\ stream[e] = "live" THEN "done" ELSE stream[e]]
  /\ buffers' = buffers \ release[s]
  /\ release' = [release EXCEPT ![s] = {}]
  /\ UNCHANGED <<server, started, listener, run, timedOut, post, uploads, incoming, parts, at,
                 send, read>>

\* hub.close disconnects every subscriber (see RestHub), releaseAll follows
Cleanup(s) ==
  /\ shutdown[s] = "drained"
  /\ shutdown' = [shutdown EXCEPT ![s] = "done"]
  /\ stream' = [e \in Streams |-> IF at[e] = s /\ stream[e] = "live" THEN "done" ELSE stream[e]]
  /\ buffers' = buffers \ release[s]
  /\ release' = [release EXCEPT ![s] = {}]
  /\ UNCHANGED <<server, started, listener, run, timedOut, post, uploads, incoming, parts, at,
                 send, read>>

-----------------------------------------------------------------------------
(* handlePostMessage.                                                      *)

PostGoes(p, place) == post' = [post EXCEPT ![p] = place]

PostArrives(p, s) ==
  /\ post[p] = "none" /\ listener[s] = "open"
  /\ PostGoes(p, "reading")
  /\ at' = [at EXCEPT ![p] = s]
  /\ UNCHANGED <<life, uploads, buffers, release, stream, incoming, parts, send, read>>

\* readUpload: the content is buffered, then its release function is tracked
ReadUpload(p) ==
  /\ post[p] = "reading" /\ uploads[p] < MaxUploads
  /\ uploads' = [uploads EXCEPT ![p] = @ + 1]
  /\ buffers' = buffers \union {<<p, uploads[p] + 1>>}
  /\ PostGoes(p, "buffered")
  /\ UNCHANGED <<life, release, stream, incoming, parts, at, send, read>>

TrackRelease(p) ==
  /\ post[p] = "buffered"
  /\ release' = [release EXCEPT ![at[p]] = @ \union {<<p, uploads[p]>>}]
  /\ PostGoes(p, "reading")
  /\ UNCHANGED <<life, uploads, buffers, stream, incoming, parts, at, send, read>>

\* faulty: a refused upload keeps its buffer
UploadRefusedKeepsBuffer(p) ==
  /\ post[p] = "buffered"
  /\ PostGoes(p, "rejected")
  /\ UNCHANGED <<life, uploads, buffers, release, stream, incoming, parts, at, send, read>>

\* too large, or it cannot be read to the end: it is released at once
UploadRefused(p) ==
  /\ post[p] = "buffered"
  /\ buffers' = buffers \ {<<p, uploads[p]>>}
  /\ PostGoes(p, "rejected")
  /\ UNCHANGED <<life, uploads, release, stream, incoming, parts, at, send, read>>

\* not authenticated, or the body cannot be parsed
PostRejected(p) ==
  /\ post[p] = "reading"
  /\ PostGoes(p, "rejected")
  /\ UNCHANGED <<life, uploads, buffers, release, stream, incoming, parts, at, send, read>>

IndexParts(p) ==
  /\ post[p] = "reading"
  /\ parts' = [parts EXCEPT ![at[p]] = @ \union {p}]
  /\ PostGoes(p, "sending")
  /\ UNCHANGED <<life, uploads, buffers, release, stream, incoming, at, send, read>>

\* faulty: a full buffer is not waited for
QueueOrDrop(p) ==
  /\ post[p] = "sending" /\ run[at[p]] # "closed"
  /\ incoming' = IF Len(incoming[at[p]]) < BufferSize
                 THEN [incoming EXCEPT ![at[p]] = Append(@, p)] ELSE incoming
  /\ PostGoes(p, "created")
  /\ UNCHANGED <<life, uploads, buffers, release, stream, parts, at, send, read>>

\* faulty: no bound at all
QueueUnbounded(p) ==
  /\ post[p] = "sending" /\ run[at[p]] # "closed"
  /\ incoming' = [incoming EXCEPT ![at[p]] = Append(@, p)]
  /\ PostGoes(p, "created")
  /\ UNCHANGED <<life, uploads, buffers, release, stream, parts, at, send, read>>

Queue(p) ==
  /\ post[p] = "sending" /\ run[at[p]] # "closed"
  /\ Len(incoming[at[p]]) < BufferSize
  /\ incoming' = [incoming EXCEPT ![at[p]] = Append(@, p)]
  /\ PostGoes(p, "created")
  /\ UNCHANGED <<life, uploads, buffers, release, stream, parts, at, send, read>>

\* the channel was closed under the handler: the send panics, net/http recovers
PostPanics(p) ==
  /\ post[p] = "sending" /\ run[at[p]] = "closed"
  /\ PostGoes(p, "panicked")
  /\ UNCHANGED <<life, uploads, buffers, release, stream, incoming, parts, at, send, read>>

\* the client left
PostAbandoned(p) ==
  /\ post[p] = "sending"
  /\ PostGoes(p, "timeout")
  /\ UNCHANGED <<life, uploads, buffers, release, stream, incoming, parts, at, send, read>>

-----------------------------------------------------------------------------
(* handleEvents, as far as it concerns the server, and Send.               *)

StreamArrives(e, s) ==
  /\ stream[e] = "none" /\ listener[s] = "open"
  /\ stream' = [stream EXCEPT ![e] = "accepted"]
  /\ at' = [at EXCEPT ![e] = s]
  /\ UNCHANGED <<life, post, uploads, buffers, release, incoming, parts, send, read>>

\* hub.subscribe, whether the hub was closed or not
Subscribe(e) ==
  /\ stream[e] = "accepted"
  /\ stream' = [stream EXCEPT ![e] = "live"]
  /\ UNCHANGED <<life, post, uploads, buffers, release, incoming, parts, at, send, read>>

\* not authenticated, or the client left
StreamEnds(e) ==
  /\ stream[e] \in {"accepted", "live"}
  /\ stream' = [stream EXCEPT ![e] = "done"]
  /\ UNCHANGED <<life, post, uploads, buffers, release, incoming, parts, at, send, read>>

\* Send reads p.server once, and keeps to it
Send(m) ==
  /\ send[m] = "none"
  /\ send' = [send EXCEPT ![m] = IF server = 0 THEN "refused" ELSE "found"]
  /\ at' = [at EXCEPT ![m] = server]
  /\ UNCHANGED <<life, requests, incoming, parts, read>>

SendIndexes(m) ==
  /\ send[m] = "found"
  /\ parts' = [parts EXCEPT ![at[m]] = @ \union {m}]
  /\ send' = [send EXCEPT ![m] = "indexed"]
  /\ UNCHANGED <<life, requests, incoming, at, read>>

\* faulty: subscribers are told first
PublishesFirst(m) ==
  /\ send[m] \in {"found", "indexed"}
  /\ send' = [send EXCEPT ![m] = "published"]
  /\ UNCHANGED <<life, requests, incoming, parts, at, read>>

SendPublishes(m) ==
  /\ send[m] = "indexed"
  /\ send' = [send EXCEPT ![m] = "published"]
  /\ UNCHANGED <<life, requests, incoming, parts, at, read>>

\* the application (external) takes a message
Receive(s) ==
  /\ incoming[s] # <<>>
  /\ incoming' = [incoming EXCEPT ![s] = Tail(@)]
  /\ read' = read \union {Head(incoming[s])}
  /\ UNCHANGED <<life, requests, parts, at, send>>

-----------------------------------------------------------------------------
\* the goroutines a server starts
RunStep(s) == Serve(s) \/ Unregister(s) \/ CloseIncoming(s)
ShutdownStep(s) == ShutdownReturns(s) \/ Cleanup(s)

\* the handler of a POST request
PostStep(p) ==
  \/ ReadUpload(p) \/ TrackRelease(p) \/ UploadRefused(p) \/ PostRejected(p)
  \/ IndexParts(p) \/ Queue(p) \/ PostPanics(p) \/ PostAbandoned(p)

SendStep(m) == Send(m) \/ SendIndexes(m) \/ SendPublishes(m)

Next ==
  \/ Listen
  \/ \E s \in Servers : Cancel(s) \/ RunStep(s) \/ ShutdownStep(s) \/ Receive(s)
  \/ \E p \in Posts : PostStep(p) \/ \E s \in Servers : PostArrives(p, s)
  \/ \E e \in Streams :
       \/ Subscribe(e) \/ StreamEnds(e)
       \/ \E s \in Servers : StreamArrives(e, s)
  \/ \E m \in Outgoing : SendStep(m)

(* The goroutines of a server make progress, and so does an application    *)
(* that reads what Listen gave it.  Nothing is assumed of the clients: a   *)
(* request may last forever.                                               *)
Fairness ==
  \A s \in Servers : WF_vars(RunStep(s)) /\ WF_vars(ShutdownStep(s)) /\ WF_vars(Receive(s))

Spec == Init /\ [][Next]_vars /\ Fairness

-----------------------------------------------------------------------------
(* Properties.                                                             *)

(* The variables have their types, and the channel of Listen never holds   *)
(* more than its capacity.                                                 *)
TypeOK ==
  /\ server \in {0} \union Servers /\ started \in {0} \union Servers
  /\ timedOut \subseteq Servers
  /\ listener \in [Servers -> {"off", "open", "closed"}]
  /\ run \in [Servers -> {"none", "starting", "serving", "unregistered", "closed"}]
  /\ shutdown \in [Servers -> {"none", "waiting", "draining", "drained", "done"}]
  /\ incoming \in [Servers -> Seq(Posts)] /\ \A s \in Servers : Len(incoming[s]) <= BufferSize
  /\ parts \in [Servers -> SUBSET (Posts \union Outgoing)]
  /\ release \in [Servers -> SUBSET (Posts \X (1..MaxUploads))]
  /\ post \in [Posts -> {"none", "reading", "buffered", "sending", "created", "rejected",
                         "timeout", "panicked"}]
  /\ at \in [Posts \union Streams \union Outgoing -> {0} \union Servers]
  /\ uploads \in [Posts -> 0..MaxUploads]
  /\ buffers \subseteq Posts \X (1..MaxUploads)
  /\ stream \in [Streams -> {"none", "accepted", "live", "done"}]
  /\ send \in [Outgoing -> {"none", "refused", "found", "indexed", "published"}]
  /\ read \subseteq Posts

(* No two servers hold the port: Listen starts the next one only when the  *)
(* listener of the one before is gone, although that one may still be      *)
(* serving the requests it accepted (provider.go:34-56, server.go:63-85).  *)
(* Its queue holds at most what its channel has room for (TypeOK).         *)
OneListener == TypeOK /\ Cardinality({s \in Servers : listener[s] = "open"}) <= 1

UploadsOf(p) == {p} \X (1..uploads[p])

(* Once a server is shut down and its Shutdown did not give up, no content *)
(* of an upload stays behind, whatever became of the requests: accepted,   *)
(* rejected half way, abandoned or broken by the closed channel            *)
(* (server.go:67-75, 106-124, handler.go:146-190).                         *)
NothingLeaks ==
  \A s \in Servers : shutdown[s] = "done" /\ s \notin timedOut =>
    \A p \in Posts : at[p] = s => buffers \cap UploadsOf(p) = {}

(* Whoever knows of a message can download its parts: they are indexed     *)
(* before a client may see the event, and before the application may see   *)
(* the message (server.go:89-104, handler.go:90-97).                       *)
KnownIsDownloadable ==
  /\ \A m \in Outgoing : send[m] = "published" => m \in parts[at[m]]
  /\ \A p \in Posts : post[p] = "created" => p \in parts[at[p]]

(* A message acknowledged with 201 reaches an application that keeps       *)
(* reading, also when the server stops in between: its channel is closed,  *)
(* never emptied (provider.go:38-41).                                      *)
AcknowledgedIsRead == \A p \in Posts : post[p] = "created" ~> p \in read

(* A server whose context ends stops: whatever its clients do, the channel *)
(* of Listen is closed, uploads are released, and Listen may be called     *)
(* again (server.go:64-76).                                                *)
CancelStops ==
  \A s \in Servers : shutdown[s] = "draining" ~> run[s] = "closed" /\ shutdown[s] = "done"

=============================================================================
