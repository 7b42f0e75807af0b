------------------------------ MODULE SignalRpc ------------------------------
(***************************************************************************)
(* The JSON-RPC connection of the Signal provider to the signal-cli daemon *)
(* (provider/signal: rpc.go, and connect, Listen and Send of provider.go). *)
(*                                                                         *)
(* One socket carries the responses to the calls and the notifications of  *)
(* received messages.  readLoop dispatches both; Listen's goroutine takes  *)
(* the notifications from a buffered channel and hands each message to the *)
(* application over an unbuffered one; a call waits for its response.      *)
(* The daemon and the application are external.                            *)
(***************************************************************************)
EXTENDS Integers, Sequences, FiniteSets

CONSTANTS
  Calls,         \* the JSON-RPC calls (Send, SetStatus, Channel)
  Reading,       \* the application is ready to take a message
  Answering,     \* it makes each call from its loop over the messages
  MayListen,     \* it calls Listen
  MayLose,       \* the connection may be lost, or never come up
  NotifyBuffer,  \* the capacity of client.notifications, 64 in the code
  MaxReceives    \* bound: the messages the daemon receives

RpcAssumption ==
  /\ {Answering, MayListen, MayLose} \subseteq BOOLEAN
  /\ NotifyBuffer \in Nat \ {0}
  /\ MaxReceives \in Nat
  /\ Reading \notin Calls

VARIABLES
  client,         \* connectOnce: "none", "up", "failed"
  conn,           \* the socket: "open", "lost" or closed by "close"
  wire,           \* the frames on their way from the daemon: a call, or Reading
  received,       \* how many messages the daemon notified
  reader,         \* where readLoop stands
  offered,        \* history: how many notifications it passed on
  notifications,  \* how many the channel holds
  pending,        \* client.pending: the calls whose channel is registered
  mailbox,        \* [Calls -> what the channel of the call holds]
  call,           \* [Calls -> where the call stands]
  listener,       \* where the goroutine of Listen stands
  cancelled,      \* the context of Listen ended
  app,            \* the application's loop: Reading, or the call it makes
  handed          \* how many messages the application took

socket == <<client, conn, wire, received>>
calls == <<pending, mailbox, call>>
consumer == <<listener, cancelled, app, handed>>
vars == <<socket, reader, offered, notifications, calls, consumer>>

Init ==
  /\ client = "none" /\ conn = "open" /\ wire = <<>> /\ received = 0
  /\ reader = "none" /\ offered = 0 /\ notifications = 0
  /\ pending = {}
  /\ mailbox = [c \in Calls |-> "empty"]
  /\ call = [c \in Calls |-> "idle"]
  /\ listener = "none" /\ cancelled = FALSE
  /\ app = Reading /\ handed = 0

-----------------------------------------------------------------------------
(* connect, once for the life of the provider; its error is kept.          *)

Connect ==
  /\ client = "none"
  /\ \/ client' = "up" /\ reader' = "reading"
     \/ MayLose /\ client' = "failed" /\ UNCHANGED reader
  /\ UNCHANGED <<conn, wire, received, offered, notifications, calls, consumer>>

(* The daemon, and the network.                                            *)
Receive ==
  /\ client = "up" /\ conn = "open" /\ received < MaxReceives
  /\ received' = received + 1
  /\ wire' = Append(wire, Reading)
  /\ UNCHANGED <<client, conn, reader, offered, notifications, calls, consumer>>

Respond(c) ==
  /\ conn = "open" /\ call[c] = "waiting" /\ mailbox[c] = "empty"
  /\ \A i \in DOMAIN wire : wire[i] # c
  /\ wire' = Append(wire, c)
  /\ UNCHANGED <<client, conn, received, reader, offered, notifications, calls, consumer>>

Lose ==
  /\ MayLose /\ client = "up" /\ conn = "open"
  /\ conn' = "lost"
  /\ wire' \in {wire, <<>>}
  /\ UNCHANGED <<client, received, reader, offered, notifications, calls, consumer>>

-----------------------------------------------------------------------------
(* readLoop.                                                               *)

\* to whoever waits, and to nobody when the call has gone
ReadResponse ==
  /\ reader = "reading" /\ wire # <<>> /\ conn # "closed"
  /\ Head(wire) \in Calls
  /\ wire' = Tail(wire)
  /\ mailbox' = IF Head(wire) \in pending
                THEN [mailbox EXCEPT ![Head(wire)] = "response"] ELSE mailbox
  /\ pending' = pending \ {Head(wire)}
  /\ UNCHANGED <<client, conn, received, reader, offered, notifications, call, consumer>>

ReadNotification ==
  /\ reader = "reading" /\ wire # <<>> /\ conn # "closed"
  /\ Head(wire) = Reading
  /\ wire' = Tail(wire)
  /\ reader' = "offering"
  /\ UNCHANGED <<client, conn, received, offered, notifications, calls, consumer>>

\* faulty: the channel has no bound
OfferUnbounded ==
  /\ reader = "offering"
  /\ notifications' = notifications + 1
  /\ offered' = offered + 1
  /\ reader' = "reading"
  /\ UNCHANGED <<socket, calls, consumer>>

Offer ==
  /\ reader = "offering" /\ notifications < NotifyBuffer
  /\ notifications' = notifications + 1
  /\ offered' = offered + 1
  /\ reader' = "reading"
  /\ UNCHANGED <<socket, calls, consumer>>

\* faulty: a reader that waits for room does not see close
StopsWhenReading ==
  /\ reader = "reading" /\ conn # "open" /\ (conn = "lost" => wire = <<>>)
  /\ reader' = "stopping"
  /\ UNCHANGED <<socket, offered, notifications, calls, consumer>>

\* the socket is at its end or closed, or a frame exceeds the scanner's buffer;
\* c.closed interrupts an offer
Stops ==
  /\ \/ reader = "reading" /\ conn # "open" /\ (conn = "lost" => wire = <<>>)
     \/ MayLose /\ reader = "reading" /\ wire # <<>> /\ Head(wire) = Reading
     \/ reader = "offering" /\ conn = "closed"
  /\ reader' = "stopping"
  /\ UNCHANGED <<socket, offered, notifications, calls, consumer>>

\* faulty: the calls in flight are left alone
SweepNothing ==
  /\ reader = "stopping"
  /\ reader' = "ended"
  /\ pending' = {}
  /\ UNCHANGED <<socket, offered, notifications, mailbox, call, consumer>>

\* the notifications are closed, and so is the channel of every pending call
Sweep ==
  /\ reader = "stopping"
  /\ reader' = "ended"
  /\ mailbox' = [c \in Calls |-> IF c \in pending THEN "closed" ELSE mailbox[c]]
  /\ pending' = {}
  /\ UNCHANGED <<socket, offered, notifications, call, consumer>>

-----------------------------------------------------------------------------
(* call.                                                                   *)

Start(c) ==
  /\ call[c] = "idle" /\ client = "up"
  /\ IF Answering THEN app = c ELSE TRUE
  /\ call' = [call EXCEPT ![c] = "registered"]
  /\ pending' = pending \union {c}
  /\ UNCHANGED <<socket, reader, offered, notifications, mailbox, consumer>>

Return(c, result) ==
  /\ call' = [call EXCEPT ![c] = result]
  /\ pending' = pending \ {c}
  /\ app' = IF app = c THEN Reading ELSE app
  /\ UNCHANGED <<socket, reader, offered, notifications, mailbox, listener, cancelled, handed>>

\* the kernel takes what is written to a connection the daemon has left
Write(c) ==
  /\ call[c] = "registered" /\ conn # "closed"
  /\ call' = [call EXCEPT ![c] = "waiting"]
  /\ UNCHANGED <<socket, reader, offered, notifications, pending, mailbox, consumer>>

WriteFails(c) ==
  /\ call[c] = "registered" /\ conn # "open"
  /\ Return(c, "error")

TakeResponse(c) == call[c] = "waiting" /\ mailbox[c] = "response" /\ Return(c, "ok")
TakeClosed(c) == call[c] = "waiting" /\ mailbox[c] = "closed" /\ Return(c, "error")

\* the context of the call ends
GiveUp(c) == call[c] = "waiting" /\ Return(c, "cancelled")

-----------------------------------------------------------------------------
(* The goroutine of Listen, and the application's loop.                    *)

Listen ==
  /\ MayListen /\ client = "up" /\ listener = "none"
  /\ listener' = "waiting"
  /\ UNCHANGED <<socket, reader, offered, notifications, calls, cancelled, app, handed>>

Cancel ==
  /\ listener # "none" /\ ~cancelled
  /\ cancelled' = TRUE
  /\ UNCHANGED <<socket, reader, offered, notifications, calls, listener, app, handed>>

Take ==
  /\ listener = "waiting" /\ notifications > 0
  /\ notifications' = notifications - 1
  /\ listener' = "handing"
  /\ UNCHANGED <<socket, reader, offered, calls, cancelled, app, handed>>

\* toMessage finds nothing the application should see
Skip ==
  /\ listener = "waiting" /\ notifications > 0
  /\ notifications' = notifications - 1
  /\ handed' = handed + 1
  /\ UNCHANGED <<socket, reader, offered, calls, listener, cancelled, app>>

Hand ==
  /\ listener = "handing" /\ app = Reading
  /\ listener' = "waiting"
  /\ handed' = handed + 1
  /\ app' \in IF Answering /\ \E c \in Calls : call[c] = "idle"
              THEN {c \in Calls : call[c] = "idle"} ELSE {Reading}
  /\ UNCHANGED <<socket, reader, offered, notifications, calls, cancelled>>

\* faulty: the end of the connection ends Listen, whatever is still buffered
DrainedWhenEnded ==
  /\ listener = "waiting" /\ reader = "ended"
  /\ listener' = "ended"
  /\ UNCHANGED <<socket, reader, offered, notifications, calls, cancelled, app, handed>>

\* notifications is closed and empty: messages is closed too
Drained ==
  /\ listener = "waiting" /\ reader = "ended" /\ notifications = 0
  /\ listener' = "ended"
  /\ UNCHANGED <<socket, reader, offered, notifications, calls, cancelled, app, handed>>

\* the context of Listen ends: the client is closed, for the calls as well
Close ==
  /\ cancelled /\ listener \in {"waiting", "handing"}
  /\ listener' = "ended"
  /\ conn' = "closed"
  /\ UNCHANGED <<client, wire, received, reader, offered, notifications, calls, cancelled, app, handed>>

-----------------------------------------------------------------------------
ReadLoop == ReadResponse \/ ReadNotification \/ Offer \/ Stops \/ Sweep
CallStep(c) == Start(c) \/ Write(c) \/ WriteFails(c) \/ TakeResponse(c) \/ TakeClosed(c)
ListenLoop == Take \/ Skip \/ Hand \/ Drained \/ Close

Next ==
  \/ Connect \/ Receive \/ Lose \/ Listen \/ Cancel
  \/ ReadLoop \/ ListenLoop
  \/ \E c \in Calls : Respond(c) \/ CallStep(c) \/ GiveUp(c)

(* Goroutines make progress, and so does an application that is in the     *)
(* loop over its messages; the daemon answers while it can.  Nobody        *)
(* cancels a call.                                                         *)
Fairness ==
  /\ WF_vars(ReadLoop) /\ WF_vars(ListenLoop)
  /\ \A c \in Calls : WF_vars(CallStep(c)) /\ WF_vars(Respond(c))

Spec == Init /\ [][Next]_vars /\ Fairness

-----------------------------------------------------------------------------
(* Properties.                                                             *)

(* The variables have their types; the channel of notifications never      *)
(* holds more than it can.                                                 *)
TypeOK ==
  /\ client \in {"none", "up", "failed"} /\ conn \in {"open", "lost", "closed"}
  /\ wire \in Seq(Calls \union {Reading}) /\ received \in 0..MaxReceives
  /\ reader \in {"none", "reading", "offering", "stopping", "ended"}
  /\ notifications \in 0..NotifyBuffer
  /\ pending \subseteq Calls
  /\ mailbox \in [Calls -> {"empty", "response", "closed"}]
  /\ call \in [Calls -> {"idle", "registered", "waiting", "ok", "error", "cancelled"}]
  /\ listener \in {"none", "waiting", "handing", "ended"} /\ cancelled \in BOOLEAN
  /\ app \in Calls \union {Reading} /\ offered \in 0..received /\ handed \in 0..offered

(* A call that waits returns while somebody listens: with its response, or *)
(* with an error once the connection is gone (rpc.go:95-97).  Excepted is  *)
(* the call registered after readLoop swept the pending ones, which waits  *)
(* for its context.                                                        *)
CallsReturn ==
  \A c \in Calls :
    call[c] = "waiting" ~>
      \/ call[c] # "waiting"
      \/ listener = "none"
      \/ reader = "ended" /\ c \in pending

(* When Listen ends its channel because the connection is gone, and not    *)
(* its context, every message readLoop passed on has reached the           *)
(* application or was not meant for it (rpc.go:94, provider.go:85-88); the *)
(* channel between the two never holds more than its buffer (TypeOK).      *)
NothingLeftBehind ==
  TypeOK /\ (listener = "ended" /\ ~cancelled => handed = offered)

(* The end of its context ends the goroutine of Listen and readLoop, also  *)
(* when one waits for the other or for the application (rpc.go:126-130,    *)
(* provider.go:81-100).                                                    *)
CancelEnds == cancelled ~> listener = "ended" /\ reader = "ended"

(* "Buffered: receive notifications keep flowing while the consumer        *)
(* converts the previous one; the daemon is never blocked long"            *)
(* (rpc.go:79-81).  With an application that answers from its loop, the    *)
(* response it waits for can be behind notifications that wait for it.     *)
NeverBlockedLong == reader = "offering" ~> reader # "offering"

=============================================================================
