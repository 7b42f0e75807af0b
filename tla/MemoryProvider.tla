--------------------------- MODULE MemoryProvider ---------------------------
(***************************************************************************)
(* The in-process provider of provider/memory/provider.go: listeners and   *)
(* reaction streams that come and go, deliveries fanned out to a snapshot  *)
(* of them one blocking channel send at a time, and Close.                 *)
(*                                                                         *)
(* A critical section of p.mutex, p.sentMutex or p.reactionMutex in which  *)
(* the code neither blocks nor takes another lock is one action.  Close    *)
(* takes p.reactionMutex while it holds p.mutex and is split there.  A     *)
(* send on a closed channel panics: the program is gone.                   *)
(***************************************************************************)
EXTENDS Integers, Sequences, FiniteSets, SequencesExt

CONSTANTS
  MsgChans,    \* channels that calls of Listen will make
  ReactChans,  \* channels that calls of ListenReactions will make
  Deliveries,  \* calls of Deliver or Send, each with a message of its own
  Reactions,   \* calls of React, each with a reaction of its own
  BufferSize,  \* opts.BufferSize
  Loopback,    \* opts.Loopback
  MaxChans,    \* bound: channels made in a behavior
  MaxCalls     \* bound: calls of Deliver, Send and React in a behavior

ASSUME BufferSizeAssumption == BufferSize \in Nat \ {0}
ASSUME LoopbackAssumption == Loopback \in BOOLEAN
ASSUME ChansDiffer == MsgChans \cap ReactChans = {}

Chans == MsgChans \cup ReactChans
Calls == Deliveries \cup Reactions

VARIABLES
  listeners,          \* p.listeners
  reactionListeners,  \* p.reactionListeners
  closed,             \* p.closed
  sent,               \* p.sent
  closePc,            \* where the call of Close is
  chanState,          \* each channel: not made, being made, open, closed
  buf,                \* what each channel holds
  ctxDone,            \* the channels whose listening context ended
  pc,                 \* where each call is, or how it ended
  snapshot,           \* the local copy of the listeners of each call
  next,               \* the loop index of each call
  panicked,           \* a channel send panicked
  got,                \* history: what the application took from each channel
  before              \* history: the deliveries that had ended when a call began

registry == <<listeners, reactionListeners, closed>>
calls == <<pc, snapshot, next, before>>
vars == <<registry, calls, sent, closePc, chanState, buf, ctxDone, panicked, got>>

TypeOK ==
  /\ listeners \in Seq(MsgChans)
  /\ reactionListeners \in Seq(ReactChans)
  /\ closed \in BOOLEAN
  /\ sent \in Seq(Deliveries)
  /\ closePc \in {"idle", "called", "locked", "done"}
  /\ chanState \in [Chans -> {"none", "checked", "refused", "open", "closed"}]
  /\ buf \in [Chans -> Seq(Calls)] /\ \A c \in Chans : Len(buf[c]) <= BufferSize
  /\ ctxDone \subseteq Chans
  /\ pc \in [Calls -> {"idle", "recorded", "checked", "sending", "ok", "ctx",
                       "ErrClosed", "panic"}]
  /\ snapshot \in [Calls -> Seq(Chans)]
  /\ next \in [Calls -> Nat]
  /\ panicked \in BOOLEAN
  /\ got \in [Chans -> Seq(Calls)]
  /\ before \in [Calls -> SUBSET Calls]

Init ==
  /\ listeners = <<>> /\ reactionListeners = <<>> /\ closed = FALSE
  /\ sent = <<>> /\ closePc = "idle"
  /\ chanState = [c \in Chans |-> "none"]
  /\ buf = [c \in Chans |-> <<>>]
  /\ ctxDone = {}
  /\ pc = [d \in Calls |-> "idle"]
  /\ snapshot = [d \in Calls |-> <<>>]
  /\ next = [d \in Calls |-> 1]
  /\ panicked = FALSE
  /\ got = [c \in Chans |-> <<>>]
  /\ before = [d \in Calls |-> {}]

-----------------------------------------------------------------------------
(* p.mutex is free: Close holds it from its first critical section to the  *)
(* end of its second one, every other section is one action.               *)
MutexFree == closePc # "locked"

(* The bounds on what the application does.                                *)
MayOpen == Cardinality({c \in Chans : chanState[c] # "none"}) < MaxChans
MayCall == Cardinality({d \in Calls : pc[d] # "idle"}) < MaxCalls

(* A channel is made and registered, or refused on a closed provider.      *)
Listen(c) ==
  /\ ~panicked /\ MutexFree /\ MayOpen /\ chanState[c] = "none"
  /\ IF closed
     THEN /\ chanState' = [chanState EXCEPT ![c] = "refused"]
          /\ UNCHANGED listeners
     ELSE /\ chanState' = [chanState EXCEPT ![c] = "open"]
          /\ listeners' = Append(listeners, c)
  /\ UNCHANGED <<reactionListeners, closed, calls, sent, closePc, buf, ctxDone,
                 panicked, got>>

(* ListenReactions reads closed, lets the mutex go ...                     *)
ListenReactionsCheck(c) ==
  /\ ~panicked /\ MutexFree /\ MayOpen /\ chanState[c] = "none"
  /\ chanState' = [chanState EXCEPT ![c] = IF closed THEN "refused" ELSE "checked"]
  /\ UNCHANGED <<registry, calls, sent, closePc, buf, ctxDone, panicked, got>>

(* ... and registers the channel under the other mutex.                    *)
ListenReactionsRegister(c) ==
  /\ ~panicked /\ chanState[c] = "checked"
  /\ chanState' = [chanState EXCEPT ![c] = "open"]
  /\ reactionListeners' = Append(reactionListeners, c)
  /\ UNCHANGED <<listeners, closed, calls, sent, closePc, buf, ctxDone, panicked,
                 got>>

(* The context given to Listen or ListenReactions ends.  (It changes       *)
(* nothing for a channel that Close already closed.)                       *)
EndContext(c) ==
  /\ ~panicked /\ chanState[c] = "open" /\ c \notin ctxDone
  /\ ctxDone' = ctxDone \cup {c}
  /\ UNCHANGED <<registry, calls, sent, closePc, chanState, buf, panicked, got>>

(* Faulty variant: the channel is closed and stays registered.             *)
RemoveListenerKeepsEntry(c) ==
  /\ ~panicked /\ MutexFree /\ c \in ctxDone /\ Contains(listeners, c) /\ chanState[c] = "open"
  /\ chanState' = [chanState EXCEPT ![c] = "closed"]
  /\ UNCHANGED <<registry, calls, sent, closePc, buf, ctxDone, panicked, got>>

(* What append(s[:i], s[i+1:]...) leaves in the array of a snapshot that   *)
(* was taken without copy: the tail moved one place to the left.           *)
ShiftedFrom(s, c) ==
  LET i == SelectInSeq(s, LAMBDA x : x = c)
  IN IF i = 0 THEN s
     ELSE [k \in 1 .. Len(s) |-> IF k < i \/ k = Len(s) THEN s[k] ELSE s[k + 1]]

(* Faulty variant: the snapshots share the array of p.listeners.           *)
RemoveListenerInPlace(c) ==
  /\ ~panicked /\ MutexFree /\ c \in ctxDone /\ Contains(listeners, c)
  /\ listeners' = RemoveFirst(listeners, c)
  /\ snapshot' = [d \in Calls |-> ShiftedFrom(snapshot[d], c)]
  /\ chanState' = [chanState EXCEPT ![c] = "closed"]
  /\ UNCHANGED <<reactionListeners, closed, pc, next, before, sent, closePc, buf,
                 ctxDone, panicked, got>>

(* Faulty variant: the message channel is only forgotten, like a reaction  *)
(* stream.                                                                 *)
RemoveListenerLeavesOpen(c) ==
  /\ ~panicked /\ MutexFree /\ c \in ctxDone /\ Contains(listeners, c)
  /\ listeners' = RemoveFirst(listeners, c)
  /\ UNCHANGED <<reactionListeners, closed, calls, sent, closePc, chanState, buf,
                 ctxDone, panicked, got>>

(* The goroutine of Listen: the channel is forgotten and closed, unless    *)
(* Close was first.                                                        *)
RemoveListener(c) ==
  /\ ~panicked /\ MutexFree /\ c \in ctxDone /\ Contains(listeners, c)
  /\ listeners' = RemoveFirst(listeners, c)
  /\ chanState' = [chanState EXCEPT ![c] = "closed"]
  /\ UNCHANGED <<reactionListeners, closed, calls, sent, closePc, buf, ctxDone,
                 panicked, got>>

(* The goroutine of ListenReactions: the channel is forgotten.             *)
RemoveReactionListener(c) ==
  /\ ~panicked /\ c \in ctxDone /\ Contains(reactionListeners, c)
  /\ reactionListeners' = RemoveFirst(reactionListeners, c)
  /\ UNCHANGED <<listeners, closed, calls, sent, closePc, chanState, buf, ctxDone,
                 panicked, got>>

-----------------------------------------------------------------------------
(* Send records the message, then hands it to Deliver if it loops back.    *)
Send(d) ==
  /\ ~panicked /\ MayCall /\ pc[d] = "idle"
  /\ sent' = Append(sent, d)
  /\ pc' = [pc EXCEPT ![d] = IF Loopback THEN "recorded" ELSE "ok"]
  /\ UNCHANGED <<registry, snapshot, next, before, closePc, chanState, buf, ctxDone,
                 panicked, got>>

Reset ==
  /\ ~panicked /\ sent # <<>> /\ sent' = <<>>
  /\ UNCHANGED <<registry, calls, closePc, chanState, buf, ctxDone, panicked, got>>

Ended == {d \in Calls : pc[d] = "ok"}

(* The listeners a call will loop over are copied.                         *)
TakeSnapshot(d, chans) ==
  /\ pc' = [pc EXCEPT ![d] = "sending"]
  /\ snapshot' = [snapshot EXCEPT ![d] = chans]
  /\ before' = [before EXCEPT ![d] = Ended]
  /\ UNCHANGED next

Refuse(d) ==
  /\ pc' = [pc EXCEPT ![d] = "ErrClosed"]
  /\ UNCHANGED <<snapshot, next, before>>

Deliver(d) ==
  /\ ~panicked /\ MutexFree /\ (pc[d] = "recorded" \/ (MayCall /\ pc[d] = "idle"))
  /\ IF closed THEN Refuse(d) ELSE TakeSnapshot(d, listeners)
  /\ UNCHANGED <<registry, sent, closePc, chanState, buf, ctxDone, panicked, got>>

(* React reads closed, lets the mutex go ...                               *)
React(r) ==
  /\ ~panicked /\ MutexFree /\ MayCall /\ pc[r] = "idle"
  /\ IF closed
     THEN Refuse(r)
     ELSE pc' = [pc EXCEPT ![r] = "checked"] /\ UNCHANGED <<snapshot, next, before>>
  /\ UNCHANGED <<registry, sent, closePc, chanState, buf, ctxDone, panicked, got>>

(* ... and copies the reaction listeners under the other one.              *)
ReactSnapshot(r) ==
  /\ ~panicked /\ pc[r] = "checked"
  /\ TakeSnapshot(r, reactionListeners)
  /\ UNCHANGED <<registry, sent, closePc, chanState, buf, ctxDone, panicked, got>>

Current(d) == snapshot[d][next[d]]
InLoop(d) == pc[d] = "sending" /\ next[d] <= Len(snapshot[d])

(* Faulty variant: nobody waits for room in the channel.                   *)
SendNextUnbounded(d) ==
  /\ ~panicked /\ InLoop(d)
  /\ chanState[Current(d)] = "open"
  /\ buf' = [buf EXCEPT ![Current(d)] = Append(@, d)]
  /\ next' = [next EXCEPT ![d] = @ + 1]
  /\ UNCHANGED <<registry, pc, snapshot, before, sent, closePc, chanState, ctxDone,
                 panicked, got>>

(* The send to the next listener of the snapshot goes through.             *)
SendNext(d) ==
  /\ ~panicked /\ InLoop(d)
  /\ chanState[Current(d)] = "open" /\ Len(buf[Current(d)]) < BufferSize
  /\ buf' = [buf EXCEPT ![Current(d)] = Append(@, d)]
  /\ next' = [next EXCEPT ![d] = @ + 1]
  /\ UNCHANGED <<registry, pc, snapshot, before, sent, closePc, chanState, ctxDone,
                 panicked, got>>

(* It panics on a channel closed since the snapshot, even one that blocked *)
(* the sender before.                                                      *)
SendPanics(d) ==
  /\ ~panicked /\ InLoop(d) /\ chanState[Current(d)] = "closed"
  /\ pc' = [pc EXCEPT ![d] = "panic"]
  /\ panicked' = TRUE
  /\ UNCHANGED <<registry, snapshot, next, before, sent, closePc, chanState, buf,
                 ctxDone, got>>

(* Faulty variant: the end of the context only breaks out of the loop.     *)
SendCancelledReturnsNil(d) ==
  /\ ~panicked /\ InLoop(d)
  /\ pc' = [pc EXCEPT ![d] = "ok"]
  /\ UNCHANGED <<registry, snapshot, next, before, sent, closePc, chanState, buf,
                 ctxDone, panicked, got>>

(* The context of the call ends: select takes that branch.                 *)
SendCancelled(d) ==
  /\ ~panicked /\ InLoop(d)
  /\ pc' = [pc EXCEPT ![d] = "ctx"]
  /\ UNCHANGED <<registry, snapshot, next, before, sent, closePc, chanState, buf,
                 ctxDone, panicked, got>>

Return(d) ==
  /\ ~panicked /\ pc[d] = "sending" /\ next[d] > Len(snapshot[d])
  /\ pc' = [pc EXCEPT ![d] = "ok"]
  /\ UNCHANGED <<registry, snapshot, next, before, sent, closePc, chanState, buf,
                 ctxDone, panicked, got>>

(* The application takes a message or reaction from a channel.             *)
Receive(c) ==
  /\ ~panicked /\ buf[c] # <<>>
  /\ got' = [got EXCEPT ![c] = Append(@, Head(buf[c]))]
  /\ buf' = [buf EXCEPT ![c] = Tail(@)]
  /\ UNCHANGED <<registry, calls, sent, closePc, chanState, ctxDone, panicked>>

-----------------------------------------------------------------------------
(* Close waits for p.mutex; a call on a closed provider returns at once.   *)
CloseCall ==
  /\ ~panicked /\ closePc = "idle" /\ closePc' = "called"
  /\ UNCHANGED <<registry, calls, sent, chanState, buf, ctxDone, panicked, got>>

CloseAll(chans) ==
  [c \in Chans |-> IF Contains(chans, c) THEN "closed" ELSE chanState[c]]

(* Faulty variant: the read lock of Deliver is held across its sends.      *)
CloseListenersWaits ==
  /\ ~panicked /\ closePc = "called" /\ closePc' = "locked"
  /\ \A d \in Deliveries : pc[d] # "sending"
  /\ closed' = TRUE
  /\ chanState' = CloseAll(listeners)
  /\ listeners' = <<>>
  /\ UNCHANGED <<reactionListeners, calls, sent, buf, ctxDone, panicked, got>>

CloseListeners ==
  /\ ~panicked /\ closePc = "called" /\ closePc' = "locked"
  /\ closed' = TRUE
  /\ chanState' = CloseAll(listeners)
  /\ listeners' = <<>>
  /\ UNCHANGED <<reactionListeners, calls, sent, buf, ctxDone, panicked, got>>

CloseReactionListeners ==
  /\ ~panicked /\ closePc = "locked" /\ closePc' = "done"
  /\ chanState' = CloseAll(reactionListeners)
  /\ reactionListeners' = <<>>
  /\ UNCHANGED <<listeners, closed, calls, sent, buf, ctxDone, panicked, got>>

-----------------------------------------------------------------------------
Next ==
  \/ \E c \in MsgChans : Listen(c) \/ RemoveListener(c)
  \/ \E c \in ReactChans : \/ ListenReactionsCheck(c)
                           \/ ListenReactionsRegister(c)
                           \/ RemoveReactionListener(c)
  \/ \E c \in Chans : EndContext(c) \/ Receive(c)
  \/ \E d \in Deliveries : Send(d) \/ Deliver(d)
  \/ \E r \in Reactions : React(r) \/ ReactSnapshot(r)
  \/ \E d \in Calls : SendNext(d) \/ SendPanics(d) \/ SendCancelled(d) \/ Return(d)
  \/ Reset \/ CloseCall \/ CloseListeners \/ CloseReactionListeners

(* The goroutines the provider starts run and its critical sections end;   *)
(* nobody has to call, cancel or read anything.                            *)
Fairness ==
  /\ \A c \in MsgChans : WF_vars(RemoveListener(c))
  /\ \A c \in ReactChans : WF_vars(RemoveReactionListener(c))
  /\ WF_vars(CloseListeners)
  /\ WF_vars(CloseReactionListeners)

Spec == Init /\ [][Next]_vars /\ Fairness

-----------------------------------------------------------------------------
Occurrences(d, s) == Cardinality({i \in DOMAIN s : s[i] = d})
Stream(c) == got[c] \o buf[c]
Position(d, s) == CHOOSE i \in DOMAIN s : s[i] = d

(* What is registered is open and registered once, so neither Close nor    *)
(* the goroutine of a listener ever closes a channel twice, in whatever    *)
(* order they come (provider.go:189-200, 241-242); and a channel holds at  *)
(* most what its buffer has room for.                                      *)
NoDoubleClose ==
  /\ TypeOK
  /\ \A chans \in {listeners, reactionListeners} :
       /\ IsInjective(chans)
       /\ \A i \in DOMAIN chans : chanState[chans[i]] = "open"

(* A call has given its message exactly once to each listener it went past *)
(* and to nobody else, whoever registered or left meanwhile, and whether   *)
(* it goes on, returned or was cut short by its context.                   *)
FanOutExactlyOnce ==
  \A d \in Calls, c \in Chans :
    Occurrences(d, Stream(c)) =
      IF \E i \in 1 .. next[d] - 1 : i <= Len(snapshot[d]) /\ snapshot[d][i] = c
      THEN 1 ELSE 0

(* Deliver returned nil: every listener of its snapshot has the message,   *)
(* and a delivery begun afterwards comes behind it in every channel.       *)
DeliveriesInOrder ==
  \A d, e \in Calls, c \in Chans :
    d \in before[e] /\ Contains(Stream(c), e) /\ Contains(snapshot[d], c) =>
      Contains(Stream(c), d) /\ Position(d, Stream(c)) < Position(e, Stream(c))

(* The channel of Listen is closed once its context ended, even while a    *)
(* delivery is blocked on it.                                              *)
ContextEndsListen ==
  \A c \in MsgChans : c \in ctxDone ~> (chanState[c] = "closed" \/ panicked)

(* Close ends, whatever the deliveries are blocked on, and ends every      *)
(* stream it finds registered: for the reactions nothing else does, as the *)
(* end of their context only forgets the channel.                          *)
CloseEnds ==
  /\ closePc = "called" ~>
       \/ closePc = "done" /\ \A c \in MsgChans : chanState[c] # "open"
       \/ panicked
  /\ \A c \in ReactChans :
       closePc = "called" /\ chanState[c] = "open" /\ c \notin ctxDone
         ~> (chanState[c] = "closed" \/ c \in ctxDone \/ panicked)
=============================================================================
