--------------------------- MODULE RocketProvider ---------------------------
(***************************************************************************)
(* The Rocket.Chat provider (provider/rocket: provider.go and              *)
(* message_listener.go): one client connected and logged in under          *)
(* clientMutex, shared by every Listen, Send, SetStatus and Self, a status *)
(* callback that notes when a login is due, and one update listener for    *)
(* each Listen.                                                            *)
(*                                                                         *)
(* The DDP library is external, modelled from how the code uses it: it     *)
(* reconnects by itself, reports each DISCONNECTED before the CONNECTED    *)
(* that follows, sends again the calls in flight, and dispatches results   *)
(* and updates one at a time, a listener that blocks blocking the rest.    *)
(* A login lasts as long as its connection, and so do the updates on their *)
(* way; a subscription made without a login is accepted and stays mute.    *)
(***************************************************************************)
EXTENDS Integers, Sequences, FiniteSets

CONSTANTS
  Listeners,    \* the calls of Listen
  Senders,      \* the calls of Send, SetStatus and Self
  Own,          \* a message of the account itself
  MaxMessages,  \* bound: the messages others write
  MaxResent,    \* bound: how often the server sends a message again
  MaxDrops      \* bound: connections lost, over all clients

ASSUME RocketAssumption ==
  /\ Listeners \cap Senders = {} /\ "free" \notin Listeners \cup Senders
  /\ Own = 0
  /\ {MaxMessages, MaxResent, MaxDrops} \subseteq Nat

Callers == Listeners \cup Senders
Reauths == 1..MaxDrops

VARIABLES
  client,      \* p.client: "none" or "kept"
  mutex,       \* who holds clientMutex: a caller, or "free"
  needsLogin,  \* p.needsLogin
  listening,   \* AddStatusListener was called on the client
  op,          \* [Callers -> where the call stands]
  reauth,      \* [Reauths -> where the reauthenticate goroutine stands]
  unusable,    \* history: the last login of the connection to be stored came
               \* without credentials
  link,        \* the connection of the client: "none", "up", "down"
  report,      \* the status the library is reporting: "none", "up", "down"
  authed,      \* the connection is logged in
  heard,       \* the connection has a subscription made while logged in
  leak,        \* [Callers -> the connection of the client its failed getClient
               \* left behind]
  drops,       \* how many connections were lost
  stream,      \* the updates on their way to the client
  written,     \* how many messages others wrote
  resent,      \* how often one was sent again
  again,       \* history: the messages that were
  update,      \* the update being dispatched, and to whom it still goes
  listeners,   \* the update listeners of the collection
  received,    \* [Listeners -> receivedMessages]
  cancelled,   \* the listeners whose context ended
  handed       \* history: [Listeners -> the messages the application took]

provider == <<client, mutex, needsLogin, listening, unusable>>
calls == <<op, reauth>>
network == <<link, report, authed, heard, leak, drops>>
server == <<stream, written, resent, again>>
dispatch == <<update, listeners, received, cancelled, handed>>
vars == <<provider, calls, network, server, dispatch>>

Idle == [message |-> Own, to |-> <<>>]

Init ==
  /\ client = "none" /\ mutex = "free" /\ needsLogin = FALSE
  /\ listening = FALSE /\ unusable = FALSE
  /\ op = [c \in Callers |-> "idle"]
  /\ reauth = [r \in Reauths |-> "none"]
  /\ link = "none" /\ report = "none" /\ authed = FALSE /\ heard = FALSE
  /\ leak = [c \in Callers |-> "none"] /\ drops = 0
  /\ stream = <<>> /\ written = 0 /\ resent = 0 /\ again = {}
  /\ update = Idle /\ listeners = <<>>
  /\ received = [l \in Listeners |-> {}]
  /\ cancelled = {}
  /\ handed = [l \in Listeners |-> <<>>]

-----------------------------------------------------------------------------
(* Calls to the server.  A result is dispatched like an update.            *)

Answered == link = "up" /\ update.to = <<>>
At(c, pc) == op' = [op EXCEPT ![c] = pc]

\* client.Sub, from a Listen or from a new login, waits for its answer; one
\* that cannot be sent fails at once, and its error is ignored
Sub ==
  \/ Answered /\ heard' = (heard \/ authed)
  \/ link # "up" /\ UNCHANGED heard

-----------------------------------------------------------------------------
(* getClient: the first caller connects and logs in, the others wait.      *)

Enter(c) ==
  /\ op[c] = "idle" /\ mutex = "free"
  /\ IF client = "kept"
     THEN At(c, "got") /\ UNCHANGED mutex
     ELSE At(c, "connecting") /\ mutex' = c
  /\ UNCHANGED <<client, needsLogin, listening, unusable, reauth, network, server, dispatch>>

Connect(c) ==
  /\ op[c] = "connecting"
  /\ \/ /\ link' = "up" /\ authed' = FALSE /\ heard' = FALSE
        /\ listening' = FALSE
        /\ At(c, "watching") /\ UNCHANGED mutex
     \/ At(c, "failed") /\ mutex' = "free" /\ UNCHANGED <<link, authed, heard, listening>>
  /\ UNCHANGED <<client, needsLogin, unusable, reauth, report, leak, drops, server, dispatch>>

Watch(c) ==
  /\ op[c] = "watching"
  /\ listening' = TRUE
  /\ At(c, "login")
  /\ UNCHANGED <<client, mutex, needsLogin, unusable, reauth, network, server, dispatch>>

Login(c) ==
  /\ op[c] = "login" /\ Answered
  /\ authed' = TRUE
  /\ At(c, "storing")
  /\ UNCHANGED <<provider, reauth, link, report, heard, leak, drops, server, dispatch>>

\* storeCredentials
Keep(c) ==
  /\ op[c] = "storing"
  /\ client' = "kept" /\ mutex' = "free"
  /\ At(c, "got")
  /\ UNCHANGED <<needsLogin, listening, unusable, reauth, network, server, dispatch>>

\* the login is refused, or carries no credentials: the client stays
\* connected, and goes on reporting its status to the provider (what it was
\* reporting meanwhile comes first)
GiveUp(c) ==
  /\ op[c] \in {"login", "storing"} /\ report = "none"
  /\ mutex' = "free"
  /\ leak' = [leak EXCEPT ![c] = link] /\ link' = "none" /\ listening' = FALSE
  /\ At(c, "failed")
  /\ UNCHANGED <<client, needsLogin, unusable, reauth, report, authed, heard, drops, server,
                 dispatch>>

-----------------------------------------------------------------------------
(* The connection, and Status.                                             *)

\* the updates the client has not read are lost
Drop ==
  /\ link = "up" /\ report = "none" /\ drops < MaxDrops
  /\ drops' = drops + 1
  /\ link' = "down" /\ report' = "down" /\ authed' = FALSE /\ heard' = FALSE
  /\ unusable' = FALSE
  /\ \E read \in 0..Len(stream) : stream' = SubSeq(stream, 1, read)
  /\ UNCHANGED <<client, mutex, needsLogin, listening, calls, leak, written, resent, again,
                 dispatch>>

\* the subscriptions are replayed, without a login
Reconnect ==
  /\ link = "down" /\ report = "none"
  /\ link' = "up" /\ report' = "up"
  /\ UNCHANGED <<provider, calls, authed, heard, leak, drops, server, dispatch>>

Spawn == \E r \in Reauths :
  /\ reauth[r] = "none" /\ \A q \in 1..(r - 1) : reauth[q] # "none"
  /\ reauth' = [reauth EXCEPT ![r] = "locking"]

\* faulty: a reconnection is taken for the first connection
OnStatusKept(status) ==
  \/ /\ status = "down"
     /\ UNCHANGED <<needsLogin, reauth>>
  \/ /\ status = "up"
     /\ needsLogin' = FALSE
     /\ IF needsLogin THEN Spawn ELSE UNCHANGED reauth

\* faulty: takes clientMutex
OnStatusLocked(status) ==
  /\ mutex = "free"
  /\ \/ /\ status = "down"
        /\ needsLogin' = TRUE
        /\ UNCHANGED reauth
     \/ /\ status = "up"
        /\ needsLogin' = FALSE
        /\ IF needsLogin THEN Spawn ELSE UNCHANGED reauth

\* Status: a lost connection makes a login due, the next one starts it
OnStatus(status) ==
  \/ /\ status = "down"
     /\ needsLogin' = TRUE
     /\ UNCHANGED reauth
  \/ /\ status = "up"
     /\ needsLogin' = FALSE
     /\ IF needsLogin THEN Spawn ELSE UNCHANGED reauth

Status ==
  /\ report # "none"
  /\ report' = "none"
  /\ IF listening THEN OnStatus(report) ELSE UNCHANGED <<needsLogin, reauth>>
  /\ UNCHANGED <<client, mutex, listening, unusable, op, link, authed, heard, leak, drops, server,
                 dispatch>>

\* the client the getClient of c left behind
LeakedStatus(c) ==
  /\ \/ /\ leak[c] = "up" /\ drops < MaxDrops
        /\ leak' = [leak EXCEPT ![c] = "down"] /\ drops' = drops + 1
        /\ OnStatus("down")
     \/ /\ leak[c] = "down"
        /\ leak' = [leak EXCEPT ![c] = "up"] /\ UNCHANGED drops
        /\ OnStatus("up")
  /\ UNCHANGED <<client, mutex, listening, unusable, op, link, report, authed, heard, server,
                 dispatch>>

-----------------------------------------------------------------------------
(* reauthenticate.                                                         *)

ReauthTake(r) ==
  /\ reauth[r] = "locking" /\ mutex = "free"
  /\ reauth' = [reauth EXCEPT ![r] = IF client = "kept" THEN "login" ELSE "none"]
  /\ UNCHANGED <<provider, op, network, server, dispatch>>

ReauthLogin(r) ==
  /\ reauth[r] = "login" /\ Answered
  /\ authed' = TRUE
  /\ reauth' = [reauth EXCEPT ![r] = "storing"]
  /\ UNCHANGED <<provider, op, link, report, heard, leak, drops, server, dispatch>>

\* faulty: a refused login is not tried again
ReauthRefusedOnce(r) ==
  /\ reauth[r] = "login"
  /\ reauth' = [reauth EXCEPT ![r] = "none"]
  /\ UNCHANGED <<provider, op, network, server, dispatch>>

\* refused, or not sent
ReauthRefused(r) ==
  /\ reauth[r] = "login"
  /\ needsLogin' = TRUE
  /\ reauth' = [reauth EXCEPT ![r] = "none"]
  /\ UNCHANGED <<client, mutex, listening, unusable, op, network, server, dispatch>>

\* storeCredentials, then Sub; without credentials nothing is subscribed again
ReauthStore(r) ==
  /\ reauth[r] = "storing"
  /\ \/ Sub /\ unusable' = FALSE
     \/ unusable' = TRUE /\ UNCHANGED heard
  /\ reauth' = [reauth EXCEPT ![r] = "none"]
  /\ UNCHANGED <<client, mutex, needsLogin, listening, op, link, report, authed, leak, drops,
                 server, dispatch>>

-----------------------------------------------------------------------------
(* Listen, Send.                                                           *)

Subscribe(l) ==
  /\ op[l] = "got"
  /\ Sub
  /\ At(l, "subscribed")
  /\ UNCHANGED <<provider, reauth, link, report, authed, leak, drops, server, dispatch>>

AddUpdateListener(l) ==
  /\ op[l] = "subscribed"
  /\ listeners' = Append(listeners, l)
  /\ At(l, "done")
  /\ UNCHANGED <<provider, reauth, network, server, update, received, cancelled, handed>>

\* what a Send writes comes back on the stream
Call(s) ==
  /\ op[s] = "got" /\ Answered
  /\ At(s, "done")
  /\ stream' = IF heard THEN Append(stream, Own) ELSE stream
  /\ UNCHANGED <<provider, reauth, network, written, resent, again, dispatch>>

CallFails(s) ==
  /\ op[s] = "got" /\ link # "up"
  /\ At(s, "failed")
  /\ UNCHANGED <<provider, reauth, network, server, dispatch>>

Cancel(l) ==
  /\ op[l] = "done" /\ l \notin cancelled
  /\ cancelled' = cancelled \cup {l}
  /\ UNCHANGED <<provider, calls, network, server, update, listeners, received, handed>>

-----------------------------------------------------------------------------
(* The server.                                                             *)

\* somebody writes; only a connection that hears is told
Write ==
  /\ written < MaxMessages
  /\ written' = written + 1
  /\ stream' = IF heard THEN Append(stream, written + 1) ELSE stream
  /\ UNCHANGED <<provider, calls, network, resent, again, dispatch>>

\* an edition or a reaction sends any older message once more
WriteAgain(message) ==
  /\ heard /\ resent < MaxResent
  /\ resent' = resent + 1
  /\ again' = again \cup {message}
  /\ stream' = Append(stream, message)
  /\ UNCHANGED <<provider, calls, network, written, dispatch>>

-----------------------------------------------------------------------------
(* CollectionUpdate, called on each listener in turn.                      *)

Dispatch ==
  /\ update.to = <<>> /\ stream # <<>>
  /\ update' = [message |-> Head(stream), to |-> listeners]
  /\ stream' = Tail(stream)
  /\ UNCHANGED <<provider, calls, network, written, resent, again, listeners, received, cancelled,
                 handed>>

Next1 == update' = [update EXCEPT !.to = Tail(@)]

\* faulty: only skips its own
SkippedOwn(l) == update.message = Own

\* its own, or one the listener has met
Skipped(l) == update.message = Own \/ update.message \in received[l]

Skip ==
  /\ update.to # <<>> /\ Skipped(Head(update.to))
  /\ Next1
  /\ UNCHANGED <<provider, calls, network, server, listeners, received, cancelled, handed>>

Meet(l) ==
  /\ update.to # <<>> /\ Head(update.to) = l /\ ~Skipped(l)
  /\ received' = [received EXCEPT ![l] = @ \cup {update.message}]

Hand(l) ==
  /\ Meet(l)
  /\ handed' = [handed EXCEPT ![l] = Append(@, update.message)]
  /\ Next1
  /\ UNCHANGED <<provider, calls, network, server, listeners, cancelled>>

\* faulty: waits for a reader that is gone
LetGoNever(l) == FALSE

\* its context ended
LetGo(l) ==
  /\ Meet(l) /\ l \in cancelled
  /\ Next1
  /\ UNCHANGED <<provider, calls, network, server, listeners, cancelled, handed>>

-----------------------------------------------------------------------------
GetClient(c) ==
  Enter(c) \/ Connect(c) \/ Watch(c) \/ Login(c) \/ Keep(c) \/ GiveUp(c)
Reauthenticate(r) ==
  ReauthTake(r) \/ ReauthLogin(r) \/ ReauthRefused(r) \/ ReauthStore(r)

Next ==
  \/ \E c \in Callers : GetClient(c)
  \/ \E l \in Listeners :
       Subscribe(l) \/ AddUpdateListener(l) \/ Cancel(l) \/ Hand(l) \/ LetGo(l)
  \/ \E s \in Senders : Call(s) \/ CallFails(s)
  \/ \E r \in Reauths : Reauthenticate(r)
  \/ Drop \/ Reconnect \/ Status \/ \E c \in Callers : LeakedStatus(c)
  \/ Write \/ (\E message \in 1..written : WriteAgain(message)) \/ Dispatch \/ Skip

(* A goroutine that can move moves; a lost connection comes back and a     *)
(* call it carries is answered; the application takes its messages until   *)
(* it ends the context.  Nobody has to connect, to cancel or to write.     *)
Progress(c) ==
  \/ Connect(c) \/ Watch(c) \/ Login(c) \/ Keep(c)
  \/ c \in Listeners /\ (Subscribe(c) \/ AddUpdateListener(c))
  \/ c \in Senders /\ Call(c)

Fairness ==
  /\ \A c \in Callers : WF_vars(Progress(c))
  /\ \A r \in Reauths : WF_vars(ReauthTake(r) \/ ReauthLogin(r) \/ ReauthStore(r))
  /\ WF_vars(Reconnect \/ Status)
  /\ WF_vars(Dispatch \/ Skip \/ \E l \in Listeners : LetGo(l) \/ (Hand(l) /\ l \notin cancelled))

Spec == Init /\ [][Next]_vars /\ Fairness

-----------------------------------------------------------------------------
TypeOK ==
  /\ client \in {"none", "kept"} /\ mutex \in Callers \cup {"free"}
  /\ {needsLogin, listening, unusable, authed, heard} \subseteq BOOLEAN
  /\ op \in [Callers -> {"idle", "connecting", "watching", "login", "storing", "got",
                         "subscribed", "done", "failed"}]
  /\ reauth \in [Reauths -> {"none", "locking", "login", "storing"}]
  /\ {link, report} \subseteq {"none", "up", "down"} /\ drops \in 0..MaxDrops
  /\ leak \in [Callers -> {"none", "up", "down"}]
  /\ \A i \in DOMAIN stream : stream[i] \in 0..MaxMessages
  /\ written \in 0..MaxMessages /\ resent \in 0..MaxResent
  /\ again \subseteq 1..written
  /\ update.message \in 0..MaxMessages
  /\ \A l \in Listeners : received[l] \subseteq 1..MaxMessages
  /\ cancelled \subseteq Listeners

\* CollectionUpdate: whatever the server sends again, and however many
\* listeners there are, the application takes a message at most once from
\* each of its channels, and never one of its own, which it would answer
\* without end.  Messages come in the order they were written, but for those
\* the server sent again: each listener keeps its own receivedMessages, and
\* one that missed a message takes its edition for a new one.
HandedInOrder ==
  /\ TypeOK
  /\ \A l \in Listeners : \A i \in DOMAIN handed[l] :
       /\ handed[l][i] # Own
       /\ \A j \in 1..(i - 1) :
            /\ handed[l][j] # handed[l][i]
            /\ handed[l][j] < handed[l][i] \/ handed[l][i] \in again

\* needsLogin (the comment of reauthenticate): "the account looks connected
\* and receives nothing" is never the end of it.  When the client is up, its
\* listeners hear nothing, and nobody is at work on it, the provider knows
\* that a login is due.  One case is left out: the connection is logged in,
\* but the last login to be stored came without credentials, and nothing was
\* subscribed again (storeCredentials).  The status of a client that failed to
\* open may use up the flag, but then starts the login itself.
MuteIsKnown ==
  /\ client = "kept" /\ link = "up" /\ report = "none"
  /\ listeners # <<>>
  /\ \A r \in Reauths : reauth[r] = "none"
  /\ ~(authed /\ heard)
  => needsLogin \/ (authed /\ unusable)

\* Status, CollectionUpdate: no call stays without an answer, provided that
\* the application reads its channels or ends their contexts: neither the
\* status callback nor a listener nobody reads holds up the library for good.
CallsReturn ==
  \A c \in Callers :
    op[c] \in {"connecting", "watching", "login", "got", "subscribed"}
      ~> op[c] \in {"done", "failed"}
=============================================================================
