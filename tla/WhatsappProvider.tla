-------------------------- MODULE WhatsappProvider --------------------------
(***************************************************************************)
(* The WhatsApp provider (provider/whatsapp: provider.go and               *)
(* connection.go): a client made once, by the first call that needs it,    *)
(* the handlers of its events, and the disappearing-messages setting that  *)
(* replies mirror.                                                         *)
(*                                                                         *)
(* whatsmeow is external, modelled from how the code uses it: it calls the *)
(* handlers one after the other, in the order they were added, for one     *)
(* event at a time, so that a handler that blocks holds up every later     *)
(* event.  The model follows one chat: the settings are kept per chat.     *)
(***************************************************************************)
EXTENDS Integers, Sequences, FiniteSets

CONSTANTS
  Listeners,          \* the calls of Listen
  ReactionListeners,  \* the calls of ListenReactions
  Senders,            \* the calls of Send
  Watch,              \* the handler of watchConnection
  Timers,             \* the lifetimes a chat may be set to, 0 for none
  DisappearingTimer,  \* opts.DisappearingTimer
  MaxEvents           \* bound: the events of the client

TimersAreNumbers ==
  /\ 0 \in Timers /\ Timers \subseteq Nat
  /\ DisappearingTimer \in Nat /\ MaxEvents \in Nat

Handlers == Listeners \cup ReactionListeners
Callers == Handlers \cup Senders

CallsDiffer == Senders \cap Handlers = {}

\* "message" carries a context info, "wrapped" an EphemeralMessage without
\* one, "reaction" a ReactionMessage; "changed" and "lost" are about the
\* connection, the second for good
Events ==
  [kind : {"message"}, timer : Timers, own : BOOLEAN]
    \cup [kind : {"wrapped"}, timer : Timers \ {0}, own : {FALSE}]
    \cup [kind : {"reaction"}, timer : {0}, own : BOOLEAN]
    \cup [kind : {"changed", "lost"}, timer : {0}, own : {FALSE}]

Unknown == -1

VARIABLES
  init,        \* initOnce, client and initErr
  paired,      \* the device is linked to an account
  op,          \* [Callers -> where the call stands]
  handlers,    \* the event handlers of the client
  log,         \* the events of the client
  done,        \* how many of them every handler has seen
  to,          \* the handlers that have yet to see the next one
  remembered,  \* the handler at its head has called rememberExpiration
  expiration,  \* p.expirations of the chat
  ended,       \* the handlers whose context ended
  told,        \* history: the events the ConnectionHandler was told
  settled,     \* history: the last event with a setting of its own that went
               \* through a handler of Listen
  reply        \* [Senders -> what settled was, and the lifetime of the reply]

client == <<init, paired, op, handlers>>
events == <<log, done, to, remembered>>
vars == <<client, events, expiration, ended, told, settled, reply>>

Init ==
  /\ init = "none" /\ paired \in BOOLEAN
  /\ op = [c \in Callers |-> "idle"]
  /\ handlers = <<>>
  /\ log = <<>> /\ done = 0 /\ to = <<>> /\ remembered = FALSE
  /\ expiration = Unknown
  /\ ended = {} /\ told = {} /\ settled = 0
  /\ reply = [s \in Senders |-> [base |-> 0, lifetime |-> Unknown]]

-----------------------------------------------------------------------------
(* getClient.                                                              *)

Call(c) ==
  /\ op[c] = "idle"
  /\ op' = [op EXCEPT ![c] = "waiting"]
  /\ UNCHANGED <<init, paired, handlers, events, expiration, ended, told, settled, reply>>

\* faulty: watches the connection once it is made
ConnectFirst ==
  /\ \/ init = "none" /\ (\E c \in Callers : op[c] = "waiting")
        /\ init' \in {"connecting", "failed"} /\ UNCHANGED <<paired, handlers>>
     \/ /\ init = "connecting"
        /\ init' \in {"up", "failed"} /\ paired' \in {paired, TRUE}
        /\ handlers' = Append(handlers, Watch)
  /\ UNCHANGED <<op, events, expiration, ended, told, settled, reply>>

\* the first caller, the others waiting for it: the connection is watched
\* before it is made; an unlinked device shows its codes until it is linked
\* or they run out, and is kept either way.  The error of a failure is kept.
InitClient ==
  /\ \/ /\ init = "none" /\ \E c \in Callers : op[c] = "waiting"
        /\ handlers' = Append(handlers, Watch)
        /\ init' \in {"connecting", "failed"}
        /\ UNCHANGED paired
     \/ /\ init = "connecting"
        /\ init' \in {"up", "failed"} /\ paired' \in {paired, TRUE}
        /\ UNCHANGED handlers
  /\ UNCHANGED <<op, events, expiration, ended, told, settled, reply>>

Client(c) ==
  /\ op[c] = "waiting" /\ init \in {"up", "failed"}
  /\ op' = [op EXCEPT ![c] = IF init = "up" THEN "got" ELSE "failed"]
  /\ UNCHANGED <<init, paired, handlers, events, expiration, ended, told, settled, reply>>

\* Listen after SendPresence, ListenReactions; the handler is never removed
AddHandler(h) ==
  /\ op[h] = "got"
  /\ \/ /\ paired \/ h \in ReactionListeners
        /\ handlers' = Append(handlers, h)
        /\ op' = [op EXCEPT ![h] = "done"]
     \/ /\ h \in Listeners
        /\ op' = [op EXCEPT ![h] = "failed"]
        /\ UNCHANGED handlers
  /\ UNCHANGED <<init, paired, events, expiration, ended, told, settled, reply>>

Cancel(h) ==
  /\ op[h] = "done" /\ h \notin ended
  /\ ended' = ended \cup {h}
  /\ UNCHANGED <<client, events, expiration, told, settled, reply>>

-----------------------------------------------------------------------------
(* The events.                                                             *)

Event(e) ==
  /\ init \in {"connecting", "up"} /\ Len(log) < MaxEvents
  /\ paired \/ e.kind \in {"changed", "lost"}
  /\ \A i \in DOMAIN log : log[i].kind # "lost"
  /\ log' = Append(log, e)
  /\ UNCHANGED <<client, done, to, remembered, expiration, ended, told, settled, reply>>

Next1 == done + 1
Now == log[Next1]
Head1 == Head(to)

\* whatsmeow takes up the next event
Dispatch ==
  /\ to = <<>> /\ done < Len(log) /\ handlers # <<>>
  /\ to' = handlers
  /\ UNCHANGED <<client, log, done, remembered, expiration, ended, told, settled, reply>>

\* nobody handles it
Ignored ==
  /\ to = <<>> /\ done < Len(log) /\ handlers = <<>>
  /\ done' = Next1
  /\ UNCHANGED <<client, log, to, remembered, expiration, ended, told, settled, reply>>

\* the handler at the head returns
Return ==
  /\ to' = Tail(to) /\ remembered' = FALSE
  /\ done' = IF Len(to) = 1 THEN Next1 ELSE done
  /\ UNCHANGED log

\* connectionEventOf
Tell ==
  /\ to # <<>> /\ Head1 = Watch
  /\ told' = IF Now.kind \in {"changed", "lost"} THEN told \cup {Next1} ELSE told
  /\ Return
  /\ UNCHANGED <<client, expiration, ended, settled, reply>>

Settles(e) == e.kind \in {"message", "reaction"}

\* faulty: forgets what its own messages say
RememberOthers(l) ==
  /\ to # <<>> /\ Head1 = l /\ l \in Listeners /\ ~remembered
  /\ Settles(Now) \/ Now.kind = "wrapped"
  /\ remembered' = TRUE
  /\ expiration' = IF Settles(Now) /\ ~Now.own THEN Now.timer ELSE expiration
  /\ UNCHANGED <<client, log, done, to, ended, told, settled, reply>>

\* rememberExpiration, before anything else, and of its own messages as well;
\* an event with no context info is a chat without a timer
Remember(l) ==
  /\ to # <<>> /\ Head1 = l /\ l \in Listeners /\ ~remembered
  /\ Settles(Now) \/ Now.kind = "wrapped"
  /\ remembered' = TRUE
  /\ expiration' = IF Settles(Now) THEN Now.timer ELSE expiration
  /\ UNCHANGED <<client, log, done, to, ended, told, settled, reply>>

\* what a handler has nothing to forward of
Nothing(h) ==
  IF h \in Listeners
  THEN IF Now.kind \in {"changed", "lost"} THEN TRUE
       ELSE remembered /\ (Now.own \/ Now.kind = "reaction")
  ELSE h \in ReactionListeners /\ (Now.own \/ Now.kind # "reaction")

Forwards(h) ==
  IF h \in Listeners THEN remembered /\ Now.kind \in {"message", "wrapped"} /\ ~Now.own
  ELSE h \in ReactionListeners /\ Now.kind = "reaction" /\ ~Now.own

Settle(h) == settled' = IF h \in Listeners /\ Settles(Now) THEN Next1 ELSE settled

Pass(h) ==
  /\ to # <<>> /\ Head1 = h /\ Nothing(h)
  /\ Settle(h)
  /\ Return
  /\ UNCHANGED <<client, expiration, ended, told, reply>>

\* the application takes the message, or the reaction
Hand(h) ==
  /\ to # <<>> /\ Head1 = h /\ Forwards(h)
  /\ Settle(h)
  /\ Return
  /\ UNCHANGED <<client, expiration, ended, told, reply>>

\* faulty: waits for a reader that is gone
LetGoNever(h) == FALSE

LetGo(h) ==
  /\ to # <<>> /\ Head1 = h /\ Forwards(h) /\ h \in ended
  /\ Return
  /\ UNCHANGED <<client, expiration, ended, told, settled, reply>>

-----------------------------------------------------------------------------
(* Send.                                                                   *)

Begin(s) ==
  /\ op[s] = "got"
  /\ op' = [op EXCEPT ![s] = "sending"]
  /\ reply' = [reply EXCEPT ![s].base = settled]
  /\ UNCHANGED <<init, paired, handlers, events, expiration, ended, told, settled>>

\* applyExpiration
Apply(s) ==
  /\ op[s] = "sending"
  /\ reply' = [reply EXCEPT ![s].lifetime =
       IF expiration = Unknown THEN DisappearingTimer ELSE expiration]
  /\ op' = [op EXCEPT ![s] = "done"]
  /\ UNCHANGED <<init, paired, handlers, events, expiration, ended, told, settled>>

-----------------------------------------------------------------------------
Next ==
  \/ \E c \in Callers : Call(c) \/ Client(c)
  \/ InitClient \/ Dispatch \/ Ignored \/ Tell
  \/ \E e \in Events : Event(e)
  \/ \E h \in Handlers :
       AddHandler(h) \/ Cancel(h) \/ Remember(h) \/ Pass(h) \/ Hand(h) \/ LetGo(h)
  \/ \E s \in Senders : Begin(s) \/ Apply(s)

(* whatsmeow dispatches its events, handlers return, and the application   *)
(* takes what it is handed until it ends the context.                      *)
Fairness ==
  WF_vars(Dispatch \/ Ignored \/ Tell
            \/ \E h \in Handlers :
                 Remember(h) \/ Pass(h) \/ LetGo(h) \/ (Hand(h) /\ h \notin ended))

Spec == Init /\ [][Next]_vars /\ Fairness

-----------------------------------------------------------------------------
TypeOK ==
  /\ init \in {"none", "connecting", "up", "failed"}
  /\ {paired, remembered} \subseteq BOOLEAN
  /\ op \in [Callers -> {"idle", "waiting", "got", "sending", "done", "failed"}]
  /\ \A i \in DOMAIN log : log[i] \in Events
  /\ done \in 0..Len(log) /\ settled \in 0..Len(log) /\ told \subseteq DOMAIN log
  /\ expiration \in Timers \cup {Unknown} /\ ended \subseteq Handlers

\* applyExpiration: a reply has the lifetime carried by an event of the chat,
\* message or reaction, the account's own included, at least as recent as the
\* last one that went through Listen before the Send, and the option's only
\* while none has.
ReplyIsRecent ==
  /\ TypeOK
  /\ \A s \in Senders : op[s] = "done" =>
       \/ reply[s].base = 0 /\ reply[s].lifetime = DisappearingTimer
       \/ \E i \in DOMAIN log :
            i >= reply[s].base /\ Settles(log[i]) /\ log[i].timer = reply[s].lifetime

SaidBefore(s) == {i \in 1..reply[s].base : log[i].kind = "message"}

\* applyExpiration, "so that a reply disappears exactly like what it answers
\* - no more, no less": once Listen has seen a message of the chat, a reply has
\* the lifetime of a message at least as recent.  A reaction carries no
\* lifetime, whatever the chat is set to, and rememberExpiration takes it for
\* a message of a chat whose timer was turned off.
ReplyMirrors ==
  \A s \in Senders : op[s] = "done" /\ SaidBefore(s) # {} =>
    \E i \in DOMAIN log :
      /\ log[i].kind = "message" /\ log[i].timer = reply[s].lifetime
      /\ \A j \in SaidBefore(s) : i >= j

\* watchConnection, "a lost session is silent" without it: each event of the
\* connection reaches the ConnectionHandler, the first one included, and a
\* Listen nobody reads any more holds it up only until its context ends.
LossIsTold ==
  \A i \in 1..MaxEvents :
    (i \in DOMAIN log /\ log[i].kind \in {"changed", "lost"}) ~> i \in told
=============================================================================
