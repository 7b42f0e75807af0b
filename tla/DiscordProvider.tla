--------------------------- MODULE DiscordProvider ---------------------------
(***************************************************************************)
(* The sessions of the Discord provider (provider/discord: provider.go).   *)
(* Each Listen opens a session of its own and makes it the session of the  *)
(* provider, which Send, Self and Channel use; when its context ends, a    *)
(* goroutine closes the session the provider has by then, and releases     *)
(* what the provider buffered.  discordgo is external: it calls the        *)
(* message handler of a session in a goroutine of its own per message.     *)
(***************************************************************************)
EXTENDS Integers, FiniteSets

CONSTANTS
  Sessions,  \* 1..n: the calls of Listen, each with its session
  Messages,  \* the messages posted where the bot can see them
  Users      \* the calls of Send, Self and Channel

SessionsAreNumbers == Sessions \subseteq Nat \ {0}

VARIABLES
  session,     \* p.session; 0 for nil
  listen,      \* [Sessions -> where the call of Listen stands]
  watcher,     \* [Sessions -> the goroutine that waits for the context]
  cancelled,   \* the sessions whose context ended
  closed,      \* the sessions that were closed
  overlapped,  \* history: the sessions that ran while another was stored
  handler,     \* [Sessions -> [Messages -> where the handler stands]]
  buffered,    \* p.release: the messages with attachments to release
  taken,       \* history: [Sessions -> the messages the application took]
  use          \* [Users -> the session a call goes through, or how it ended]

sessions == <<session, listen, watcher, closed, overlapped>>
messages == <<handler, taken>>
vars == <<sessions, cancelled, messages, buffered, use>>

Init ==
  /\ session = 0
  /\ listen = [s \in Sessions |-> "idle"]
  /\ watcher = [s \in Sessions |-> "none"]
  /\ cancelled = {} /\ closed = {} /\ overlapped = {}
  /\ handler = [s \in Sessions |-> [m \in Messages |-> "none"]]
  /\ buffered = {} /\ taken = [s \in Sessions |-> {}]
  /\ use = [u \in Users |-> "none"]

-----------------------------------------------------------------------------
(* Listen.                                                                 *)

Open(s) ==
  /\ listen[s] = "idle"
  /\ listen' \in {[listen EXCEPT ![s] = "opened"], [listen EXCEPT ![s] = "failed"]}
  /\ UNCHANGED <<session, watcher, closed, overlapped, cancelled, messages, buffered, use>>

Waiting == {t \in Sessions : watcher[t] = "waiting"}

\* two sessions at once, until the goroutine of the older one has run
Overlap(s) == IF Waiting = {} THEN {} ELSE Waiting \cup {s}

\* faulty: starts the goroutine before the session is stored
StoreLate(s) ==
  /\ \/ /\ listen[s] = "opened" /\ watcher[s] = "none"
        /\ overlapped' = overlapped \cup Overlap(s)
        /\ watcher' = [watcher EXCEPT ![s] = "waiting"]
        /\ UNCHANGED <<session, listen>>
     \/ /\ listen[s] = "opened" /\ watcher[s] # "none"
        /\ session' = s
        /\ listen' = [listen EXCEPT ![s] = "listening"]
        /\ UNCHANGED <<watcher, overlapped>>
  /\ UNCHANGED <<closed, cancelled, messages, buffered, use>>

\* the session is stored under the mutex, the goroutine is started
Store(s) ==
  /\ listen[s] = "opened"
  /\ session' = s
  /\ overlapped' = overlapped \cup Overlap(s)
  /\ watcher' = [watcher EXCEPT ![s] = "waiting"]
  /\ listen' = [listen EXCEPT ![s] = "listening"]
  /\ UNCHANGED <<closed, cancelled, messages, buffered, use>>

Cancel(s) ==
  /\ listen[s] # "idle" /\ s \notin cancelled
  /\ cancelled' = cancelled \cup {s}
  /\ UNCHANGED <<sessions, messages, buffered, use>>

\* the goroutine closes the session of the provider, whichever that is
End(s) ==
  /\ watcher[s] = "waiting" /\ s \in cancelled
  /\ closed' = closed \cup ({session} \ {0})
  /\ session' = 0
  /\ buffered' = {}
  /\ watcher' = [watcher EXCEPT ![s] = "ended"]
  /\ UNCHANGED <<listen, overlapped, cancelled, messages, use>>

-----------------------------------------------------------------------------
(* createMessageHandler.                                                   *)

Dispatch(s, m) ==
  /\ listen[s] \in {"opened", "listening"} /\ s \notin closed
  /\ handler[s][m] = "none"
  /\ handler' = [handler EXCEPT ![s][m] = "converting"]
  /\ UNCHANGED <<sessions, cancelled, taken, buffered, use>>

\* its own messages and those with neither text nor file are skipped
Skip(s, m) ==
  /\ handler[s][m] = "converting"
  /\ handler' = [handler EXCEPT ![s][m] = "done"]
  /\ UNCHANGED <<sessions, cancelled, taken, buffered, use>>

\* toMessage; a handler that comes after releaseAll is not released
Convert(s, m) ==
  /\ handler[s][m] = "converting"
  /\ buffered' = buffered \cup {m}
  /\ handler' = [handler EXCEPT ![s][m] = "handing"]
  /\ UNCHANGED <<sessions, cancelled, taken, use>>

Hand(s, m) ==
  /\ handler[s][m] = "handing"
  /\ taken' = [taken EXCEPT ![s] = @ \cup {m}]
  /\ handler' = [handler EXCEPT ![s][m] = "done"]
  /\ UNCHANGED <<sessions, cancelled, buffered, use>>

LetGo(s, m) ==
  /\ handler[s][m] = "handing" /\ s \in cancelled
  /\ handler' = [handler EXCEPT ![s][m] = "done"]
  /\ UNCHANGED <<sessions, cancelled, taken, buffered, use>>

-----------------------------------------------------------------------------
(* getSession, for Send, Self and Channel.                                 *)

GetSession(u) ==
  /\ use[u] = "none"
  /\ use' = [use EXCEPT ![u] = IF session = 0 THEN "refused" ELSE "using"]
  /\ UNCHANGED <<sessions, cancelled, messages, buffered>>

Return(u) ==
  /\ use[u] = "using"
  /\ use' = [use EXCEPT ![u] = "done"]
  /\ UNCHANGED <<sessions, cancelled, messages, buffered>>

-----------------------------------------------------------------------------
Next ==
  \/ \E s \in Sessions : Open(s) \/ Store(s) \/ Cancel(s) \/ End(s)
  \/ \E s \in Sessions, m \in Messages :
       Dispatch(s, m) \/ Skip(s, m) \/ Convert(s, m) \/ Hand(s, m) \/ LetGo(s, m)
  \/ \E u \in Users : GetSession(u) \/ Return(u)

Spec == Init /\ [][Next]_vars

-----------------------------------------------------------------------------
TypeOK ==
  /\ session \in Sessions \cup {0}
  /\ listen \in [Sessions -> {"idle", "opened", "failed", "listening"}]
  /\ watcher \in [Sessions -> {"none", "waiting", "ended"}]
  /\ UNION {cancelled, closed, overlapped} \subseteq Sessions
  /\ handler \in [Sessions -> [Messages -> {"none", "converting", "handing", "done"}]]
  /\ buffered \subseteq Messages /\ taken \in [Sessions -> SUBSET Messages]
  /\ use \in [Users -> {"none", "refused", "using", "done"}]

\* Listen and its goroutine: one Listen after the other, a session is closed
\* by the end of its own context and never before, is closed once that
\* goroutine has run, and is the provider's, for Send to use, as long as it
\* is open.  The code only promises this of sessions that do not overlap:
\* the goroutine of an ended context closes the session of the next Listen
\* when it runs after that one was stored, and its own stays open.
OwnSession ==
  /\ TypeOK
  /\ \A s \in Sessions \ overlapped :
       /\ s \in closed => s \in cancelled
       /\ watcher[s] = "ended" => s \in closed
       /\ watcher[s] = "waiting" => session = s
=============================================================================
