----------------------------- MODULE CloudOutbox -----------------------------
(***************************************************************************)
(* What the WhatsApp Cloud provider does with the messages of one direct   *)
(* conversation when the customer service window may be closed             *)
(* (provider/whatsappcloud/provider.go and window.go).                     *)
(*                                                                         *)
(* Every message of Messages is sent by one call of Send, on a goroutine   *)
(* of its own; the goroutine of Listen handles the user's messages and     *)
(* WhatsApp's status notifications, one at a time.  Both hold messages     *)
(* back, with the same holdBack.                                           *)
(*                                                                         *)
(* Time is abstracted to what the code compares it with: the window is     *)
(* unknown, open or closed; the oldest "expired" messages of the outbox    *)
(* are past OutboxTTL; the identifiers of "stale" are past inflightTTL.    *)
(***************************************************************************)
EXTENDS Integers, Sequences, SequencesExt, FiniteSets

CONSTANTS
  Messages,      \* what the application sends, one Send each
  Listener,      \* the goroutine of Listen
  Nobody,        \* not a message
  OutboxSize,    \* Options.OutboxSize
  MaxAttempts    \* bound: the deliveries WhatsApp accepts anything of

ASSUME OutboxAssumption ==
  /\ OutboxSize \in Nat \ {0}
  /\ MaxAttempts \in Nat
  /\ Listener \notin Messages
  /\ Nobody \notin Messages

VARIABLES
  pc,        \* [Actors -> where the Send of a message, or the listener, stands]
  window,    \* what LastInbound and ServiceWindow say: "unknown", "open", "closed"
  outbox,    \* outbox.pending of the recipient: [message, number], oldest first
  expired,   \* how many of its oldest entries are past OutboxTTL
  flushing,  \* the listener's: taken out of the outbox, not yet delivered
  refused,   \* the listener's: the message a status notification refused
  sent,      \* the deliveries WhatsApp accepted anything of, in order: the
             \* index is the identifier of the first post, which stands for all
  verdict,   \* what became of each; "part": the later posts were refused
  inflight,  \* the identifiers of p.inflight
  stale,     \* those older than inflightTTL
  identifier,\* [Messages -> what deliver returned to Send, 0 before]
  pushes,    \* history: how many times a message was held back
  mark,      \* history: pushes when the user's last message was handled
  inviting,  \* history: who is sending a template for what is held back now
  invited,   \* history: how many templates WhatsApp accepted for it
  gone       \* history: how a message left the provider undelivered

provider == <<pc, window, flushing, refused, inflight, stale, identifier>>
held == <<outbox, expired, pushes, inviting, invited>>
whatsapp == <<sent, verdict>>
vars == <<provider, held, whatsapp, mark, gone>>

Actors == Messages \union {Listener}
Identifiers == 1..Len(sent)

Init ==
  /\ pc = [a \in Actors |-> IF a = Listener THEN "idle" ELSE "new"]
  /\ window \in {"unknown", "open", "closed"}
  /\ outbox = <<>> /\ expired = 0 /\ flushing = <<>> /\ refused = Nobody
  /\ sent = <<>> /\ verdict = <<>>
  /\ inflight = {} /\ stale = {}
  /\ identifier = [m \in Messages |-> 0]
  /\ pushes = 0 /\ mark = 0 /\ inviting = {} /\ invited = 0
  /\ gone = [m \in Messages |-> "no"]

Goto(a, place) == pc' = [pc EXCEPT ![a] = place]
Lose(lost, how) == gone' = [m \in Messages |-> IF m \in lost THEN how ELSE gone[m]]
MessagesOf(queue) == {queue[i].message : i \in DOMAIN queue}

-----------------------------------------------------------------------------
(* The outbox: push, take and fresh of window.go, each under its mutex.    *)

Fresh == SubSeq(outbox, expired + 1, Len(outbox))
Outdated == MessagesOf(SubSeq(outbox, 1, expired))

\* faulty: as if a template preceded every message held back
FirstAlways == TRUE
\* faulty: what expired still counts as announced
FirstCountsExpired == outbox = <<>>

First == Fresh = <<>>

\* faulty: the message that does not fit is kept
KeepOneMore(queue) == SubSeq(queue, 1 + (IF Len(queue) > OutboxSize + 1 THEN 1 ELSE 0), Len(queue))

Keep(queue) == SubSeq(queue, 1 + (IF Len(queue) > OutboxSize THEN Len(queue) - OutboxSize ELSE 0), Len(queue))

\* push: what expired, and the oldest of what does not fit, are dropped
PushOutbox(a, m) ==
  LET queue == Append(Fresh, [message |-> m, number |-> pushes + 1])
      out == IF Len(queue) > OutboxSize THEN {queue[1].message} ELSE {}
  IN /\ outbox' = Keep(queue)
     /\ expired' = 0
     /\ pushes' = pushes + 1
     /\ inviting' = (IF Fresh = <<>> THEN {} ELSE inviting) \union (IF First THEN {a} ELSE {})
     /\ invited' = IF Fresh = <<>> THEN 0 ELSE invited
     /\ gone' = [x \in Messages |-> IF x \in out THEN "size" ELSE
                                    IF x \in Outdated THEN "age" ELSE gone[x]]

\* take: the outbox is emptied, what expired is dropped
TakeOutbox ==
  /\ outbox' = <<>> /\ expired' = 0
  /\ inviting' = {} /\ invited' = 0
  /\ UNCHANGED pushes

\* faulty: newest first
TakenReversed == Reverse(Fresh)
\* faulty: what is held back is lost by the take that should return it
TakenNothing == <<>>

Taken == Fresh

-----------------------------------------------------------------------------
(* deliver, sendTemplate and trackInflight.                                *)

\* WhatsApp accepts the posts of m, and settles them as v
Accept(m, v) ==
  /\ Len(sent) < MaxAttempts
  /\ sent' = Append(sent, m)
  /\ verdict' = Append(verdict, v)

\* WhatsApp refuses a post of m: the first one, or one that follows posts it
\* accepted, whose identifier the error path tracks nowhere
Refuse(m) == UNCHANGED whatsapp \/ Accept(m, "part")

\* trackInflight, with its pruning
TrackInflight(id) ==
  /\ inflight' = (inflight \ stale) \union {id}
  /\ stale' = {}

-----------------------------------------------------------------------------
(* Send.                                                                   *)

\* the window is read, and acted upon later (the store is MemoryWindowStore,
\* which never fails)
ReadWindow(m) ==
  /\ pc[m] = "new"
  /\ Goto(m, IF window = "closed" THEN "hold" ELSE "deliver")
  /\ UNCHANGED <<window, flushing, refused, inflight, stale, identifier, held, whatsapp, mark, gone>>

DeliverAccepted(m) ==
  /\ pc[m] = "deliver"
  /\ Accept(m, "none")
  /\ identifier' = [identifier EXCEPT ![m] = Len(sent) + 1]
  /\ Goto(m, "track")
  /\ UNCHANGED <<window, flushing, refused, inflight, stale, held, mark, gone>>

\* WhatsApp answers with the re-engagement code, or with any other error
DeliverRefused(m) ==
  /\ pc[m] = "deliver"
  /\ Refuse(m)
  /\ \E place \in {"hold", "error"} : Goto(m, place)
  /\ UNCHANGED <<window, flushing, refused, inflight, stale, identifier, held, mark, gone>>

Track(m) ==
  /\ pc[m] = "track"
  /\ TrackInflight(identifier[m])
  /\ Goto(m, "ok")
  /\ UNCHANGED <<window, flushing, refused, identifier, held, whatsapp, mark, gone>>

-----------------------------------------------------------------------------
(* holdBack, of a Send or of the listener.                                 *)

Subject(a) == IF a = Listener THEN refused ELSE a

\* the end of holdBack: Send returns, the listener takes its next event
HeldBack(a) == Goto(a, IF a = Listener THEN "idle" ELSE "ok")
NotHeldBack(a) == Goto(a, IF a = Listener THEN "idle" ELSE "error")
Forget(a) == refused' = IF a = Listener THEN Nobody ELSE refused

\* Reengage is nil, gives no template, or the message cannot be read
Declined(a) ==
  /\ pc[a] = "hold"
  /\ NotHeldBack(a)
  /\ Forget(a)
  /\ Lose({Subject(a)}, "reported")
  /\ UNCHANGED <<window, flushing, inflight, stale, identifier, held, whatsapp, mark>>

Push(a) ==
  /\ pc[a] = "hold"
  /\ PushOutbox(a, Subject(a))
  /\ IF First THEN Goto(a, "template") /\ UNCHANGED refused
              ELSE HeldBack(a) /\ Forget(a)
  /\ UNCHANGED <<window, flushing, inflight, stale, identifier, whatsapp, mark>>

TemplateAccepted(a) ==
  /\ pc[a] = "template"
  /\ HeldBack(a)
  /\ Forget(a)
  /\ inviting' = inviting \ {a}
  /\ invited' = IF a \in inviting THEN invited + 1 ELSE invited
  /\ UNCHANGED <<window, flushing, inflight, stale, identifier, outbox, expired, pushes,
                 whatsapp, mark, gone>>

\* everything held back is discarded, whoever held it back
TemplateRefused(a) ==
  /\ pc[a] = "template"
  /\ NotHeldBack(a)
  /\ Forget(a)
  /\ TakeOutbox
  /\ gone' = [m \in Messages |->
                IF m = Subject(a) THEN "reported" ELSE
                IF m \in Outdated THEN "age" ELSE
                IF m \in MessagesOf(outbox) THEN "discarded" ELSE gone[m]]
  /\ UNCHANGED <<window, flushing, inflight, stale, identifier, whatsapp, mark>>

-----------------------------------------------------------------------------
(* The listener: handleMessage with flush, handleStatus.                   *)

\* RecordInbound keeps the later of the two times: a message that took longer
\* than ServiceWindow to arrive opens nothing
RecordInbound(late) ==
  window' = IF ~late THEN "open" ELSE IF window = "unknown" THEN "closed" ELSE window

Inbound ==
  /\ pc[Listener] = "idle"
  /\ \E late \in BOOLEAN : RecordInbound(late)
  /\ mark' = pushes
  /\ Goto(Listener, "flush")
  /\ UNCHANGED <<flushing, refused, inflight, stale, identifier, held, whatsapp, gone>>

\* faulty: an outbox with a template still on its way is left for later
FlushUnlessInviting ==
  /\ pc[Listener] = "flush"
  /\ IF inviting # {} THEN UNCHANGED <<held, flushing, gone>>
     ELSE TakeOutbox /\ flushing' = Taken /\ Lose(Outdated, "age")
  /\ Goto(Listener, "flushing")
  /\ UNCHANGED <<window, refused, inflight, stale, identifier, whatsapp, mark>>

Flush ==
  /\ pc[Listener] = "flush"
  /\ TakeOutbox
  /\ flushing' = Taken
  /\ Lose(Outdated, "age")
  /\ Goto(Listener, "flushing")
  /\ UNCHANGED <<window, refused, inflight, stale, identifier, whatsapp, mark>>

\* deliver and trackInflight: no status is handled in between
FlushDelivers ==
  /\ pc[Listener] = "flushing" /\ flushing # <<>>
  /\ Accept(Head(flushing).message, "none")
  /\ TrackInflight(Len(sent) + 1)
  /\ flushing' = Tail(flushing)
  /\ UNCHANGED <<pc, window, refused, identifier, held, mark, gone>>

FlushRefused ==
  /\ pc[Listener] = "flushing" /\ flushing # <<>>
  /\ Refuse(Head(flushing).message)
  /\ flushing' = Tail(flushing)
  /\ Lose({Head(flushing).message}, "reported")
  /\ UNCHANGED <<pc, window, refused, inflight, stale, identifier, held, mark>>

\* flush returned, the message is offered to the application
Offer ==
  /\ pc[Listener] = "flushing" /\ flushing = <<>>
  /\ Goto(Listener, "handover")
  /\ UNCHANGED <<window, flushing, refused, inflight, stale, identifier, held, whatsapp, mark, gone>>

Handover ==
  /\ pc[Listener] = "handover"
  /\ Goto(Listener, "idle")
  /\ UNCHANGED <<window, flushing, refused, inflight, stale, identifier, held, whatsapp, mark, gone>>

StatusDelivered(id) ==
  /\ pc[Listener] = "idle" /\ verdict[id] = "delivered"
  /\ inflight' = inflight \ {id} /\ stale' = stale \ {id}
  /\ UNCHANGED <<pc, window, flushing, refused, identifier, held, whatsapp, mark, gone>>

\* faulty: the identifier stays tracked, a second notification finds it again
StatusFailedKeepsTrack(id) ==
  /\ pc[Listener] = "idle" /\ verdict[id] \in {"failed", "told"}
  /\ UNCHANGED <<inflight, stale>>
  /\ verdict' = [verdict EXCEPT ![id] = "told"]
  /\ IF id \in inflight
     THEN refused' = sent[id] /\ Goto(Listener, "hold") /\ UNCHANGED gone
     ELSE /\ IF verdict[id] = "failed" THEN Lose({sent[id]}, "reported") ELSE UNCHANGED gone
          /\ UNCHANGED <<refused, pc>>
  /\ UNCHANGED <<window, flushing, identifier, held, sent, mark>>

\* the status says the window was closed; WhatsApp may notify it again
StatusFailed(id) ==
  /\ pc[Listener] = "idle" /\ verdict[id] \in {"failed", "told"}
  /\ inflight' = inflight \ {id} /\ stale' = stale \ {id}
  /\ verdict' = [verdict EXCEPT ![id] = "told"]
  /\ IF id \in inflight
     THEN refused' = sent[id] /\ Goto(Listener, "hold") /\ UNCHANGED gone
     ELSE /\ IF verdict[id] = "failed" THEN Lose({sent[id]}, "reported") ELSE UNCHANGED gone
          /\ UNCHANGED <<refused, pc>>
  /\ UNCHANGED <<window, flushing, identifier, held, sent, mark>>

-----------------------------------------------------------------------------
(* WhatsApp's final word on a message, and time passing.                   *)

Settle(id) ==
  /\ verdict[id] = "none"
  /\ \E v \in {"delivered", "failed"} : verdict' = [verdict EXCEPT ![id] = v]
  /\ UNCHANGED <<provider, held, sent, mark, gone>>

WindowCloses ==
  /\ window = "open" /\ window' = "closed"
  /\ UNCHANGED <<pc, flushing, refused, inflight, stale, identifier, held, whatsapp, mark, gone>>

OldestExpires ==
  /\ expired < Len(outbox) /\ expired' = expired + 1
  /\ UNCHANGED <<provider, outbox, pushes, inviting, invited, whatsapp, mark, gone>>

InflightAges ==
  /\ stale # inflight /\ stale' = inflight
  /\ UNCHANGED <<pc, window, flushing, refused, inflight, identifier, held, whatsapp, mark, gone>>

-----------------------------------------------------------------------------
Sending ==
  \E m \in Messages : ReadWindow(m) \/ DeliverAccepted(m) \/ DeliverRefused(m) \/ Track(m)

HoldBack ==
  \E a \in Actors : Declined(a) \/ Push(a) \/ TemplateAccepted(a) \/ TemplateRefused(a)

Listening ==
  \/ Inbound \/ Flush \/ FlushDelivers \/ FlushRefused \/ Offer \/ Handover
  \/ \E id \in Identifiers : StatusDelivered(id) \/ StatusFailed(id)

Environment ==
  \/ WindowCloses \/ OldestExpires \/ InflightAges
  \/ \E id \in Identifiers : Settle(id)

Next == Sending \/ HoldBack \/ Listening \/ Environment

Spec == Init /\ [][Next]_vars

-----------------------------------------------------------------------------
(* Properties.                                                             *)

Entries == [message : Messages, number : 1..pushes]

(* The variables have their types, and the outbox never holds more than    *)
(* OutboxSize messages (window.go:100-103).                                *)
TypeOK ==
  /\ pc \in [Actors -> {"new", "deliver", "track", "hold", "template", "ok", "error",
                        "idle", "flush", "flushing", "handover"}]
  /\ window \in {"unknown", "open", "closed"}
  /\ pushes \in Nat /\ mark \in 0..pushes /\ invited \in Nat /\ inviting \subseteq Actors
  /\ outbox \in Seq(Entries) /\ Len(outbox) <= OutboxSize /\ expired \in 0..Len(outbox)
  /\ flushing \in Seq(Entries) /\ refused \in Messages \union {Nobody}
  /\ sent \in Seq(Messages) /\ Len(sent) <= MaxAttempts
  /\ verdict \in [Identifiers -> {"none", "delivered", "failed", "told", "part"}]
  /\ inflight \subseteq Identifiers /\ stale \subseteq inflight
  /\ identifier \in [Messages -> 0..Len(sent)]
  /\ gone \in [Messages -> {"no", "size", "age", "reported", "discarded"}]

(* As long as anything is held back, exactly one template invites the user *)
(* to write: one WhatsApp accepted, or one still being sent by whoever     *)
(* held the first message back.  A message held back without a template    *)
(* would wait for a user who knows nothing of it; a second template is     *)
(* billed for nothing (window.go:26-30).                                   *)
ExactlyOneInvitation == outbox # <<>> => Cardinality(inviting) + invited = 1

Copies(m) ==
  Cardinality({i \in DOMAIN outbox : outbox[i].message = m})
  + Cardinality({i \in DOMAIN flushing : flushing[i].message = m})
  + Cardinality({id \in Identifiers : sent[id] = m /\ verdict[id] \in {"none", "delivered"}})
  + (IF refused = m /\ pc[Listener] = "hold" THEN 1 ELSE 0)

(* No message is ever whole in two of the hands that would bring it to the *)
(* user: held back, being flushed, about to be held back, or accepted whole*)
(* by WhatsApp and not refused since.  The user never gets two whole       *)
(* copies, although status notifications are delivered again and two       *)
(* goroutines move messages around (provider.go:286-300, 360-447).  Posts  *)
(* accepted before a later one was refused ("part"), or beside a first one *)
(* refused by a notification, do come again with the copy that follows.    *)
DeliveredOnce == \A m \in Messages : Copies(m) <= 1

(* A message whose Send returned no error is with WhatsApp, held back, or  *)
(* refused by a notification still to come or being handled; if not, the   *)
(* provider dropped it knowingly: too many, too old, refused again with a  *)
(* warning, or discarded with a template that failed.                      *)
Accounted ==
  \A m \in Messages : pc[m] = "ok" =>
    \/ Copies(m) = 1
    \/ \E id \in Identifiers : sent[id] = m /\ verdict[id] = "failed"
    \/ gone[m] # "no"

(* What was held back first is delivered first: the messages being flushed *)
(* precede those held back since, each list oldest first, and the outbox   *)
(* holds at most OutboxSize (TypeOK).                                      *)
HeldInOrder ==
  LET queue == flushing \o outbox
  IN TypeOK /\ \A i, j \in DOMAIN queue : i < j => queue[i].number < queue[j].number

(* When the application gets the user's message, all that was held back    *)
(* when its handling began has left the outbox: "deliver what was held     *)
(* back before the application answers this message" (provider.go:246-248).*)
FlushedBeforeHandover ==
  pc[Listener] = "handover" => \A i \in DOMAIN outbox : outbox[i].number > mark
=============================================================================
