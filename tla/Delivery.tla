------------------------------ MODULE Delivery ------------------------------
(***************************************************************************)
(* What Send promises (provider.go: the Provider interface): the content   *)
(* of one message shows up in its conversation, whole and in order, over   *)
(* one or several posts, and Send returns the identifier of the first of   *)
(* them, "what later ties a reaction, a receipt or a reply back to what    *)
(* was sent", or the message's own.  A Send that fails may have shown the  *)
(* beginning of the content, and nothing else.                             *)
(***************************************************************************)
EXTENDS Integers, Sequences

CONSTANTS Pieces, Conversations

VARIABLES
  wanted,        \* the content of the message, piece by piece
  conversation,  \* where it goes
  reply,         \* it replies to another message
  posts,         \* the posts the conversation shows
  shown,         \* how many pieces of the content they carry
  status,        \* "sending", "sent", "failed", or "nothing" to send
  id             \* what Send returned: the number of a post, or one of these

None == 0
Own == -1

vars == <<wanted, conversation, reply, posts, shown, status, id>>
message == <<wanted, conversation, reply>>

Init ==
  /\ wanted \in Seq(Pieces)
  /\ conversation \in Conversations
  /\ reply \in BOOLEAN
  /\ posts = <<>> /\ shown = 0
  /\ status \in {"sending"} \cup (IF wanted = <<>> THEN {"nothing"} ELSE {})
  /\ id = None

\* the next pieces, in order; an empty message may be shown as such
Show(n) ==
  /\ shown + n <= Len(wanted) /\ (n = 0 => wanted = <<>> /\ posts = <<>>)
  /\ shown' = shown + n
  /\ \E quotes \in BOOLEAN :
       /\ quotes => reply /\ posts = <<>>
       /\ posts' = Append(posts, [pieces |-> SubSeq(wanted, shown + 1, shown + n),
                                  to |-> conversation, quotes |-> quotes])

Post ==
  /\ status = "sending"
  /\ \E n \in 0..Len(wanted) : Show(n)
  /\ UNCHANGED <<message, status, id>>

Return ==
  /\ status = "sending" /\ posts # <<>> /\ shown = Len(wanted)
  /\ status' = "sent" /\ id' \in {1, Own}
  /\ UNCHANGED <<message, posts, shown>>

\* the last post may have been accepted although Send saw it fail
Fail ==
  /\ status = "sending" /\ status' = "failed"
  /\ id' \in {None} \cup (IF posts = <<>> THEN {} ELSE {1})
  /\ \/ UNCHANGED <<posts, shown>>
     \/ \E n \in 0..Len(wanted) : Show(n)
  /\ UNCHANGED message

Next == Post \/ Return \/ Fail

Spec == Init /\ [][Next]_vars
=============================================================================
