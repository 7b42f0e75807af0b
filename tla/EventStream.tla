---------------------------- MODULE EventStream ----------------------------
(***************************************************************************)
(* What the event endpoint of the REST provider promises to a client that  *)
(* follows one channel and reconnects with the last identifier it saw:     *)
(* the messages of the channel in order, none twice, and none left out     *)
(* unless the client had nothing to resume from or fell more than          *)
(* HistorySize messages behind.                                            *)
(***************************************************************************)
EXTENDS Integers, Sequences

CONSTANTS Clients, HistorySize

VARIABLES
  published,  \* number of messages sent to the channel; n is the n-th of them
  seen        \* what each client received over all its connections

stream == <<published, seen>>

Fresh(c) == seen[c] = <<>>
LastSeen(c) == IF Fresh(c) THEN 0 ELSE seen[c][Len(seen[c])]

(* What follows the last message the client saw is no longer kept.         *)
FellBehind(c) == LastSeen(c) <= published - HistorySize

(* The messages the client may be given next.                              *)
Due(c) ==
  {n \in 1 .. published :
     Fresh(c) \/ n = LastSeen(c) + 1 \/ (FellBehind(c) /\ n > LastSeen(c))}

Init ==
  /\ published = 0
  /\ seen = [c \in Clients |-> <<>>]

Publish ==
  /\ published' = published + 1
  /\ UNCHANGED seen

Receive(c) ==
  /\ \E n \in Due(c) : seen' = [seen EXCEPT ![c] = Append(@, n)]
  /\ UNCHANGED published

Next == Publish \/ \E c \in Clients : Receive(c)

Spec == Init /\ [][Next]_stream
=============================================================================
