--------------------------- MODULE RestHubProofs ---------------------------
(* The event stream of the REST hub, for every number of clients and       *)
(* handlers, every size of the history and of the queues.                  *)
EXTENDS RestHub, TLAPS, SequenceTheorems

USE HistoryAssumption, BufferAssumption, NoSubAssumption

(* What a run loses at its head, it begins after.                          *)
LEMMA TailOfRun ==
  ASSUME NEW s \in Seq(Nat), s # <<>>, NEW n \in Nat, RunFrom(s, n)
  PROVE  /\ Head(s) = n /\ s[1] = n
         /\ Tail(s) \in Seq(Nat) /\ Len(Tail(s)) = Len(s) - 1
         /\ RunFrom(Tail(s), n + 1)
         /\ Tail(s) # <<>> => Tail(s)[1] = n + 1
<1>1. Len(s) \in Nat \ {0} /\ s[1] = n
  BY EmptySeq DEF RunFrom
<1>2. Tail(s) \in Seq(Nat) /\ Len(Tail(s)) = Len(s) - 1
      /\ \A i \in 1 .. Len(Tail(s)) : Tail(s)[i] = s[i + 1]
  BY HeadTailProperties
<1>3. RunFrom(Tail(s), n + 1)
  BY <1>1, <1>2 DEF RunFrom
<1>4. Tail(s) # <<>> => Len(Tail(s)) \in Nat \ {0}
  BY <1>2, EmptySeq
<1>5. Head(s) = s[1]
  BY <1>1
<1>6. QED
  BY <1>1, <1>2, <1>3, <1>4, <1>5 DEF RunFrom

(* A run that is given the message that follows it is a run.               *)
LEMMA AppendToRun ==
  ASSUME NEW s \in Seq(Nat), NEW n \in Nat, RunFrom(s, n), NEW e, e = n + Len(s)
  PROVE  RunFrom(Append(s, e), n) /\ Append(s, e)[1] = n
<1>1. Len(s) \in Nat /\ e \in Nat
  BY LenProperties
<1>2. /\ Len(Append(s, e)) = Len(s) + 1
      /\ \A i \in 1 .. Len(s) : Append(s, e)[i] = s[i]
      /\ Append(s, e)[Len(s) + 1] = e
  BY <1>1, AppendProperties
<1>3. RunFrom(Append(s, e), n)
  BY <1>1, <1>2 DEF RunFrom
<1>4. QED
  BY <1>1, <1>2, <1>3 DEF RunFrom

(* A sequence without its first element.                                   *)
LEMMA LastOnes ==
  ASSUME NEW s \in Seq(Nat), NEW h \in Nat, Len(s) = h + 1
  PROVE  /\ SubSeq(s, 2, h + 1) \in Seq(Nat)
         /\ Len(SubSeq(s, 2, h + 1)) = h
         /\ \A i \in 1 .. h : SubSeq(s, 2, h + 1)[i] = s[i + 1]
<1>1. s # <<>>
  BY EmptySeq
<1>2. Tail(s) = SubSeq(s, 2, h + 1)
  BY <1>1, TailIsSubSeq
<1>3. QED
  BY <1>1, <1>2, HeadTailProperties

(* The identifier a client resumes from is that of what it saw last.       *)
LEMMA ResumesFromLast == \A c \in Clients : LastEventID(c) = Stream!LastSeen(c)
  BY DEF LastEventID, LastOf, Stream!LastSeen, Stream!Fresh

(* The invariant holds before anybody connects.                            *)
LEMMA InitIInv == Init => IInv
<1>1. SUFFICES ASSUME Init PROVE IInv
  OBVIOUS
<1>2. <<>> \in Seq(Nat) /\ Len(<<>>) = 0
  BY EmptySeq
<1>3. TypeOK
  <2>1. /\ queue \in [Subs -> Seq(Nat)] /\ backlog \in [Subs -> Seq(Nat)]
        /\ seen \in [Clients -> Seq(Nat)]
        /\ chan \in [Subs -> {"open", "closed"}]
        /\ handler \in [Subs -> {"none", "backlog", "live"}]
        /\ conn \in [Clients -> Subs \cup {NoSub}]
    BY <1>1, <1>2, Zenon DEF Init
  <2>2. \A k \in Subs : Len(queue[k]) <= BufferSize
    BY <1>1, <1>2 DEF Init
  <2>3. /\ published \in Nat /\ drops \in Nat /\ closed \in BOOLEAN
        /\ subscribers \subseteq Subs /\ dropped \subseteq Subs /\ stalled \subseteq Clients
    BY <1>1 DEF Init
  <2>4. history \in Seq(Nat) /\ Len(history) <= HistorySize
    BY <1>1, <1>2 DEF Init
  <2>5. QED
    BY <2>1, <2>2, <2>3, <2>4, Zenon DEF TypeOK
<1>4. RegisteredIffOpen /\ PendingIsRun /\ LiveHasNoBacklog
  BY <1>1 DEF Init, RegisteredIffOpen, PendingIsRun, LiveHasNoBacklog
<1>5. OwnHandler /\ GoesOn /\ SeenWasPublished
  BY <1>1 DEF Init, OwnHandler, GoesOn, SeenWasPublished, LastEventID, Stream!Fresh
<1>6. HistoryIsRecent
  BY <1>1, <1>2 DEF Init, HistoryIsRecent, Kept
<1>7. QED
  BY <1>3, <1>4, <1>5, <1>6 DEF IInv

(* The history stays the last of what was published.                       *)
LEMMA RecordedIsRecent ==
  ASSUME IInv, Publish
  PROVE  /\ history' \in Seq(Nat) /\ Len(history') <= HistorySize
         /\ HistoryIsRecent'
<1>1. /\ published \in Nat /\ published' = published + 1
      /\ history' = Recorded(published + 1)
      /\ history \in Seq(Nat) /\ Len(history) = Kept
      /\ \A i \in 1 .. Kept : history[i] = published - Kept + i
  BY DEF IInv, TypeOK, HistoryIsRecent, Publish
<1>2. DEFINE longer == Append(history, published + 1)
<1>3. /\ longer \in Seq(Nat) /\ Len(longer) = Kept + 1
      /\ \A i \in 1 .. Kept + 1 : longer[i] = published - Kept + i
  <2>1. /\ longer \in Seq(Nat) /\ Len(longer) = Kept + 1
        /\ \A i \in 1 .. Kept : longer[i] = history[i]
        /\ longer[Kept + 1] = published + 1
    BY <1>1, AppendProperties
  <2>2. QED
    BY <1>1, <2>1 DEF Kept
<1>4. CASE HistorySize = 0
  BY <1>1, <1>4 DEF Recorded, HistoryIsRecent, Kept
<1>5. CASE HistorySize # 0 /\ published < HistorySize
  BY <1>1, <1>3, <1>5 DEF Recorded, HistoryIsRecent, Kept
<1>6. CASE HistorySize # 0 /\ published >= HistorySize
  <2>1. Kept = HistorySize /\ Kept' = HistorySize
    BY <1>1, <1>6 DEF Kept
  <2>2. /\ Len(history) + 2 - HistorySize = 2
        /\ Len(history) + 1 = HistorySize + 1
        /\ Len(longer) = HistorySize + 1
    BY <1>1, <1>3, <2>1
  <2>3. history' = SubSeq(longer, Len(history) + 2 - HistorySize, Len(history) + 1)
    <3>1. ~(Len(history) < HistorySize) /\ HistorySize # 0
      BY <1>1, <1>6, <2>1
    <3>2. QED
      BY <1>1, <3>1, Zenon DEF Recorded
  <2>4. /\ history' \in Seq(Nat) /\ Len(history') = HistorySize
        /\ \A i \in 1 .. HistorySize : history'[i] = longer[i + 1]
    <3>1. history' = SubSeq(longer, 2, HistorySize + 1)
      BY <2>2, <2>3
    <3>. HIDE DEF longer
    <3>2. QED
      BY <1>3, <1>6, <2>2, <3>1, LastOnes
  <2>5. \A i \in 1 .. HistorySize : history'[i] = (published + 1) - HistorySize + i
    <3>. HIDE DEF longer
    <3>1. SUFFICES ASSUME NEW i \in 1 .. HistorySize
                   PROVE  history'[i] = (published + 1) - HistorySize + i
      OBVIOUS
    <3>2. i + 1 \in 1 .. Kept + 1
      BY <2>1
    <3>3. history'[i] = longer[i + 1] /\ longer[i + 1] = published - Kept + (i + 1)
      BY <1>3, <2>4, <3>2
    <3>4. QED
      BY <1>1, <2>1, <3>3
  <2>6. QED
    BY <1>1, <2>1, <2>4, <2>5 DEF HistoryIsRecent
<1>7. QED
  BY <1>1, <1>4, <1>5, <1>6
-----------------------------------------------------------------------------
(* What the type invariant says of one handler.                            *)
LEMMA HandlerTypes ==
  ASSUME TypeOK, NEW k \in Subs
  PROVE  /\ backlog[k] \in Seq(Nat) /\ Len(backlog[k]) \in Nat
         /\ queue[k] \in Seq(Nat) /\ Len(queue[k]) \in Nat
         /\ backlog[k] = <<>> <=> Len(backlog[k]) = 0
         /\ queue[k] = <<>> <=> Len(queue[k]) = 0
         /\ published \in Nat
<1>1. backlog[k] \in Seq(Nat) /\ queue[k] \in Seq(Nat) /\ published \in Nat
  BY DEF TypeOK
<1>2. QED
  BY <1>1, EmptySeq, LenProperties

(* What a client has received is still in order, and due, when more is     *)
(* published.                                                              *)
LEMMA FitsForLonger ==
  ASSUME IInv, NEW c \in Clients, NEW n, FitsNext(c, n),
         published' = published + 1, UNCHANGED seen
  PROVE  FitsNext(c, n)'
<1>1. published \in Nat /\ LastEventID(c) \in Nat
  BY DEF IInv, TypeOK, SeenWasPublished
<1>2. LastEventID(c) = Stream!LastSeen(c)
  BY ResumesFromLast
<1>3. /\ LastEventID(c)' = LastEventID(c)
      /\ Stream!LastSeen(c)' = Stream!LastSeen(c)
      /\ Stream!Fresh(c)' = Stream!Fresh(c)
  BY DEF LastEventID, LastOf, Stream!LastSeen, Stream!Fresh
<1>4. Stream!FellBehind(c) => Stream!FellBehind(c)'
  BY <1>1, <1>2, <1>3 DEF Stream!FellBehind
<1>5. QED
  BY <1>3, <1>4 DEF FitsNext

(* A published message extends the run of a registered handler, and leaves *)
(* that of one that is cut off.                                            *)
LEMMA PublishQueues ==
  ASSUME IInv, Publish, NEW k \in Subs
  PROVE  /\ queue'[k] \in Seq(Nat) /\ Len(queue'[k]) <= BufferSize
         /\ handler[k] # "none" => RunPending(k)'
         /\ handler[k] # "none" /\ StillWrites(k)' =>
              StillWrites(k) /\ NextOf(k)' = NextOf(k)
<1>1. /\ published \in Nat /\ published' = published + 1
      /\ backlog'[k] = backlog[k]
      /\ Len(queue[k]) <= BufferSize
      /\ handler[k] # "none" => RunPending(k)
  BY DEF IInv, TypeOK, Publish, PendingIsRun
<1>2. /\ backlog[k] \in Seq(Nat) /\ Len(backlog[k]) \in Nat
      /\ queue[k] \in Seq(Nat) /\ Len(queue[k]) \in Nat
      /\ backlog[k] = <<>> <=> Len(backlog[k]) = 0
      /\ queue[k] = <<>> <=> Len(queue[k]) = 0
  BY HandlerTypes DEF IInv
<1>3. CASE k \in subscribers \ Full
  <2>1. /\ queue'[k] = Append(queue[k], published + 1)
        /\ k \in subscribers /\ k \in subscribers'
        /\ Len(queue[k]) < BufferSize
    BY <1>2, <1>3 DEF Publish, Full
  <2>2. queue'[k] \in Seq(Nat) /\ Len(queue'[k]) = Len(queue[k]) + 1 /\ queue'[k] # <<>>
    BY <1>1, <1>2, <2>1, AppendProperties
  <2>3. ASSUME handler[k] # "none"
        PROVE  RunPending(k)' /\ NextOf(k)' = NextOf(k)
    <3>1. /\ NextOf(k) \in Nat \ {0}
          /\ RunFrom(backlog[k], NextOf(k))
          /\ RunFrom(queue[k], NextOf(k) + Len(backlog[k]))
          /\ NextOf(k) + Len(backlog[k]) + Len(queue[k]) = published + 1
      BY <1>1, <2>1, <2>3 DEF RunPending
    <3>2. NextOf(k) + Len(backlog[k]) \in Nat
      BY <1>2, <3>1
    <3>3. published + 1 = (NextOf(k) + Len(backlog[k])) + Len(queue[k])
      BY <1>2, <3>1
    <3>4. /\ RunFrom(queue'[k], NextOf(k) + Len(backlog[k]))
          /\ queue'[k][1] = NextOf(k) + Len(backlog[k])
      <4>. DEFINE s == queue[k]
                  n == NextOf(k) + Len(backlog[k])
      <4>1. s \in Seq(Nat) /\ n \in Nat /\ RunFrom(s, n) /\ published + 1 = n + Len(s)
        BY <1>2, <3>1, <3>2, <3>3
      <4>. HIDE DEF s, n
      <4>2. RunFrom(Append(s, published + 1), n) /\ Append(s, published + 1)[1] = n
        BY <4>1, AppendToRun
      <4>3. QED
        BY <2>1, <4>2, Zenon DEF s, n
    <3>5. NextOf(k)' = NextOf(k)
      <4>1. CASE backlog[k] # <<>>
        BY <1>1, <4>1 DEF NextOf
      <4>2. CASE backlog[k] = <<>>
        <5>1. queue'[k][1] = NextOf(k)
          BY <1>2, <3>1, <3>4, <4>2
        <5>2. QED
          BY <1>1, <2>2, <4>2, <5>1 DEF NextOf
      <4>3. QED
        BY <4>1, <4>2
    <3>6. RunFrom(backlog[k], NextOf(k))' /\ RunFrom(queue[k], NextOf(k) + Len(backlog[k]))'
      BY <1>1, <3>1, <3>4, <3>5, Zenon DEF RunFrom
    <3>7. Len(queue'[k]) = Len(queue[k]) + 1 /\ backlog'[k] = backlog[k]
      BY <1>1, <2>2
    <3>8. NextOf(k)' + Len(backlog'[k]) + Len(queue'[k]) = published' + 1
      <4>. DEFINE n == NextOf(k)
                  m == Len(backlog[k])
                  l == Len(queue[k])
      <4>1. /\ n \in Nat /\ m \in Nat /\ l \in Nat /\ published \in Nat
            /\ n + m + l = published + 1 /\ published' = published + 1
        BY <1>1, <1>2, <3>1
      <4>2. NextOf(k)' = n /\ Len(backlog'[k]) = m /\ Len(queue'[k]) = l + 1
        BY <3>5, <3>7
      <4>. HIDE DEF n, m, l
      <4>3. n + m + (l + 1) = published' + 1
        BY <4>1
      <4>4. QED
        BY <4>2, <4>3, Zenon
    <3>9. QED
      BY <1>1, <3>1, <3>5, <3>6, <3>8 DEF RunPending
  <2>4. QED
    BY <1>2, <2>1, <2>2, <2>3 DEF StillWrites
<1>4. CASE k \notin subscribers \ Full
  <2>1. queue'[k] = queue[k] /\ k \notin subscribers'
    BY <1>4 DEF Publish
  <2>2. NextOf(k)' = IF backlog[k] = <<>> /\ queue[k] = <<>> THEN published + 2
                     ELSE NextOf(k)
    BY <1>1, <2>1 DEF NextOf
  <2>3. ASSUME handler[k] # "none"
        PROVE  RunPending(k)'
    <3>1. CASE backlog[k] = <<>> /\ queue[k] = <<>>
      BY <1>1, <1>2, <2>1, <2>2, <3>1 DEF RunPending, RunFrom
    <3>2. CASE ~(backlog[k] = <<>> /\ queue[k] = <<>>)
      BY <1>1, <1>2, <2>1, <2>2, <2>3, <3>2 DEF RunPending, RunFrom
    <3>3. QED
      BY <3>1, <3>2
  <2>4. QED
    BY <1>1, <1>2, <2>1, <2>2, <2>3 DEF StillWrites
<1>5. QED
  BY <1>3, <1>4

(* publish keeps the invariant.                                            *)
LEMMA PublishStep == IInv /\ Publish => IInv'
<1>1. SUFFICES ASSUME IInv, Publish PROVE IInv'
  OBVIOUS
<1>2. TypeOK'
  <2>1. queue' \in [Subs -> Seq(Nat)] /\ \A k \in Subs : Len(queue'[k]) <= BufferSize
    <3>1. \A k \in Subs : queue'[k] \in Seq(Nat) /\ Len(queue'[k]) <= BufferSize
      BY <1>1, PublishQueues
    <3>2. QED
      BY <1>1, <3>1, Zenon DEF Publish
  <2>2. history' \in Seq(Nat) /\ Len(history') <= HistorySize
    BY <1>1, RecordedIsRecent
  <2>3. chan' \in [Subs -> {"open", "closed"}] /\ Full \subseteq Subs
    BY <1>1 DEF Publish, IInv, TypeOK, Full
  <2>4. QED
    BY <1>1, <2>1, <2>2, <2>3 DEF Publish, IInv, TypeOK
<1>3. RegisteredIffOpen'
  BY <1>1 DEF Publish, IInv, TypeOK, RegisteredIffOpen, Full
<1>4. HistoryIsRecent'
  BY <1>1, RecordedIsRecent
<1>5. PendingIsRun'
  BY <1>1, PublishQueues DEF PendingIsRun, Publish
<1>6. LiveHasNoBacklog' /\ OwnHandler'
  BY <1>1 DEF Publish, IInv, LiveHasNoBacklog, OwnHandler
<1>7. SeenWasPublished'
  BY <1>1 DEF Publish, IInv, TypeOK, SeenWasPublished, LastEventID, LastOf, Stream!Fresh
<1>8. GoesOn'
  <2>1. SUFFICES ASSUME NEW c \in Clients, conn'[c] # NoSub, StillWrites(conn[c])'
                 PROVE  FitsNext(c, NextOf(conn[c]))'
    BY DEF GoesOn
  <2>2. conn' = conn /\ conn[c] \in Subs /\ handler[conn[c]] # "none"
        /\ published' = published + 1 /\ seen' = seen
    BY <1>1, <2>1 DEF Publish, IInv, TypeOK, OwnHandler
  <2>3. StillWrites(conn[c]) /\ NextOf(conn[c])' = NextOf(conn[c])
    BY <1>1, <2>1, <2>2, PublishQueues
  <2>4. FitsNext(c, NextOf(conn[c]))
    BY <1>1, <2>1, <2>2, <2>3 DEF IInv, GoesOn
  <2>5. QED
    BY <1>1, <2>2, <2>3, <2>4, FitsForLonger
<1>9. QED
  BY <1>2, <1>3, <1>4, <1>5, <1>6, <1>7, <1>8 DEF IInv
-----------------------------------------------------------------------------
(* A step that writes nothing leaves what is pending, and due, as it was.  *)
LEMMA SameRun ==
  ASSUME NEW k \in Subs, published' = published, backlog'[k] = backlog[k],
         queue'[k] = queue[k], k \in subscribers' => k \in subscribers
  PROVE  /\ NextOf(k)' = NextOf(k)
         /\ RunPending(k) => RunPending(k)'
         /\ StillWrites(k)' => StillWrites(k)
<1>1. NextOf(k)' = NextOf(k)
  BY DEF NextOf
<1>2. StillWrites(k)' => StillWrites(k)
  BY DEF StillWrites
<1>3. RunPending(k) => RunPending(k)'
  BY <1>1 DEF RunPending, RunFrom
<1>4. QED
  BY <1>1, <1>2, <1>3

(* What was due stays due while nothing is published or received.          *)
LEMMA SameFits ==
  ASSUME NEW c \in Clients, NEW n, published' = published, seen'[c] = seen[c],
         FitsNext(c, n)
  PROVE  FitsNext(c, n)'
BY DEF FitsNext, LastEventID, LastOf, Stream!Fresh, Stream!FellBehind, Stream!LastSeen

(* The end of a handler.                                                   *)
LEMMA LeaveStep ==
  ASSUME IInv, NEW k \in Subs, Leave(k)
  PROVE  IInv'
<1>1. /\ published' = published /\ queue' = queue /\ seen' = seen
      /\ handler' = [handler EXCEPT ![k] = "none"]
      /\ backlog' = [backlog EXCEPT ![k] = <<>>]
      /\ subscribers' = subscribers \ {k}
      /\ conn' = [c \in Clients |-> IF conn[c] = k THEN NoSub ELSE conn[c]]
  BY DEF Leave
<1>2. <<>> \in Seq(Nat)
  BY EmptySeq
<1>3. TypeOK'
  <2>1. backlog' \in [Subs -> Seq(Nat)]
    BY <1>1, <1>2 DEF IInv, TypeOK
  <2>2. chan' \in [Subs -> {"open", "closed"}] /\ handler' \in [Subs -> {"none", "backlog", "live"}]
    BY DEF Leave, IInv, TypeOK
  <2>3. conn' \in [Clients -> Subs \cup {NoSub}]
    BY <1>1 DEF IInv, TypeOK
  <2>4. QED
    BY <1>1, <2>1, <2>2, <2>3 DEF Leave, IInv, TypeOK
<1>4. RegisteredIffOpen'
  BY DEF Leave, IInv, TypeOK, RegisteredIffOpen
<1>5. HistoryIsRecent'
  BY DEF Leave, IInv, HistoryIsRecent, Kept
<1>6. \A j \in Subs : j # k =>
        /\ handler'[j] = handler[j]
        /\ NextOf(j)' = NextOf(j)
        /\ RunPending(j) => RunPending(j)'
        /\ StillWrites(j)' => StillWrites(j)
  <2>1. SUFFICES ASSUME NEW j \in Subs, j # k
                 PROVE  /\ handler'[j] = handler[j]
                        /\ NextOf(j)' = NextOf(j)
                        /\ RunPending(j) => RunPending(j)'
                        /\ StillWrites(j)' => StillWrites(j)
    OBVIOUS
  <2>2. /\ backlog'[j] = backlog[j] /\ queue'[j] = queue[j] /\ handler'[j] = handler[j]
        /\ j \in subscribers' => j \in subscribers
    BY <1>1, <2>1 DEF IInv, TypeOK
  <2>3. QED
    BY <1>1, <2>2, SameRun
<1>7. handler'[k] = "none"
  BY <1>1 DEF IInv, TypeOK
<1>8. PendingIsRun'
  BY <1>6, <1>7 DEF IInv, PendingIsRun
<1>9. LiveHasNoBacklog' /\ OwnHandler'
  BY <1>1 DEF IInv, TypeOK, LiveHasNoBacklog, OwnHandler
<1>10. SeenWasPublished'
  BY <1>1 DEF IInv, SeenWasPublished, LastEventID, LastOf, Stream!Fresh
<1>11. GoesOn'
  <2>1. SUFFICES ASSUME NEW c \in Clients, conn'[c] # NoSub, StillWrites(conn[c])'
                 PROVE  FitsNext(c, NextOf(conn[c]))'
    BY DEF GoesOn
  <2>2. conn'[c] = conn[c] /\ conn[c] \in Subs /\ conn[c] # k /\ conn[c] # NoSub
    BY <1>1, <2>1 DEF IInv, TypeOK
  <2>3. StillWrites(conn[c]) /\ NextOf(conn[c])' = NextOf(conn[c])
    BY <1>6, <2>1, <2>2
  <2>4. FitsNext(c, NextOf(conn[c]))
    BY <2>2, <2>3 DEF IInv, GoesOn
  <2>5. QED
    BY <1>1, <2>3, <2>4, SameFits
<1>12. QED
  BY <1>3, <1>4, <1>5, <1>8, <1>9, <1>10, <1>11 DEF IInv
-----------------------------------------------------------------------------
(* What the clients of a handler have after it wrote the message that was  *)
(* next: the message was due, and what is next now is due too.             *)
LEMMA Delivered ==
  ASSUME IInv, NEW k \in Subs, NEW n \in 1 .. published, n = NextOf(k),
         handler[k] # "none", StillWrites(k), Deliver(k, n),
         UNCHANGED <<published, conn>>,
         StillWrites(k)' => NextOf(k)' = n + 1,
         \A j \in Subs : j # k => /\ NextOf(j)' = NextOf(j)
                                  /\ StillWrites(j)' => StillWrites(j)
  PROVE  /\ seen' \in [Clients -> Seq(Nat)]
         /\ SeenWasPublished' /\ GoesOn'
         /\ \A c \in Clients : conn[c] = k => n \in Stream!Due(c)
<1>1. /\ seen' = [c \in Clients |-> IF conn[c] = k THEN Append(seen[c], n) ELSE seen[c]]
      /\ published \in Nat /\ published' = published /\ conn' = conn
      /\ seen \in [Clients -> Seq(Nat)] /\ conn \in [Clients -> Subs \cup {NoSub}]
      /\ n \in Nat
  BY DEF Deliver, IInv, TypeOK
<1>2. ASSUME NEW c \in Clients, conn[c] = k
      PROVE  /\ seen'[c] \in Seq(Nat) /\ LastEventID(c)' = n
             /\ n \in Stream!Due(c)
  <2>1. seen'[c] = Append(seen[c], n) /\ seen[c] \in Seq(Nat)
    BY <1>1, <1>2
  <2>2. /\ seen'[c] \in Seq(Nat) /\ seen'[c] # <<>>
        /\ Len(seen'[c]) = Len(seen[c]) + 1
        /\ seen'[c][Len(seen[c]) + 1] = n
    <3>. DEFINE s == seen[c]
    <3>1. s \in Seq(Nat) /\ n \in Nat
      BY <1>1, <2>1
    <3>. HIDE DEF s
    <3>2. /\ Append(s, n) \in Seq(Nat) /\ Append(s, n) # <<>>
          /\ Len(Append(s, n)) = Len(s) + 1 /\ Append(s, n)[Len(s) + 1] = n
      BY <3>1, AppendProperties
    <3>3. QED
      BY <2>1, <3>2, Zenon DEF s
  <2>3. LastEventID(c)' = n
    BY <2>2 DEF LastEventID, LastOf
  <2>4. FitsNext(c, n)
    BY <1>2 DEF IInv, GoesOn
  <2>5. n \in Stream!Due(c)
    BY <2>4, ResumesFromLast DEF FitsNext, Stream!Due
  <2>6. QED
    BY <2>2, <2>3, <2>5
<1>3. ASSUME NEW c \in Clients, conn[c] # k
      PROVE  /\ seen'[c] = seen[c] /\ LastEventID(c)' = LastEventID(c)
             /\ Stream!Fresh(c)' = Stream!Fresh(c)
  BY <1>1, <1>3 DEF LastEventID, LastOf, Stream!Fresh
<1>4. seen' \in [Clients -> Seq(Nat)]
  <2>1. \A c \in Clients : seen'[c] \in Seq(Nat)
    BY <1>1, <1>2, <1>3
  <2>2. QED
    BY <1>1, <2>1, Zenon
<1>5. SeenWasPublished'
  <2>1. SUFFICES ASSUME NEW c \in Clients
                 PROVE  /\ LastEventID(c)' \in 0 .. published
                        /\ LastEventID(c)' = 0 => Stream!Fresh(c)'
    BY <1>1 DEF SeenWasPublished
  <2>2. CASE conn[c] = k
    BY <1>1, <1>2, <2>2
  <2>3. CASE conn[c] # k
    BY <1>3, <2>3 DEF IInv, SeenWasPublished
  <2>4. QED
    BY <2>2, <2>3
<1>6. GoesOn'
  <2>1. SUFFICES ASSUME NEW c \in Clients, conn'[c] # NoSub, StillWrites(conn[c])'
                 PROVE  FitsNext(c, NextOf(conn[c]))'
    BY DEF GoesOn
  <2>2. conn'[c] = conn[c] /\ conn[c] \in Subs
    BY <1>1, <2>1
  <2>3. CASE conn[c] = k
    BY <1>1, <1>2, <2>1, <2>2, <2>3 DEF FitsNext
  <2>4. CASE conn[c] # k
    <3>1. StillWrites(conn[c]) /\ NextOf(conn[c])' = NextOf(conn[c])
      BY <2>1, <2>2, <2>4
    <3>2. FitsNext(c, NextOf(conn[c]))
      BY <2>1, <2>2, <3>1 DEF IInv, GoesOn
    <3>3. QED
      BY <1>1, <1>3, <2>4, <3>1, <3>2, SameFits
  <2>5. QED
    BY <2>3, <2>4
<1>7. QED
  BY <1>2, <1>4, <1>5, <1>6

(* What a handler writes is the head of an unbroken run, and it leaves the *)
(* run that begins with the next message.                                  *)
LEMMA WroteBacklog ==
  ASSUME IInv, NEW k \in Subs, WriteBacklog(k)
  PROVE  /\ backlog'[k] \in Seq(Nat)
         /\ Head(backlog[k]) = NextOf(k) /\ NextOf(k) \in 1 .. published
         /\ StillWrites(k) /\ RunPending(k)'
         /\ StillWrites(k)' => NextOf(k)' = NextOf(k) + 1
<1>1. /\ backlog[k] # <<>> /\ backlog'[k] = Tail(backlog[k]) /\ queue'[k] = queue[k]
      /\ published' = published /\ subscribers' = subscribers
      /\ RunPending(k)
  BY DEF WriteBacklog, hub, IInv, TypeOK, PendingIsRun
<1>2. /\ backlog[k] \in Seq(Nat) /\ Len(backlog[k]) \in Nat \ {0}
      /\ queue[k] \in Seq(Nat) /\ Len(queue[k]) \in Nat
      /\ queue[k] = <<>> <=> Len(queue[k]) = 0
      /\ published \in Nat
  BY <1>1, HandlerTypes DEF IInv
<1>3. /\ NextOf(k) \in Nat \ {0}
      /\ RunFrom(backlog[k], NextOf(k))
      /\ RunFrom(queue[k], NextOf(k) + Len(backlog[k]))
      /\ NextOf(k) + Len(backlog[k]) + Len(queue[k]) <= published + 1
      /\ k \in subscribers =>
           NextOf(k) + Len(backlog[k]) + Len(queue[k]) = published + 1
  BY <1>1 DEF RunPending
<1>4. NextOf(k) \in Nat
  BY <1>3
<1>5. /\ Head(backlog[k]) = NextOf(k)
      /\ backlog'[k] \in Seq(Nat) /\ Len(backlog'[k]) = Len(backlog[k]) - 1
      /\ RunFrom(backlog'[k], NextOf(k) + 1)
      /\ backlog'[k] # <<>> => backlog'[k][1] = NextOf(k) + 1
  <2>1. /\ Head(backlog[k]) = NextOf(k)
        /\ Tail(backlog[k]) \in Seq(Nat) /\ Len(Tail(backlog[k])) = Len(backlog[k]) - 1
        /\ RunFrom(Tail(backlog[k]), NextOf(k) + 1)
        /\ Tail(backlog[k]) # <<>> => Tail(backlog[k])[1] = NextOf(k) + 1
    BY <1>1, <1>2, <1>3, <1>4, TailOfRun, Zenon
  <2>2. QED
    BY <1>1, <2>1
<1>6. backlog'[k] = <<>> <=> Len(backlog'[k]) = 0
  BY <1>5, EmptySeq
<1>7. CASE backlog'[k] = <<>> /\ queue[k] = <<>>
  <2>1. /\ Len(backlog'[k]) = 0 /\ Len(backlog[k]) = 1
        /\ Len(queue'[k]) = 0 /\ Len(queue[k]) = 0
    <3>1. Len(backlog'[k]) = 0 /\ Len(queue[k]) = 0
      BY <1>2, <1>6, <1>7, Zenon
    <3>2. Len(backlog[k]) = 1
      BY <1>2, <1>5, <1>6, <1>7
    <3>3. Len(queue'[k]) = 0
      BY <1>1, <3>1, Zenon
    <3>4. QED
      BY <3>1, <3>2, <3>3
  <2>2. NextOf(k)' = published + 1
    BY <1>1, <1>7 DEF NextOf
  <2>3. RunPending(k)'
    <3>1. RunFrom(backlog[k], NextOf(k))' /\ RunFrom(queue[k], NextOf(k) + Len(backlog[k]))'
      BY <2>1 DEF RunFrom
    <3>2. published' = published /\ published \in Nat
      BY <1>1, <1>2
    <3>3. NextOf(k)' + Len(backlog'[k]) + Len(queue'[k]) = published' + 1
      BY <2>1, <2>2, <3>2
    <3>4. /\ NextOf(k)' \in Nat \ {0}
          /\ NextOf(k)' + Len(backlog'[k]) + Len(queue'[k]) <= published' + 1
      BY <2>1, <2>2, <3>2
    <3>5. QED
      BY <3>1, <3>3, <3>4, Zenon DEF RunPending
  <2>4. NextOf(k) \in 1 .. published /\ (k \in subscribers => NextOf(k) = published)
    BY <1>2, <1>3, <2>1
  <2>5. QED
    BY <1>1, <1>5, <1>7, <2>2, <2>3, <2>4 DEF StillWrites
<1>8. CASE ~(backlog'[k] = <<>> /\ queue[k] = <<>>)
  <2>1. NextOf(k)' = NextOf(k) + 1
    <3>1. CASE backlog'[k] # <<>>
      BY <1>5, <3>1 DEF NextOf
    <3>2. CASE backlog'[k] = <<>>
      <4>1. Len(backlog[k]) = 1 /\ Len(queue[k]) \in Nat \ {0}
        BY <1>2, <1>5, <1>6, <1>8, <3>2
      <4>2. RunFrom(queue[k], NextOf(k) + 1)
        BY <1>3, <4>1
      <4>3. queue[k][1] = NextOf(k) + 1
        BY <1>4, <4>1, <4>2 DEF RunFrom
      <4>4. QED
        BY <1>1, <1>8, <3>2, <4>3 DEF NextOf
    <3>3. QED
      BY <3>1, <3>2
  <2>2. (NextOf(k) + 1) + Len(backlog'[k]) = NextOf(k) + Len(backlog[k])
    BY <1>2, <1>4, <1>5
  <2>3. /\ RunFrom(backlog[k], NextOf(k))'
        /\ RunFrom(queue[k], NextOf(k) + Len(backlog[k]))'
    BY <1>1, <1>3, <1>5, <2>1, <2>2 DEF RunFrom
  <2>4. RunPending(k)'
    <3>. DEFINE n == NextOf(k)
                m == Len(backlog[k])
                l == Len(queue[k])
                r == Len(backlog'[k])
    <3>1. /\ n \in Nat /\ m \in Nat /\ l \in Nat /\ r \in Nat /\ published \in Nat
          /\ n + m + l <= published + 1
          /\ k \in subscribers => n + m + l = published + 1
          /\ (n + 1) + r = n + m
      BY <1>2, <1>3, <1>4, <1>5, <2>2, LenProperties
    <3>2. /\ NextOf(k)' = n + 1 /\ Len(backlog[k])' = r /\ Len(queue[k])' = l
          /\ published' = published /\ subscribers' = subscribers
      BY <1>1, <2>1
    <3>. HIDE DEF n, m, l, r
    <3>3. /\ n + 1 \in Nat \ {0} /\ (n + 1) + r + l <= published + 1
          /\ k \in subscribers => (n + 1) + r + l = published + 1
      BY <3>1
    <3>4. QED
      BY <2>3, <3>2, <3>3 DEF RunPending
  <2>5. NextOf(k) \in 1 .. published
    BY <1>2, <1>3
  <2>6. QED
    BY <1>1, <1>5, <2>1, <2>4, <2>5 DEF StillWrites
<1>9. QED
  BY <1>7, <1>8

(* The same of a message that was queued.                                  *)
LEMMA WroteEvent ==
  ASSUME IInv, NEW k \in Subs, WriteEvent(k)
  PROVE  /\ queue'[k] \in Seq(Nat) /\ Len(queue'[k]) <= BufferSize
         /\ Head(queue[k]) = NextOf(k) /\ NextOf(k) \in 1 .. published
         /\ StillWrites(k) /\ RunPending(k)'
         /\ StillWrites(k)' => NextOf(k)' = NextOf(k) + 1
<1>1. /\ queue[k] # <<>> /\ queue'[k] = Tail(queue[k])
      /\ backlog[k] = <<>> /\ RunPending(k) /\ Len(queue[k]) <= BufferSize
  BY DEF WriteEvent, IInv, TypeOK, PendingIsRun, LiveHasNoBacklog
<1>2. backlog'[k] = <<>> /\ published' = published /\ subscribers' = subscribers
  BY <1>1 DEF WriteEvent
<1>3. /\ queue[k] \in Seq(Nat) /\ Len(queue[k]) \in Nat \ {0}
      /\ Len(backlog[k]) = 0 /\ published \in Nat
  BY <1>1, HandlerTypes DEF IInv
<1>4. Len(backlog'[k]) = 0
  BY <1>2, EmptySeq
<1>5. /\ NextOf(k) \in Nat \ {0}
      /\ RunFrom(queue[k], NextOf(k) + Len(backlog[k]))
      /\ NextOf(k) + Len(backlog[k]) + Len(queue[k]) <= published + 1
      /\ k \in subscribers =>
           NextOf(k) + Len(backlog[k]) + Len(queue[k]) = published + 1
  BY <1>1 DEF RunPending
<1>6. /\ NextOf(k) \in Nat \ {0} /\ NextOf(k) \in Nat
      /\ RunFrom(queue[k], NextOf(k))
      /\ NextOf(k) + Len(queue[k]) <= published + 1
      /\ k \in subscribers => NextOf(k) + Len(queue[k]) = published + 1
      /\ NextOf(k) \in 1 .. published
  BY <1>3, <1>5
<1>7. /\ Head(queue[k]) = NextOf(k)
      /\ queue'[k] \in Seq(Nat) /\ Len(queue'[k]) = Len(queue[k]) - 1
      /\ RunFrom(queue'[k], NextOf(k) + 1)
      /\ queue'[k] # <<>> => queue'[k][1] = NextOf(k) + 1
  <2>1. /\ Head(queue[k]) = NextOf(k)
        /\ Tail(queue[k]) \in Seq(Nat) /\ Len(Tail(queue[k])) = Len(queue[k]) - 1
        /\ RunFrom(Tail(queue[k]), NextOf(k) + 1)
        /\ Tail(queue[k]) # <<>> => Tail(queue[k])[1] = NextOf(k) + 1
    BY <1>1, <1>3, <1>6, TailOfRun, Zenon
  <2>2. QED
    BY <1>1, <2>1
<1>8. Len(queue'[k]) <= BufferSize /\ Len(queue'[k]) \in Nat
  BY <1>1, <1>3, <1>7
<1>9. queue'[k] = <<>> => Len(queue[k]) = 1
  BY <1>3, <1>7, EmptySeq
<1>10. NextOf(k)' = IF queue'[k] = <<>> THEN published + 1 ELSE NextOf(k) + 1
  BY <1>2, <1>7 DEF NextOf
<1>11. NextOf(k)' \in Nat \ {0} /\ (StillWrites(k)' => NextOf(k)' = NextOf(k) + 1)
  <2>1. StillWrites(k)' /\ queue'[k] = <<>> => k \in subscribers
    BY <1>2 DEF StillWrites
  <2>2. k \in subscribers /\ queue'[k] = <<>> => published + 1 = NextOf(k) + 1
    BY <1>3, <1>6, <1>9
  <2>3. NextOf(k)' \in Nat \ {0}
    BY <1>3, <1>6, <1>10
  <2>4. QED
    BY <1>10, <2>1, <2>2, <2>3, Zenon
<1>12. RunFrom(backlog[k], NextOf(k))' /\ RunFrom(queue[k], NextOf(k) + Len(backlog[k]))'
  <2>1. RunFrom(backlog[k], NextOf(k))'
    BY <1>4 DEF RunFrom
  <2>2. CASE queue'[k] = <<>>
    <3>1. Len(queue'[k]) = 0
      BY <2>2, EmptySeq
    <3>2. QED
      BY <2>1, <3>1 DEF RunFrom
  <2>3. CASE queue'[k] # <<>>
    <3>1. NextOf(k)' + Len(backlog'[k]) = NextOf(k) + 1
      BY <1>4, <1>6, <1>10, <2>3
    <3>2. QED
      BY <1>7, <2>1, <3>1 DEF RunFrom
  <2>4. QED
    BY <2>2, <2>3
<1>13. /\ NextOf(k)' + Len(backlog'[k]) + Len(queue'[k]) <= published' + 1
       /\ k \in subscribers' =>
            NextOf(k)' + Len(backlog'[k]) + Len(queue'[k]) = published' + 1
  <2>1. CASE queue'[k] = <<>>
    <3>1. Len(queue'[k]) = 0
      BY <2>1, EmptySeq
    <3>2. QED
      BY <1>2, <1>3, <1>4, <1>10, <2>1, <3>1
  <2>2. CASE queue'[k] # <<>>
    <3>1. NextOf(k)' = NextOf(k) + 1 /\ Len(queue'[k]) = Len(queue[k]) - 1
      BY <1>7, <1>10, <2>2
    <3>2. published' = published /\ subscribers' = subscribers
      BY <1>2
    <3>3. QED
      BY <1>3, <1>4, <1>6, <3>1, <3>2
  <2>3. QED
    BY <2>1, <2>2
<1>14. RunPending(k)'
  BY <1>11, <1>12, <1>13, Zenon DEF RunPending
<1>15. QED
  BY <1>1, <1>6, <1>7, <1>8, <1>11, <1>14 DEF StillWrites
(* A handler writes its next message, from its backlog or from its queue.  *)
LEMMA WriteStep ==
  ASSUME IInv, NEW k \in Subs, WriteBacklog(k) \/ WriteEvent(k)
  PROVE  IInv' /\ \E n \in 1 .. published :
           /\ Deliver(k, n)
           /\ \A c \in Clients : conn[c] = k => n \in Stream!Due(c)
<1>1. /\ UNCHANGED <<published, history, subscribers, chan, dropped, handler, conn, stalled,
                    closed, drops>>
      /\ handler[k] # "none"
      /\ \A j \in Subs : j # k => backlog'[j] = backlog[j] /\ queue'[j] = queue[j]
  BY DEF WriteBacklog, WriteEvent, hub, IInv, TypeOK
<1>2. /\ backlog' \in [Subs -> Seq(Nat)]
      /\ queue' \in [Subs -> Seq(Nat)] /\ \A j \in Subs : Len(queue'[j]) <= BufferSize
      /\ LiveHasNoBacklog'
      /\ NextOf(k) \in 1 .. published
      /\ Deliver(k, NextOf(k))
      /\ StillWrites(k) /\ RunPending(k)'
      /\ StillWrites(k)' => NextOf(k)' = NextOf(k) + 1
  <2>1. CASE WriteBacklog(k)
    <3>1. queue' = queue /\ backlog' = [backlog EXCEPT ![k] = Tail(@)]
          /\ backlog'[k] = Tail(backlog[k])
      BY <2>1 DEF WriteBacklog, hub, IInv, TypeOK
    <3>2. backlog' \in [Subs -> Seq(Nat)]
      BY <2>1, <3>1, WroteBacklog DEF IInv, TypeOK
    <3>3. LiveHasNoBacklog'
      BY <2>1, <3>1 DEF WriteBacklog, IInv, TypeOK, LiveHasNoBacklog
    <3>4. Deliver(k, NextOf(k))
      BY <2>1, WroteBacklog DEF WriteBacklog
    <3>5. QED
      BY <2>1, <3>1, <3>2, <3>3, <3>4, WroteBacklog DEF IInv, TypeOK
  <2>2. CASE WriteEvent(k)
    <3>1. backlog' = backlog /\ queue' = [queue EXCEPT ![k] = Tail(@)]
          /\ queue'[k] = Tail(queue[k])
      BY <2>2 DEF WriteEvent, IInv, TypeOK
    <3>2. queue' \in [Subs -> Seq(Nat)]
      BY <2>2, <3>1, WroteEvent DEF IInv, TypeOK
    <3>3. \A j \in Subs : Len(queue'[j]) <= BufferSize
      BY <1>1, <2>2, WroteEvent DEF IInv, TypeOK
    <3>4. LiveHasNoBacklog'
      BY <1>1, <3>1 DEF IInv, LiveHasNoBacklog
    <3>5. Deliver(k, NextOf(k))
      BY <2>2, WroteEvent DEF WriteEvent
    <3>6. QED
      BY <2>2, <3>1, <3>2, <3>3, <3>4, <3>5, WroteEvent DEF IInv, TypeOK
  <2>3. QED
    BY <2>1, <2>2
<1>3. ASSUME NEW j \in Subs, j # k
      PROVE  /\ NextOf(j)' = NextOf(j)
             /\ RunPending(j) => RunPending(j)'
             /\ StillWrites(j)' => StillWrites(j)
  BY <1>1, <1>3, SameRun
<1>4. /\ seen' \in [Clients -> Seq(Nat)]
      /\ SeenWasPublished' /\ GoesOn'
      /\ \A c \in Clients : conn[c] = k => NextOf(k) \in Stream!Due(c)
  BY <1>1, <1>2, <1>3, Delivered
<1>5. TypeOK'
  BY <1>1, <1>2, <1>4 DEF IInv, TypeOK
<1>6. RegisteredIffOpen' /\ HistoryIsRecent' /\ OwnHandler'
  BY <1>1 DEF IInv, RegisteredIffOpen, HistoryIsRecent, Kept, OwnHandler
<1>7. PendingIsRun'
  BY <1>1, <1>2, <1>3 DEF IInv, PendingIsRun
<1>8. QED
  BY <1>2, <1>4, <1>5, <1>6, <1>7 DEF IInv
-----------------------------------------------------------------------------
(* What a client is given when it subscribes begins after the last message *)
(* it saw, or the history does not reach back to that one.                 *)
LEMMA BacklogGoesOn ==
  ASSUME IInv, NEW c \in Clients, NEW b, b = BacklogAfter(LastEventID(c))
  PROVE  /\ b \in Seq(Nat) /\ Len(b) \in Nat /\ (b = <<>> <=> Len(b) = 0)
         /\ RunFrom(b, published + 1 - Len(b))
         /\ published + 1 - Len(b) \in Nat \ {0}
         /\ FitsNext(c, published + 1 - Len(b))
<1>1. DEFINE id == LastEventID(c)
<1>2. /\ published \in Nat /\ id \in 0 .. published
      /\ history \in Seq(Nat) /\ Kept \in 0 .. published /\ Len(history) = Kept
      /\ \A i \in 1 .. Kept : history[i] = published - Kept + i
      /\ DOMAIN history = 1 .. Kept
  BY LenProperties DEF IInv, TypeOK, HistoryIsRecent, SeenWasPublished, Kept
<1>3. CASE \E i \in DOMAIN history : history[i] = id
  <2>1. DEFINE at == CHOOSE i \in DOMAIN history : history[i] = id
  <2>2. at \in DOMAIN history /\ history[at] = id
    BY <1>3
  <2>. HIDE DEF at
  <2>3. at \in 1 .. Kept /\ id = published - Kept + at
    BY <1>2, <2>2
  <2>4. b = SubSeq(history, 1 + at, Kept)
    <3>1. b = SubSeq(history, 1 + at, Len(history))
      BY <1>3, Zenon DEF BacklogAfter, at, id
    <3>2. QED
      BY <1>2, <3>1, Zenon
  <2>. HIDE DEF id
  <2>5. /\ b \in Seq(Nat) /\ Len(b) = Kept - at
        /\ \A i \in 1 .. Kept - at : b[i] = history[at + i]
    <3>1. \A i \in 1 + at .. Kept : history[i] \in Nat
      BY <1>2, <2>3, ElementOfSeq
    <3>2. 1 + at \in Int /\ Kept \in Int
      BY <1>2, <2>3
    <3>3. /\ b \in Seq(Nat)
          /\ Len(b) = IF 1 + at <= Kept THEN Kept - (1 + at) + 1 ELSE 0
          /\ \A i \in 1 .. Kept - (1 + at) + 1 : b[i] = history[1 + at + i - 1]
      BY <2>4, <3>1, <3>2, SubSeqProperties
    <3>4. QED
      BY <1>2, <2>3, <3>3
  <2>6. published + 1 - Len(b) = id + 1
    BY <1>2, <2>3, <2>5
  <2>7. RunFrom(b, id + 1)
    BY <1>2, <2>3, <2>5 DEF RunFrom
  <2>8. FitsNext(c, id + 1)
    BY DEF FitsNext, id
  <2>9. b = <<>> <=> Len(b) = 0
    BY <2>5, EmptySeq
  <2>10. Len(b) \in Nat /\ id + 1 \in Nat \ {0}
    BY <1>2, <2>3, <2>5
  <2>11. QED
    BY <2>5, <2>6, <2>7, <2>8, <2>9, <2>10
<1>4. CASE ~ \E i \in DOMAIN history : history[i] = id
  <2>1. b = <<>> /\ Len(b) = 0 /\ b \in Seq(Nat)
    BY <1>4, EmptySeq DEF BacklogAfter
  <2>. HIDE DEF id
  <2>2. id <= published - Kept
    <3>1. SUFFICES ASSUME id > published - Kept PROVE FALSE
      BY <1>2
    <3>2. id - published + Kept \in 1 .. Kept
      BY <1>2, <3>1
    <3>3. history[id - published + Kept] = published - Kept + (id - published + Kept)
      BY <1>2, <3>2
    <3>4. history[id - published + Kept] = id
      BY <1>2, <3>3
    <3>5. QED
      BY <1>2, <1>4, <3>2, <3>4
  <2>3. FitsNext(c, published + 1)
    <3>1. CASE Kept = HistorySize
      <4>1. Stream!FellBehind(c)
        BY <2>2, <3>1, ResumesFromLast DEF Stream!FellBehind, id
      <4>2. published + 1 > LastEventID(c)
        BY <1>2 DEF id
      <4>3. QED
        BY <4>1, <4>2 DEF FitsNext
    <3>2. CASE Kept # HistorySize
      <4>1. Kept = published
        BY <3>2 DEF Kept
      <4>2. id = 0
        BY <1>2, <2>2, <4>1
      <4>3. Stream!Fresh(c)
        BY <4>2 DEF id, IInv, SeenWasPublished
      <4>4. QED
        BY <4>3 DEF FitsNext
    <3>3. QED
      BY <3>1, <3>2
  <2>4. RunFrom(b, published + 1)
    BY <2>1 DEF RunFrom
  <2>5. published + 1 - Len(b) = published + 1 /\ published + 1 \in Nat \ {0}
    BY <1>2, <2>1
  <2>6. QED
    BY <2>1, <2>3, <2>4, <2>5
<1>5. QED
  BY <1>3, <1>4

(* subscribe keeps the invariant.                                          *)
LEMMA ConnectStep ==
  ASSUME IInv, NEW c \in Clients, NEW k \in Subs, Connect(c, k)
  PROVE  IInv'
<1>1. /\ conn[c] = NoSub /\ handler[k] = "none"
      /\ conn' = [conn EXCEPT ![c] = k]
      /\ handler' = [handler EXCEPT ![k] = "backlog"]
      /\ backlog' = [backlog EXCEPT ![k] = BacklogAfter(LastEventID(c))]
      /\ queue' = [queue EXCEPT ![k] = <<>>]
      /\ subscribers' = subscribers \cup {k}
      /\ published' = published /\ history' = history /\ seen' = seen
  BY DEF Connect
<1>2. /\ backlog'[k] = BacklogAfter(LastEventID(c)) /\ queue'[k] = <<>>
      /\ k \in subscribers'
      /\ \A j \in Subs : j # k => /\ backlog'[j] = backlog[j] /\ queue'[j] = queue[j]
                                  /\ handler'[j] = handler[j]
                                  /\ j \in subscribers' => j \in subscribers
      /\ published \in Nat
  BY <1>1 DEF IInv, TypeOK
<1>3. /\ backlog'[k] \in Seq(Nat) /\ Len(backlog'[k]) \in Nat
      /\ (backlog'[k] = <<>> <=> Len(backlog'[k]) = 0)
      /\ RunFrom(backlog'[k], published + 1 - Len(backlog'[k]))
      /\ published + 1 - Len(backlog'[k]) \in Nat \ {0}
      /\ FitsNext(c, published + 1 - Len(backlog'[k]))
  BY <1>2, BacklogGoesOn
<1>4. <<>> \in Seq(Nat) /\ Len(<<>>) = 0
  BY EmptySeq
<1>5. NextOf(k)' = published + 1 - Len(backlog'[k])
  <2>1. CASE backlog'[k] = <<>>
    <3>1. NextOf(k)' = published' + 1
      BY <1>2, <2>1 DEF NextOf
    <3>2. Len(backlog'[k]) = 0 /\ published' = published /\ published \in Nat
      BY <1>1, <1>2, <1>3, <2>1
    <3>. QED
      BY <3>1, <3>2
  <2>2. CASE backlog'[k] # <<>>
    <3>1. backlog'[k][1] = published + 1 - Len(backlog'[k])
      BY <1>2, <1>3, <2>2 DEF RunFrom
    <3>2. QED
      BY <2>2, <3>1 DEF NextOf
  <2>3. QED
    BY <2>1, <2>2
<1>6. RunPending(k)'
  <2>1. Len(queue'[k]) = 0
    BY <1>2, <1>4
  <2>2. RunFrom(backlog[k], NextOf(k))' /\ RunFrom(queue[k], NextOf(k) + Len(backlog[k]))'
    BY <1>3, <1>5, <2>1 DEF RunFrom
  <2>3. /\ NextOf(k)' + Len(backlog'[k]) + Len(queue'[k]) = published' + 1
        /\ NextOf(k)' + Len(backlog'[k]) + Len(queue'[k]) <= published' + 1
    <3>1. published' = published /\ published \in Nat /\ Len(backlog'[k]) \in Nat
      BY <1>1, <1>2, <1>3
    <3>2. QED
      BY <1>5, <2>1, <3>1
  <2>4. QED
    BY <1>3, <1>5, <2>2, <2>3 DEF RunPending
<1>7. ASSUME NEW j \in Subs, j # k
      PROVE  /\ NextOf(j)' = NextOf(j)
             /\ RunPending(j) => RunPending(j)'
             /\ StillWrites(j)' => StillWrites(j)
  BY <1>1, <1>2, <1>7, SameRun
<1>8. TypeOK'
  <2>1. backlog' \in [Subs -> Seq(Nat)]
    BY <1>1, <1>2, <1>3 DEF IInv, TypeOK
  <2>2. queue' \in [Subs -> Seq(Nat)]
    BY <1>1, <1>4 DEF IInv, TypeOK
  <2>3. \A j \in Subs : Len(queue'[j]) <= BufferSize
    BY <1>1, <1>2, <1>4 DEF IInv, TypeOK
  <2>4. QED
    BY <2>1, <2>2, <2>3 DEF Connect, IInv, TypeOK
<1>9. RegisteredIffOpen'
  BY DEF Connect, IInv, TypeOK, RegisteredIffOpen
<1>10. HistoryIsRecent'
  BY <1>1 DEF IInv, HistoryIsRecent, Kept
<1>11. PendingIsRun'
  BY <1>2, <1>6, <1>7 DEF IInv, PendingIsRun
<1>12. LiveHasNoBacklog' /\ OwnHandler'
  BY <1>1, <1>2 DEF IInv, TypeOK, LiveHasNoBacklog, OwnHandler
<1>13. SeenWasPublished'
  BY <1>1 DEF IInv, SeenWasPublished, LastEventID, LastOf, Stream!Fresh
<1>14. GoesOn'
  <2>1. SUFFICES ASSUME NEW d \in Clients, conn'[d] # NoSub, StillWrites(conn[d])'
                 PROVE  FitsNext(d, NextOf(conn[d]))'
    BY DEF GoesOn
  <2>2. CASE d = c
    <3>1. conn'[d] = k
      BY <1>1, <2>2 DEF IInv, TypeOK
    <3>2. FitsNext(c, NextOf(k)')
      BY <1>3, <1>5
    <3>3. FitsNext(c, NextOf(k))'
      BY <1>1, <3>2 DEF FitsNext, LastEventID, LastOf, Stream!Fresh, Stream!FellBehind,
                        Stream!LastSeen
    <3>4. QED
      BY <2>2, <3>1, <3>3
  <2>3. CASE d # c
    <3>1. conn'[d] = conn[d] /\ conn[d] \in Subs /\ conn[d] # NoSub /\ conn[d] # k
      BY <1>1, <2>1, <2>3 DEF IInv, TypeOK, OwnHandler
    <3>2. StillWrites(conn[d]) /\ NextOf(conn[d])' = NextOf(conn[d])
      BY <1>7, <2>1, <3>1
    <3>3. FitsNext(d, NextOf(conn[d]))
      BY <3>1, <3>2 DEF IInv, GoesOn
    <3>4. QED
      BY <1>1, <3>2, <3>3, SameFits
  <2>4. QED
    BY <2>2, <2>3
<1>15. QED
  BY <1>8, <1>9, <1>10, <1>11, <1>12, <1>13, <1>14 DEF IInv

(* The steps that neither write nor register: a handler that goes live, a  *)
(* connection that is lost, a client that stops reading or reads on, the   *)
(* end of the server.                                                      *)
LEMMA QuietStep ==
  ASSUME IInv, UNCHANGED <<published, history, queue, backlog, seen, dropped>>,
         drops' \in Nat, closed' \in BOOLEAN, stalled' \subseteq Clients,
         subscribers' \subseteq subscribers, chan' \in [Subs -> {"open", "closed"}],
         RegisteredIffOpen',
         handler' \in [Subs -> {"none", "backlog", "live"}],
         \A k \in Subs : /\ handler'[k] = "none" <=> handler[k] = "none"
                         /\ handler'[k] = "live" => backlog[k] = <<>>,
         conn' \in [Clients -> Subs \cup {NoSub}],
         \A c \in Clients : conn'[c] \in {conn[c], NoSub}
  PROVE  IInv'
<1>1. ASSUME NEW k \in Subs
      PROVE  /\ NextOf(k)' = NextOf(k)
             /\ RunPending(k) => RunPending(k)'
             /\ StillWrites(k)' => StillWrites(k)
  BY SameRun
<1>2. TypeOK' /\ HistoryIsRecent'
  BY DEF IInv, TypeOK, HistoryIsRecent, Kept
<1>3. PendingIsRun'
  BY <1>1 DEF IInv, PendingIsRun
<1>4. LiveHasNoBacklog'
  BY DEF LiveHasNoBacklog
<1>5. OwnHandler'
  BY DEF IInv, TypeOK, OwnHandler
<1>6. SeenWasPublished'
  BY DEF IInv, SeenWasPublished, LastEventID, LastOf, Stream!Fresh
<1>7. GoesOn'
  <2>1. SUFFICES ASSUME NEW c \in Clients, conn'[c] # NoSub, StillWrites(conn[c])'
                 PROVE  FitsNext(c, NextOf(conn[c]))'
    BY DEF GoesOn
  <2>2. conn'[c] = conn[c] /\ conn[c] \in Subs /\ conn[c] # NoSub
    BY <2>1 DEF IInv, TypeOK
  <2>3. StillWrites(conn[c]) /\ NextOf(conn[c])' = NextOf(conn[c])
    BY <1>1, <2>1, <2>2
  <2>4. FitsNext(c, NextOf(conn[c]))
    BY <2>2, <2>3 DEF IInv, GoesOn
  <2>5. QED
    BY <2>3, <2>4, SameFits
<1>8. QED
  BY <1>2, <1>3, <1>4, <1>5, <1>6, <1>7 DEF IInv
-----------------------------------------------------------------------------
(* Every step keeps the invariant.                                         *)
LEMMA NextIInv == IInv /\ [Next]_vars => IInv'
<1>1. SUFFICES ASSUME IInv, [Next]_vars PROVE IInv'
  OBVIOUS
<1>2. CASE Publish
  BY <1>1, <1>2, PublishStep
<1>3. CASE Close
  <2>1. /\ UNCHANGED <<published, history, queue, backlog, seen, dropped, handler, conn>>
        /\ drops' \in Nat /\ closed' \in BOOLEAN /\ subscribers' = {}
        /\ stalled' \subseteq Clients
        /\ chan' = [k \in Subs |-> IF k \in subscribers THEN "closed" ELSE chan[k]]
    BY <1>1, <1>3 DEF Close, IInv, TypeOK
  <2>2. RegisteredIffOpen' /\ chan' \in [Subs -> {"open", "closed"}]
    BY <1>1, <2>1 DEF IInv, TypeOK, RegisteredIffOpen
  <2>3. /\ handler' \in [Subs -> {"none", "backlog", "live"}]
        /\ \A k \in Subs : handler'[k] = "live" => backlog[k] = <<>>
        /\ conn' \in [Clients -> Subs \cup {NoSub}]
    BY <1>1, <2>1 DEF IInv, TypeOK, LiveHasNoBacklog
  <2>4. QED
    BY <1>1, <2>1, <2>2, <2>3, QuietStep
<1>4. ASSUME NEW c \in Clients, LoseConnection(c)
      PROVE  IInv'
  <2>1. /\ UNCHANGED <<published, history, queue, backlog, seen, dropped, handler,
                       subscribers, chan, stalled, closed>>
        /\ drops' \in Nat /\ conn' = [conn EXCEPT ![c] = NoSub]
    BY <1>1, <1>4 DEF LoseConnection, hub, IInv, TypeOK
  <2>2. RegisteredIffOpen'
    BY <1>1, <2>1 DEF IInv, RegisteredIffOpen
  <2>3. /\ conn' \in [Clients -> Subs \cup {NoSub}]
        /\ \A d \in Clients : conn'[d] \in {conn[d], NoSub}
        /\ \A k \in Subs : handler'[k] = "live" => backlog[k] = <<>>
    BY <1>1, <2>1 DEF IInv, TypeOK, LiveHasNoBacklog
  <2>4. QED
    BY <1>1, <2>1, <2>2, <2>3, QuietStep DEF IInv, TypeOK
<1>5. ASSUME NEW c \in Clients, NEW k \in Subs, Connect(c, k)
      PROVE  IInv'
  BY <1>1, <1>5, ConnectStep
<1>6. ASSUME NEW k \in Subs, WriteBacklog(k) \/ WriteEvent(k)
      PROVE  IInv'
  BY <1>1, <1>6, WriteStep
<1>7. ASSUME NEW k \in Subs, BacklogWritten(k)
      PROVE  IInv'
  <2>1. /\ UNCHANGED <<published, history, queue, backlog, seen, dropped, conn, drops,
                       subscribers, chan, stalled, closed>>
        /\ handler' = [handler EXCEPT ![k] = "live"]
        /\ handler[k] = "backlog" /\ backlog[k] = <<>>
    BY <1>7 DEF BacklogWritten, hub
  <2>2. RegisteredIffOpen'
    BY <1>1, <2>1 DEF IInv, RegisteredIffOpen
  <2>3. /\ handler' \in [Subs -> {"none", "backlog", "live"}]
        /\ \A j \in Subs : /\ handler'[j] = "none" <=> handler[j] = "none"
                           /\ handler'[j] = "live" => backlog[j] = <<>>
    BY <1>1, <2>1 DEF IInv, TypeOK, LiveHasNoBacklog
  <2>4. QED
    BY <1>1, <2>1, <2>2, <2>3, QuietStep DEF IInv, TypeOK
<1>8. ASSUME NEW k \in Subs, WriteFails(k) \/ Disconnected(k) \/ RequestEnds(k)
      PROVE  IInv'
  BY <1>1, <1>8, LeaveStep DEF WriteFails, Disconnected, RequestEnds
<1>9. CASE UNCHANGED vars
  <2>1. UNCHANGED <<published, history, queue, backlog, seen, dropped, handler, conn,
                    drops, subscribers, chan, stalled, closed>>
    BY <1>9 DEF vars, hub
  <2>2. RegisteredIffOpen'
    BY <1>1, <2>1 DEF IInv, RegisteredIffOpen
  <2>3. QED
    BY <1>1, <2>1, <2>2, QuietStep DEF IInv, TypeOK, LiveHasNoBacklog
<1>10. ASSUME NEW c \in Clients, Stall(c) \/ Resume(c)
       PROVE  IInv'
  <2>1. /\ UNCHANGED <<published, history, queue, backlog, seen, dropped, handler, conn,
                       drops, subscribers, chan, closed>>
        /\ stalled' \subseteq Clients
    BY <1>1, <1>10 DEF Stall, Resume, hub, IInv, TypeOK
  <2>2. RegisteredIffOpen'
    BY <1>1, <2>1 DEF IInv, RegisteredIffOpen
  <2>3. QED
    BY <1>1, <2>1, <2>2, QuietStep DEF IInv, TypeOK, LiveHasNoBacklog
<1>11. QED
  BY <1>1, <1>2, <1>3, <1>4, <1>5, <1>6, <1>7, <1>8, <1>9, <1>10 DEF Next, Progress

(* The invariant holds in every state of the hub.                          *)
THEOREM Invariance == Spec => []IInv
  BY InitIInv, NextIInv, PTL DEF Spec

(* Every variable keeps its type: the history and the queues stay within   *)
(* their sizes.                                                            *)
THEOREM Typed == Spec => []TypeOK
<1>1. IInv => TypeOK
  BY DEF IInv
<1>2. QED
  BY <1>1, Invariance, PTL

(* No channel of a subscriber is closed twice or sent on once closed.      *)
THEOREM Registered == Spec => []RegisteredIffOpen
<1>1. IInv => RegisteredIffOpen
  BY DEF IInv
<1>2. QED
  BY <1>1, Invariance, PTL

(* A handler's backlog and queue are one unbroken run that ends with the   *)
(* last message published.                                                 *)
THEOREM Unbroken == Spec => []PendingIsRun
<1>1. IInv => PendingIsRun
  BY DEF IInv
<1>2. QED
  BY <1>1, Invariance, PTL

-----------------------------------------------------------------------------
(* What is written to a handler's connection is received by its client,    *)
(* for which it is due, or by nobody.                                      *)
LEMMA DeliverIsReceive ==
  ASSUME IInv, NEW k \in Subs, NEW n \in 1 .. published, Deliver(k, n),
         published' = published,
         \A c \in Clients : conn[c] = k => n \in Stream!Due(c)
  PROVE  [Stream!Next]_Stream!stream
<1>1. seen \in [Clients -> Seq(Nat)]
  BY DEF IInv, TypeOK
<1>2. CASE \E c \in Clients : conn[c] = k
  <2>1. PICK c \in Clients : conn[c] = k
    BY <1>2
  <2>2. \A d \in Clients : conn[d] = k => d = c
    BY <2>1, NoSubAssumption DEF IInv, OwnHandler
  <2>3. seen' = [seen EXCEPT ![c] = Append(@, n)]
    BY <1>1, <2>1, <2>2 DEF Deliver
  <2>4. Stream!Receive(c)
    BY <2>1, <2>3 DEF Stream!Receive
  <2>5. QED
    BY <2>4 DEF Stream!Next
<1>3. CASE \A c \in Clients : conn[c] # k
  BY <1>1, <1>3 DEF Deliver, Stream!stream
<1>4. QED
  BY <1>2, <1>3

(* Every step of the hub is a step of the stream, or changes nothing of it.*)
LEMMA StepRefines == IInv /\ [Next]_vars => [Stream!Next]_Stream!stream
<1>1. SUFFICES ASSUME IInv, [Next]_vars PROVE [Stream!Next]_Stream!stream
  OBVIOUS
<1>2. CASE Publish
  BY <1>2 DEF Publish, Stream!Next, Stream!Publish
<1>3. ASSUME NEW k \in Subs, WriteBacklog(k) \/ WriteEvent(k)
      PROVE  [Stream!Next]_Stream!stream
  <2>1. PICK n \in 1 .. published :
               /\ Deliver(k, n)
               /\ \A c \in Clients : conn[c] = k => n \in Stream!Due(c)
    BY <1>1, <1>3, WriteStep
  <2>2. published' = published
    BY <1>3 DEF WriteBacklog, WriteEvent, hub
  <2>3. QED
    BY <1>1, <2>1, <2>2, DeliverIsReceive
<1>4. ASSUME UNCHANGED <<published, seen>>
      PROVE  [Stream!Next]_Stream!stream
  BY <1>4 DEF Stream!stream
<1>5. CASE Close
  BY <1>4, <1>5 DEF Close
<1>6. ASSUME NEW c \in Clients,
             \/ LoseConnection(c) \/ Stall(c) \/ Resume(c)
             \/ \E k \in Subs : Connect(c, k)
      PROVE  [Stream!Next]_Stream!stream
  BY <1>4, <1>6 DEF LoseConnection, Stall, Resume, Connect, hub
<1>7. ASSUME NEW k \in Subs,
             \/ BacklogWritten(k) \/ WriteFails(k) \/ Disconnected(k)
             \/ RequestEnds(k)
      PROVE  [Stream!Next]_Stream!stream
  BY <1>4, <1>7 DEF BacklogWritten, WriteFails, Disconnected, RequestEnds, Leave, hub
<1>8. CASE UNCHANGED vars
  BY <1>4, <1>8 DEF vars, hub
<1>9. QED
  BY <1>1, <1>2, <1>3, <1>5, <1>6, <1>7, <1>8 DEF Next, Progress

(* Over all of its connections, however many are lost, dropped or refused  *)
(* an event, every client sees the stream EventStream promises.            *)
THEOREM Implements == Spec => EventStreamSpec
<1>1. Init => Stream!Init
  BY DEF Init, Stream!Init
<1>2. QED
  BY <1>1, StepRefines, Invariance, PTL DEF Spec, EventStreamSpec, Stream!Spec
=============================================================================
