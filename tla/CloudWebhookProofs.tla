------------------------- MODULE CloudWebhookProofs -------------------------
(* The way of a notification of WhatsApp Cloud, for every number of        *)
(* notifications, requests, sessions and posts.                            *)
EXTENDS CloudWebhook, TLAPS, SequenceTheorems, FiniteSetTheorems

USE WebhookAssumption DEF Notifications

Busy == {h \in Handlers : request[h].pc = "read"}

\* The session that runs is the one p.events is the channel of.
OneSession ==
  /\ \A s \in Sessions : listener[s] \in {"waiting", "handing"} <=> s = events
  /\ \A s \in Sessions : s > started => listener[s] = "none" /\ queue[s] = <<>>
  /\ \A h \in Handlers : request[h].session <= started

\* What is on its way was not posted too long ago to be remembered.
Requests ==
  \A h \in Handlers :
    IF request[h].pc = "read" THEN request[h].body \in Notifications \ outdated
                              ELSE request[h] = NoRequest

\* every post is queued, refused, or being answered
Counted == IsFiniteSet(Busy) /\ enqueued + Cardinality(Busy) <= posts

\* The message being handed over comes after those handed over, and
\* before those that wait.
Handing ==
  \A s \in Sessions :
    IF listener[s] = "handing"
    THEN /\ current[s] \in Entries
         /\ current[s].body \in Inbound /\ current[s].body \in seen \cup outdated
         /\ \A i \in DOMAIN handed :
              handed[i].number < current[s].number /\ handed[i].body # current[s].body
         /\ \A i \in DOMAIN queue[s] : current[s].number < queue[s][i].number
    ELSE current[s] = Nothing

Queued ==
  \A s \in Sessions :
    /\ \A i \in DOMAIN queue[s] : queue[s][i].body \notin outdated
    /\ \A i, j \in DOMAIN queue[s] : i < j => queue[s][i].number < queue[s][j].number
    /\ s = events =>
         \A i \in DOMAIN queue[s], j \in DOMAIN handed : handed[j].number < queue[s][i].number

\* The message that was handed over is remembered, or too old to be posted.
Remembered == \A i \in DOMAIN handed : handed[i].body \in seen \cup outdated

IInv ==
  /\ TypeOK /\ OneSession /\ Requests /\ Counted /\ Handing /\ Queued /\ Remembered
  /\ HandedOnce
  /\ \A i, j \in DOMAIN handed : i < j => handed[i].number < handed[j].number

-----------------------------------------------------------------------------
(* A queue or the messages handed over, one longer.                        *)
LEMMA Longer ==
  ASSUME NEW S, NEW seq \in Seq(S), NEW e \in S
  PROVE  /\ Append(seq, e) \in Seq(S) /\ Len(Append(seq, e)) = Len(seq) + 1
         /\ Len(seq) \in Nat /\ Len(seq) + 1 \notin DOMAIN seq
         /\ \A i \in DOMAIN seq : i < Len(seq) + 1 /\ i \in Int
         /\ Append(seq, e)[Len(seq) + 1] = e
         /\ \A i \in DOMAIN seq : Append(seq, e)[i] = seq[i] /\ seq[i] \in S
         /\ \A i \in DOMAIN Append(seq, e) : i \in DOMAIN seq \/ i = Len(seq) + 1
<1>1. /\ Append(seq, e) \in Seq(S) /\ Len(Append(seq, e)) = Len(seq) + 1
      /\ Append(seq, e)[Len(seq) + 1] = e
      /\ \A i \in 1 .. Len(seq) : Append(seq, e)[i] = seq[i]
  BY AppendProperties
<1>2. /\ Len(seq) \in Nat /\ DOMAIN seq = 1 .. Len(seq) /\ seq \in [1 .. Len(seq) -> S]
      /\ DOMAIN Append(seq, e) = 1 .. Len(seq) + 1
  BY <1>1, LenProperties
<1>3. QED
  BY <1>1, <1>2

(* A queue without its first notification.                                 *)
LEMMA Shorter ==
  ASSUME NEW S, NEW seq \in Seq(S), seq # <<>>
  PROVE  /\ Tail(seq) \in Seq(S) /\ Len(Tail(seq)) < Len(seq)
         /\ 1 \in DOMAIN seq /\ Head(seq) = seq[1] /\ Head(seq) \in S
         /\ \A i \in DOMAIN Tail(seq) :
              i + 1 \in DOMAIN seq /\ 1 < i + 1 /\ i \in Int /\ Tail(seq)[i] = seq[i + 1]
<1>1. /\ Tail(seq) \in Seq(S) /\ Len(Tail(seq)) = Len(seq) - 1 /\ Head(seq) \in S
      /\ \A i \in 1 .. Len(Tail(seq)) : Tail(seq)[i] = seq[i + 1]
      /\ Len(seq) \in Nat \ {0}
  BY HeadTailProperties, EmptySeq
<1>2. DOMAIN seq = 1 .. Len(seq) /\ DOMAIN Tail(seq) = 1 .. Len(Tail(seq))
  BY <1>1, LenProperties
<1>3. Head(seq) = seq[1]
  OBVIOUS
<1>4. QED
  BY <1>1, <1>2, <1>3

(* What the type invariant says of queues and messages handed over.        *)
LEMMA Entered ==
  ASSUME TypeOK
  PROVE  /\ enqueued \in Nat /\ started \in Nat /\ posts \in Nat
         /\ \A s \in Sessions : s \in Nat /\ s # 0
         /\ \A h \in Handlers : request[h].session \in Nat /\ request[h].session \in {0} \cup Sessions
         /\ events \in Nat
         /\ \A s \in Sessions : queue[s] \in Seq(Entries)
         /\ \A s \in Sessions : \A i \in DOMAIN queue[s] : queue[s][i] \in Entries
         /\ \A i \in DOMAIN handed : handed[i] \in Entries
<1>1. \A s \in Sessions : queue[s] \in Seq(Entries)
  BY DEF TypeOK
<1>2. \A s \in Sessions : queue[s] \in [1 .. Len(queue[s]) -> Entries]
  BY <1>1, LenProperties
<1>3. handed \in [1 .. Len(handed) -> Entries]
  BY LenProperties DEF TypeOK
<1>4. \A s \in Sessions : s \in Nat /\ s # 0
  <2>1. Cardinality(Sessions) \in Nat
    BY FS_CardinalityType
  <2>2. QED
    BY <2>1
<1>5. enqueued \in Nat /\ started \in Nat /\ posts \in Nat /\ events \in Nat
  BY <1>4 DEF TypeOK
<1>6. \A h \in Handlers : request[h].session \in {0} \cup Sessions
  BY DEF TypeOK
<1>7. QED
  BY <1>1, <1>2, <1>3, <1>4, <1>5, <1>6

-----------------------------------------------------------------------------
(* Listen, its context, its end.                                           *)
LEMMA ListenStep == ASSUME IInv, Listen PROVE IInv'
<1>. USE DEF IInv, Listen, web, feedback, seeing
<1>1. started' = started + 1 /\ started' \in Sessions /\ started \in Nat
  BY Entered
<1>2. TypeOK'
  <2>1. cancelled \subseteq 1 .. started'
    BY <1>1 DEF TypeOK
  <2>2. QED
    BY <1>1, <2>1 DEF TypeOK, Entries
<1>3. \A s \in Sessions : listener[s] \notin {"waiting", "handing"}
  BY Entered DEF OneSession
<1>4. OneSession'
  <2>1. \A s \in Sessions : listener'[s] \in {"waiting", "handing"} <=> s = events'
    BY <1>1, <1>3 DEF TypeOK
  <2>2. \A s \in Sessions : s > started' => listener'[s] = "none" /\ queue'[s] = <<>>
    BY <1>1, Entered DEF OneSession, TypeOK
  <2>3. \A h \in Handlers : request'[h].session <= started'
    BY <1>1, Entered DEF OneSession, TypeOK
  <2>4. QED
    BY <2>1, <2>2, <2>3 DEF OneSession
<1>5. Handing'
  BY <1>1, <1>3 DEF Handing, TypeOK, Entries, Nothing
<1>6. Queued'
  <2>1. queue[started'] = <<>>
    BY <1>1, Entered DEF OneSession
  <2>2. QED
    BY <1>1, <2>1 DEF Queued
<1>7. Requests' /\ Counted' /\ Remembered' /\ HandedOnce'
  BY DEF Requests, Counted, Busy, Remembered, HandedOnce, NoRequest
<1>8. QED
  BY <1>2, <1>4, <1>5, <1>6, <1>7

\* The context of a Listen ends.
LEMMA CancelStep == ASSUME IInv, NEW s \in Sessions, Cancel(s) PROVE IInv'
<1>. USE DEF IInv, Cancel, web, feedback, seeing
<1>1. TypeOK'
  BY DEF TypeOK, Entries
<1>2. OneSession'
  BY DEF OneSession
<1>3. Handing' /\ Queued'
  BY <1>2 DEF Handing, Queued, Entries, Nothing
<1>4. Requests' /\ Counted' /\ Remembered' /\ HandedOnce'
  BY DEF Requests, Counted, Busy, Remembered, HandedOnce, NoRequest
<1>5. QED
  BY <1>1, <1>2, <1>3, <1>4

\* A Listen whose context ended returns.
LEMMA LeaveStep == ASSUME IInv, NEW s \in Sessions, Leave(s) PROVE IInv'
<1>. USE DEF IInv, Leave, web, feedback, seeing
<1>1. TypeOK'
  BY DEF TypeOK, Entries
<1>2. s = events /\ \A t \in Sessions : t # s => listener[t] \notin {"waiting", "handing"}
  BY DEF OneSession
<1>3. OneSession'
  <2>1. \A t \in Sessions : listener'[t] \in {"waiting", "handing"} <=> t = events'
    BY <1>2, Entered DEF TypeOK
  <2>2. ~(s > started)
    BY DEF OneSession
  <2>3. \A t \in Sessions : t > started => listener'[t] = "none" /\ queue'[t] = <<>>
    BY <2>2 DEF OneSession, TypeOK
  <2>4. QED
    BY <2>1, <2>3 DEF OneSession
<1>4. Handing' /\ Queued'
  <2>1. \A t \in Sessions : listener'[t] = "handing" <=> listener[t] = "handing"
    BY DEF TypeOK
  <2>2. Handing'
    BY <2>1 DEF Handing, Entries, Nothing
  <2>3. Queued'
    BY <1>2, Entered DEF Queued
  <2>4. QED
    BY <2>2, <2>3
<1>5. Requests' /\ Counted' /\ Remembered' /\ HandedOnce'
  BY DEF Requests, Counted, Busy, Remembered, HandedOnce, NoRequest
<1>6. QED
  BY <1>1, <1>3, <1>4, <1>5

-----------------------------------------------------------------------------
(* The webhook: what is counted of the requests.                           *)
LEMMA PostStep ==
  ASSUME IInv, NEW h \in Handlers, NEW n \in Notifications, Post(h, n) PROVE IInv'
<1>. USE DEF IInv, Post, listening, feedback, seeing
<1>1. TypeOK'
  <2>1. request' \in [Handlers -> [body : Notifications \cup {Idle}, session : {0} \cup Sessions,
                                   pc : {"none", "read"}]]
    BY DEF TypeOK
  <2>2. posts' \in 0 .. MaxPosts /\ enqueued' \in 0 .. posts'
    BY Entered DEF TypeOK
  <2>3. QED
    BY <2>1, <2>2 DEF TypeOK, Entries
<1>2. OneSession'
  <2>1. \A g \in Handlers : request'[g].session = IF g = h THEN events ELSE request[g].session
    BY DEF TypeOK
  <2>2. events <= started
    <3>1. CASE events = 0
      BY <3>1, Entered
    <3>2. CASE events \in Sessions
      <4>1. listener[events] # "none"
        BY <3>2 DEF OneSession
      <4>2. QED
        BY <3>2, <4>1, Entered DEF OneSession
    <3>3. QED
      BY <3>1, <3>2 DEF TypeOK
  <2>3. QED
    BY <2>1, <2>2 DEF OneSession
<1>3. Handing' /\ Queued'
  BY <1>2 DEF Handing, Queued, Entries, Nothing
<1>4. Requests'
  BY DEF Requests, TypeOK
<1>5. Counted'
  <2>1. Busy' = Busy \cup {h}
    BY DEF Busy, TypeOK
  <2>2. IsFiniteSet(Busy) /\ h \notin Busy
    BY DEF Counted, Busy, NoRequest
  <2>3. IsFiniteSet(Busy') /\ Cardinality(Busy') = Cardinality(Busy) + 1
    BY <2>1, <2>2, FS_AddElement
  <2>4. Cardinality(Busy) \in Nat
    BY <2>2, FS_CardinalityType
  <2>5. QED
    BY <2>3, <2>4, Entered DEF Counted
<1>6. Remembered' /\ HandedOnce'
  BY DEF Remembered, HandedOnce
<1>7. QED
  BY <1>1, <1>2, <1>3, <1>4, <1>5, <1>6

(* An answered request was one of those counted.                           *)
LEMMA Answered ==
  ASSUME IInv, NEW h \in Handlers, NEW ack \in BOOLEAN, Answer(h, ack), request[h].pc = "read",
         posts' = posts
  PROVE  /\ Counted' /\ enqueued' = (IF ack THEN enqueued + 1 ELSE enqueued)
         /\ enqueued < posts /\ enqueued' \in 0 .. posts'
<1>1. Busy' = Busy \ {h} /\ h \in Busy
  BY DEF IInv, Busy, TypeOK, Answer, NoRequest
<1>2. /\ IsFiniteSet(Busy') /\ Cardinality(Busy') = Cardinality(Busy) - 1
      /\ Cardinality(Busy') \in Nat /\ Cardinality(Busy) \in Nat
  <2>1. IsFiniteSet(Busy)
    BY DEF IInv, Counted
  <2>2. IsFiniteSet(Busy') /\ Cardinality(Busy') = Cardinality(Busy) - 1
    BY <1>1, <2>1, FS_RemoveElement
  <2>3. QED
    BY <2>1, <2>2, FS_CardinalityType
<1>3. QED
  BY <1>2, Entered DEF IInv, Counted, Answer

\* The handler puts an update at the end of the queue.
LEMMA EnqueueStep == ASSUME IInv, NEW h \in Handlers, Enqueue(h) PROVE IInv'
<1>. DEFINE s == request[h].session
            e == [body |-> request[h].body, number |-> enqueued + 1]
<1>0. TypeOK /\ OneSession /\ Requests /\ Handing /\ Queued /\ Remembered /\ HandedOnce
  BY DEF IInv
<1>1. /\ Counted' /\ enqueued' = enqueued + 1 /\ enqueued < posts /\ enqueued' \in 0 .. posts'
  BY Answered DEF Enqueue
<1>2. /\ s \in Sessions /\ s <= started /\ s \in Nat /\ Len(queue[s]) < EventBuffer
      /\ request[h].body \in Notifications \ outdated /\ request[h].pc = "read"
  BY <1>0, Entered DEF Enqueue, OneSession, Requests
<1>3. Entries \subseteq Entries' /\ e \in Entries'
  BY <1>0, <1>1, <1>2, Entered DEF Entries
<1>4. \A t \in Sessions : queue[t] \in Seq(Entries')
  BY <1>0, <1>3, SeqMonotonic, Entered
<1>5. /\ queue' = [queue EXCEPT ![s] = Append(queue[s], e)]
      /\ request' = [request EXCEPT ![h] = NoRequest]
      /\ acked' = acked \cup {<<request[h].body, s>>}
  BY DEF Enqueue, Answer
<1>6. e.number = enqueued + 1 /\ e.body \notin outdated
  BY <1>2
<1>. HIDE DEF e, s
<1>7. queue'[s] = Append(queue[s], e) /\ \A t \in Sessions : t # s => queue'[t] = queue[t]
  BY <1>0, <1>2, <1>5 DEF TypeOK
<1>8. /\ \A i \in DOMAIN queue'[s] : i \in DOMAIN queue[s] \/ i = Len(queue[s]) + 1
      /\ \A i \in DOMAIN queue[s] : queue'[s][i] = queue[s][i]
      /\ queue'[s][Len(queue[s]) + 1] = e
      /\ \A i \in DOMAIN queue[s] : i < Len(queue[s]) + 1 /\ i \in Int
      /\ Len(queue[s]) \in Nat /\ queue'[s] \in Seq(Entries') /\ Len(queue'[s]) = Len(queue[s]) + 1
  BY <1>2, <1>3, <1>4, <1>7, Longer
<1>9. TypeOK'
  <2>1. queue' \in [Sessions -> Seq(Entries')]
    <3>1. Append(queue[s], e) \in Seq(Entries') /\ DOMAIN queue = Sessions
      BY <1>0, <1>7, <1>8 DEF TypeOK
    <3>2. QED
      <4>. DEFINE Q == Seq(Entries')
      <4>1. queue \in [Sessions -> Q] /\ Append(queue[s], e) \in Q
        <5>1. queue = [t \in Sessions |-> queue[t]]
          BY <1>0 DEF TypeOK
        <5>2. QED
          BY <1>4, <3>1, <5>1
      <4>. HIDE DEF Q
      <4>2. queue' \in [Sessions -> Q]
        BY <1>5, <4>1
      <4>3. QED
        BY <4>2 DEF Q
  <2>2. \A t \in Sessions : Len(queue'[t]) <= EventBuffer
    <3>1. \A t \in Sessions : Len(queue[t]) <= EventBuffer
      BY <1>0 DEF TypeOK
    <3>2. Len(queue'[s]) <= EventBuffer
      BY <1>2, <1>8
    <3>3. QED
      BY <1>7, <3>1, <3>2
  <2>3. current' \in [Sessions -> Entries' \cup {Nothing}] /\ handed' \in Seq(Entries')
    BY <1>0, <1>3, SeqMonotonic DEF TypeOK, Enqueue
  <2>4. request' \in [Handlers -> [body : Notifications \cup {Idle}, session : {0} \cup Sessions,
                                   pc : {"none", "read"}]]
    BY <1>0, <1>5 DEF TypeOK, NoRequest
  <2>5. acked' \subseteq Notifications \X Sessions
    BY <1>0, <1>2, <1>5 DEF TypeOK
  <2>6. QED
    BY <1>0, <1>1, <2>1, <2>2, <2>3, <2>4, <2>5
    DEF TypeOK, Enqueue, listening, feedback, seeing, Nothing
<1>10. OneSession'
  <2>1. \A g \in Handlers : request'[g].session = IF g = h THEN 0 ELSE request[g].session
    BY <1>0, <1>5 DEF TypeOK, NoRequest
  <2>2. \A t \in Sessions : t > started => queue'[t] = queue[t]
    BY <1>0, <1>2, <1>7, Entered
  <2>3. QED
    <3>1. UNCHANGED <<events, started, listener>>
      BY DEF Enqueue, listening
    <3>2. /\ \A t \in Sessions : listener[t] \in {"waiting", "handing"} <=> t = events
          /\ \A t \in Sessions : t > started => listener[t] = "none" /\ queue[t] = <<>>
          /\ \A g \in Handlers : request[g].session <= started
      BY <1>0 DEF OneSession
    <3>3. 0 <= started
      BY <1>0, Entered
    <3>4. \A t \in Sessions : t > started => listener[t] = "none" /\ queue'[t] = <<>>
      BY <2>2, <3>2
    <3>5. \A g \in Handlers : request'[g].session <= started
      BY <2>1, <3>2, <3>3
    <3>6. QED
      BY <3>1, <3>2, <3>4, <3>5 DEF OneSession
<1>11. Requests'
  BY <1>0, <1>5 DEF Requests, TypeOK, NoRequest, Enqueue, seeing
<1>12. /\ \A t \in Sessions : \A i \in DOMAIN queue[t] : queue[t][i].number \in 1 .. enqueued
       /\ \A i \in DOMAIN handed : handed[i].number \in 1 .. enqueued
       /\ enqueued \in Nat
  BY <1>0, Entered DEF Entries
<1>13. \A i \in DOMAIN queue'[s] : \/ i \in DOMAIN queue[s] /\ queue'[s][i] = queue[s][i]
                                   \/ i = Len(queue[s]) + 1 /\ queue'[s][i].number = enqueued + 1
  BY <1>6, <1>8
<1>14. Handing'
  <2>. SUFFICES ASSUME NEW t \in Sessions, listener[t] = "handing"
                PROVE  /\ current[t] \in Entries'
                       /\ \A i \in DOMAIN queue'[t] : current[t].number < queue'[t][i].number
    BY <1>0 DEF Handing, Nothing, Enqueue, listening, seeing
  <2>1. current[t] \in Entries /\ current[t].number \in 1 .. enqueued
    BY <1>0 DEF Handing, Entries
  <2>2. \A i \in DOMAIN queue[t] : current[t].number < queue[t][i].number
    BY <1>0 DEF Handing
  <2>3. \A i \in DOMAIN queue'[t] : current[t].number < queue'[t][i].number
    <3>1. CASE t = s
      BY <1>12, <1>13, <2>1, <2>2, <3>1
    <3>2. CASE t # s
      BY <1>7, <2>2, <3>2
    <3>3. QED
      BY <3>1, <3>2
  <2>4. QED
    BY <1>3, <2>1, <2>3
<1>15. Queued'
  <2>. SUFFICES ASSUME NEW t \in Sessions
                PROVE  /\ \A i \in DOMAIN queue'[t] : queue'[t][i].body \notin outdated
                       /\ \A i, j \in DOMAIN queue'[t] :
                            i < j => queue'[t][i].number < queue'[t][j].number
                       /\ t = events =>
                            \A i \in DOMAIN queue'[t], j \in DOMAIN handed :
                              handed[j].number < queue'[t][i].number
    BY DEF Queued, Enqueue, listening, seeing
  <2>0. /\ \A i \in DOMAIN queue[t] : queue[t][i].body \notin outdated
        /\ \A i, j \in DOMAIN queue[t] : i < j => queue[t][i].number < queue[t][j].number
        /\ t = events => \A i \in DOMAIN queue[t], j \in DOMAIN handed :
                           handed[j].number < queue[t][i].number
    BY <1>0 DEF Queued
  <2>1. CASE t # s
    BY <1>7, <2>0, <2>1
  <2>2. CASE t = s
    <3>1. \A i \in DOMAIN queue'[t] : queue'[t][i].body \notin outdated
      BY <1>6, <1>8, <2>0, <2>2
    <3>2. ASSUME NEW i \in DOMAIN queue'[t], NEW j \in DOMAIN queue'[t], i < j
          PROVE  queue'[t][i].number < queue'[t][j].number
      <4>1. i \in DOMAIN queue[t] /\ queue'[t][i] = queue[t][i]
        BY <1>8, <1>13, <2>2, <3>2
      <4>2. CASE j \in DOMAIN queue[t]
        BY <1>8, <2>0, <2>2, <3>2, <4>1, <4>2
      <4>3. CASE queue'[t][j].number = enqueued + 1
        BY <1>12, <4>1, <4>3
      <4>4. QED
        BY <1>13, <2>2, <4>2, <4>3
    <3>3. t = events => \A i \in DOMAIN queue'[t], j \in DOMAIN handed :
                          handed[j].number < queue'[t][i].number
      BY <1>12, <1>13, <2>0, <2>2
    <3>4. QED
      BY <3>1, <3>2, <3>3
  <2>3. QED
    BY <2>1, <2>2
<1>16. Remembered' /\ HandedOnce'
  BY <1>0 DEF Remembered, HandedOnce, Enqueue, seeing
<1>17. QED
  BY <1>1, <1>9, <1>10, <1>11, <1>14, <1>15, <1>16 DEF IInv, Enqueue

\* A handler finds no listener, or its queue full: it answers an error.
LEMMA RefuseStep == ASSUME IInv, NEW h \in Handlers, Refuse(h) PROVE IInv'
<1>. USE DEF IInv, Refuse, listening, feedback, seeing
<1>1. /\ Counted' /\ enqueued' = enqueued
  BY Answered
<1>2. request' = [request EXCEPT ![h] = NoRequest] /\ acked' = acked
  BY DEF Answer
<1>3. TypeOK'
  BY <1>1, <1>2 DEF TypeOK, Entries, NoRequest
<1>4. OneSession'
  <2>1. \A g \in Handlers : request'[g].session \in {0, request[g].session}
    BY <1>2 DEF TypeOK, NoRequest
  <2>2. 0 <= started /\ UNCHANGED <<events, started, listener, queue>>
    BY Entered
  <2>3. \A g \in Handlers : request[g].session <= started
    BY DEF OneSession
  <2>4. \A g \in Handlers : request'[g].session <= started
    BY <2>1, <2>2, <2>3
  <2>5. QED
    BY <2>2, <2>4 DEF OneSession
<1>5. Requests'
  BY <1>2 DEF Requests, TypeOK, NoRequest
<1>6. Handing' /\ Queued'
  BY <1>1, <1>4 DEF Handing, Queued, Entries, Nothing
<1>7. Remembered' /\ HandedOnce'
  BY DEF Remembered, HandedOnce
<1>8. QED
  BY <1>1, <1>3, <1>4, <1>5, <1>6, <1>7

-----------------------------------------------------------------------------
(* A session that takes the first notification of its queue leaves the     *)
(* order of the others as it was, and what it took comes before them.      *)
LEMMA Taken ==
  ASSUME IInv, NEW s \in Sessions, queue[s] # <<>>, queue' = [queue EXCEPT ![s] = Tail(@)],
         UNCHANGED <<events, enqueued, outdated, handed>>
  PROVE  /\ queue' \in [Sessions -> Seq(Entries')] /\ \A t \in Sessions : Len(queue'[t]) <= EventBuffer
         /\ Entries' = Entries /\ Head(queue[s]) \in Entries /\ Head(queue[s]).body \notin outdated
         /\ \A i \in DOMAIN queue'[s] : Head(queue[s]).number < queue'[s][i].number
         /\ s = events => \A j \in DOMAIN handed : handed[j].number < Head(queue[s]).number
         /\ \A t \in Sessions : t # s => queue'[t] = queue[t]
         /\ \A t \in Sessions : queue[t] = <<>> => queue'[t] = <<>>
         /\ Queued'
<1>. DEFINE q == queue[s]
<1>0. TypeOK /\ Queued
  BY DEF IInv
<1>1. q \in Seq(Entries) /\ DOMAIN queue = Sessions
  BY <1>0 DEF TypeOK
<1>2. /\ Tail(q) \in Seq(Entries) /\ Len(Tail(q)) < Len(q) /\ 1 \in DOMAIN q
      /\ Head(q) = q[1] /\ Head(q) \in Entries
      /\ \A i \in DOMAIN Tail(q) :
           i + 1 \in DOMAIN q /\ 1 < i + 1 /\ i \in Int /\ Tail(q)[i] = q[i + 1]
  BY <1>1, Shorter
<1>3. queue'[s] = Tail(q) /\ \A t \in Sessions : t # s => queue'[t] = queue[t]
  BY <1>1
<1>4. queue' \in [Sessions -> Seq(Entries)] /\ Entries' = Entries
  <2>1. \A t \in Sessions : queue[t] \in Seq(Entries)
    BY <1>0 DEF TypeOK
  <2>2. Entries' = Entries
    BY DEF Entries
  <2>3. QED
    BY <1>1, <1>2, <2>1, <2>2
<1>5. \A t \in Sessions : Len(queue'[t]) <= EventBuffer
  <2>1. Len(Tail(q)) \in Nat /\ Len(q) \in Nat
    BY <1>1, <1>2, LenProperties
  <2>2. \A t \in Sessions : Len(queue[t]) <= EventBuffer
    BY <1>0 DEF TypeOK
  <2>3. QED
    BY <1>2, <1>3, <2>1, <2>2
<1>6. /\ \A i \in DOMAIN q : q[i].body \notin outdated
      /\ \A i, j \in DOMAIN q : i < j => q[i].number < q[j].number
      /\ s = events => \A i \in DOMAIN q, j \in DOMAIN handed : handed[j].number < q[i].number
  BY <1>0 DEF Queued
<1>. HIDE DEF q
<1>7. \A i \in DOMAIN queue'[s] : Head(q).number < queue'[s][i].number
  BY <1>2, <1>3, <1>6
<1>8. Queued'
  <2>. SUFFICES ASSUME NEW t \in Sessions
                PROVE  /\ \A i \in DOMAIN queue'[t] : queue'[t][i].body \notin outdated
                       /\ \A i, j \in DOMAIN queue'[t] :
                            i < j => queue'[t][i].number < queue'[t][j].number
                       /\ t = events =>
                            \A i \in DOMAIN queue'[t], j \in DOMAIN handed :
                              handed[j].number < queue'[t][i].number
    BY DEF Queued
  <2>1. CASE t # s
    BY <1>0, <1>3, <2>1 DEF Queued
  <2>2. CASE t = s
    <3>1. \A i, j \in DOMAIN queue'[s] : i < j => queue'[s][i].number < queue'[s][j].number
      <4>1. SUFFICES ASSUME NEW i \in DOMAIN Tail(q), NEW j \in DOMAIN Tail(q), i < j
                     PROVE  Tail(q)[i].number < Tail(q)[j].number
        BY <1>3
      <4>2. i \in Int /\ j \in Int /\ i + 1 \in DOMAIN q /\ j + 1 \in DOMAIN q
        BY <1>2
      <4>3. i + 1 < j + 1 /\ Tail(q)[i] = q[i + 1] /\ Tail(q)[j] = q[j + 1]
        BY <1>2, <4>1, <4>2
      <4>4. QED
        BY <1>6, <4>2, <4>3
    <3>2. \A i \in DOMAIN queue'[s] : queue'[s][i].body \notin outdated
      BY <1>2, <1>3, <1>6
    <3>3. s = events => \A i \in DOMAIN queue'[s], j \in DOMAIN handed :
                          handed[j].number < queue'[s][i].number
      BY <1>2, <1>3, <1>6
    <3>4. QED
      BY <2>2, <3>1, <3>2, <3>3
  <2>3. QED
    BY <2>1, <2>2
<1>9. /\ Head(q).body \notin outdated
      /\ s = events => \A j \in DOMAIN handed : handed[j].number < Head(q).number
  BY <1>2, <1>6
<1>10. \A t \in Sessions : queue[t] = <<>> => queue'[t] = <<>>
  BY <1>3
<1>11. QED
  BY <1>2, <1>3, <1>4, <1>5, <1>7, <1>8, <1>9, <1>10 DEF q

(* What is not of the sessions' goroutines stays as it is.                 *)
LEMMA WebUnchanged ==
  ASSUME IInv, UNCHANGED <<started, request, outdated, enqueued, posts>>
  PROVE  /\ Requests' /\ Counted' /\ \A h \in Handlers : request'[h].session <= started'
         /\ Entries' = Entries
  BY DEF IInv, Requests, Counted, Busy, OneSession, Entries, NoRequest

\* The listener skips a message it has seen.
LEMMA TakeDuplicateStep == ASSUME IInv, NEW s \in Sessions, TakeDuplicate(s) PROVE IInv'
<1>. USE DEF TakeDuplicate, listening, seeing, web
<1>0. TypeOK /\ OneSession /\ Handing /\ Remembered /\ HandedOnce
  BY DEF IInv
<1>1. /\ queue' \in [Sessions -> Seq(Entries')] /\ \A t \in Sessions : Len(queue'[t]) <= EventBuffer
      /\ Entries' = Entries /\ Queued'
      /\ \A t \in Sessions : t # s => queue'[t] = queue[t]
      /\ \A t \in Sessions : queue[t] = <<>> => queue'[t] = <<>>
  BY Taken
<1>2. Requests' /\ Counted' /\ \A h \in Handlers : request'[h].session <= started'
  BY WebUnchanged
<1>3. TypeOK'
  BY <1>0, <1>1 DEF TypeOK, feedback
<1>4. OneSession'
  BY <1>0, <1>1, <1>2 DEF OneSession
<1>5. Handing'
  BY <1>0, <1>1 DEF Handing, Nothing
<1>6. Remembered' /\ HandedOnce'
  BY <1>0 DEF Remembered, HandedOnce
<1>7. QED
  BY <1>1, <1>2, <1>3, <1>4, <1>5, <1>6 DEF IInv

(* A notification that was not seen is seen now, and nothing that Meta may *)
(* post is forgotten.                                                      *)
LEMMA FirstSeenRemembers ==
  ASSUME NEW n \in Notifications, FirstSeen(n)
  PROVE  /\ n \in seen' \cup outdated' /\ outdated' = outdated
         /\ seen \cup outdated \subseteq seen' \cup outdated'
         /\ seen' \subseteq seen \cup {n}
  BY DEF FirstSeen

\* The listener takes a message from its queue, and marks it as seen.
LEMMA TakeMessageStep == ASSUME IInv, NEW s \in Sessions, TakeMessage(s) PROVE IInv'
<1>. DEFINE n == Head(queue[s])
<1>0. TypeOK /\ OneSession /\ Handing /\ Remembered /\ HandedOnce
  BY DEF IInv
<1>1. /\ listener[s] = "waiting" /\ s = events /\ UNCHANGED <<events, started, cancelled, web, feedback, handed, abandoned>>
      /\ n.body \in Inbound \ seen /\ FirstSeen(n.body) /\ outdated' = outdated
      /\ current' = [current EXCEPT ![s] = n] /\ listener' = [listener EXCEPT ![s] = "handing"]
      /\ n.body \in seen' \cup outdated' /\ seen \cup outdated \subseteq seen' \cup outdated'
      /\ seen' \subseteq Notifications
  BY <1>0, FirstSeenRemembers DEF TakeMessage, OneSession, TypeOK
<1>2. /\ queue' \in [Sessions -> Seq(Entries')] /\ \A t \in Sessions : Len(queue'[t]) <= EventBuffer
      /\ Entries' = Entries /\ n \in Entries /\ n.body \notin outdated
      /\ \A i \in DOMAIN queue'[s] : n.number < queue'[s][i].number
      /\ \A j \in DOMAIN handed : handed[j].number < n.number
      /\ \A t \in Sessions : queue[t] = <<>> => queue'[t] = <<>>
      /\ Queued'
  BY <1>1, Taken DEF TakeMessage, web
<1>3. Requests' /\ Counted' /\ \A h \in Handlers : request'[h].session <= started'
  BY <1>1, WebUnchanged DEF web
<1>. HIDE DEF n
<1>4. TypeOK'
  <2>1. /\ current' \in [Sessions -> Entries' \cup {Nothing}]
        /\ listener' \in [Sessions -> {"none", "waiting", "handing", "closed"}]
    BY <1>0, <1>1, <1>2 DEF TypeOK
  <2>2. QED
    BY <1>0, <1>1, <1>2, <2>1 DEF TypeOK, web, feedback, Nothing
<1>5. \A t \in Sessions : listener[t] \in {"waiting", "handing"} => t = s
  BY <1>0, <1>1 DEF OneSession
<1>6. /\ listener'[s] = "handing" /\ current'[s] = n
      /\ \A t \in Sessions : t # s => listener'[t] = listener[t] /\ current'[t] = current[t]
  BY <1>0, <1>1 DEF TypeOK
<1>7. OneSession'
  BY <1>0, <1>1, <1>2, <1>3, <1>5, <1>6 DEF OneSession
<1>8. \A j \in DOMAIN handed : handed[j].body # n.body
  BY <1>0, <1>1, <1>2 DEF Remembered
<1>9. Handing'
  <2>1. \A t \in Sessions : t # s => listener'[t] # "handing" /\ current'[t] = Nothing
    BY <1>0, <1>5, <1>6 DEF Handing
  <2>2. QED
    BY <1>1, <1>2, <1>6, <1>8, <2>1 DEF Handing, Nothing
<1>10. Remembered' /\ HandedOnce'
  BY <1>0, <1>1 DEF Remembered, HandedOnce
<1>11. QED
  BY <1>1, <1>2, <1>3, <1>4, <1>7, <1>9, <1>10 DEF IInv

\* The listener takes a reaction from its queue, marks it as seen, and passes it on.
LEMMA TakeReactionStep == ASSUME IInv, NEW s \in Sessions, TakeReaction(s) PROVE IInv'
<1>. DEFINE n == Head(queue[s])
<1>0. TypeOK /\ OneSession /\ Handing /\ Remembered /\ HandedOnce
  BY DEF IInv
<1>1. /\ UNCHANGED <<listening, current, web, reacting, handed, abandoned>>
      /\ n.body \in Reactions \ seen /\ outdated' = outdated
      /\ reactions' = IF reacting /\ Len(reactions) < ReactionBuffer
                      THEN Append(reactions, n.body) ELSE reactions
      /\ reacted' = reacted \cup {n.body}
      /\ seen \cup outdated \subseteq seen' \cup outdated' /\ seen' \subseteq Notifications
  BY <1>0, FirstSeenRemembers DEF TakeReaction, TypeOK
<1>2. /\ queue' \in [Sessions -> Seq(Entries')] /\ \A t \in Sessions : Len(queue'[t]) <= EventBuffer
      /\ Entries' = Entries /\ Queued'
      /\ \A t \in Sessions : t # s => queue'[t] = queue[t]
      /\ \A t \in Sessions : queue[t] = <<>> => queue'[t] = <<>>
  BY <1>1, Taken DEF TakeReaction, web, listening
<1>3. Requests' /\ Counted' /\ \A h \in Handlers : request'[h].session <= started'
  BY <1>1, WebUnchanged DEF web, listening
<1>. HIDE DEF n
<1>4. TypeOK'
  <2>1. reactions' \in Seq(Reactions) /\ Len(reactions') <= ReactionBuffer
    <3>1. reactions \in Seq(Reactions) /\ Len(reactions) \in Nat /\ Len(reactions) <= ReactionBuffer
      BY <1>0, LenProperties DEF TypeOK
    <3>2. Append(reactions, n.body) \in Seq(Reactions) /\ Len(Append(reactions, n.body)) = Len(reactions) + 1
      BY <1>1, <3>1, Longer
    <3>3. QED
      BY <1>1, <3>1, <3>2
  <2>2. QED
    BY <1>0, <1>1, <1>2, <2>1 DEF TypeOK, web, listening, Nothing
<1>5. OneSession'
  BY <1>0, <1>1, <1>2, <1>3 DEF OneSession, listening
<1>6. Handing'
  <2>1. listener[s] # "handing"
    BY DEF TakeReaction
  <2>2. QED
    BY <1>0, <1>1, <1>2, <2>1 DEF Handing, Nothing, listening
<1>7. Remembered' /\ HandedOnce'
  BY <1>0, <1>1 DEF Remembered, HandedOnce
<1>8. QED
  BY <1>1, <1>2, <1>3, <1>4, <1>5, <1>6, <1>7 DEF IInv

\* The application takes the message the listener offers.
LEMMA HandoverStep == ASSUME IInv, NEW s \in Sessions, Handover(s) PROVE IInv'
<1>. DEFINE n == current[s]
<1>0. TypeOK /\ OneSession /\ Handing /\ Remembered /\ HandedOnce /\ Queued
  BY DEF IInv
<1>1. /\ listener[s] = "handing" /\ s = events
      /\ UNCHANGED <<events, started, cancelled, queue, seeing, web, feedback, abandoned>>
      /\ handed' = Append(handed, n)
      /\ current' = [current EXCEPT ![s] = Nothing] /\ listener' = [listener EXCEPT ![s] = "waiting"]
  BY <1>0 DEF Handover, OneSession
<1>2. /\ n \in Entries /\ n.body \in Inbound /\ n.body \in seen \cup outdated
      /\ \A i \in DOMAIN handed : handed[i].number < n.number /\ handed[i].body # n.body
      /\ \A i \in DOMAIN queue[s] : n.number < queue[s][i].number
  BY <1>0, <1>1 DEF Handing
<1>3. Requests' /\ Counted' /\ (\A h \in Handlers : request'[h].session <= started') /\ Entries' = Entries
  BY <1>1, WebUnchanged DEF web, seeing
<1>. HIDE DEF n
<1>4. /\ \A i \in DOMAIN handed' : i \in DOMAIN handed \/ i = Len(handed) + 1
      /\ \A i \in DOMAIN handed : handed'[i] = handed[i]
      /\ handed'[Len(handed) + 1] = n
      /\ \A i \in DOMAIN handed : i < Len(handed) + 1 /\ i \in Int
      /\ Len(handed) \in Nat /\ handed' \in Seq(Entries)
  <2>1. handed \in Seq(Entries)
    BY <1>0 DEF TypeOK
  <2>2. QED
    BY <1>1, <1>2, <2>1, Longer
<1>5. TypeOK'
  <2>1. /\ current' \in [Sessions -> Entries \cup {Nothing}]
        /\ listener' \in [Sessions -> {"none", "waiting", "handing", "closed"}]
    BY <1>0, <1>1, <1>2 DEF TypeOK
  <2>2. QED
    BY <1>0, <1>1, <1>3, <1>4, <2>1 DEF TypeOK, web, feedback, seeing, Nothing
<1>6. /\ listener'[s] = "waiting" /\ current'[s] = Nothing
      /\ \A t \in Sessions : t # s => listener'[t] = listener[t] /\ current'[t] = current[t]
  BY <1>0, <1>1 DEF TypeOK
<1>7. OneSession'
  BY <1>0, <1>1, <1>3, <1>6 DEF OneSession
<1>8. Handing'
  <2>1. \A t \in Sessions : t # s => listener'[t] # "handing" /\ current'[t] = Nothing
    BY <1>0, <1>1, <1>6 DEF Handing, OneSession
  <2>2. QED
    BY <1>6, <2>1 DEF Handing, Nothing
<1>9. Queued'
  <2>1. \A i \in DOMAIN queue[s], j \in DOMAIN handed' : handed'[j].number < queue[s][i].number
    BY <1>0, <1>1, <1>2, <1>4 DEF Queued
  <2>2. QED
    BY <1>0, <1>1, <2>1 DEF Queued, seeing
<1>10. Remembered'
  BY <1>0, <1>1, <1>2, <1>4 DEF Remembered, seeing
<1>11. HandedOnce'
  <2>. SUFFICES ASSUME NEW i \in DOMAIN handed', NEW j \in DOMAIN handed', handed'[i].body = handed'[j].body
                PROVE  i = j
    BY DEF HandedOnce
  <2>1. CASE i \in DOMAIN handed /\ j \in DOMAIN handed
    BY <1>0, <1>4, <2>1 DEF HandedOnce
  <2>2. QED
    BY <1>2, <1>4, <2>1
<1>12. \A i, j \in DOMAIN handed' : i < j => handed'[i].number < handed'[j].number
  <2>. SUFFICES ASSUME NEW i \in DOMAIN handed', NEW j \in DOMAIN handed', i < j
                PROVE  handed'[i].number < handed'[j].number
    OBVIOUS
  <2>1. i \in DOMAIN handed
    BY <1>4
  <2>2. CASE j \in DOMAIN handed
    BY <1>4, <2>1, <2>2 DEF IInv
  <2>3. CASE j = Len(handed) + 1
    BY <1>2, <1>4, <2>1, <2>3
  <2>4. QED
    BY <1>4, <2>2, <2>3
<1>13. QED
  BY <1>3, <1>5, <1>7, <1>8, <1>9, <1>10, <1>11, <1>12 DEF IInv

\* A listener whose context ended gives up the message it offers.
LEMMA AbandonStep == ASSUME IInv, NEW s \in Sessions, Abandon(s) PROVE IInv'
<1>0. TypeOK /\ OneSession /\ Handing /\ Remembered /\ HandedOnce /\ Queued
  BY DEF IInv
<1>1. /\ listener[s] = "handing" /\ s = events
      /\ UNCHANGED <<events, started, cancelled, queue, seeing, web, feedback, handed>>
      /\ abandoned' = abandoned \cup {current[s].body}
      /\ current' = [current EXCEPT ![s] = Nothing] /\ listener' = [listener EXCEPT ![s] = "waiting"]
  BY <1>0 DEF Abandon, OneSession
<1>2. current[s].body \in Inbound
  BY <1>0, <1>1 DEF Handing
<1>3. Requests' /\ Counted' /\ (\A h \in Handlers : request'[h].session <= started') /\ Entries' = Entries
  BY <1>1, WebUnchanged DEF web, seeing
<1>4. TypeOK'
  <2>1. /\ current' \in [Sessions -> Entries \cup {Nothing}]
        /\ listener' \in [Sessions -> {"none", "waiting", "handing", "closed"}]
    BY <1>0, <1>1 DEF TypeOK
  <2>2. QED
    BY <1>0, <1>1, <1>2, <1>3, <2>1 DEF TypeOK, web, feedback, seeing, Nothing
<1>5. /\ listener'[s] = "waiting" /\ current'[s] = Nothing
      /\ \A t \in Sessions : t # s => listener'[t] = listener[t] /\ current'[t] = current[t]
  BY <1>0, <1>1 DEF TypeOK
<1>6. OneSession'
  BY <1>0, <1>1, <1>3, <1>5 DEF OneSession
<1>7. Handing'
  <2>1. \A t \in Sessions : t # s => listener'[t] # "handing" /\ current'[t] = Nothing
    BY <1>0, <1>1, <1>5 DEF Handing, OneSession
  <2>2. QED
    BY <1>5, <2>1 DEF Handing, Nothing
<1>8. Queued' /\ Remembered' /\ HandedOnce'
  BY <1>0, <1>1 DEF Queued, Remembered, HandedOnce, seeing
<1>9. QED
  BY <1>1, <1>3, <1>4, <1>6, <1>7, <1>8 DEF IInv

-----------------------------------------------------------------------------
(* Who listens to reactions has no part in it.                             *)
LEMMA ReactionSteps ==
  ASSUME IInv, ListenReactions \/ EndReactions \/ ReadReaction PROVE IInv'
<1>1. UNCHANGED <<listening, queue, current, seeing, web, reacted, handed, abandoned>>
  BY DEF ListenReactions, EndReactions, ReadReaction
<1>2. reacting' \in BOOLEAN /\ reactions' \in Seq(Reactions) /\ Len(reactions') <= ReactionBuffer
  <2>1. reactions \in Seq(Reactions) /\ Len(reactions) <= ReactionBuffer /\ reacting \in BOOLEAN
    BY DEF IInv, TypeOK
  <2>2. reactions # <<>> =>
          Tail(reactions) \in Seq(Reactions) /\ Len(Tail(reactions)) <= ReactionBuffer
    <3>1. Len(reactions) \in Nat
      BY <2>1, LenProperties
    <3>2. reactions # <<>> => Tail(reactions) \in Seq(Reactions) /\ Len(Tail(reactions)) < Len(reactions)
      BY <2>1, Shorter
    <3>3. reactions # <<>> => Len(Tail(reactions)) \in Nat
      BY <3>2, LenProperties
    <3>4. QED
      BY <2>1, <3>1, <3>2, <3>3
  <2>3. <<>> \in Seq(Reactions) /\ Len(<<>>) <= ReactionBuffer
    BY EmptySeq
  <2>4. QED
    BY <2>1, <2>2, <2>3 DEF ListenReactions, EndReactions, ReadReaction
<1>3. Requests' /\ Counted' /\ (\A h \in Handlers : request'[h].session <= started') /\ Entries' = Entries
  BY <1>1, WebUnchanged DEF web, seeing, listening
<1>4. TypeOK' /\ OneSession' /\ Handing' /\ Queued' /\ Remembered' /\ HandedOnce'
  BY <1>1, <1>2, <1>3
  DEF IInv, TypeOK, OneSession, Handing, Queued, Remembered, HandedOnce, web, seeing, listening, Nothing
<1>5. QED
  BY <1>1, <1>3, <1>4 DEF IInv

(* What Meta no longer posts again is on its way nowhere.                  *)
LEMMA OutdateStep == ASSUME IInv, NEW n \in Notifications, Outdate(n) PROVE IInv'
<1>. USE DEF Outdate, listening, web, feedback
<1>1. Counted' /\ Entries' = Entries
  BY DEF IInv, Counted, Busy, Entries
<1>2. TypeOK' /\ OneSession' /\ HandedOnce'
  BY <1>1 DEF IInv, TypeOK, OneSession, HandedOnce, Nothing
<1>3. Requests' /\ Handing' /\ Queued' /\ Remembered'
  BY <1>1 DEF IInv, Requests, Handing, Queued, Remembered, NoRequest, Nothing
<1>4. QED
  BY <1>1, <1>2, <1>3 DEF IInv

-----------------------------------------------------------------------------
\* Every initial state satisfies the invariant.
LEMMA InitHolds == Init => IInv
<1>. SUFFICES ASSUME Init PROVE IInv
  OBVIOUS
<1>. USE DEF Init, Nothing, NoRequest
<1>1. Busy = {}
  BY DEF Busy
<1>2. Counted
  BY <1>1, FS_EmptySet DEF Counted
<1>3. TypeOK
  <2>1. queue \in [Sessions -> Seq(Entries)] /\ \A s \in Sessions : Len(queue[s]) <= EventBuffer
    BY EmptySeq
  <2>2. handed \in Seq(Entries) /\ reactions \in Seq(Reactions) /\ Len(reactions) <= ReactionBuffer
    BY EmptySeq
  <2>3. /\ events \in {0} \cup Sessions /\ started \in {0} \cup Sessions /\ cancelled \subseteq 1 .. started
        /\ listener \in [Sessions -> {"none", "waiting", "handing", "closed"}]
        /\ current \in [Sessions -> Entries \cup {Nothing}]
        /\ outdated \cup seen \subseteq Notifications
        /\ request \in [Handlers -> [body : Notifications \cup {Idle}, session : {0} \cup Sessions,
                                     pc : {"none", "read"}]]
    OBVIOUS
  <2>4. posts \in 0 .. MaxPosts /\ enqueued \in 0 .. posts
    <3>1. MaxPosts \in Nat
      BY Zenon
    <3>2. QED
      BY <3>1
  <2>5. /\ acked \subseteq Notifications \X Sessions
        /\ reacting \in BOOLEAN /\ reacted \subseteq Reactions /\ abandoned \subseteq Inbound
    OBVIOUS
  <2>6. QED
    BY <2>1, <2>2, <2>3, <2>4, <2>5, Zenon DEF TypeOK
<1>4. OneSession /\ Requests /\ Handing /\ Remembered /\ HandedOnce
  BY <1>3, Entered DEF OneSession, Requests, Handing, Remembered, HandedOnce
<1>5. Queued
  BY DEF Queued
<1>6. QED
  BY <1>2, <1>3, <1>4, <1>5 DEF IInv

\* Every step keeps the invariant: one case per action.
LEMMA NextKeeps == IInv /\ [Next]_vars => IInv'
<1>. SUFFICES ASSUME IInv, [Next]_vars PROVE IInv'
  OBVIOUS
<1>1. CASE UNCHANGED vars
  <2>1. UNCHANGED <<listening, queue, current, seeing, web, feedback, handed, abandoned>>
    BY <1>1 DEF vars
  <2>2. Requests' /\ Counted' /\ Entries' = Entries
    BY <2>1, WebUnchanged DEF web, seeing, listening
  <2>3. TypeOK' /\ OneSession' /\ Handing' /\ Queued' /\ Remembered' /\ HandedOnce'
    BY <2>1, <2>2 DEF IInv, TypeOK, OneSession, Handing, Queued, Remembered, HandedOnce,
                      web, seeing, listening, feedback, Nothing
  <2>4. QED
    BY <2>1, <2>2, <2>3 DEF IInv
<1>2. CASE Listen
  BY <1>2, ListenStep
<1>3. ASSUME NEW s \in Sessions, Cancel(s) \/ Leave(s) PROVE IInv'
  BY <1>3, CancelStep, LeaveStep
<1>4. ASSUME NEW s \in Sessions, Process(s) \/ Abandon(s) PROVE IInv'
  BY <1>4, TakeDuplicateStep, TakeMessageStep, TakeReactionStep, HandoverStep, AbandonStep DEF Process
<1>5. ASSUME NEW h \in Handlers, Enqueue(h) \/ Refuse(h) \/ \E n \in Notifications : Post(h, n)
      PROVE  IInv'
  BY <1>5, EnqueueStep, RefuseStep, PostStep
<1>6. CASE ListenReactions \/ EndReactions \/ ReadReaction
  BY <1>6, ReactionSteps
<1>7. CASE \E n \in Notifications : Outdate(n)
  BY <1>7, OutdateStep
<1>8. QED
  BY <1>1, <1>2, <1>3, <1>4, <1>5, <1>6, <1>7 DEF Next

\* The inductive invariant of the webhook, for every number of handlers and sessions.
THEOREM Invariance == Spec => []IInv
<1>. QED
  BY InitHolds, NextKeeps, PTL DEF Spec

(* A message is handed to the application once, however often and to       *)
(* however many requests Meta posts it, and in whichever session: what was *)
(* handed over is remembered for as long as Meta may post it.              *)
THEOREM MessagesHandedOnce == Spec => []HandedOnce
<1>1. IInv => HandedOnce
  BY DEF IInv
<1>. QED
  BY <1>1, Invariance, PTL

(* Messages are handed over in the order of the queues, across sessions,   *)
(* and the variables have their types: one session at a time reads.        *)
THEOREM MessagesInOrder == Spec => []OrderKept
<1>1. IInv => OrderKept
  BY DEF IInv, OrderKept
<1>. QED
  BY <1>1, Invariance, PTL
====
