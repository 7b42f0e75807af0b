-------------------------- MODULE CloudOutboxProofs --------------------------
(* The outbox of the WhatsApp Cloud provider, for every number of          *)
(* messages, size of the outbox and number of attempts.                    *)
EXTENDS CloudOutbox, TLAPS, SequenceTheorems, FiniteSetTheorems

USE OutboxAssumption DEF Actors, Identifiers

InOrder(queue) == \A i, j \in DOMAIN queue : i < j => queue[i].number < queue[j].number
OnceEach(queue) == \A i, j \in DOMAIN queue : queue[i].message = queue[j].message => i = j
Within(m, queue) == \E i \in DOMAIN queue : queue[i].message = m

\* Where a goroutine may stand, and what it holds there.
Standing ==
  /\ \A m \in Messages : pc[m] \in {"new", "deliver", "track", "hold", "template", "ok", "error"}
  /\ pc[Listener] \in {"idle", "flush", "flushing", "handover", "hold", "template"}
  /\ refused # Nobody <=> pc[Listener] \in {"hold", "template"}
  /\ pc[Listener] # "flushing" => flushing = <<>>

\* An identifier through which its message may still reach the user whole, or
\* come back to be held: WhatsApp has it, or its refusal would be handled.
Live(id) ==
  verdict[id] \in {"none", "delivered"} \/ id \in inflight \/ pc[sent[id]] = "track"

\* The hands a message may be in.
Unsent(m) == pc[m] \in {"new", "deliver", "hold"}
WithListener(m) == pc[Listener] = "hold" /\ refused = m
WithWhatsapp(m) == \E id \in Identifiers : sent[id] = m /\ Live(id)

\* No message is in two hands, nor twice in one.
OneHand ==
  /\ OnceEach(outbox) /\ OnceEach(flushing)
  /\ \A i, j \in Identifiers : Live(i) /\ Live(j) /\ sent[i] = sent[j] => i = j
  /\ \A m \in Messages :
       /\ Unsent(m) => /\ ~WithListener(m) /\ ~Within(m, outbox) /\ ~Within(m, flushing)
                       /\ ~WithWhatsapp(m)
       /\ WithListener(m) => ~Within(m, outbox) /\ ~Within(m, flushing) /\ ~WithWhatsapp(m)
       /\ WithWhatsapp(m) => ~Within(m, outbox) /\ ~Within(m, flushing)
       /\ Within(m, outbox) => ~Within(m, flushing)

\* WhatsApp has nothing of a message its Send has yet to deliver, and a Send
\* that has yet to track its identifier knows the only one there is.
Tracking ==
  \A m \in Messages :
    /\ pc[m] \in {"new", "deliver"} => \A id \in Identifiers : sent[id] # m
    /\ pc[m] = "track" =>
         /\ identifier[m] \in Identifiers \ inflight /\ sent[identifier[m]] = m
         /\ \A id \in Identifiers : sent[id] = m => id = identifier[m]

\* What was sent without error is somewhere, or is known to be gone.
Traced ==
  \A m \in Messages : pc[m] \in {"track", "template", "ok"} =>
    \/ Within(m, outbox) \/ Within(m, flushing) \/ WithListener(m)
    \/ \E id \in Identifiers : sent[id] = m /\ verdict[id] \in {"none", "delivered", "failed"}
    \/ gone[m] # "no"

\* A template is on its way, or was accepted, for what is held back.
Invited ==
  outbox # <<>> => \/ inviting = {} /\ invited = 1
                   \/ invited = 0 /\ \E a \in Actors : inviting = {a}

\* What is being flushed was held back before what is held back now.
Ordered ==
  /\ InOrder(flushing) /\ InOrder(outbox)
  /\ \A i \in DOMAIN flushing, j \in DOMAIN outbox : flushing[i].number < outbox[j].number
  /\ pc[Listener] \in {"flushing", "handover"} => \A i \in DOMAIN outbox : outbox[i].number > mark

IInv ==
  TypeOK /\ Standing /\ OneHand /\ Tracking /\ Traced /\ Invited /\ Ordered

-----------------------------------------------------------------------------
(* The end of a sequence.                                                  *)
LEMMA Suffix ==
  ASSUME NEW S, NEW seq \in Seq(S), NEW k \in Nat, k <= Len(seq)
  PROVE  /\ SubSeq(seq, 1 + k, Len(seq)) \in Seq(S)
         /\ Len(SubSeq(seq, 1 + k, Len(seq))) = Len(seq) - k
         /\ \A i \in 1 .. (Len(seq) - k) : SubSeq(seq, 1 + k, Len(seq))[i] = seq[i + k]
<1>1. Len(seq) \in Nat /\ \A i \in (1 + k) .. Len(seq) : seq[i] \in S
  BY LenProperties, ElementOfSeq
<1>2. /\ SubSeq(seq, 1 + k, Len(seq)) \in Seq(S)
      /\ Len(SubSeq(seq, 1 + k, Len(seq))) = IF 1 + k <= Len(seq) THEN Len(seq) - (1 + k) + 1 ELSE 0
      /\ \A i \in 1 .. (Len(seq) - (1 + k) + 1) :
           SubSeq(seq, 1 + k, Len(seq))[i] = seq[(1 + k) + i - 1]
  <2>1. 1 + k \in Int /\ Len(seq) \in Int
    BY <1>1
  <2>2. QED
    BY <1>1, <2>1, SubSeqProperties
<1>3. \A i \in 1 .. (Len(seq) - k) : (1 + k) + i - 1 = i + k
  BY <1>1
<1>4. Len(seq) - (1 + k) + 1 = Len(seq) - k
  BY <1>1
<1>5. (IF 1 + k <= Len(seq) THEN Len(seq) - (1 + k) + 1 ELSE 0) = Len(seq) - k
  BY <1>1
<1>6. QED
  BY <1>2, <1>3, <1>4, <1>5

(* What the types say of the lists of messages.                            *)
LEMMA Listed ==
  ASSUME TypeOK
  PROVE  /\ Len(outbox) \in Nat /\ DOMAIN outbox = 1 .. Len(outbox) /\ outbox \in Seq(Entries)
         /\ \A i \in 1 .. Len(outbox) :
              outbox[i] \in Entries /\ outbox[i].message \in Messages /\ outbox[i].number \in 1 .. pushes
         /\ Len(flushing) \in Nat /\ DOMAIN flushing = 1 .. Len(flushing) /\ flushing \in Seq(Entries)
         /\ \A i \in 1 .. Len(flushing) :
              flushing[i] \in Entries /\ flushing[i].message \in Messages /\ flushing[i].number \in 1 .. pushes
         /\ Len(sent) \in Nat /\ DOMAIN sent = 1 .. Len(sent) /\ sent \in Seq(Messages)
         /\ \A id \in 1 .. Len(sent) : sent[id] \in Messages
         /\ pushes \in Nat /\ mark \in 0 .. pushes /\ expired \in 0 .. Len(outbox)
<1>1. /\ outbox \in Seq(Entries) /\ flushing \in Seq(Entries) /\ sent \in Seq(Messages)
      /\ pushes \in Nat /\ mark \in 0 .. pushes /\ expired \in 0 .. Len(outbox)
  BY DEF TypeOK
<1>2. /\ Len(outbox) \in Nat /\ DOMAIN outbox = 1 .. Len(outbox)
      /\ Len(flushing) \in Nat /\ DOMAIN flushing = 1 .. Len(flushing)
      /\ Len(sent) \in Nat /\ DOMAIN sent = 1 .. Len(sent)
  BY <1>1, LenProperties
<1>3. /\ \A i \in 1 .. Len(outbox) : outbox[i] \in Entries
      /\ \A i \in 1 .. Len(flushing) : flushing[i] \in Entries
      /\ \A i \in 1 .. Len(sent) : sent[i] \in Messages
  BY <1>1, ElementOfSeq
<1>4. \A e \in Entries : e.message \in Messages /\ e.number \in 1 .. pushes
  BY DEF Entries
<1>5. QED
  BY <1>1, <1>2, <1>3, <1>4

(* What is not past OutboxTTL is the end of the outbox.                    *)
LEMMA FreshIsSuffix ==
  ASSUME TypeOK
  PROVE  /\ Fresh \in Seq(Entries) /\ Len(Fresh) = Len(outbox) - expired
         /\ \A i \in 1 .. (Len(outbox) - expired) : Fresh[i] = outbox[i + expired]
         /\ \A m : m \in Outdated <=> \E i \in 1 .. expired : outbox[i].message = m
<1>1. expired \in Nat /\ expired <= Len(outbox)
  BY Listed
<1>2. /\ Fresh \in Seq(Entries) /\ Len(Fresh) = Len(outbox) - expired
      /\ \A i \in 1 .. (Len(outbox) - expired) : Fresh[i] = outbox[i + expired]
  <2>1. Fresh = SubSeq(outbox, 1 + expired, Len(outbox))
    <3>1. 1 + expired = expired + 1
      BY <1>1
    <3>2. QED
      BY <3>1 DEF Fresh
  <2>2. QED
    <3>1. outbox \in Seq(Entries)
      BY Listed
    <3>2. /\ SubSeq(outbox, 1 + expired, Len(outbox)) \in Seq(Entries)
          /\ Len(SubSeq(outbox, 1 + expired, Len(outbox))) = Len(outbox) - expired
          /\ \A i \in 1 .. (Len(outbox) - expired) :
               SubSeq(outbox, 1 + expired, Len(outbox))[i] = outbox[i + expired]
      BY <1>1, <3>1, Suffix
    <3>3. QED
      BY <2>1, <3>2
<1>3. \A m : m \in Outdated <=> \E i \in 1 .. expired : outbox[i].message = m
  <2>. DEFINE old == SubSeq(outbox, 1, expired)
  <2>1. \A i \in 1 .. expired : outbox[i] \in Entries
    BY <1>1, Listed
  <2>2. /\ old \in Seq(Entries) /\ Len(old) = IF 1 <= expired THEN expired - 1 + 1 ELSE 0
        /\ \A i \in 1 .. (expired - 1 + 1) : old[i] = outbox[1 + i - 1]
    BY <1>1, <2>1, SubSeqProperties
  <2>3. DOMAIN old = 1 .. Len(old)
    BY <2>2, LenProperties
  <2>. HIDE DEF old
  <2>4. DOMAIN old = 1 .. expired /\ \A i \in 1 .. expired : old[i] = outbox[i]
    BY <1>1, <2>2, <2>3
  <2>5. Outdated = {old[i].message : i \in DOMAIN old}
    BY DEF Outdated, MessagesOf, old
  <2>6. QED
    BY <2>4, <2>5
<1>4. QED
  BY <1>2, <1>3

-----------------------------------------------------------------------------
(* What push leaves of the outbox: all but the d oldest, which are known   *)
(* to be gone, and the new message after them.                             *)
LEMMA Pushed ==
  ASSUME TypeOK, NEW a \in Actors, NEW m \in Messages, PushOutbox(a, m)
  PROVE  \E d \in 0 .. Len(outbox) :
           /\ outbox' \in Seq(Entries') /\ Len(outbox') = Len(outbox) - d + 1 /\ Len(outbox') <= OutboxSize
           /\ outbox'[Len(outbox) - d + 1] = [message |-> m, number |-> pushes + 1]
           /\ \A i \in 1 .. (Len(outbox) - d) : outbox'[i] = outbox[i + d]
           /\ \A i \in 1 .. d : gone'[outbox[i].message] # "no"
           /\ \A x \in Messages : gone[x] # "no" => gone'[x] # "no"
           /\ gone' \in [Messages -> {"no", "size", "age", "reported", "discarded"}]
<1>. DEFINE e == [message |-> m, number |-> pushes + 1]
            q == Append(Fresh, e)
            k == IF Len(q) > OutboxSize THEN Len(q) - OutboxSize ELSE 0
            out == IF Len(q) > OutboxSize THEN {q[1].message} ELSE {}
            n == Len(outbox) - expired
<1>1. /\ Len(outbox) \in Nat /\ expired \in 0 .. Len(outbox) /\ Len(outbox) <= OutboxSize
      /\ n \in Nat /\ n <= OutboxSize /\ OutboxSize \in Nat \ {0}
  <2>1. /\ Len(outbox) \in Nat /\ expired \in 0 .. Len(outbox) /\ Len(outbox) <= OutboxSize
        /\ OutboxSize \in Nat \ {0}
    BY Listed DEF TypeOK
  <2>2. QED
    BY ONLY <2>1 DEF n
<1>2. Entries \subseteq Entries' /\ e \in Entries'
  <2>1. pushes' = pushes + 1 /\ pushes \in Nat
    BY Listed DEF PushOutbox
  <2>2. QED
    BY <2>1 DEF Entries
<1>3. /\ Fresh \in Seq(Entries') /\ Len(Fresh) = n
      /\ \A i \in 1 .. n : Fresh[i] = outbox[i + expired]
  BY <1>2, FreshIsSuffix, SeqMonotonic
<1>4. /\ outbox' = SubSeq(q, 1 + k, Len(q))
      /\ gone' = [x \in Messages |-> IF x \in out THEN "size" ELSE
                                     IF x \in Outdated THEN "age" ELSE gone[x]]
  BY DEF PushOutbox, Keep
<1>. HIDE DEF e
<1>5. /\ q \in Seq(Entries') /\ Len(q) = n + 1 /\ q[n + 1] = e
      /\ \A i \in 1 .. n : q[i] = outbox[i + expired]
  BY <1>2, <1>3, AppendProperties
<1>. HIDE DEF q
<1>6. (k = 0 \/ k = 1) /\ (k = 1 <=> n = OutboxSize) /\ k <= n /\ n + 1 - k <= OutboxSize
  BY <1>1, <1>5
<1>7. \A x : x \in out <=> k = 1 /\ x = outbox[1 + expired].message
  <2>1. CASE k = 1
    <3>1. 1 \in 1 .. n /\ out = {q[1].message}
      BY <1>1, <1>5, <1>6, <2>1
    <3>2. q[1] = outbox[1 + expired]
      BY <1>5, <3>1
    <3>3. QED
      BY <2>1, <3>1, <3>2
  <2>2. CASE k = 0
    BY <1>1, <1>5, <2>2
  <2>3. QED
    BY <1>6, <2>1, <2>2
<1>. HIDE DEF k, out
<1>8. /\ outbox' \in Seq(Entries') /\ Len(outbox') = n + 1 - k
      /\ \A i \in 1 .. (n + 1 - k) : outbox'[i] = q[i + k]
  <2>1. k \in Nat /\ k <= Len(q)
    BY <1>1, <1>5, <1>6
  <2>2. /\ outbox' \in Seq(Entries') /\ Len(outbox') = Len(q) - k
        /\ \A i \in 1 .. (Len(q) - k) : outbox'[i] = q[i + k]
    <3>1. q \in Seq(Entries')
      BY <1>5
    <3>2. /\ SubSeq(q, 1 + k, Len(q)) \in Seq(Entries') /\ Len(SubSeq(q, 1 + k, Len(q))) = Len(q) - k
          /\ \A i \in 1 .. (Len(q) - k) : SubSeq(q, 1 + k, Len(q))[i] = q[i + k]
      BY <2>1, <3>1, Suffix
    <3>3. QED
      BY <1>4, <3>2, Zenon
  <2>3. Len(q) - k = n + 1 - k
    BY <1>1, <1>5, <1>6
  <2>4. QED
    BY <2>2, <2>3
<1>. DEFINE d == expired + k
<1>9. d \in 0 .. Len(outbox) /\ Len(outbox) - d = n - k
  BY <1>1, <1>6
<1>10. Len(outbox') = Len(outbox) - d + 1 /\ Len(outbox') <= OutboxSize
  BY <1>1, <1>6, <1>8
<1>11. outbox'[Len(outbox) - d + 1] = e
  <2>1. Len(outbox) - d + 1 \in 1 .. (n + 1 - k) /\ (Len(outbox) - d + 1) + k = n + 1
    BY <1>1, <1>6
  <2>2. QED
    BY <1>5, <1>8, <2>1
<1>12. \A i \in 1 .. (Len(outbox) - d) : outbox'[i] = outbox[i + d]
  <2>. SUFFICES ASSUME NEW i \in 1 .. (Len(outbox) - d) PROVE outbox'[i] = outbox[i + d]
    OBVIOUS
  <2>1. i \in 1 .. (n + 1 - k) /\ i + k \in 1 .. n /\ (i + k) + expired = i + d
    BY <1>1, <1>6
  <2>2. QED
    BY <1>5, <1>8, <2>1
<1>13. \A i \in 1 .. d : gone'[outbox[i].message] # "no"
  <2>. SUFFICES ASSUME NEW i \in 1 .. d PROVE gone'[outbox[i].message] # "no"
    OBVIOUS
  <2>1. outbox[i].message \in Messages
    BY <1>9, Listed
  <2>2. CASE i <= expired
    BY <1>1, <1>4, <2>1, <2>2, FreshIsSuffix
  <2>3. CASE i = 1 + expired /\ k = 1
    BY <1>4, <1>7, <2>1, <2>3
  <2>4. QED
    BY <1>1, <1>6, <2>2, <2>3
<1>14. \A x \in Messages : gone[x] # "no" => gone'[x] # "no"
  BY <1>4
<1>15. gone' \in [Messages -> {"no", "size", "age", "reported", "discarded"}]
  BY <1>4 DEF TypeOK
<1>16. QED
  BY <1>8, <1>9, <1>10, <1>11, <1>12, <1>13, <1>14, <1>15 DEF e

(* What a push does to the hands: m is in the outbox, whoever was there    *)
(* and is not any more is known to be gone, and the order is kept.         *)
LEMMA PushedHands ==
  ASSUME TypeOK, NEW a \in Actors, NEW m \in Messages, PushOutbox(a, m),
         OnceEach(outbox), InOrder(outbox), ~Within(m, outbox)
  PROVE  /\ outbox' \in Seq(Entries') /\ Len(outbox') <= OutboxSize /\ outbox' # <<>>
         /\ OnceEach(outbox') /\ InOrder(outbox') /\ Within(m, outbox')
         /\ \A x : Within(x, outbox') => x = m \/ Within(x, outbox)
         /\ \A x \in Messages : Within(x, outbox) => Within(x, outbox') \/ gone'[x] # "no"
         /\ \A i \in DOMAIN outbox' : \/ outbox'[i].number = pushes + 1
                                     \/ \E j \in DOMAIN outbox : outbox'[i] = outbox[j]
         /\ \A x \in Messages : gone[x] # "no" => gone'[x] # "no"
         /\ gone' \in [Messages -> {"no", "size", "age", "reported", "discarded"}]
<1>1. PICK d \in 0 .. Len(outbox) :
         /\ outbox' \in Seq(Entries') /\ Len(outbox') = Len(outbox) - d + 1 /\ Len(outbox') <= OutboxSize
         /\ outbox'[Len(outbox) - d + 1] = [message |-> m, number |-> pushes + 1]
         /\ \A i \in 1 .. (Len(outbox) - d) : outbox'[i] = outbox[i + d]
         /\ \A i \in 1 .. d : gone'[outbox[i].message] # "no"
         /\ \A x \in Messages : gone[x] # "no" => gone'[x] # "no"
         /\ gone' \in [Messages -> {"no", "size", "age", "reported", "discarded"}]
  BY Pushed, Zenon
<1>. DEFINE n == Len(outbox) - d
<1>2. /\ Len(outbox) \in Nat /\ DOMAIN outbox = 1 .. Len(outbox) /\ n \in Nat /\ d \in Nat
      /\ \A i \in 1 .. Len(outbox) : outbox[i].number \in 1 .. pushes /\ outbox[i].message \in Messages
      /\ pushes \in Nat /\ n + d = Len(outbox)
  BY Listed
<1>3. DOMAIN outbox' = 1 .. (n + 1)
  BY <1>1, LenProperties
<1>4. /\ \A i \in 1 .. n : outbox'[i] = outbox[i + d] /\ i + d \in DOMAIN outbox
      /\ outbox'[n + 1].message = m /\ outbox'[n + 1].number = pushes + 1
      /\ \A i \in 1 .. d : gone'[outbox[i].message] # "no"
  BY <1>1, <1>2
<1>5. outbox' # <<>>
  BY <1>2, <1>3
<1>. HIDE DEF n
<1>6. \A i \in DOMAIN outbox' : i \in 1 .. n \/ i = n + 1
  BY <1>2, <1>3
<1>7. OnceEach(outbox')
  <2>1. \A i \in 1 .. n : outbox'[i].message # m
    BY <1>4 DEF Within
  <2>2. \A i, j \in 1 .. n : outbox'[i].message = outbox'[j].message => i = j
    <3>1. \A i, j \in 1 .. n : outbox'[i].message = outbox'[j].message => i + d = j + d
      BY <1>4 DEF OnceEach
    <3>2. QED
      BY <1>2, <3>1
  <2>3. QED
    BY <1>4, <1>6, <2>1, <2>2 DEF OnceEach
<1>8. InOrder(outbox')
  <2>. SUFFICES ASSUME NEW i \in DOMAIN outbox', NEW j \in DOMAIN outbox', i < j
                PROVE  outbox'[i].number < outbox'[j].number
    BY DEF InOrder
  <2>1. i \in 1 .. n
    BY <1>2, <1>3
  <2>2. CASE j \in 1 .. n
    <3>1. i + d < j + d
      BY <1>2, <2>1, <2>2
    <3>2. QED
      BY <1>4, <2>1, <2>2, <3>1 DEF InOrder
  <2>3. CASE j = n + 1
    <3>1. outbox'[i].number \in 1 .. pushes
      BY <1>2, <1>4, <2>1
    <3>2. QED
      BY <1>2, <1>4, <2>3, <3>1
  <2>4. QED
    BY <1>6, <2>2, <2>3
<1>9. Within(m, outbox')
  <2>1. n + 1 \in DOMAIN outbox'
    BY <1>2, <1>3
  <2>2. QED
    BY <1>4, <2>1 DEF Within
<1>10. \A x : Within(x, outbox') => x = m \/ Within(x, outbox)
  BY <1>4, <1>6 DEF Within
<1>11. \A x \in Messages : Within(x, outbox) => Within(x, outbox') \/ gone'[x] # "no"
  <2>. SUFFICES ASSUME NEW i \in 1 .. Len(outbox)
                PROVE  Within(outbox[i].message, outbox') \/ gone'[outbox[i].message] # "no"
    BY <1>2 DEF Within
  <2>1. CASE i <= d
    BY <1>2, <1>4, <2>1
  <2>2. CASE i > d
    <3>1. i - d \in 1 .. n /\ (i - d) + d = i
      <4>1. i \in Nat /\ i <= n + d
        BY <1>2
      <4>2. QED
        BY <1>2, <2>2, <4>1
    <3>2. i - d \in DOMAIN outbox'
      BY <1>2, <1>3, <3>1
    <3>3. QED
      BY <1>4, <3>1, <3>2 DEF Within
  <2>3. QED
    BY <1>2, <2>1, <2>2
<1>12. \A i \in DOMAIN outbox' : \/ outbox'[i].number = pushes + 1
                                \/ \E j \in DOMAIN outbox : outbox'[i] = outbox[j]
  BY <1>4, <1>6
<1>13. QED
  BY <1>1, <1>5, <1>7, <1>8, <1>9, <1>10, <1>11, <1>12

(* What take returns: all but what is known to be gone, in its order.      *)
LEMMA FreshHands ==
  ASSUME TypeOK, OnceEach(outbox), InOrder(outbox)
  PROVE  /\ Fresh \in Seq(Entries) /\ OnceEach(Fresh) /\ InOrder(Fresh)
         /\ \A x : Within(x, Fresh) => Within(x, outbox)
         /\ \A x : Within(x, outbox) => Within(x, Fresh) \/ x \in Outdated
<1>. DEFINE n == Len(outbox) - expired
<1>1. /\ Len(outbox) \in Nat /\ DOMAIN outbox = 1 .. Len(outbox) /\ n \in Nat /\ expired \in Nat
      /\ n + expired = Len(outbox)
  BY Listed
<1>2. /\ Fresh \in Seq(Entries) /\ Len(Fresh) = n
      /\ \A i \in 1 .. n : Fresh[i] = outbox[i + expired]
      /\ \A m : m \in Outdated <=> \E i \in 1 .. expired : outbox[i].message = m
  BY FreshIsSuffix
<1>3. DOMAIN Fresh = 1 .. n
  BY <1>2, LenProperties
<1>. HIDE DEF n
<1>4. \A i \in 1 .. n : Fresh[i] = outbox[i + expired] /\ i + expired \in DOMAIN outbox /\ i \in Int
  BY <1>1, <1>2
<1>5. OnceEach(Fresh)
  <2>1. \A i, j \in 1 .. n : Fresh[i].message = Fresh[j].message => i + expired = j + expired
    BY <1>4 DEF OnceEach
  <2>2. QED
    BY <1>1, <1>3, <1>4, <2>1 DEF OnceEach
<1>6. InOrder(Fresh)
  <2>1. \A i, j \in 1 .. n : i < j => i + expired < j + expired
    BY <1>1
  <2>2. QED
    BY <1>3, <1>4, <2>1 DEF InOrder
<1>7. \A x : Within(x, outbox) => Within(x, Fresh) \/ x \in Outdated
  <2>. SUFFICES ASSUME NEW i \in 1 .. Len(outbox)
                PROVE  Within(outbox[i].message, Fresh) \/ outbox[i].message \in Outdated
    BY <1>1 DEF Within
  <2>1. CASE i <= expired
    BY <1>1, <1>2, <2>1
  <2>2. CASE i > expired
    <3>1. i - expired \in 1 .. n /\ (i - expired) + expired = i
      BY <1>1, <2>2
    <3>2. QED
      BY <1>3, <1>4, <3>1 DEF Within
  <2>3. QED
    BY <1>1, <2>1, <2>2
<1>8. QED
  BY <1>2, <1>3, <1>4, <1>5, <1>6, <1>7 DEF Within

(* What flush delivers first, and what it delivers afterwards.             *)
LEMMA TailHands ==
  ASSUME NEW S, NEW queue \in Seq(S), queue # <<>>
  PROVE  /\ Tail(queue) \in Seq(S) /\ Head(queue) \in S
         /\ Within(Head(queue).message, queue)
         /\ \A x : Within(x, queue) <=> x = Head(queue).message \/ Within(x, Tail(queue))
         /\ OnceEach(queue) => OnceEach(Tail(queue)) /\ ~Within(Head(queue).message, Tail(queue))
         /\ InOrder(queue) => InOrder(Tail(queue))
         /\ \A i \in DOMAIN Tail(queue) : \E j \in DOMAIN queue : Tail(queue)[i] = queue[j]
<1>. DEFINE rest == Tail(queue)
<1>1. /\ rest \in Seq(S) /\ Len(queue) \in Nat \ {0} /\ Head(queue) = queue[1] /\ Head(queue) \in S
      /\ Len(rest) = Len(queue) - 1
      /\ \A i \in 1 .. Len(rest) : rest[i] = queue[i + 1]
  BY HeadTailProperties, EmptySeq
<1>2. DOMAIN queue = 1 .. Len(queue) /\ DOMAIN rest = 1 .. Len(rest)
  BY <1>1, LenProperties
<1>. HIDE DEF rest
<1>3. \A i \in DOMAIN rest : rest[i] = queue[i + 1] /\ i + 1 \in DOMAIN queue /\ i \in Int /\ i + 1 # 1
  BY <1>1, <1>2
<1>4. 1 \in DOMAIN queue
  BY <1>1, <1>2
<1>5. \A i \in DOMAIN queue : i = 1 \/ \E j \in DOMAIN rest : i = j + 1
  <2>1. \A i \in DOMAIN queue : i = 1 \/ (i - 1 \in DOMAIN rest /\ i = (i - 1) + 1)
    BY <1>1, <1>2
  <2>2. QED
    BY <2>1
<1>6. \A x : Within(x, queue) <=> x = queue[1].message \/ Within(x, rest)
  BY <1>3, <1>4, <1>5 DEF Within
<1>7. OnceEach(queue) => OnceEach(rest) /\ ~Within(queue[1].message, rest)
  <2>1. OnceEach(queue) => \A i, j \in DOMAIN rest : rest[i].message = rest[j].message => i + 1 = j + 1
    BY <1>3 DEF OnceEach
  <2>2. OnceEach(queue) => ~Within(queue[1].message, rest)
    BY <1>3, <1>4 DEF OnceEach, Within
  <2>3. QED
    BY <1>3, <2>1, <2>2 DEF OnceEach
<1>8. InOrder(queue) => InOrder(rest)
  <2>1. \A i, j \in DOMAIN rest : i < j => i + 1 < j + 1
    BY <1>3
  <2>2. QED
    BY <1>3, <2>1 DEF InOrder
<1>9. QED
  BY <1>1, <1>3, <1>4, <1>6, <1>7, <1>8 DEF rest

-----------------------------------------------------------------------------
Places == {"new", "deliver", "track", "hold", "template", "ok", "error",
           "idle", "flush", "flushing", "handover"}

(* A goroutine goes to its next step, the others stay where they are.      *)
LEMMA OneMoves ==
  ASSUME TypeOK, NEW a \in Actors, NEW place \in Places, Goto(a, place)
  PROVE  /\ pc' \in [Actors -> Places] /\ pc'[a] = place
         /\ \A b \in Actors : b # a => pc'[b] = pc[b]
  BY DEF TypeOK, Goto, Places

(* A step that moves no message between lists: every hand still holds what *)
(* it held, or less.                                                       *)
LEMMA HandsKept ==
  ASSUME OneHand, Ordered, Traced, UNCHANGED <<outbox, flushing, mark>>,
         \A id \in Identifiers : id \in Identifiers' /\ sent'[id] = sent[id],
         pc'[Listener] \in {"flushing", "handover"} => pc[Listener] \in {"flushing", "handover"},
         \A m \in Messages : Unsent(m)' => Unsent(m),
         \A m \in Messages : WithListener(m)' => WithListener(m),
         \A id \in Identifiers' : Live(id)' => id \in Identifiers /\ Live(id),
         \A m \in Messages : pc'[m] \in {"track", "template", "ok"} =>
           pc[m] \in {"track", "template", "ok"} \/ gone'[m] # "no",
         \A m \in Messages : WithListener(m) => WithListener(m)' \/ gone'[m] # "no",
         \A id \in Identifiers : verdict[id] \in {"none", "delivered", "failed"} =>
           verdict'[id] \in {"none", "delivered", "failed"} \/ gone'[sent[id]] # "no",
         \A m \in Messages : gone[m] # "no" => gone'[m] # "no"
  PROVE  OneHand' /\ Ordered' /\ Traced'
<1>1. Ordered'
  BY DEF Ordered, InOrder
<1>2. OneHand'
  <2>1. OnceEach(outbox') /\ OnceEach(flushing')
    BY DEF OneHand
  <2>2. \A i, j \in Identifiers' : Live(i)' /\ Live(j)' /\ sent'[i] = sent'[j] => i = j
    BY DEF OneHand
  <2>3. \A m \in Messages : /\ WithWhatsapp(m)' => WithWhatsapp(m)
                            /\ Within(m, outbox') <=> Within(m, outbox)
                            /\ Within(m, flushing') <=> Within(m, flushing)
    BY DEF WithWhatsapp
  <2>. SUFFICES ASSUME NEW m \in Messages
                PROVE  /\ Unsent(m)' => /\ ~WithListener(m)'
                                        /\ ~Within(m, outbox') /\ ~Within(m, flushing')
                                        /\ ~WithWhatsapp(m)'
                       /\ WithListener(m)' => /\ ~Within(m, outbox') /\ ~Within(m, flushing')
                                              /\ ~WithWhatsapp(m)'
                       /\ WithWhatsapp(m)' => ~Within(m, outbox') /\ ~Within(m, flushing')
                       /\ Within(m, outbox') => ~Within(m, flushing')
    BY <2>1, <2>2 DEF OneHand, OnceEach, Within, Unsent, WithListener, WithWhatsapp, Live
  <2>4. QED
    BY <2>3 DEF OneHand
<1>3. Traced'
  <2>. SUFFICES ASSUME NEW m \in Messages, pc'[m] \in {"track", "template", "ok"}
                PROVE  \/ Within(m, outbox') \/ Within(m, flushing') \/ WithListener(m)'
                       \/ \E id \in Identifiers' :
                            sent'[id] = m /\ verdict'[id] \in {"none", "delivered", "failed"}
                       \/ gone'[m] # "no"
    BY DEF Traced, Within, WithListener
  <2>1. QED
    BY DEF Traced
<1>4. QED
  BY <1>1, <1>2, <1>3

(* What is yet to be tracked is still what it was.                         *)
LEMMA TrackingKept ==
  ASSUME Tracking, UNCHANGED identifier, inflight' \subseteq inflight,
         \A id \in Identifiers : id \in Identifiers' /\ sent'[id] = sent[id],
         \A id \in Identifiers' \ Identifiers : pc'[sent'[id]] \notin {"new", "deliver", "track"},
         \A m \in Messages : /\ pc'[m] = "track" => pc[m] = "track"
                             /\ pc'[m] \in {"new", "deliver"} => pc[m] \in {"new", "deliver"}
  PROVE  Tracking'
  BY DEF Tracking

-----------------------------------------------------------------------------
(* WhatsApp gives a message it accepts the next identifier.                *)
LEMMA Accepted ==
  ASSUME TypeOK, NEW m \in Messages, NEW v \in {"none", "part"}, Accept(m, v)
  PROVE  /\ sent' \in Seq(Messages) /\ Len(sent') = Len(sent) + 1 /\ Len(sent') <= MaxAttempts
         /\ sent'[Len(sent) + 1] = m /\ \A id \in 1 .. Len(sent) : sent'[id] = sent[id]
         /\ verdict' \in [1 .. (Len(sent) + 1) -> {"none", "delivered", "failed", "told", "part"}]
         /\ verdict'[Len(sent) + 1] = v /\ \A id \in 1 .. Len(sent) : verdict'[id] = verdict[id]
         /\ Len(sent) \in Nat /\ Len(sent) + 1 \notin 1 .. Len(sent)
         /\ \A id \in 1 .. (Len(sent) + 1) : id \in 1 .. Len(sent) \/ id = Len(sent) + 1
<1>. DEFINE V == {"none", "delivered", "failed", "told", "part"}
<1>1. /\ Len(sent) \in Nat /\ Len(sent) < MaxAttempts /\ sent \in Seq(Messages)
      /\ verdict \in [1 .. Len(sent) -> V]
  BY Listed DEF Accept, TypeOK
<1>2. verdict \in Seq(V) /\ Len(verdict) = Len(sent)
  <2>1. verdict \in Seq(V)
    BY <1>1, SeqDef
  <2>2. Len(verdict) \in Nat /\ DOMAIN verdict = 1 .. Len(verdict)
    BY <2>1, LenProperties
  <2>3. 1 .. Len(verdict) = 1 .. Len(sent)
    BY <1>1, <2>2
  <2>4. QED
    BY <1>1, <2>1, <2>2, <2>3
<1>. HIDE DEF V
<1>3. /\ sent' \in Seq(Messages) /\ Len(sent') = Len(sent) + 1
      /\ sent'[Len(sent) + 1] = m /\ \A id \in 1 .. Len(sent) : sent'[id] = sent[id]
  BY <1>1, AppendProperties DEF Accept
<1>4. /\ verdict' \in Seq(V) /\ Len(verdict') = Len(sent) + 1
      /\ verdict'[Len(sent) + 1] = v /\ \A id \in 1 .. Len(sent) : verdict'[id] = verdict[id]
  <2>1. verdict' = Append(verdict, v) /\ v \in V
    BY DEF Accept, V
  <2>2. QED
    BY <1>2, <2>1, AppendProperties
<1>5. verdict' \in [1 .. (Len(sent) + 1) -> V]
  BY <1>4, LenProperties
<1>6. QED
  BY <1>1, <1>3, <1>4, <1>5 DEF V

(* WhatsApp refuses a message: if it accepted some of its posts, their     *)
(* identifier is a new one, which nothing follows.                         *)
LEMMA WhenRefused ==
  ASSUME TypeOK, NEW m \in Messages, Refuse(m)
  PROVE  /\ sent' \in Seq(Messages) /\ Len(sent') <= MaxAttempts
         /\ verdict' \in [Identifiers' -> {"none", "delivered", "failed", "told", "part"}]
         /\ 0 .. Len(sent) \subseteq 0 .. Len(sent')
         /\ \A id \in Identifiers : /\ id \in Identifiers' /\ sent'[id] = sent[id]
                                    /\ verdict'[id] = verdict[id]
         /\ \A id \in Identifiers' \ Identifiers :
              sent'[id] = m /\ verdict'[id] = "part" /\ id \notin inflight
<1>1. CASE UNCHANGED whatsapp
  <2>1. sent' = sent /\ verdict' = verdict
    BY <1>1 DEF whatsapp
  <2>2. QED
    BY <2>1 DEF TypeOK
<1>2. CASE Accept(m, "part")
  <2>1. inflight \subseteq Identifiers
    BY DEF TypeOK
  <2>2. QED
    BY <1>2, <2>1, Accepted
<1>3. QED
  BY <1>1, <1>2 DEF Refuse

-----------------------------------------------------------------------------
(* Send: reading the window, an answer of WhatsApp, keeping track.         *)
LEMMA ReadWindowStep == ASSUME IInv, NEW m \in Messages, ReadWindow(m) PROVE IInv'
<1>0. TypeOK /\ Standing /\ OneHand /\ Tracking /\ Traced /\ Invited /\ Ordered
  BY DEF IInv
<1>1. PICK place \in {"hold", "deliver"} : Goto(m, place)
  BY DEF ReadWindow
<1>2. pc[m] = "new" /\ m # Listener
  BY DEF ReadWindow
<1>3. /\ UNCHANGED <<window, flushing, refused, inflight, stale, identifier, mark, gone, sent, verdict>>
      /\ UNCHANGED <<outbox, expired, pushes, inviting, invited>>
  BY DEF ReadWindow, held, whatsapp
<1>4. /\ pc' \in [Actors -> Places] /\ pc'[m] = place
      /\ \A b \in Actors : b # m => pc'[b] = pc[b]
  BY <1>0, <1>1, OneMoves DEF Places
<1>5. TypeOK'
  BY <1>0, <1>3, <1>4 DEF TypeOK, Entries, Places
<1>6. Standing'
  BY <1>0, <1>2, <1>3, <1>4 DEF Standing
<1>7. OneHand' /\ Ordered' /\ Traced'
  <2>1. pc'[Listener] = pc[Listener]
    BY <1>2, <1>4
  <2>2. \A x \in Messages : Unsent(x)' => Unsent(x)
    BY <1>2, <1>4 DEF Unsent
  <2>3. \A x \in Messages : WithListener(x)' <=> WithListener(x)
    BY <1>3, <2>1 DEF WithListener
  <2>4. \A id \in Identifiers : Live(id)' => Live(id)
    BY <1>0, <1>1, <1>3, <1>4, Listed DEF Live
  <2>5. \A x \in Messages : pc'[x] \in {"track", "template", "ok"} => pc[x] \in {"track", "template", "ok"}
    BY <1>4
  <2>6. QED
    BY <1>0, <1>3, <2>1, <2>2, <2>3, <2>4, <2>5, HandsKept
<1>8. Tracking'
  <2>1. \A x \in Messages : /\ pc'[x] = "track" => pc[x] = "track"
                            /\ pc'[x] \in {"new", "deliver"} => pc[x] \in {"new", "deliver"}
    BY <1>2, <1>4
  <2>2. QED
    BY <1>0, <1>3, <2>1, TrackingKept
<1>9. Invited'
  BY <1>0, <1>3 DEF Invited
<1>10. QED
  BY <1>5, <1>6, <1>7, <1>8, <1>9 DEF IInv

\* A message is refused at its first post or later: what was accepted of it
\* is in no hand.
LEMMA DeliverRefusedStep == ASSUME IInv, NEW m \in Messages, DeliverRefused(m) PROVE IInv'
<1>0. TypeOK /\ Standing /\ OneHand /\ Tracking /\ Traced /\ Invited /\ Ordered
  BY DEF IInv
<1>1. PICK place \in {"hold", "error"} : Goto(m, place)
  BY DEF DeliverRefused
<1>2. pc[m] = "deliver" /\ m # Listener
  BY DEF DeliverRefused
<1>3. /\ UNCHANGED <<window, flushing, refused, inflight, stale, identifier, mark, gone>>
      /\ UNCHANGED <<outbox, expired, pushes, inviting, invited>>
  BY DEF DeliverRefused, held
<1>4. /\ pc' \in [Actors -> Places] /\ pc'[m] = place
      /\ \A b \in Actors : b # m => pc'[b] = pc[b]
  BY <1>0, <1>1, OneMoves DEF Places
<1>5. /\ sent' \in Seq(Messages) /\ Len(sent') <= MaxAttempts
      /\ verdict' \in [Identifiers' -> {"none", "delivered", "failed", "told", "part"}]
      /\ 0 .. Len(sent) \subseteq 0 .. Len(sent')
      /\ \A id \in Identifiers : /\ id \in Identifiers' /\ sent'[id] = sent[id]
                                 /\ verdict'[id] = verdict[id]
      /\ \A id \in Identifiers' \ Identifiers :
           sent'[id] = m /\ verdict'[id] = "part" /\ id \notin inflight
  BY <1>0, WhenRefused DEF DeliverRefused
<1>6. TypeOK'
  <2>1. inflight \subseteq Identifiers' /\ identifier \in [Messages -> 0 .. Len(sent')]
    BY <1>0, <1>5 DEF TypeOK
  <2>2. QED
    BY <1>0, <1>3, <1>4, <1>5, <2>1 DEF TypeOK, Entries, Places
<1>7. Standing'
  BY <1>0, <1>2, <1>3, <1>4 DEF Standing
<1>8. OneHand' /\ Ordered' /\ Traced'
  <2>1. pc'[Listener] = pc[Listener]
    BY <1>2, <1>4
  <2>2. \A x \in Messages : Unsent(x)' => Unsent(x)
    BY <1>2, <1>4 DEF Unsent
  <2>3. \A x \in Messages : WithListener(x)' <=> WithListener(x)
    BY <1>3, <2>1 DEF WithListener
  <2>4. \A id \in Identifiers' : Live(id)' => id \in Identifiers /\ Live(id)
    <3>. SUFFICES ASSUME NEW id \in Identifiers', Live(id)'
                  PROVE  id \in Identifiers /\ Live(id)
      OBVIOUS
    <3>1. CASE id \in Identifiers
      <4>1. sent'[id] = sent[id] /\ verdict'[id] = verdict[id] /\ sent[id] \in Messages
        BY <1>0, <1>5, <3>1, Listed
      <4>2. pc'[sent[id]] = "track" => pc[sent[id]] = "track"
        BY <1>4, <4>1
      <4>3. QED
        BY <1>3, <3>1, <4>1, <4>2 DEF Live
    <3>2. CASE id \notin Identifiers
      BY <1>3, <1>4, <1>5, <3>2 DEF Live
    <3>3. QED
      BY <3>1, <3>2
  <2>5. \A x \in Messages : pc'[x] \in {"track", "template", "ok"} => pc[x] \in {"track", "template", "ok"}
    BY <1>4
  <2>6. QED
    BY <1>0, <1>3, <1>5, <2>1, <2>2, <2>3, <2>4, <2>5, HandsKept
<1>9. Tracking'
  <2>1. \A x \in Messages : /\ pc'[x] = "track" => pc[x] = "track"
                            /\ pc'[x] \in {"new", "deliver"} => pc[x] \in {"new", "deliver"}
    BY <1>4
  <2>2. \A id \in Identifiers' \ Identifiers : pc'[sent'[id]] \notin {"new", "deliver", "track"}
    BY <1>4, <1>5
  <2>3. QED
    BY <1>0, <1>3, <1>5, <2>1, <2>2, TrackingKept
<1>10. Invited'
  BY <1>0, <1>3 DEF Invited
<1>11. QED
  BY <1>6, <1>7, <1>8, <1>9, <1>10 DEF IInv

\* An answered message is noted as in flight under its identifier.
LEMMA TrackStep == ASSUME IInv, NEW m \in Messages, Track(m) PROVE IInv'
<1>0. TypeOK /\ Standing /\ OneHand /\ Tracking /\ Traced /\ Invited /\ Ordered
  BY DEF IInv
<1>1. /\ Goto(m, "ok") /\ pc[m] = "track" /\ m # Listener
      /\ inflight' = (inflight \ stale) \cup {identifier[m]} /\ stale' = {}
  BY DEF Track, TrackInflight
<1>2. /\ UNCHANGED <<window, flushing, refused, identifier, mark, gone, sent, verdict>>
      /\ UNCHANGED <<outbox, expired, pushes, inviting, invited>>
  BY DEF Track, held, whatsapp
<1>3. /\ identifier[m] \in Identifiers \ inflight /\ sent[identifier[m]] = m
      /\ \A id \in Identifiers : sent[id] = m => id = identifier[m]
  BY <1>0, <1>1 DEF Tracking
<1>4. /\ pc' \in [Actors -> Places] /\ pc'[m] = "ok"
      /\ \A b \in Actors : b # m => pc'[b] = pc[b]
  BY <1>0, <1>1, OneMoves DEF Places
<1>5. TypeOK'
  BY <1>0, <1>1, <1>2, <1>3, <1>4 DEF TypeOK, Entries, Places
<1>6. Standing'
  BY <1>0, <1>1, <1>2, <1>4 DEF Standing
<1>7. OneHand' /\ Ordered' /\ Traced'
  <2>1. pc'[Listener] = pc[Listener]
    BY <1>1, <1>4
  <2>2. \A x \in Messages : Unsent(x)' => Unsent(x)
    BY <1>4 DEF Unsent
  <2>3. \A x \in Messages : WithListener(x)' <=> WithListener(x)
    BY <1>2, <2>1 DEF WithListener
  <2>4. \A id \in Identifiers : Live(id)' => Live(id)
    BY <1>0, <1>1, <1>2, <1>3, <1>4, Listed DEF Live
  <2>5. \A x \in Messages : pc'[x] \in {"track", "template", "ok"} => pc[x] \in {"track", "template", "ok"}
    BY <1>1, <1>4
  <2>6. QED
    BY <1>0, <1>2, <2>1, <2>2, <2>3, <2>4, <2>5, HandsKept
<1>8. Tracking'
  <2>. SUFFICES ASSUME NEW x \in Messages, pc'[x] \in {"new", "deliver", "track"}
                PROVE  /\ pc'[x] # "track" => \A id \in Identifiers : sent[id] # x
                       /\ pc'[x] = "track" =>
                            /\ identifier[x] \in Identifiers \ inflight' /\ sent[identifier[x]] = x
                            /\ \A id \in Identifiers : sent[id] = x => id = identifier[x]
    BY <1>2 DEF Tracking
  <2>1. x # m /\ pc'[x] = pc[x]
    BY <1>4
  <2>2. QED
    BY <1>0, <1>1, <1>3, <2>1 DEF Tracking
<1>9. Invited'
  BY <1>0, <1>2 DEF Invited
<1>10. QED
  BY <1>5, <1>6, <1>7, <1>8, <1>9 DEF IInv

-----------------------------------------------------------------------------
(* holdBack gives up, or its template was accepted.                        *)
LEMMA DeclinedStep == ASSUME IInv, NEW a \in Actors, Declined(a) PROVE IInv'
<1>0. TypeOK /\ Standing /\ OneHand /\ Tracking /\ Traced /\ Invited /\ Ordered
  BY DEF IInv
<1>. DEFINE place == IF a = Listener THEN "idle" ELSE "error"
<1>1. /\ Goto(a, place) /\ pc[a] = "hold" /\ refused' = (IF a = Listener THEN Nobody ELSE refused)
      /\ gone' = [m \in Messages |-> IF m = Subject(a) THEN "reported" ELSE gone[m]]
  BY DEF Declined, NotHeldBack, Forget, Lose
<1>2. /\ UNCHANGED <<window, flushing, inflight, stale, identifier, mark, sent, verdict>>
      /\ UNCHANGED <<outbox, expired, pushes, inviting, invited>>
  BY DEF Declined, held, whatsapp
<1>3. /\ pc' \in [Actors -> Places] /\ pc'[a] = place
      /\ \A b \in Actors : b # a => pc'[b] = pc[b]
  BY <1>0, <1>1, OneMoves DEF Places
<1>4. TypeOK'
  BY <1>0, <1>1, <1>2, <1>3 DEF TypeOK, Entries, Places
<1>5. Standing'
  BY <1>0, <1>1, <1>2, <1>3 DEF Standing
<1>6. OneHand' /\ Ordered' /\ Traced'
  <2>1. pc'[Listener] \in {"flushing", "handover"} => pc[Listener] \in {"flushing", "handover"}
    BY <1>3
  <2>2. \A x \in Messages : Unsent(x)' => Unsent(x)
    BY <1>1, <1>3 DEF Unsent
  <2>3. \A x \in Messages : /\ WithListener(x)' => WithListener(x)
                            /\ WithListener(x) => WithListener(x)' \/ gone'[x] # "no"
    BY <1>1, <1>3 DEF WithListener, Subject
  <2>4. \A id \in Identifiers : Live(id)' => Live(id)
    BY <1>0, <1>1, <1>2, <1>3, Listed DEF Live
  <2>5. \A x \in Messages : pc'[x] \in {"track", "template", "ok"} => pc[x] \in {"track", "template", "ok"}
    BY <1>3
  <2>6. \A x \in Messages : gone[x] # "no" => gone'[x] # "no"
    BY <1>1
  <2>7. QED
    BY <1>0, <1>2, <2>1, <2>2, <2>3, <2>4, <2>5, <2>6, HandsKept
<1>7. Tracking'
  <2>1. \A x \in Messages : /\ pc'[x] = "track" => pc[x] = "track"
                            /\ pc'[x] \in {"new", "deliver"} => pc[x] \in {"new", "deliver"}
    BY <1>3
  <2>2. QED
    BY <1>0, <1>2, <2>1, TrackingKept
<1>8. Invited'
  BY <1>0, <1>2 DEF Invited
<1>9. QED
  BY <1>4, <1>5, <1>6, <1>7, <1>8 DEF IInv

\* The service took the invitation: the call returns, and its message stays held back.
LEMMA TemplateAcceptedStep == ASSUME IInv, NEW a \in Actors, TemplateAccepted(a) PROVE IInv'
<1>0. TypeOK /\ Standing /\ OneHand /\ Tracking /\ Traced /\ Invited /\ Ordered
  BY DEF IInv
<1>. DEFINE place == IF a = Listener THEN "idle" ELSE "ok"
<1>1. /\ Goto(a, place) /\ pc[a] = "template" /\ refused' = (IF a = Listener THEN Nobody ELSE refused)
      /\ inviting' = inviting \ {a} /\ invited' = IF a \in inviting THEN invited + 1 ELSE invited
  BY DEF TemplateAccepted, HeldBack, Forget
<1>2. /\ UNCHANGED <<window, flushing, inflight, stale, identifier, mark, sent, verdict>>
      /\ UNCHANGED <<outbox, expired, pushes, gone>>
  BY DEF TemplateAccepted, whatsapp
<1>3. /\ pc' \in [Actors -> Places] /\ pc'[a] = place
      /\ \A b \in Actors : b # a => pc'[b] = pc[b]
  BY <1>0, <1>1, OneMoves DEF Places
<1>4. TypeOK'
  BY <1>0, <1>1, <1>2, <1>3 DEF TypeOK, Entries, Places
<1>5. Standing'
  BY <1>0, <1>1, <1>2, <1>3 DEF Standing
<1>6. OneHand' /\ Ordered' /\ Traced'
  <2>1. pc'[Listener] \in {"flushing", "handover"} => pc[Listener] \in {"flushing", "handover"}
    BY <1>3
  <2>2. \A x \in Messages : Unsent(x)' => Unsent(x)
    BY <1>1, <1>3 DEF Unsent
  <2>3. \A x \in Messages : WithListener(x)' <=> WithListener(x)
    BY <1>1, <1>3 DEF WithListener
  <2>4. \A id \in Identifiers : Live(id)' => Live(id)
    BY <1>0, <1>1, <1>2, <1>3, Listed DEF Live
  <2>5. \A x \in Messages : pc'[x] \in {"track", "template", "ok"} => pc[x] \in {"track", "template", "ok"}
    BY <1>1, <1>3
  <2>6. QED
    BY <1>0, <1>2, <2>1, <2>2, <2>3, <2>4, <2>5, HandsKept
<1>7. Tracking'
  <2>1. \A x \in Messages : /\ pc'[x] = "track" => pc[x] = "track"
                            /\ pc'[x] \in {"new", "deliver"} => pc[x] \in {"new", "deliver"}
    BY <1>3
  <2>2. QED
    BY <1>0, <1>2, <2>1, TrackingKept
<1>8. Invited'
  BY <1>0, <1>1, <1>2 DEF Invited
<1>9. QED
  BY <1>4, <1>5, <1>6, <1>7, <1>8 DEF IInv

-----------------------------------------------------------------------------
(* The listener's steps between events, and its hand-over.                 *)
LEMMA ListenerMoves == ASSUME IInv, Inbound \/ Offer \/ Handover PROVE IInv'
<1>0. TypeOK /\ Standing /\ OneHand /\ Tracking /\ Traced /\ Invited /\ Ordered
  BY DEF IInv
<1>1. PICK place \in {"flush", "handover", "idle"} : Goto(Listener, place)
  BY DEF Inbound, Offer, Handover
<1>2. /\ pc[Listener] \in {"idle", "flushing", "handover"} /\ window' \in {"unknown", "open", "closed"}
      /\ place = "handover" => pc[Listener] = "flushing" /\ mark' = mark /\ flushing = <<>>
      /\ place = "idle" => pc[Listener] = "handover" /\ mark' = mark
      /\ mark' \in {mark, pushes}
      /\ place # "flush" => mark' = mark
      /\ place = "flush" => pc[Listener] = "idle"
  <2>1. window \in {"unknown", "open", "closed"}
    BY <1>0 DEF TypeOK
  <2>2. pc' = [pc EXCEPT ![Listener] = place] /\ pc'[Listener] = place
    BY <1>0, <1>1 DEF Goto, TypeOK
  <2>3. CASE Inbound
    <3>1. place = "flush" /\ pc[Listener] = "idle" /\ mark' = pushes
      BY <1>0, <2>2, <2>3 DEF Inbound, Goto, TypeOK
    <3>2. window' \in {"unknown", "open", "closed"}
      BY <2>1, <2>3 DEF Inbound, RecordInbound
    <3>3. QED
      BY <3>1, <3>2
  <2>4. CASE Offer
    BY <1>0, <2>1, <2>2, <2>4 DEF Offer, Goto, TypeOK
  <2>5. CASE Handover
    BY <1>0, <2>1, <2>2, <2>5 DEF Handover, Goto, TypeOK
  <2>6. QED
    BY <2>3, <2>4, <2>5
<1>3. /\ UNCHANGED <<flushing, refused, inflight, stale, identifier, gone, sent, verdict>>
      /\ UNCHANGED <<outbox, expired, pushes, inviting, invited>>
  BY DEF Inbound, Offer, Handover, held, whatsapp
<1>4. /\ pc' \in [Actors -> Places] /\ pc'[Listener] = place
      /\ \A b \in Actors : b # Listener => pc'[b] = pc[b]
  BY <1>0, <1>1, OneMoves DEF Places
<1>5. \A m \in Messages : pc'[m] = pc[m]
  BY <1>4
<1>6. TypeOK'
  <2>1. mark' \in 0 .. pushes'
    BY <1>0, <1>2, <1>3, Listed
  <2>2. QED
    BY <1>0, <1>2, <1>3, <1>4, <2>1 DEF TypeOK, Entries, Places
<1>7. Standing'
  BY <1>0, <1>2, <1>3, <1>4, <1>5 DEF Standing
<1>8. OneHand' /\ Ordered' /\ Traced'
  <2>1. \A x \in Messages : Unsent(x)' <=> Unsent(x)
    BY <1>5 DEF Unsent
  <2>2. \A x \in Messages : WithListener(x)' <=> WithListener(x)
    BY <1>2, <1>3, <1>4 DEF WithListener
  <2>3. \A id \in Identifiers : Live(id)' <=> Live(id)
    BY <1>0, <1>3, <1>5, Listed DEF Live
  <2>4. CASE mark' = mark
    BY <1>0, <1>2, <1>3, <1>4, <1>5, <2>1, <2>2, <2>3, <2>4, HandsKept
  <2>5. CASE place = "flush"
    <3>1. Ordered'
      BY <1>0, <1>3, <1>4, <2>5 DEF Ordered, InOrder
    <3>2. OneHand'
      BY <1>0, <1>3, <2>1, <2>2, <2>3
      DEF OneHand, OnceEach, Within, WithWhatsapp, Unsent, WithListener, Live
    <3>3. Traced'
      BY <1>0, <1>3, <1>5, <2>2 DEF Traced, Within, WithListener
    <3>4. QED
      BY <3>1, <3>2, <3>3
  <2>6. QED
    BY <1>2, <2>4, <2>5
<1>9. Tracking'
  BY <1>0, <1>3, <1>5, TrackingKept
<1>10. Invited'
  BY <1>0, <1>3 DEF Invited
<1>11. QED
  BY <1>6, <1>7, <1>8, <1>9, <1>10 DEF IInv

(* WhatsApp's last word, and time passing.                                 *)
LEMMA EnvironmentStep ==
  ASSUME IInv, \/ \E id \in Identifiers : StatusDelivered(id) \/ Settle(id)
               \/ WindowCloses \/ OldestExpires \/ InflightAges
  PROVE  IInv'
<1>0. TypeOK /\ Standing /\ OneHand /\ Tracking /\ Traced /\ Invited /\ Ordered
  BY DEF IInv
<1>1. /\ UNCHANGED <<pc, flushing, refused, identifier, mark, gone, sent>>
      /\ UNCHANGED <<outbox, pushes, inviting, invited>>
      /\ window' \in {window, "closed"}
      /\ inflight' \subseteq inflight /\ stale' \subseteq inflight'
  BY <1>0 DEF StatusDelivered, Settle, WindowCloses, OldestExpires, InflightAges, provider, held,
              whatsapp, TypeOK
<1>2. expired' \in 0 .. Len(outbox)
  <2>1. expired' = expired \/ (expired < Len(outbox) /\ expired' = expired + 1)
    BY DEF StatusDelivered, Settle, WindowCloses, OldestExpires, InflightAges, held
  <2>2. QED
    BY <1>0, <2>1, Listed
<1>3. /\ verdict' \in [Identifiers -> {"none", "delivered", "failed", "told", "part"}]
      /\ \A id \in Identifiers : \/ verdict'[id] = verdict[id]
                                 \/ verdict[id] = "none" /\ verdict'[id] \in {"delivered", "failed"}
  <2>1. verdict \in [Identifiers -> {"none", "delivered", "failed", "told", "part"}]
    BY <1>0 DEF TypeOK
  <2>2. CASE verdict' = verdict
    BY <2>1, <2>2
  <2>3. ASSUME NEW id \in Identifiers, Settle(id)
        PROVE  /\ verdict' \in [Identifiers -> {"none", "delivered", "failed", "told", "part"}]
               /\ \A i \in Identifiers : \/ verdict'[i] = verdict[i]
                                         \/ verdict[i] = "none" /\ verdict'[i] \in {"delivered", "failed"}
    BY <2>1, <2>3 DEF Settle
  <2>4. QED
    BY <2>2, <2>3 DEF StatusDelivered, WindowCloses, OldestExpires, InflightAges, whatsapp
<1>4. TypeOK'
  BY <1>0, <1>1, <1>2, <1>3 DEF TypeOK, Entries
<1>5. Standing'
  BY <1>0, <1>1 DEF Standing
<1>6. OneHand' /\ Ordered' /\ Traced'
  <2>1. \A x \in Messages : /\ Unsent(x)' <=> Unsent(x)
                            /\ WithListener(x)' <=> WithListener(x)
    BY <1>1 DEF Unsent, WithListener
  <2>2. \A id \in Identifiers : Live(id)' => Live(id)
    BY <1>1, <1>3 DEF Live
  <2>3. \A id \in Identifiers : verdict[id] \in {"none", "delivered", "failed"} =>
          verdict'[id] \in {"none", "delivered", "failed"}
    BY <1>3
  <2>4. QED
    BY <1>0, <1>1, <2>1, <2>2, <2>3, HandsKept
<1>7. Tracking' /\ Invited'
  BY <1>0, <1>1, TrackingKept DEF Invited
<1>8. QED
  BY <1>4, <1>5, <1>6, <1>7 DEF IInv

-----------------------------------------------------------------------------
\* The service took a message sent directly.
LEMMA DeliverAcceptedStep == ASSUME IInv, NEW m \in Messages, DeliverAccepted(m) PROVE IInv'
<1>0. TypeOK /\ Standing /\ OneHand /\ Tracking /\ Traced /\ Invited /\ Ordered
  BY DEF IInv
<1>. DEFINE n == Len(sent)
<1>1. /\ Goto(m, "track") /\ pc[m] = "deliver" /\ m # Listener /\ Accept(m, "none")
      /\ identifier' = [identifier EXCEPT ![m] = n + 1]
  BY DEF DeliverAccepted
<1>2. /\ UNCHANGED <<window, flushing, refused, inflight, stale, mark, gone>>
      /\ UNCHANGED <<outbox, expired, pushes, inviting, invited>>
  BY DEF DeliverAccepted, held
<1>3. /\ sent' \in Seq(Messages) /\ Len(sent') = n + 1 /\ Len(sent') <= MaxAttempts
      /\ sent'[n + 1] = m /\ \A id \in 1 .. n : sent'[id] = sent[id]
      /\ verdict' \in [1 .. (n + 1) -> {"none", "delivered", "failed", "told", "part"}]
      /\ verdict'[n + 1] = "none" /\ \A id \in 1 .. n : verdict'[id] = verdict[id]
      /\ n \in Nat /\ n + 1 \notin 1 .. n
      /\ \A id \in 1 .. (n + 1) : id \in 1 .. n \/ id = n + 1
  BY <1>0, <1>1, Accepted
<1>. HIDE DEF n
<1>4. n = Len(sent) /\ \A id \in 1 .. n : id \in 1 .. (n + 1)
  BY <1>3 DEF n
<1>5. /\ pc' \in [Actors -> Places] /\ pc'[m] = "track"
      /\ \A b \in Actors : b # m => pc'[b] = pc[b]
  BY <1>0, <1>1, OneMoves DEF Places
<1>6. /\ Unsent(m) /\ ~WithListener(m) /\ ~Within(m, outbox) /\ ~Within(m, flushing)
      /\ \A id \in 1 .. n : sent[id] # m /\ sent[id] \in Messages
  BY <1>0, <1>1, <1>4, Listed DEF OneHand, Tracking, Unsent
<1>7. inflight \subseteq 1 .. n /\ identifier \in [Messages -> 0 .. n] /\ identifier' \in [Messages -> 0 .. (n + 1)]
  <2>1. inflight \subseteq 1 .. n /\ identifier \in [Messages -> 0 .. n]
    BY <1>0, <1>4 DEF TypeOK
  <2>2. 0 .. n \subseteq 0 .. (n + 1) /\ n + 1 \in 0 .. (n + 1)
    BY <1>3
  <2>3. QED
    BY <1>1, <2>1, <2>2
<1>8. TypeOK'
  BY <1>0, <1>2, <1>3, <1>4, <1>5, <1>7 DEF TypeOK, Entries, Places
<1>9. Standing'
  BY <1>0, <1>1, <1>2, <1>5 DEF Standing
<1>10. Ordered' /\ Invited'
  BY <1>0, <1>1, <1>2, <1>5 DEF Ordered, InOrder, Invited
<1>11. Tracking'
  <2>. SUFFICES ASSUME NEW x \in Messages, pc'[x] \in {"new", "deliver", "track"}
                PROVE  /\ pc'[x] # "track" => \A id \in 1 .. (n + 1) : sent'[id] # x
                       /\ pc'[x] = "track" =>
                            /\ identifier'[x] \in 1 .. (n + 1) /\ identifier'[x] \notin inflight
                            /\ sent'[identifier'[x]] = x
                            /\ \A id \in 1 .. (n + 1) : sent'[id] = x => id = identifier'[x]
    BY <1>2, <1>3 DEF Tracking
  <2>1. CASE x = m
    <3>1. identifier'[m] = n + 1
      BY <1>1, <1>7
    <3>2. n + 1 \notin inflight /\ n + 1 \in 1 .. (n + 1)
      BY <1>3, <1>7
    <3>3. QED
      BY <1>3, <1>5, <1>6, <2>1, <3>1, <3>2
  <2>2. CASE x # m
    <3>1. pc'[x] = pc[x] /\ identifier'[x] = identifier[x]
      BY <1>1, <1>5, <1>7, <2>2
    <3>2. /\ pc[x] # "track" => \A id \in 1 .. n : sent[id] # x
          /\ pc[x] = "track" =>
               /\ identifier[x] \in 1 .. n /\ identifier[x] \notin inflight
               /\ sent[identifier[x]] = x /\ \A id \in 1 .. n : sent[id] = x => id = identifier[x]
      BY <1>0, <1>4, <3>1 DEF Tracking
    <3>3. \A id \in 1 .. (n + 1) : sent'[id] = x => id \in 1 .. n /\ sent[id] = x
      BY <1>3, <2>2
    <3>4. \A id \in 1 .. n : id \in 1 .. (n + 1) /\ sent'[id] = sent[id]
      BY <1>3
    <3>5. QED
      BY <3>1, <3>2, <3>3, <3>4
  <2>3. QED
    BY <2>1, <2>2
<1>12. \A id \in 1 .. n : Live(id)' => Live(id)
  BY <1>2, <1>3, <1>5, <1>6 DEF Live
<1>13. OneHand'
  <2>1. \A i, j \in 1 .. (n + 1) : Live(i)' /\ Live(j)' /\ sent'[i] = sent'[j] => i = j
    BY <1>0, <1>3, <1>4, <1>6, <1>12 DEF OneHand
  <2>2. \A x \in Messages : x # m => /\ WithWhatsapp(x)' => WithWhatsapp(x)
                                     /\ Unsent(x)' => Unsent(x)
                                     /\ \A id \in 1 .. (n + 1) : sent'[id] = x => id \in 1 .. n /\ sent[id] = x
    BY <1>3, <1>4, <1>5, <1>12 DEF WithWhatsapp, Unsent
  <2>3. \A x \in Messages : /\ WithListener(x)' <=> WithListener(x)
                            /\ Within(x, outbox') <=> Within(x, outbox)
                            /\ Within(x, flushing') <=> Within(x, flushing)
    BY <1>1, <1>2, <1>5 DEF WithListener
  <2>4. ~Unsent(m)'
    BY <1>5 DEF Unsent
  <2>5. OnceEach(outbox)' /\ OnceEach(flushing)'
    BY <1>0, <1>2 DEF OneHand, OnceEach
  <2>6. \A x \in Messages :
           /\ Unsent(x)' => /\ ~WithListener(x)' /\ ~Within(x, outbox') /\ ~Within(x, flushing')
                            /\ ~WithWhatsapp(x)'
           /\ WithListener(x)' => ~Within(x, outbox') /\ ~Within(x, flushing') /\ ~WithWhatsapp(x)'
           /\ WithWhatsapp(x)' => ~Within(x, outbox') /\ ~Within(x, flushing')
           /\ Within(x, outbox') => ~Within(x, flushing')
    <3>. SUFFICES ASSUME NEW x \in Messages
                  PROVE  /\ Unsent(x)' => /\ ~WithListener(x)' /\ ~Within(x, outbox') /\ ~Within(x, flushing')
                                          /\ ~WithWhatsapp(x)'
                         /\ WithListener(x)' => ~Within(x, outbox') /\ ~Within(x, flushing') /\ ~WithWhatsapp(x)'
                         /\ WithWhatsapp(x)' => ~Within(x, outbox') /\ ~Within(x, flushing')
                         /\ Within(x, outbox') => ~Within(x, flushing')
      BY DEF Unsent, WithListener, WithWhatsapp, Live
    <3>1. CASE x = m
      BY <1>6, <2>3, <2>4, <3>1
    <3>2. CASE x # m
      BY <1>0, <1>4, <2>2, <2>3, <3>2 DEF OneHand
    <3>3. QED
      BY <3>1, <3>2
  <2>7. QED
    BY <1>3, <2>1, <2>5, <2>6 DEF OneHand, Within, Unsent, WithListener, WithWhatsapp, Live
<1>14. Traced'
  <2>. SUFFICES ASSUME NEW x \in Messages, pc'[x] \in {"track", "template", "ok"}
                PROVE  \/ Within(x, outbox') \/ Within(x, flushing') \/ WithListener(x)'
                       \/ \E id \in 1 .. (n + 1) :
                            sent'[id] = x /\ verdict'[id] \in {"none", "delivered", "failed"}
                       \/ gone'[x] # "no"
    BY <1>3 DEF Traced, Within, WithListener
  <2>1. CASE x = m
    <3>1. n + 1 \in 1 .. (n + 1)
      BY <1>3
    <3>2. QED
      BY <1>3, <2>1, <3>1
  <2>2. CASE x # m
    <3>1. WithListener(x)' <=> WithListener(x)
      BY <1>1, <1>2, <1>5 DEF WithListener
    <3>2. QED
      BY <1>0, <1>2, <1>3, <1>4, <1>5, <2>2, <3>1 DEF Traced
  <2>3. QED
    BY <2>1, <2>2
<1>15. QED
  BY <1>8, <1>9, <1>10, <1>11, <1>13, <1>14 DEF IInv

(* The listener delivers the first message of those it took, which is in   *)
(* no other hand, and keeps track of it before anything else happens.      *)
LEMMA FlushDeliversStep == ASSUME IInv, FlushDelivers PROVE IInv'
<1>0. TypeOK /\ Standing /\ OneHand /\ Tracking /\ Traced /\ Invited /\ Ordered
  BY DEF IInv
<1>. DEFINE n == Len(sent)
            h == Head(flushing).message
<1>1. /\ pc[Listener] = "flushing" /\ flushing # <<>> /\ Accept(h, "none") /\ flushing' = Tail(flushing)
      /\ inflight' = (inflight \ stale) \cup {n + 1} /\ stale' = {}
      /\ UNCHANGED <<pc, window, refused, identifier, mark, gone>>
      /\ UNCHANGED <<outbox, expired, pushes, inviting, invited>>
  BY DEF FlushDelivers, TrackInflight, held
<1>2. /\ Tail(flushing) \in Seq(Entries) /\ h \in Messages /\ Within(h, flushing)
      /\ \A x : Within(x, flushing) <=> x = h \/ Within(x, Tail(flushing))
      /\ OnceEach(Tail(flushing)) /\ ~Within(h, Tail(flushing)) /\ InOrder(Tail(flushing))
      /\ \A i \in DOMAIN Tail(flushing) : \E j \in DOMAIN flushing : Tail(flushing)[i] = flushing[j]
  <2>1. flushing \in Seq(Entries) /\ flushing # <<>> /\ OnceEach(flushing) /\ InOrder(flushing)
    BY <1>0, <1>1, Listed DEF OneHand, Ordered
  <2>2. Head(flushing) \in Entries
    BY <2>1, TailHands
  <2>3. h \in Messages
    BY <2>2 DEF Entries
  <2>4. QED
    BY <2>1, <2>3, TailHands
<1>. HIDE DEF h
<1>3. /\ sent' \in Seq(Messages) /\ Len(sent') = n + 1 /\ Len(sent') <= MaxAttempts
      /\ sent'[n + 1] = h /\ \A id \in 1 .. n : sent'[id] = sent[id]
      /\ verdict' \in [1 .. (n + 1) -> {"none", "delivered", "failed", "told", "part"}]
      /\ verdict'[n + 1] = "none" /\ \A id \in 1 .. n : verdict'[id] = verdict[id]
      /\ n \in Nat /\ n + 1 \notin 1 .. n
      /\ \A id \in 1 .. (n + 1) : id \in 1 .. n \/ id = n + 1
  BY <1>0, <1>1, <1>2, Accepted
<1>. HIDE DEF n
<1>4. /\ n = Len(sent) /\ n + 1 \in 1 .. (n + 1)
      /\ \A id \in 1 .. n : id \in 1 .. (n + 1) /\ sent[id] \in Messages
  BY <1>0, <1>3, Listed DEF n
<1>5. ~Unsent(h) /\ ~WithListener(h) /\ ~Within(h, outbox) /\ ~WithWhatsapp(h)
  BY <1>0, <1>2 DEF OneHand
<1>6. pc[h] # "track"
  BY <1>0, <1>2, <1>5 DEF Tracking, WithWhatsapp, Live
<1>7. inflight \subseteq 1 .. n /\ identifier \in [Messages -> 0 .. (n + 1)]
  <2>1. inflight \subseteq 1 .. n /\ identifier \in [Messages -> 0 .. n]
    BY <1>0, <1>4 DEF TypeOK
  <2>2. 0 .. n \subseteq 0 .. (n + 1)
    BY <1>3
  <2>3. QED
    BY <2>1, <2>2
<1>8. TypeOK'
  <2>1. inflight' \subseteq 1 .. (n + 1) /\ stale' \subseteq inflight'
    BY <1>1, <1>4, <1>7
  <2>2. QED
    BY <1>0, <1>1, <1>2, <1>3, <1>4, <1>7, <2>1 DEF TypeOK, Entries
<1>9. Standing'
  BY <1>0, <1>1 DEF Standing
<1>10. Ordered' /\ Invited'
  <2>1. \A i \in DOMAIN flushing', j \in DOMAIN outbox : flushing'[i].number < outbox[j].number
    BY <1>0, <1>1, <1>2 DEF Ordered
  <2>2. QED
    BY <1>0, <1>1, <1>2, <2>1 DEF Ordered, Invited, InOrder
<1>11. Tracking'
  <2>. SUFFICES ASSUME NEW x \in Messages, pc[x] \in {"new", "deliver", "track"}
                PROVE  /\ pc[x] # "track" => \A id \in 1 .. (n + 1) : sent'[id] # x
                       /\ pc[x] = "track" =>
                            /\ identifier[x] \in 1 .. (n + 1) /\ identifier[x] \notin inflight'
                            /\ sent'[identifier[x]] = x
                            /\ \A id \in 1 .. (n + 1) : sent'[id] = x => id = identifier[x]
    BY <1>1, <1>3 DEF Tracking
  <2>1. x # h
    BY <1>5, <1>6 DEF Unsent
  <2>2. /\ pc[x] # "track" => \A id \in 1 .. n : sent[id] # x
        /\ pc[x] = "track" =>
             /\ identifier[x] \in 1 .. n /\ identifier[x] \notin inflight /\ sent[identifier[x]] = x
             /\ \A id \in 1 .. n : sent[id] = x => id = identifier[x]
    BY <1>0, <1>4 DEF Tracking
  <2>3. QED
    BY <1>1, <1>3, <1>4, <2>1, <2>2
<1>12. \A id \in 1 .. n : Live(id)' => Live(id)
  BY <1>1, <1>3 DEF Live
<1>13. \A id \in 1 .. n : sent[id] = h => ~Live(id)
  BY <1>4, <1>5 DEF WithWhatsapp
<1>14. OneHand'
  <2>1. \A i, j \in 1 .. (n + 1) : Live(i)' /\ Live(j)' /\ sent'[i] = sent'[j] => i = j
    BY <1>0, <1>3, <1>4, <1>12, <1>13 DEF OneHand
  <2>2. \A x \in Messages : x # h => /\ WithWhatsapp(x)' => WithWhatsapp(x)
                                     /\ \A id \in 1 .. (n + 1) : sent'[id] = x => id \in 1 .. n /\ sent[id] = x
    BY <1>3, <1>4, <1>12 DEF WithWhatsapp
  <2>3. \A x \in Messages : /\ WithListener(x)' <=> WithListener(x)
                            /\ Unsent(x)' <=> Unsent(x)
                            /\ Within(x, outbox') <=> Within(x, outbox)
                            /\ Within(x, flushing') => Within(x, flushing)
    BY <1>1, <1>2 DEF WithListener, Unsent
  <2>4. OnceEach(outbox') /\ OnceEach(flushing') /\ ~Within(h, flushing')
    BY <1>0, <1>1, <1>2 DEF OneHand
  <2>5. \A x \in Messages :
           /\ Unsent(x)' => /\ ~WithListener(x)' /\ ~Within(x, outbox') /\ ~Within(x, flushing')
                            /\ ~WithWhatsapp(x)'
           /\ WithListener(x)' => ~Within(x, outbox') /\ ~Within(x, flushing') /\ ~WithWhatsapp(x)'
           /\ WithWhatsapp(x)' => ~Within(x, outbox') /\ ~Within(x, flushing')
           /\ Within(x, outbox') => ~Within(x, flushing')
    <3>. SUFFICES ASSUME NEW x \in Messages
                  PROVE  /\ Unsent(x)' => /\ ~WithListener(x)' /\ ~Within(x, outbox') /\ ~Within(x, flushing')
                                          /\ ~WithWhatsapp(x)'
                         /\ WithListener(x)' => ~Within(x, outbox') /\ ~Within(x, flushing') /\ ~WithWhatsapp(x)'
                         /\ WithWhatsapp(x)' => ~Within(x, outbox') /\ ~Within(x, flushing')
                         /\ Within(x, outbox') => ~Within(x, flushing')
      BY DEF Unsent, WithListener, WithWhatsapp, Live
    <3>1. CASE x = h
      BY <1>5, <2>3, <2>4, <3>1
    <3>2. CASE x # h
      BY <1>0, <1>4, <2>2, <2>3, <3>2 DEF OneHand
    <3>3. QED
      BY <3>1, <3>2
  <2>6. QED
    BY <1>3, <2>1, <2>4, <2>5 DEF OneHand, OnceEach, Within, Unsent, WithListener, WithWhatsapp, Live
<1>15. Traced'
  <2>. SUFFICES ASSUME NEW x \in Messages, pc[x] \in {"track", "template", "ok"}
                PROVE  \/ Within(x, outbox') \/ Within(x, flushing') \/ WithListener(x)'
                       \/ \E id \in 1 .. (n + 1) :
                            sent'[id] = x /\ verdict'[id] \in {"none", "delivered", "failed"}
                       \/ gone'[x] # "no"
    BY <1>1, <1>3 DEF Traced, Within, WithListener
  <2>1. CASE x = h
    BY <1>3, <1>4, <2>1
  <2>2. CASE x # h
    <3>1. WithListener(x)' <=> WithListener(x)
      BY <1>1 DEF WithListener
    <3>2. Within(x, flushing) => Within(x, flushing')
      BY <1>1, <1>2, <2>2
    <3>3. QED
      BY <1>0, <1>1, <1>3, <1>4, <2>2, <3>1, <3>2 DEF Traced
  <2>3. QED
    BY <2>1, <2>2
<1>16. QED
  BY <1>8, <1>9, <1>10, <1>11, <1>14, <1>15 DEF IInv

-----------------------------------------------------------------------------
(* Steps that take messages out of the outbox or out of those being        *)
(* flushed, and give them to no other hand.                                *)
LEMMA FewerHeld ==
  ASSUME TypeOK, OneHand, Traced,
         \A id \in Identifiers : /\ id \in Identifiers' /\ sent'[id] = sent[id]
                                  /\ verdict'[id] = verdict[id],
         \A id \in Identifiers' : Live(id)' => id \in Identifiers /\ Live(id),
         OnceEach(outbox'), OnceEach(flushing'),
         \A x \in Messages :
           /\ Within(x, outbox') => Within(x, outbox)
           /\ Within(x, flushing') => Within(x, flushing) \/ Within(x, outbox)
           /\ Within(x, outbox') => ~Within(x, flushing')
           /\ Within(x, outbox) => Within(x, outbox') \/ Within(x, flushing') \/ gone'[x] # "no"
           /\ Within(x, flushing) => Within(x, flushing') \/ gone'[x] # "no"
           /\ gone[x] # "no" => gone'[x] # "no"
           /\ Unsent(x)' => Unsent(x)
           /\ WithListener(x)' <=> WithListener(x)
           /\ pc'[x] = "track" => pc[x] = "track"
           /\ pc'[x] \in {"track", "template", "ok"} => pc[x] \in {"track", "template", "ok"}
  PROVE  OneHand' /\ Traced'
<1>1. \A x \in Messages : WithWhatsapp(x)' => WithWhatsapp(x)
  BY DEF WithWhatsapp
<1>2. OneHand'
  <2>1. \A i, j \in Identifiers' : Live(i)' /\ Live(j)' /\ sent'[i] = sent'[j] => i = j
    BY DEF OneHand
  <2>2. \A x \in Messages :
           /\ Unsent(x)' => /\ ~WithListener(x)' /\ ~Within(x, outbox') /\ ~Within(x, flushing')
                            /\ ~WithWhatsapp(x)'
           /\ WithListener(x)' => ~Within(x, outbox') /\ ~Within(x, flushing') /\ ~WithWhatsapp(x)'
           /\ WithWhatsapp(x)' => ~Within(x, outbox') /\ ~Within(x, flushing')
           /\ Within(x, outbox') => ~Within(x, flushing')
    <3>. SUFFICES ASSUME NEW x \in Messages
                  PROVE  /\ Unsent(x)' => /\ ~WithListener(x)' /\ ~Within(x, outbox') /\ ~Within(x, flushing')
                                          /\ ~WithWhatsapp(x)'
                         /\ WithListener(x)' => ~Within(x, outbox') /\ ~Within(x, flushing') /\ ~WithWhatsapp(x)'
                         /\ WithWhatsapp(x)' => ~Within(x, outbox') /\ ~Within(x, flushing')
                         /\ Within(x, outbox') => ~Within(x, flushing')
      BY DEF Unsent, WithListener, WithWhatsapp, Live
    <3>1. QED
      BY <1>1 DEF OneHand
  <2>3. QED
    BY <2>1, <2>2 DEF OneHand, OnceEach, Within, Unsent, WithListener, WithWhatsapp, Live
<1>3. Traced'
  <2>. SUFFICES ASSUME NEW x \in Messages, pc'[x] \in {"track", "template", "ok"}
                PROVE  \/ Within(x, outbox') \/ Within(x, flushing') \/ WithListener(x)'
                       \/ \E id \in Identifiers' :
                            sent'[id] = x /\ verdict'[id] \in {"none", "delivered", "failed"}
                       \/ gone'[x] # "no"
    BY DEF Traced, Within, WithListener
  <2>1. QED
    BY DEF Traced
<1>4. QED
  BY <1>2, <1>3

\* A message of the flush was refused: it is reported, and the flush goes on.
LEMMA FlushRefusedStep == ASSUME IInv, FlushRefused PROVE IInv'
<1>0. TypeOK /\ Standing /\ OneHand /\ Tracking /\ Traced /\ Invited /\ Ordered
  BY DEF IInv
<1>. DEFINE h == Head(flushing).message
<1>1. /\ pc[Listener] = "flushing" /\ flushing # <<>> /\ flushing' = Tail(flushing)
      /\ gone' = [x \in Messages |-> IF x = h THEN "reported" ELSE gone[x]]
      /\ UNCHANGED <<pc, window, refused, inflight, stale, identifier, mark>>
      /\ UNCHANGED <<outbox, expired, pushes, inviting, invited>>
  BY DEF FlushRefused, Lose, held
<1>2. /\ Tail(flushing) \in Seq(Entries) /\ h \in Messages /\ Within(h, flushing)
      /\ \A x : Within(x, flushing) <=> x = h \/ Within(x, Tail(flushing))
      /\ OnceEach(Tail(flushing)) /\ InOrder(Tail(flushing))
      /\ \A i \in DOMAIN Tail(flushing) : \E j \in DOMAIN flushing : Tail(flushing)[i] = flushing[j]
  <2>1. flushing \in Seq(Entries) /\ flushing # <<>> /\ OnceEach(flushing) /\ InOrder(flushing)
    BY <1>0, <1>1, Listed DEF OneHand, Ordered
  <2>2. Head(flushing) \in Entries
    BY <2>1, TailHands
  <2>3. h \in Messages
    BY <2>2 DEF Entries
  <2>4. QED
    BY <2>1, <2>3, TailHands
<1>3. /\ sent' \in Seq(Messages) /\ Len(sent') <= MaxAttempts
      /\ verdict' \in [Identifiers' -> {"none", "delivered", "failed", "told", "part"}]
      /\ 0 .. Len(sent) \subseteq 0 .. Len(sent')
      /\ \A id \in Identifiers : /\ id \in Identifiers' /\ sent'[id] = sent[id]
                                 /\ verdict'[id] = verdict[id]
      /\ \A id \in Identifiers' \ Identifiers :
           sent'[id] = h /\ verdict'[id] = "part" /\ id \notin inflight
  BY <1>0, <1>2, WhenRefused DEF FlushRefused
<1>. HIDE DEF h
<1>4. pc[h] \notin {"new", "deliver", "track"}
  <2>1. ~Unsent(h) /\ ~WithWhatsapp(h)
    BY <1>0, <1>2 DEF OneHand
  <2>2. QED
    BY <1>0, <1>2, <2>1 DEF Tracking, WithWhatsapp, Live, Unsent
<1>5. TypeOK' /\ Standing'
  <2>1. inflight \subseteq Identifiers' /\ identifier \in [Messages -> 0 .. Len(sent')]
    BY <1>0, <1>3 DEF TypeOK
  <2>2. QED
    BY <1>0, <1>1, <1>2, <1>3, <2>1 DEF TypeOK, Entries, Standing
<1>6. Ordered' /\ Invited'
  <2>1. \A i \in DOMAIN flushing', j \in DOMAIN outbox : flushing'[i].number < outbox[j].number
    BY <1>0, <1>1, <1>2 DEF Ordered
  <2>2. QED
    BY <1>0, <1>1, <1>2, <2>1 DEF Ordered, Invited, InOrder
<1>7. Tracking'
  <2>1. \A id \in Identifiers' \ Identifiers : pc'[sent'[id]] \notin {"new", "deliver", "track"}
    BY <1>1, <1>3, <1>4
  <2>2. QED
    BY <1>0, <1>1, <1>3, <2>1, TrackingKept
<1>8. OneHand' /\ Traced'
  <2>1. OnceEach(outbox') /\ OnceEach(flushing')
    BY <1>0, <1>1, <1>2 DEF OneHand
  <2>2. \A x \in Messages :
           /\ Within(x, outbox') <=> Within(x, outbox)
           /\ Within(x, flushing') => Within(x, flushing)
           /\ Within(x, outbox') => ~Within(x, flushing')
           /\ Within(x, flushing) => Within(x, flushing') \/ gone'[x] # "no"
           /\ gone[x] # "no" => gone'[x] # "no"
    BY <1>0, <1>1, <1>2 DEF OneHand
  <2>3. \A x \in Messages : (Unsent(x)' <=> Unsent(x)) /\ (WithListener(x)' <=> WithListener(x))
    BY <1>1 DEF Unsent, WithListener
  <2>4. \A id \in Identifiers' : Live(id)' => id \in Identifiers /\ Live(id)
    BY <1>1, <1>3, <1>4 DEF Live
  <2>5. QED
    BY <1>0, <1>1, <1>3, <2>1, <2>2, <2>3, <2>4, FewerHeld
<1>9. QED
  BY <1>5, <1>6, <1>7, <1>8 DEF IInv

(* The outbox is taken: what is not too old is what the listener holds.    *)
LEMMA FlushStep == ASSUME IInv, Flush PROVE IInv'
<1>0. TypeOK /\ Standing /\ OneHand /\ Tracking /\ Traced /\ Invited /\ Ordered
  BY DEF IInv
<1>1. /\ pc[Listener] = "flush" /\ Goto(Listener, "flushing")
      /\ outbox' = <<>> /\ expired' = 0 /\ inviting' = {} /\ invited' = 0 /\ flushing' = Fresh
      /\ gone' = [x \in Messages |-> IF x \in Outdated THEN "age" ELSE gone[x]]
      /\ UNCHANGED <<window, refused, inflight, stale, identifier, mark, sent, verdict, pushes>>
  BY DEF Flush, TakeOutbox, Taken, Lose, whatsapp
<1>2. flushing = <<>>
  BY <1>0, <1>1 DEF Standing
<1>3. /\ Fresh \in Seq(Entries) /\ OnceEach(Fresh) /\ InOrder(Fresh)
      /\ \A x : Within(x, Fresh) => Within(x, outbox)
      /\ \A x : Within(x, outbox) => Within(x, Fresh) \/ x \in Outdated
  <2>1. OnceEach(outbox) /\ InOrder(outbox)
    BY <1>0 DEF OneHand, Ordered
  <2>2. QED
    BY <1>0, <2>1, FreshHands
<1>4. /\ pc' \in [Actors -> Places] /\ pc'[Listener] = "flushing"
      /\ \A b \in Actors : b # Listener => pc'[b] = pc[b]
  BY <1>0, <1>1, OneMoves DEF Places
<1>5. \A m \in Messages : pc'[m] = pc[m]
  BY <1>4
<1>6. outbox' \in Seq(Entries) /\ Len(outbox') = 0 /\ DOMAIN outbox' = {}
  BY <1>1, EmptySeq
<1>7. TypeOK'
  <2>1. expired' \in 0 .. Len(outbox') /\ Len(outbox') <= OutboxSize
    BY <1>1, <1>6
  <2>2. QED
    BY <1>0, <1>1, <1>3, <1>4, <1>6, <2>1 DEF TypeOK, Entries, Places
<1>8. Standing'
  BY <1>0, <1>1, <1>4, <1>5 DEF Standing
<1>9. Ordered' /\ Invited'
  BY <1>1, <1>3, <1>6 DEF Ordered, Invited, InOrder
<1>10. Tracking'
  BY <1>0, <1>1, <1>5, TrackingKept
<1>11. OneHand' /\ Traced'
  <2>1. \A x : ~Within(x, outbox') /\ ~Within(x, flushing)
    BY <1>2, <1>6 DEF Within
  <2>2. OnceEach(outbox') /\ OnceEach(flushing')
    BY <1>1, <1>3, <1>6 DEF OnceEach
  <2>3. \A x \in Messages :
           /\ Within(x, outbox) => Within(x, flushing') \/ gone'[x] # "no"
           /\ Within(x, flushing') => Within(x, outbox)
           /\ gone[x] # "no" => gone'[x] # "no"
    BY <1>1, <1>3
  <2>4. \A x \in Messages : (Unsent(x)' <=> Unsent(x)) /\ (WithListener(x)' <=> WithListener(x))
    BY <1>1, <1>4, <1>5 DEF Unsent, WithListener
  <2>5. \A id \in Identifiers : Live(id)' => Live(id)
    BY <1>0, <1>1, <1>5, Listed DEF Live
  <2>6. QED
    BY <1>0, <1>1, <1>5, <2>1, <2>2, <2>3, <2>4, <2>5, FewerHeld
<1>12. QED
  BY <1>7, <1>8, <1>9, <1>10, <1>11 DEF IInv

(* A template that failed: everything held back is discarded.              *)
LEMMA TemplateRefusedStep == ASSUME IInv, NEW a \in Actors, TemplateRefused(a) PROVE IInv'
<1>0. TypeOK /\ Standing /\ OneHand /\ Tracking /\ Traced /\ Invited /\ Ordered
  BY DEF IInv
<1>. DEFINE place == IF a = Listener THEN "idle" ELSE "error"
<1>1. /\ pc[a] = "template" /\ Goto(a, place) /\ refused' = (IF a = Listener THEN Nobody ELSE refused)
      /\ outbox' = <<>> /\ expired' = 0 /\ inviting' = {} /\ invited' = 0
      /\ gone' = [m \in Messages |-> IF m = Subject(a) THEN "reported" ELSE
                                     IF m \in Outdated THEN "age" ELSE
                                     IF m \in MessagesOf(outbox) THEN "discarded" ELSE gone[m]]
      /\ UNCHANGED <<window, flushing, inflight, stale, identifier, mark, sent, verdict, pushes>>
  BY DEF TemplateRefused, NotHeldBack, TakeOutbox, Forget, whatsapp
<1>2. /\ pc' \in [Actors -> Places] /\ pc'[a] = place
      /\ \A b \in Actors : b # a => pc'[b] = pc[b]
  BY <1>0, <1>1, OneMoves DEF Places
<1>3. outbox' \in Seq(Entries) /\ Len(outbox') = 0 /\ DOMAIN outbox' = {}
  BY <1>1, EmptySeq
<1>4. TypeOK'
  <2>1. expired' \in 0 .. Len(outbox') /\ Len(outbox') <= OutboxSize
    BY <1>1, <1>3
  <2>2. gone' \in [Messages -> {"no", "size", "age", "reported", "discarded"}]
    BY <1>0, <1>1 DEF TypeOK
  <2>3. QED
    BY <1>0, <1>1, <1>2, <1>3, <2>1, <2>2 DEF TypeOK, Entries, Places
<1>5. Standing'
  BY <1>0, <1>1, <1>2 DEF Standing
<1>6. Ordered' /\ Invited'
  <2>1. pc[Listener] # "flushing" \/ pc'[Listener] = pc[Listener]
    BY <1>1, <1>2
  <2>2. QED
    BY <1>0, <1>1, <1>3 DEF Ordered, Invited, InOrder
<1>7. Tracking'
  <2>1. \A x \in Messages : /\ pc'[x] = "track" => pc[x] = "track"
                            /\ pc'[x] \in {"new", "deliver"} => pc[x] \in {"new", "deliver"}
    BY <1>2
  <2>2. QED
    BY <1>0, <1>1, <2>1, TrackingKept
<1>8. OneHand' /\ Traced'
  <2>1. \A x : ~Within(x, outbox')
    BY <1>3 DEF Within
  <2>2. OnceEach(outbox') /\ OnceEach(flushing')
    BY <1>0, <1>1, <1>3 DEF OnceEach, OneHand
  <2>3. \A x \in Messages :
           /\ Within(x, outbox) => gone'[x] # "no"
           /\ gone[x] # "no" => gone'[x] # "no"
    BY <1>1 DEF Within, MessagesOf
  <2>4. \A x \in Messages : (Unsent(x)' => Unsent(x)) /\ (WithListener(x)' <=> WithListener(x))
    BY <1>1, <1>2 DEF Unsent, WithListener
  <2>5. \A x \in Messages : /\ pc'[x] = "track" => pc[x] = "track"
                            /\ pc'[x] \in {"track", "template", "ok"} => pc[x] \in {"track", "template", "ok"}
    BY <1>2
  <2>6. \A x \in Messages : Within(x, flushing') <=> Within(x, flushing)
    BY <1>1
  <2>7. \A id \in Identifiers : Live(id)' => Live(id)
    BY <1>0, <1>1, <2>5, Listed DEF Live
  <2>8. QED
    BY <1>0, <1>1, <2>1, <2>2, <2>3, <2>4, <2>5, <2>6, <2>7, FewerHeld
<1>9. QED
  BY <1>4, <1>5, <1>6, <1>7, <1>8 DEF IInv

-----------------------------------------------------------------------------
(* A status that refuses a message.  An identifier that is tracked is the  *)
(* only hand its message is in: the message comes back to the listener.    *)
LEMMA StatusFailedStep == ASSUME IInv, NEW id \in Identifiers, StatusFailed(id) PROVE IInv'
<1>0. TypeOK /\ Standing /\ OneHand /\ Tracking /\ Traced /\ Invited /\ Ordered
  BY DEF IInv
<1>. DEFINE m == sent[id]
<1>1. /\ pc[Listener] = "idle" /\ verdict[id] \in {"failed", "told"} /\ m \in Messages
      /\ inflight' = inflight \ {id} /\ stale' = stale \ {id}
      /\ verdict' = [verdict EXCEPT ![id] = "told"]
      /\ UNCHANGED <<window, flushing, identifier, sent, mark>>
      /\ UNCHANGED <<outbox, expired, pushes, inviting, invited>>
  BY <1>0, Listed DEF StatusFailed, held
<1>2. /\ verdict' \in [Identifiers -> {"none", "delivered", "failed", "told", "part"}] /\ verdict'[id] = "told"
      /\ \A i \in Identifiers : i # id => verdict'[i] = verdict[i]
      /\ inflight' \subseteq inflight /\ stale' \subseteq inflight'
  BY <1>0, <1>1 DEF TypeOK
<1>3. CASE id \notin inflight
  <2>1. /\ UNCHANGED <<refused, pc>>
        /\ gone' = [x \in Messages |-> IF verdict[id] = "failed" /\ x = m THEN "reported" ELSE gone[x]]
    <3>1. gone = [x \in Messages |-> gone[x]]
      BY <1>0 DEF TypeOK
    <3>2. QED
      BY <1>1, <1>3, <3>1 DEF StatusFailed, Lose
  <2>2. TypeOK' /\ Standing'
    BY <1>0, <1>1, <1>2, <2>1 DEF TypeOK, Entries, Standing
  <2>3. OneHand' /\ Ordered' /\ Traced'
    <3>1. \A x \in Messages : (Unsent(x)' <=> Unsent(x)) /\ (WithListener(x)' <=> WithListener(x))
      BY <2>1 DEF Unsent, WithListener
    <3>2. \A i \in Identifiers : Live(i)' => Live(i)
      BY <1>1, <1>2, <2>1 DEF Live
    <3>3. \A i \in Identifiers : verdict[i] \in {"none", "delivered", "failed"} =>
            verdict'[i] \in {"none", "delivered", "failed"} \/ gone'[sent[i]] # "no"
      BY <1>1, <1>2, <2>1
    <3>4. \A x \in Messages : gone[x] # "no" => gone'[x] # "no"
      BY <2>1
    <3>5. QED
      BY <1>0, <1>1, <2>1, <3>1, <3>2, <3>3, <3>4, HandsKept
  <2>4. Tracking' /\ Invited'
    BY <1>0, <1>1, <1>2, <2>1, TrackingKept DEF Invited
  <2>5. QED
    BY <2>2, <2>3, <2>4 DEF IInv
<1>4. CASE id \in inflight
  <2>1. /\ refused' = m /\ Goto(Listener, "hold") /\ gone' = gone
    BY <1>4 DEF StatusFailed
  <2>2. /\ pc' \in [Actors -> Places] /\ pc'[Listener] = "hold"
        /\ \A b \in Actors : b # Listener => pc'[b] = pc[b]
    BY <1>0, <2>1, OneMoves DEF Places
  <2>. HIDE DEF m
  <2>3. \A x \in Messages : pc'[x] = pc[x]
    BY <2>2
  <2>4. TypeOK' /\ Standing'
    <3>1. m # Nobody
      BY <1>1
    <3>2. TypeOK'
      BY <1>0, <1>1, <1>2, <2>1, <2>2 DEF TypeOK, Entries, Places
    <3>3. QED
      BY <1>0, <1>1, <2>1, <2>2, <2>3, <3>1, <3>2 DEF Standing
  <2>5. Tracking' /\ Invited'
    BY <1>0, <1>1, <1>2, <2>1, <2>3, TrackingKept DEF Invited
  <2>6. Ordered'
    BY <1>0, <1>1, <2>2 DEF Ordered, InOrder
  <2>7. /\ Live(id) /\ WithWhatsapp(m) /\ ~Unsent(m) /\ ~Within(m, outbox) /\ ~Within(m, flushing)
    <3>1. Live(id)
      BY <1>4 DEF Live
    <3>2. QED
      BY <1>0, <1>1, <3>1 DEF WithWhatsapp, OneHand, m
  <2>8. pc[m] # "track"
    BY <1>0, <1>1, <1>4 DEF Tracking, m
  <2>9. \A i \in Identifiers : Live(i)' => Live(i) /\ i # id
    BY <1>0, <1>1, <1>2, <2>3, <2>8, Listed DEF Live, m
  <2>10. \A x \in Messages : /\ WithWhatsapp(x)' => WithWhatsapp(x) /\ x # m
                             /\ Unsent(x)' <=> Unsent(x)
                             /\ WithListener(x)' <=> x = m
                             /\ ~WithListener(x)
    <3>1. \A i \in Identifiers : Live(i) /\ sent[i] = m => i = id
      BY <1>0, <2>7 DEF OneHand, m
    <3>2. \A x \in Messages : WithWhatsapp(x)' => WithWhatsapp(x) /\ x # m
      BY <1>1, <2>9, <3>1 DEF WithWhatsapp
    <3>3. QED
      BY <1>1, <2>1, <2>2, <2>3, <3>2 DEF Unsent, WithListener
  <2>11. OneHand'
    <3>1. \A i, j \in Identifiers : Live(i)' /\ Live(j)' /\ sent[i] = sent[j] => i = j
      BY <1>0, <2>9 DEF OneHand
    <3>2. \A x \in Messages :
           /\ Unsent(x)' => /\ ~WithListener(x)' /\ ~Within(x, outbox) /\ ~Within(x, flushing)
                            /\ ~WithWhatsapp(x)'
           /\ WithListener(x)' => ~Within(x, outbox) /\ ~Within(x, flushing) /\ ~WithWhatsapp(x)'
           /\ WithWhatsapp(x)' => ~Within(x, outbox) /\ ~Within(x, flushing)
           /\ Within(x, outbox) => ~Within(x, flushing)
      <4>. SUFFICES ASSUME NEW x \in Messages
                    PROVE  /\ Unsent(x)' => /\ ~WithListener(x)' /\ ~Within(x, outbox) /\ ~Within(x, flushing)
                                            /\ ~WithWhatsapp(x)'
                           /\ WithListener(x)' => ~Within(x, outbox) /\ ~Within(x, flushing) /\ ~WithWhatsapp(x)'
                           /\ WithWhatsapp(x)' => ~Within(x, outbox) /\ ~Within(x, flushing)
                           /\ Within(x, outbox) => ~Within(x, flushing)
        BY DEF Unsent, WithListener, WithWhatsapp, Live
      <4>1. QED
        BY <1>0, <2>7, <2>10 DEF OneHand
    <3>3. OnceEach(outbox') /\ OnceEach(flushing')
      BY <1>0, <1>1 DEF OneHand
    <3>4. QED
      BY <1>1, <3>1, <3>2, <3>3 DEF OneHand, OnceEach, Within, Unsent, WithListener, WithWhatsapp, Live
  <2>12. Traced'
    <3>. SUFFICES ASSUME NEW x \in Messages, pc[x] \in {"track", "template", "ok"}
                  PROVE  \/ Within(x, outbox) \/ Within(x, flushing) \/ WithListener(x)'
                         \/ \E i \in Identifiers :
                              sent[i] = x /\ verdict'[i] \in {"none", "delivered", "failed"}
                         \/ gone[x] # "no"
      BY <1>1, <2>1, <2>3 DEF Traced, Within, WithListener
    <3>1. CASE x = m
      BY <2>10, <3>1
    <3>2. CASE x # m
      BY <1>0, <1>2, <2>10, <3>2 DEF Traced, m
    <3>3. QED
      BY <3>1, <3>2
  <2>13. QED
    BY <2>4, <2>5, <2>6, <2>11, <2>12 DEF IInv
<1>5. QED
  BY <1>3, <1>4

-----------------------------------------------------------------------------
(* A message is held back: the hand it was in lets it go.                  *)
LEMMA PushStep == ASSUME IInv, NEW a \in Actors, Push(a) PROVE IInv'
<1>0. TypeOK /\ Standing /\ OneHand /\ Tracking /\ Traced /\ Invited /\ Ordered
  BY DEF IInv
<1>. DEFINE m == Subject(a)
            last == IF a = Listener THEN "idle" ELSE "ok"
            place == IF First THEN "template" ELSE last
<1>1. /\ pc[a] = "hold" /\ Goto(a, place) /\ PushOutbox(a, m)
      /\ refused' = (IF First \/ a # Listener THEN refused ELSE Nobody)
      /\ UNCHANGED <<window, flushing, inflight, stale, identifier, mark, sent, verdict>>
  BY DEF Push, HeldBack, Forget, whatsapp
<1>2. /\ m \in Messages /\ ~Within(m, outbox) /\ ~Within(m, flushing) /\ ~WithWhatsapp(m)
      /\ a = Listener => WithListener(m)
      /\ a # Listener => Unsent(m) /\ m = a
  <2>1. CASE a = Listener
    <3>1. m = refused /\ m \in Messages /\ WithListener(m)
      BY <1>0, <1>1, <2>1 DEF Subject, Standing, TypeOK, WithListener
    <3>2. QED
      BY <1>0, <2>1, <3>1 DEF OneHand
  <2>2. CASE a # Listener
    <3>1. m = a /\ m \in Messages /\ Unsent(m)
      BY <1>1, <2>2 DEF Subject, Unsent
    <3>2. QED
      BY <1>0, <2>2, <3>1 DEF OneHand, WithWhatsapp
  <2>3. QED
    BY <2>1, <2>2
<1>. HIDE DEF m
<1>3. /\ pc' \in [Actors -> Places] /\ pc'[a] = place
      /\ \A b \in Actors : b # a => pc'[b] = pc[b]
  BY <1>0, <1>1, OneMoves DEF Places
<1>4. /\ outbox' \in Seq(Entries') /\ Len(outbox') <= OutboxSize /\ outbox' # <<>>
      /\ OnceEach(outbox') /\ InOrder(outbox') /\ Within(m, outbox')
      /\ \A x : Within(x, outbox') => x = m \/ Within(x, outbox)
      /\ \A x \in Messages : Within(x, outbox) => Within(x, outbox') \/ gone'[x] # "no"
      /\ \A i \in DOMAIN outbox' : \/ outbox'[i].number = pushes + 1
                                  \/ \E j \in DOMAIN outbox : outbox'[i] = outbox[j]
      /\ \A x \in Messages : gone[x] # "no" => gone'[x] # "no"
      /\ gone' \in [Messages -> {"no", "size", "age", "reported", "discarded"}]
  <2>1. OnceEach(outbox) /\ InOrder(outbox)
    BY <1>0 DEF OneHand, Ordered
  <2>2. QED
    BY <1>0, <1>1, <1>2, <2>1, PushedHands
<1>5. /\ expired' = 0 /\ pushes' = pushes + 1
      /\ inviting' = (IF Fresh = <<>> THEN {} ELSE inviting) \cup (IF First THEN {a} ELSE {})
      /\ invited' = IF Fresh = <<>> THEN 0 ELSE invited
  BY <1>1 DEF PushOutbox
<1>6. Invited'
  <2>1. CASE Fresh = <<>>
    BY <1>5, <2>1 DEF Invited, First
  <2>2. CASE Fresh # <<>>
    <3>1. outbox # <<>>
      <4>1. ASSUME outbox = <<>> PROVE FALSE
        <5>1. Len(Fresh) = 0 /\ Fresh \in Seq(Entries)
          BY <1>0, <4>1, FreshIsSuffix, Listed
        <5>2. QED
          BY <2>2, <5>1, EmptySeq
      <4>2. QED
        BY <4>1
    <3>2. QED
      BY <1>0, <1>5, <2>2, <3>1 DEF Invited, First
  <2>3. QED
    BY <2>1, <2>2
<1>7. TypeOK'
  <2>1. Entries \subseteq Entries'
    BY <1>0, <1>5, Listed DEF Entries
  <2>2. flushing' \in Seq(Entries')
    BY <1>0, <1>1, <2>1, Listed, SeqMonotonic
  <2>3. pushes' \in Nat /\ mark' \in 0 .. pushes'
    BY <1>0, <1>1, <1>5, Listed
  <2>4. Len(outbox') \in Nat /\ expired' \in 0 .. Len(outbox')
    BY <1>4, <1>5, LenProperties
  <2>5. invited' \in Nat /\ inviting' \subseteq Actors
    BY <1>0, <1>5 DEF TypeOK
  <2>6. refused' \in Messages \cup {Nobody}
    BY <1>0, <1>1 DEF TypeOK
  <2>7. QED
    BY <1>0, <1>1, <1>3, <1>4, <2>2, <2>3, <2>4, <2>5, <2>6 DEF TypeOK, Places
<1>8. Standing'
  BY <1>0, <1>1, <1>2, <1>3 DEF Standing
<1>9. Ordered'
  <2>1. /\ \A i \in DOMAIN outbox : outbox[i].number \in 1 .. pushes
        /\ \A i \in DOMAIN flushing : flushing[i].number \in 1 .. pushes
        /\ pushes \in Nat /\ mark \in 0 .. pushes
    BY <1>0, Listed
  <2>2. \A i \in DOMAIN flushing, j \in DOMAIN outbox' : flushing[i].number < outbox'[j].number
    <3>. SUFFICES ASSUME NEW i \in DOMAIN flushing, NEW j \in DOMAIN outbox'
                  PROVE  flushing[i].number < outbox'[j].number
      OBVIOUS
    <3>1. CASE outbox'[j].number = pushes + 1
      BY <2>1, <3>1
    <3>2. CASE \E l \in DOMAIN outbox : outbox'[j] = outbox[l]
      BY <1>0, <3>2 DEF Ordered
    <3>3. QED
      BY <1>4, <3>1, <3>2
  <2>3. pc'[Listener] \in {"flushing", "handover"} => \A i \in DOMAIN outbox' : outbox'[i].number > mark
    <3>. SUFFICES ASSUME pc'[Listener] \in {"flushing", "handover"}, NEW j \in DOMAIN outbox'
                  PROVE  outbox'[j].number > mark
      OBVIOUS
    <3>1. pc[Listener] \in {"flushing", "handover"}
      BY <1>3
    <3>2. CASE outbox'[j].number = pushes + 1
      BY <2>1, <3>2
    <3>3. CASE \E l \in DOMAIN outbox : outbox'[j] = outbox[l]
      BY <1>0, <3>1, <3>3 DEF Ordered
    <3>4. QED
      BY <1>4, <3>2, <3>3
  <2>4. QED
    BY <1>0, <1>1, <1>4, <2>2, <2>3 DEF Ordered
<1>10. Tracking'
  <2>1. \A x \in Messages : /\ pc'[x] = "track" => pc[x] = "track"
                            /\ pc'[x] \in {"new", "deliver"} => pc[x] \in {"new", "deliver"}
    BY <1>3
  <2>2. QED
    BY <1>0, <1>1, <2>1, TrackingKept
<1>11. \A id \in Identifiers : Live(id)' => Live(id)
  BY <1>0, <1>1, <1>3, Listed DEF Live
<1>12. \A x \in Messages :
         /\ WithWhatsapp(x)' => WithWhatsapp(x)
         /\ Unsent(x)' => Unsent(x) /\ x # m
         /\ WithListener(x)' => WithListener(x) /\ x # m
         /\ WithListener(x) /\ x # m => WithListener(x)'
  <2>1. \A x \in Messages : WithWhatsapp(x)' => WithWhatsapp(x)
    BY <1>1, <1>11 DEF WithWhatsapp
  <2>2. CASE a = Listener
    <3>1. pc'[Listener] # "hold" /\ \A x \in Messages : pc'[x] = pc[x]
      BY <1>3, <2>2
    <3>2. \A x \in Messages : Unsent(x)' => Unsent(x)
      BY <3>1 DEF Unsent
    <3>3. ~Unsent(m)
      BY <1>0, <1>2, <2>2 DEF OneHand
    <3>4. \A x \in Messages : ~WithListener(x)'
      BY <3>1 DEF WithListener
    <3>5. \A x \in Messages : WithListener(x) => x = m
      BY <1>2, <2>2 DEF WithListener
    <3>6. \A x \in Messages : Unsent(x)' => x # m
      BY <3>1, <3>3 DEF Unsent
    <3>7. QED
      BY <2>1, <3>2, <3>4, <3>5, <3>6
  <2>3. CASE a # Listener
    <3>1. m = a /\ Unsent(m) /\ ~WithListener(m) /\ pc'[m] # "hold" /\ pc'[Listener] = pc[Listener]
          /\ refused' = refused /\ \A x \in Messages : x # m => pc'[x] = pc[x]
      BY <1>0, <1>1, <1>2, <1>3, <2>3 DEF OneHand
    <3>2. pc'[m] \in {"template", "ok"}
      BY <1>3, <2>3, <3>1
    <3>3. \A x \in Messages : Unsent(x)' => Unsent(x) /\ x # m
      BY <3>1, <3>2 DEF Unsent
    <3>4. \A x \in Messages : WithListener(x)' <=> WithListener(x)
      BY <3>1 DEF WithListener
    <3>5. QED
      BY <2>1, <3>1, <3>3, <3>4
  <2>4. QED
    BY <2>2, <2>3
<1>13. OneHand'
  <2>1. \A i, j \in Identifiers : Live(i)' /\ Live(j)' /\ sent[i] = sent[j] => i = j
    BY <1>0, <1>11 DEF OneHand
  <2>2. \A x \in Messages :
           /\ Unsent(x)' => /\ ~WithListener(x)' /\ ~Within(x, outbox') /\ ~Within(x, flushing)
                            /\ ~WithWhatsapp(x)'
           /\ WithListener(x)' => ~Within(x, outbox') /\ ~Within(x, flushing) /\ ~WithWhatsapp(x)'
           /\ WithWhatsapp(x)' => ~Within(x, outbox') /\ ~Within(x, flushing)
           /\ Within(x, outbox') => ~Within(x, flushing)
    <3>. SUFFICES ASSUME NEW x \in Messages
                  PROVE  /\ Unsent(x)' => /\ ~WithListener(x)' /\ ~Within(x, outbox') /\ ~Within(x, flushing)
                                          /\ ~WithWhatsapp(x)'
                         /\ WithListener(x)' => ~Within(x, outbox') /\ ~Within(x, flushing) /\ ~WithWhatsapp(x)'
                         /\ WithWhatsapp(x)' => ~Within(x, outbox') /\ ~Within(x, flushing)
                         /\ Within(x, outbox') => ~Within(x, flushing)
      BY DEF Unsent, WithListener, WithWhatsapp, Live
    <3>1. CASE x = m
      BY <1>2, <1>12, <3>1
    <3>2. CASE x # m
      BY <1>0, <1>4, <1>12, <3>2 DEF OneHand
    <3>3. QED
      BY <3>1, <3>2
  <2>3. OnceEach(outbox') /\ OnceEach(flushing')
    BY <1>0, <1>1, <1>4 DEF OneHand
  <2>4. QED
    BY <1>1, <2>1, <2>2, <2>3 DEF OneHand, OnceEach, Within, Unsent, WithListener, WithWhatsapp, Live
<1>14. Traced'
  <2>. SUFFICES ASSUME NEW x \in Messages, pc'[x] \in {"track", "template", "ok"}
                PROVE  \/ Within(x, outbox') \/ Within(x, flushing) \/ WithListener(x)'
                       \/ \E i \in Identifiers :
                            sent[i] = x /\ verdict[i] \in {"none", "delivered", "failed"}
                       \/ gone'[x] # "no"
    BY <1>1 DEF Traced, Within, WithListener
  <2>1. CASE x = m
    BY <1>4, <2>1
  <2>2. CASE x # m
    <3>1. pc[x] \in {"track", "template", "ok"}
      <4>1. a = Listener \/ a = m
        BY <1>2
      <4>2. x # a
        BY <2>2, <4>1
      <4>3. QED
        BY <1>3, <4>2
    <3>2. QED
      BY <1>0, <1>4, <1>12, <2>2, <3>1 DEF Traced
  <2>3. QED
    BY <2>1, <2>2
<1>15. QED
  BY <1>6, <1>7, <1>8, <1>9, <1>10, <1>13, <1>14 DEF IInv

-----------------------------------------------------------------------------
\* Every initial state satisfies the invariant.
LEMMA InitHolds == Init => IInv
<1>. SUFFICES ASSUME Init PROVE IInv
  OBVIOUS
<1>1. /\ outbox = <<>> /\ flushing = <<>> /\ sent = <<>> /\ verdict = <<>>
      /\ outbox \in Seq(Entries) /\ flushing \in Seq(Entries) /\ sent \in Seq(Messages)
      /\ Len(outbox) = 0 /\ Len(sent) = 0
      /\ DOMAIN outbox = {} /\ DOMAIN flushing = {} /\ 1 .. Len(sent) = {}
  BY EmptySeq DEF Init
<1>2. /\ \A m \in Messages : pc[m] = "new" /\ gone[m] = "no"
      /\ pc[Listener] = "idle" /\ refused = Nobody
  BY DEF Init
<1>3. TypeOK
  <2>1. verdict \in [Identifiers -> {"none", "delivered", "failed", "told", "part"}]
    BY <1>1
  <2>2. MaxAttempts \in Nat /\ OutboxSize \in Nat
    OBVIOUS
  <2>3. /\ pc \in [Actors -> Places] /\ window \in {"unknown", "open", "closed"}
        /\ pushes = 0 /\ mark = 0 /\ invited = 0 /\ inviting = {} /\ expired = 0
        /\ inflight = {} /\ stale = {}
        /\ gone \in [Messages -> {"no", "size", "age", "reported", "discarded"}]
    BY DEF Init, Places
  <2>4. identifier \in [Messages -> 0 .. Len(sent)]
    BY <1>1 DEF Init
  <2>5. QED
    BY <1>1, <1>2, <2>1, <2>2, <2>3, <2>4 DEF TypeOK, Places
<1>4. Standing
  BY <1>1, <1>2 DEF Standing
<1>5. \A x : ~Within(x, outbox) /\ ~Within(x, flushing)
  BY <1>1 DEF Within
<1>6. OneHand
  BY <1>1, <1>2, <1>5 DEF OneHand, OnceEach, WithListener, WithWhatsapp
<1>7. Tracking /\ Traced /\ Invited /\ Ordered
  BY <1>1, <1>2 DEF Tracking, Traced, Invited, Ordered, InOrder
<1>8. QED
  BY <1>3, <1>4, <1>6, <1>7 DEF IInv

\* Every step keeps the invariant: one case per action.
LEMMA NextKeeps == IInv /\ [Next]_vars => IInv'
<1>. SUFFICES ASSUME IInv, [Next]_vars PROVE IInv'
  OBVIOUS
<1>1. CASE UNCHANGED vars
  <2>1. /\ UNCHANGED <<pc, window, flushing, refused, inflight, stale, identifier>>
        /\ UNCHANGED <<outbox, expired, pushes, inviting, invited>>
        /\ UNCHANGED <<sent, verdict, mark, gone>>
    BY <1>1 DEF vars, provider, held, whatsapp
  <2>2. TypeOK'
    BY <2>1 DEF IInv, TypeOK, Entries
  <2>3. Standing' /\ Tracking' /\ Invited'
    BY <2>1 DEF IInv, Standing, Tracking, Invited
  <2>4. Ordered'
    BY <2>1 DEF IInv, Ordered, InOrder
  <2>5. OneHand'
    BY <2>1 DEF IInv, OneHand, OnceEach, Within, Unsent, WithListener, WithWhatsapp, Live
  <2>6. Traced'
    BY <2>1 DEF IInv, Within, WithListener, Traced
  <2>7. QED
    BY <2>2, <2>3, <2>4, <2>5, <2>6 DEF IInv
<1>2. CASE Sending
  BY <1>2, ReadWindowStep, DeliverRefusedStep, DeliverAcceptedStep, TrackStep DEF Sending
<1>3. CASE HoldBack
  BY <1>3, DeclinedStep, PushStep, TemplateAcceptedStep, TemplateRefusedStep DEF HoldBack
<1>4. CASE Listening
  BY <1>4, ListenerMoves, FlushStep, FlushDeliversStep, FlushRefusedStep, StatusFailedStep,
     EnvironmentStep DEF Listening
<1>5. CASE Environment
  BY <1>5, EnvironmentStep DEF Environment
<1>6. QED
  BY <1>1, <1>2, <1>3, <1>4, <1>5 DEF Next

\* The inductive invariant of the outbox, for every number of callers and messages.
THEOREM Invariance == Spec => []IInv
<1>. QED
  BY InitHolds, NextKeeps, PTL DEF Spec

-----------------------------------------------------------------------------
(* A set whose elements are all the same has one element, or none.         *)
LEMMA AtMostOne ==
  ASSUME NEW S, \A x, y \in S : x = y
  PROVE  Cardinality(S) = IF S = {} THEN 0 ELSE 1
<1>1. CASE S = {}
  BY <1>1, FS_EmptySet
<1>2. CASE S # {}
  <2>1. PICK x : x \in S
    BY <1>2
  <2>2. S = {x}
    BY <2>1
  <2>3. QED
    BY <1>2, <2>2, FS_Singleton
<1>3. QED
  BY <1>1, <1>2

(* The copies of a message are the hands it is in.                         *)
LEMMA CopiesAreHands ==
  ASSUME IInv, NEW m \in Messages
  PROVE  /\ Copies(m) \in 0 .. 1
         /\ Copies(m) = 1 <=>
               \/ Within(m, outbox) \/ Within(m, flushing) \/ WithListener(m)
               \/ \E id \in Identifiers : sent[id] = m /\ verdict[id] \in {"none", "delivered"}
<1>. DEFINE A == {i \in DOMAIN outbox : outbox[i].message = m}
            B == {i \in DOMAIN flushing : flushing[i].message = m}
            C == {id \in Identifiers : sent[id] = m /\ verdict[id] \in {"none", "delivered"}}
            d == IF refused = m /\ pc[Listener] = "hold" THEN 1 ELSE 0
<1>0. OneHand
  BY DEF IInv
<1>1. Cardinality(A) = IF A = {} THEN 0 ELSE 1
  <2>1. \A x, y \in A : x = y
    BY <1>0 DEF OneHand, OnceEach
  <2>2. QED
    BY <2>1, AtMostOne
<1>2. Cardinality(B) = IF B = {} THEN 0 ELSE 1
  <2>1. \A x, y \in B : x = y
    BY <1>0 DEF OneHand, OnceEach
  <2>2. QED
    BY <2>1, AtMostOne
<1>3. Cardinality(C) = IF C = {} THEN 0 ELSE 1
  <2>1. \A x, y \in C : x = y
    BY <1>0 DEF OneHand, Live
  <2>2. QED
    BY <2>1, AtMostOne
<1>4. /\ A # {} <=> Within(m, outbox)
      /\ B # {} <=> Within(m, flushing)
      /\ C # {} <=> \E id \in Identifiers : sent[id] = m /\ verdict[id] \in {"none", "delivered"}
      /\ d = IF WithListener(m) THEN 1 ELSE 0
  BY DEF Within, WithListener
<1>5. C # {} => WithWhatsapp(m)
  BY DEF WithWhatsapp, Live
<1>6. /\ WithListener(m) => A = {} /\ B = {} /\ C = {}
      /\ C # {} => A = {} /\ B = {}
      /\ A # {} => B = {}
  BY <1>0, <1>4, <1>5 DEF OneHand
<1>7. Copies(m) = Cardinality(A) + Cardinality(B) + Cardinality(C) + d
  BY DEF Copies
<1>. HIDE DEF A, B, C, d
<1>8. QED
  BY <1>1, <1>2, <1>3, <1>4, <1>6, <1>7

(* As long as anything is held back, exactly one template invites the user *)
(* to write, whoever pushes, takes and lets messages expire at the time.   *)
THEOREM OneInvitation == Spec => []ExactlyOneInvitation
<1>1. IInv => ExactlyOneInvitation
  <2>. SUFFICES ASSUME IInv, outbox # <<>> PROVE Cardinality(inviting) + invited = 1
    BY DEF ExactlyOneInvitation
  <2>1. CASE inviting = {} /\ invited = 1
    BY <2>1, FS_EmptySet
  <2>2. CASE invited = 0 /\ \E a \in Actors : inviting = {a}
    <3>1. PICK a \in Actors : inviting = {a}
      BY <2>2
    <3>2. Cardinality({a}) = 1
      BY FS_Singleton
    <3>3. Cardinality(inviting) = 1 /\ invited = 0
      BY <2>2, <3>1, <3>2
    <3>4. QED
      BY ONLY <3>3
  <2>3. QED
    BY <2>1, <2>2 DEF IInv, Invited
<1>. QED
  BY <1>1, Invariance, PTL

(* No message is whole in two of the hands that would bring it to the      *)
(* user, although statuses are notified again and two goroutines move      *)
(* messages.  Posts accepted before another of the same message was        *)
(* refused are no whole copy, and may reach the user beside one.           *)
THEOREM NoTwoWholeCopies == Spec => []DeliveredOnce
<1>1. IInv => DeliveredOnce
  <2>. SUFFICES ASSUME IInv, NEW m \in Messages PROVE Copies(m) <= 1
    BY DEF DeliveredOnce
  <2>1. QED
    BY CopiesAreHands
<1>. QED
  BY <1>1, Invariance, PTL

(* A message whose Send returned no error is in one hand, or was refused,  *)
(* or was dropped knowingly.                                               *)
THEOREM NoneLostSilently == Spec => []Accounted
<1>1. IInv => Accounted
  <2>. SUFFICES ASSUME IInv, NEW m \in Messages, pc[m] = "ok"
                PROVE  \/ Copies(m) = 1
                       \/ \E id \in Identifiers : sent[id] = m /\ verdict[id] = "failed"
                       \/ gone[m] # "no"
    BY DEF Accounted
  <2>1. \/ Within(m, outbox) \/ Within(m, flushing) \/ WithListener(m)
        \/ \E id \in Identifiers : sent[id] = m /\ verdict[id] \in {"none", "delivered", "failed"}
        \/ gone[m] # "no"
    BY DEF IInv, Traced
  <2>2. QED
    BY <2>1, CopiesAreHands
<1>. QED
  BY <1>1, Invariance, PTL

(* What was held back first is delivered first, and the outbox holds at    *)
(* most OutboxSize messages.                                               *)
THEOREM OldestFirst == Spec => []HeldInOrder
<1>1. IInv => HeldInOrder
  <2>. SUFFICES ASSUME IInv
                PROVE  \A i, j \in DOMAIN (flushing \o outbox) :
                         i < j => (flushing \o outbox)[i].number < (flushing \o outbox)[j].number
    BY DEF HeldInOrder, IInv
  <2>. DEFINE q == flushing \o outbox
              f == Len(flushing)
              o == Len(outbox)
  <2>1. /\ f \in Nat /\ DOMAIN flushing = 1 .. f /\ o \in Nat /\ DOMAIN outbox = 1 .. o
        /\ flushing \in Seq(Entries) /\ outbox \in Seq(Entries)
    BY Listed DEF IInv
  <2>2. /\ q \in Seq(Entries) /\ Len(q) = f + o
        /\ \A i \in 1 .. (f + o) : q[i] = IF i <= f THEN flushing[i] ELSE outbox[i - f]
    BY <2>1, ConcatProperties
  <2>3. DOMAIN q = 1 .. (f + o)
    BY <2>2, LenProperties
  <2>4. /\ \A i, j \in 1 .. f : i < j => flushing[i].number < flushing[j].number
        /\ \A i, j \in 1 .. o : i < j => outbox[i].number < outbox[j].number
        /\ \A i \in 1 .. f, j \in 1 .. o : flushing[i].number < outbox[j].number
    BY <2>1 DEF IInv, Ordered, InOrder
  <2>. HIDE DEF q, f, o
  <2>5. ASSUME NEW i \in 1 .. (f + o), NEW j \in 1 .. (f + o), i < j PROVE q[i].number < q[j].number
    <3>1. CASE j <= f
      <4>1. i \in 1 .. f /\ j \in 1 .. f
        BY <2>1, <2>5, <3>1
      <4>2. QED
        BY <2>2, <2>4, <2>5, <3>1, <4>1
    <3>2. CASE i <= f /\ j > f
      <4>1. i \in 1 .. f /\ j - f \in 1 .. o
        BY <2>1, <3>2
      <4>2. QED
        BY <2>1, <2>2, <2>4, <3>2, <4>1
    <3>3. CASE i > f
      <4>1. i - f \in 1 .. o /\ j - f \in 1 .. o /\ i - f < j - f /\ j > f
        BY <2>1, <2>5, <3>3
      <4>2. q[i] = outbox[i - f] /\ q[j] = outbox[j - f]
        BY <2>1, <2>2, <3>3, <4>1
      <4>3. QED
        BY <2>4, <4>1, <4>2
    <3>4. QED
      BY <2>1, <3>1, <3>2, <3>3
  <2>6. QED
    BY <2>3, <2>5 DEF q
<1>. QED
  BY <1>1, Invariance, PTL

(* When the application gets the user's message, all that was held back    *)
(* when its handling began has left the outbox.                            *)
THEOREM AnsweredAfterFlush == Spec => []FlushedBeforeHandover
<1>1. IInv => FlushedBeforeHandover
  BY DEF IInv, Ordered, FlushedBeforeHandover
<1>. QED
  BY <1>1, Invariance, PTL
====
