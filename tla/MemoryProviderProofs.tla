------------------------ MODULE MemoryProviderProofs ------------------------
(* The in-process provider, for every number of channels and of calls, and *)
(* every buffer size.                                                      *)
EXTENDS MemoryProvider, SequenceTheorems, FiniteSetTheorems, TLAPS

USE BufferSizeAssumption, LoopbackAssumption, ChansDiffer

\* What is registered is open, and registered once.
Registered ==
  /\ IsInjective(listeners) /\ IsInjective(reactionListeners)
  /\ \A c \in Chans :
       Contains(listeners, c) \/ Contains(reactionListeners, c) => chanState[c] = "open"

(* A call begins with nothing, goes through a snapshot without repetition, *)
(* and comes to its end when it returns nil, which is for good.            *)
Looping ==
  \A d \in Calls :
    /\ IsInjective(snapshot[d]) /\ next[d] \in 1 .. Len(snapshot[d]) + 1
    /\ pc[d] \in {"idle", "recorded", "checked", "ErrClosed"} =>
         snapshot[d] = <<>> /\ next[d] = 1
    /\ pc[d] = "ok" => next[d] > Len(snapshot[d])
    /\ \A e \in before[d] : pc[e] = "ok"

\* A channel got, once each, the messages of the calls that went past it.
Given ==
  \A c \in Chans :
    /\ IsInjective(Stream(c))
    /\ \A d \in Calls :
         Contains(Stream(c), d) <=> \E i \in 1 .. next[d] - 1 : snapshot[d][i] = c

\* ... and what ended before a call began is ahead of its message.
Ordered ==
  \A c \in Chans : \A i, j \in 1 .. Len(Stream(c)) :
    Stream(c)[i] \in before[Stream(c)[j]] => i < j

IInv == TypeOK /\ Registered /\ Looping /\ Given /\ Ordered

-----------------------------------------------------------------------------
(* Sequences without repetition.                                           *)

\* removeListener takes one channel out of a list without duplicates.
LEMMA Removed ==
  ASSUME NEW S, NEW seq \in Seq(S), IsInjective(seq), NEW e, Contains(seq, e)
  PROVE  /\ RemoveFirst(seq, e) \in Seq(S) /\ IsInjective(RemoveFirst(seq, e))
         /\ \A x : Contains(RemoveFirst(seq, e), x) <=> Contains(seq, x) /\ x # e
<1>1. Len(seq) \in Nat /\ DOMAIN seq = 1 .. Len(seq) /\ \A i \in 1 .. Len(seq) : seq[i] \in S
  BY LenProperties, ElementOfSeq
<1>2. PICK k \in 1 .. Len(seq) : seq[k] = e BY DEF Contains
<1> DEFINE r == SubSeq(seq, 1, k - 1) \o SubSeq(seq, k + 1, Len(seq))
<1>3. RemoveFirst(seq, e) = r
  <2> DEFINE I == {i \in 1 .. Len(seq) : seq[i] = e}
  <2>1. I = {k} BY <1>1, <1>2 DEF IsInjective
  <2>2. Min(I) = k BY <1>1, <1>2, <2>1 DEF Min
  <2>3. SelectInSeq(seq, LAMBDA v : v = e) = Min(I) BY <2>1 DEF SelectInSeq
  <2> QED BY <1>2, <2>2, <2>3 DEF RemoveFirst, RemoveAt
<1>4. /\ SubSeq(seq, 1, k - 1) \in Seq(S) /\ Len(SubSeq(seq, 1, k - 1)) = k - 1
      /\ \A i \in 1 .. k - 1 : SubSeq(seq, 1, k - 1)[i] = seq[i]
  <2>1. \A i \in 1 .. k - 1 : seq[i] \in S BY <1>1
  <2>2. k - 1 \in Int /\ 1 \in Int BY <1>1
  <2> HIDE DEF r
  <2> QED BY <1>1, <2>1, <2>2, SubSeqProperties
<1>5. /\ SubSeq(seq, k + 1, Len(seq)) \in Seq(S)
      /\ Len(SubSeq(seq, k + 1, Len(seq))) = Len(seq) - k
      /\ \A i \in 1 .. Len(seq) - k : SubSeq(seq, k + 1, Len(seq))[i] = seq[i + k]
  <2>1. \A i \in k + 1 .. Len(seq) : seq[i] \in S BY <1>1
  <2> DEFINE m == k + 1
             n == Len(seq)
  <2>2. m \in Int /\ n \in Int /\ m = k + 1 /\ n = Len(seq) BY <1>1
  <2>3. \A i \in m .. n : seq[i] \in S BY <2>1
  <2> HIDE DEF r, m, n
  <2>4. /\ SubSeq(seq, m, n) \in Seq(S)
        /\ Len(SubSeq(seq, m, n)) = IF m <= n THEN n - m + 1 ELSE 0
        /\ \A i \in 1 .. n - m + 1 : SubSeq(seq, m, n)[i] = seq[m + i - 1]
    BY <2>2, <2>3, SubSeqProperties
  <2>5. Len(SubSeq(seq, m, n)) = n - k
    <3>1. k \in Int /\ k <= n BY <1>1, <2>2
    <3>2. CASE m <= n BY <2>2, <2>4, <3>1, <3>2
    <3>3. CASE ~(m <= n) BY <2>2, <2>4, <3>1, <3>3
    <3> QED BY <3>2, <3>3
  <2>6. ASSUME NEW i \in 1 .. n - k PROVE SubSeq(seq, m, n)[i] = seq[i + k]
    <3>1. i \in 1 .. n - m + 1 /\ m + i - 1 = i + k BY <1>1, <2>2
    <3> QED BY <2>4, <3>1
  <2> QED BY <2>2, <2>4, <2>5, <2>6
<1>6. /\ r \in Seq(S) /\ Len(r) = Len(seq) - 1
      /\ \A i \in 1 .. Len(seq) - 1 : r[i] = IF i < k THEN seq[i] ELSE seq[i + 1]
  <2> DEFINE a == SubSeq(seq, 1, k - 1)
             b == SubSeq(seq, k + 1, Len(seq))
  <2>1. /\ a \in Seq(S) /\ Len(a) = k - 1 /\ \A i \in 1 .. k - 1 : a[i] = seq[i]
        /\ b \in Seq(S) /\ Len(b) = Len(seq) - k /\ \A i \in 1 .. Len(seq) - k : b[i] = seq[i + k]
        /\ r = a \o b
    BY <1>4, <1>5
  <2> HIDE DEF r, a, b
  <2>2. /\ a \o b \in Seq(S) /\ Len(a \o b) = Len(a) + Len(b)
        /\ \A i \in 1 .. Len(a) + Len(b) :
             (a \o b)[i] = IF i <= Len(a) THEN a[i] ELSE b[i - Len(a)]
    <3>1. a \in Seq(S) /\ b \in Seq(S) BY <2>1
    <3> QED BY ONLY <3>1, ConcatProperties
  <2>3. Len(r) = Len(seq) - 1 BY <1>1, <2>1, <2>2
  <2>4. ASSUME NEW i \in 1 .. Len(seq) - 1
        PROVE  r[i] = IF i < k THEN seq[i] ELSE seq[i + 1]
    <3>1. r[i] = IF i <= k - 1 THEN a[i] ELSE b[i - (k - 1)] BY <1>1, <2>1, <2>2
    <3>2. CASE i < k BY <1>1, <2>1, <3>1, <3>2
    <3>3. CASE ~(i < k)
      <4>1. i - (k - 1) \in 1 .. Len(seq) - k BY <1>1, <3>3
      <4> QED BY <1>1, <2>1, <3>1, <3>3, <4>1
    <3> QED BY <3>2, <3>3
  <2> QED BY <2>1, <2>2, <2>3, <2>4
<1> HIDE DEF r
<1>7. Len(r) \in Nat /\ DOMAIN r = 1 .. Len(r) BY <1>6, LenProperties
<1>8. ASSUME NEW i \in 1 .. Len(r)
       PROVE  \E h \in 1 .. Len(seq) : r[i] = seq[h] /\ h = (IF i < k THEN i ELSE i + 1)
  BY <1>1, <1>6, <1>7
<1>9. IsInjective(r)
  <2> SUFFICES ASSUME NEW i \in 1 .. Len(r), NEW j \in 1 .. Len(r), r[i] = r[j] PROVE i = j
    BY <1>7 DEF IsInjective
  <2>1. PICK g \in 1 .. Len(seq) : r[i] = seq[g] /\ g = (IF i < k THEN i ELSE i + 1) BY <1>8
  <2>2. PICK h \in 1 .. Len(seq) : r[j] = seq[h] /\ h = (IF j < k THEN j ELSE j + 1) BY <1>8
  <2>3. g = h BY <1>1, <2>1, <2>2 DEF IsInjective
  <2> QED BY <1>7, <2>1, <2>2, <2>3
<1>10. ASSUME NEW x PROVE Contains(r, x) <=> Contains(seq, x) /\ x # e
  <2>1. ASSUME NEW i \in 1 .. Len(r), r[i] = x PROVE Contains(seq, x) /\ x # e
    <3>1. PICK h \in 1 .. Len(seq) : r[i] = seq[h] /\ h = (IF i < k THEN i ELSE i + 1) BY <1>8
    <3>2. h # k BY <1>7, <3>1
    <3> QED BY <1>1, <1>2, <2>1, <3>1, <3>2 DEF Contains, IsInjective
  <2>2. ASSUME NEW i \in 1 .. Len(seq), seq[i] = x, x # e PROVE Contains(r, x)
    <3>1. CASE i < k
      <4>1. i \in 1 .. Len(r) /\ r[i] = x BY <1>1, <1>6, <2>2, <3>1
      <4> QED BY <4>1 DEF Contains
    <3>2. CASE i > k
      <4>1. i - 1 \in 1 .. Len(r) /\ r[i - 1] = x BY <1>1, <1>6, <2>2, <3>2
      <4> QED BY <4>1 DEF Contains
    <3> QED BY <1>1, <1>2, <2>2, <3>1, <3>2
  <2> QED BY <2>1, <2>2 DEF Contains
<1> QED BY <1>3, <1>6, <1>9, <1>10

\* A channel that is not in the list can be appended to it.
LEMMA Appended ==
  ASSUME NEW S, NEW seq \in Seq(S), NEW e \in S, IsInjective(seq), ~Contains(seq, e)
  PROVE  /\ Append(seq, e) \in Seq(S) /\ IsInjective(Append(seq, e))
         /\ \A x : Contains(Append(seq, e), x) <=> Contains(seq, x) \/ x = e
<1> DEFINE r == Append(seq, e)
<1>1. Len(seq) \in Nat /\ DOMAIN seq = 1 .. Len(seq) BY LenProperties
<1>2. /\ r \in Seq(S) /\ Len(r) = Len(seq) + 1 /\ r[Len(seq) + 1] = e
      /\ \A i \in 1 .. Len(seq) : r[i] = seq[i]
  BY AppendProperties
<1>3. DOMAIN r = 1 .. Len(seq) + 1 BY <1>2, LenProperties
<1> HIDE DEF r
<1>4. IsInjective(r)
  <2> SUFFICES ASSUME NEW i \in 1 .. Len(seq) + 1, NEW j \in 1 .. Len(seq) + 1, r[i] = r[j]
               PROVE  i = j
    BY <1>3 DEF IsInjective
  <2> QED BY <1>1, <1>2 DEF IsInjective, Contains
<1>5. \A x : Contains(r, x) <=> Contains(seq, x) \/ x = e
  BY <1>1, <1>2 DEF Contains
<1> QED BY <1>2, <1>4, <1>5 DEF r

\* Concatenation is associative, in terms that hide what is concatenated.
LEMMA Associative ==
  ASSUME NEW S, NEW a \in Seq(S), NEW b \in Seq(S), NEW c \in Seq(S)
  PROVE  (a \o b) \o c = a \o (b \o c)
BY ConcatAssociative

\* What is appended to the second part is appended to the whole.
LEMMA AppendedBehind ==
  ASSUME NEW S, NEW a \in Seq(S), NEW b \in Seq(S), NEW e \in S
  PROVE  a \o Append(b, e) = Append(a \o b, e)
<1>1. a \o b \in Seq(S) /\ <<e>> \in Seq(S) BY ConcatProperties
<1>2. Append(a \o b, e) = (a \o b) \o <<e>> BY <1>1, AppendIsConcat
<1>3. Append(b, e) = b \o <<e>> BY AppendIsConcat
<1>4. (a \o b) \o <<e>> = a \o (b \o <<e>>) BY <1>1, Associative
<1> QED BY <1>2, <1>3, <1>4

\* The head of the second part may go over to the first.
LEMMA HeadMoves ==
  ASSUME NEW S, NEW a \in Seq(S), NEW b \in Seq(S), b # <<>>
  PROVE  Append(a, Head(b)) \o Tail(b) = a \o b
<1> DEFINE h == Head(b)
           t == Tail(b)
<1>1. h \in S /\ t \in Seq(S) /\ b = <<h>> \o t BY HeadTailProperties
<1> HIDE DEF h, t
<1>2. <<h>> \in Seq(S) /\ Append(a, h) = a \o <<h>> BY <1>1, AppendIsConcat
<1>3. (a \o <<h>>) \o t = a \o (<<h>> \o t) BY <1>1, <1>2, Associative
<1> QED BY <1>1, <1>2, <1>3 DEF h, t

\* The empty sequence repeats nothing and contains nothing.
LEMMA Empty == IsInjective(<<>>) /\ \A x : ~Contains(<<>>, x)
BY DEF IsInjective, Contains

-----------------------------------------------------------------------------
(* The calls.                                                              *)

CallsTyped ==
  /\ pc \in [Calls -> {"idle", "recorded", "checked", "sending", "ok", "ctx",
                       "ErrClosed", "panic"}]
  /\ snapshot \in [Calls -> Seq(Chans)]
  /\ next \in [Calls -> Nat]
  /\ before \in [Calls -> SUBSET Calls]

\* What a channel got is a sequence of calls.
LEMMA StreamTyped ==
  ASSUME TypeOK, NEW c \in Chans
  PROVE  /\ Stream(c) \in Seq(Calls) /\ Len(Stream(c)) \in Nat
         /\ DOMAIN Stream(c) = 1 .. Len(Stream(c))
         /\ \A i \in 1 .. Len(Stream(c)) : Stream(c)[i] \in Calls
<1>1. got[c] \in Seq(Calls) /\ buf[c] \in Seq(Calls) BY DEF TypeOK
<1>2. Stream(c) \in Seq(Calls) BY <1>1, ConcatProperties DEF Stream
<1> QED BY <1>2, LenProperties, ElementOfSeq

\* A call that stood before its loop takes its snapshot.
LEMMA Snapped ==
  ASSUME TypeOK, Looping, Given, Ordered, NEW d \in Calls, NEW chans \in Seq(Chans),
         pc[d] \in {"idle", "recorded", "checked"}, IsInjective(chans),
         TakeSnapshot(d, chans), UNCHANGED <<buf, got>>
  PROVE  CallsTyped' /\ Looping' /\ Given' /\ Ordered'
<1>1. /\ pc' = [pc EXCEPT ![d] = "sending"] /\ snapshot' = [snapshot EXCEPT ![d] = chans]
      /\ before' = [before EXCEPT ![d] = Ended] /\ next' = next
  BY DEF TakeSnapshot
<1>2. Ended \subseteq Calls /\ \A e \in Ended : pc[e] = "ok" /\ e # d BY DEF Ended
<1>3. CallsTyped' BY <1>1, <1>2 DEF TypeOK, CallsTyped
<1>4. snapshot[d] = <<>> /\ next[d] = 1 BY DEF Looping
<1>5. Looping'
  <2> SUFFICES ASSUME NEW e \in Calls
               PROVE  /\ IsInjective(snapshot'[e]) /\ next'[e] \in 1 .. Len(snapshot'[e]) + 1
                      /\ pc'[e] \in {"idle", "recorded", "checked", "ErrClosed"} =>
                           snapshot'[e] = <<>> /\ next'[e] = 1
                      /\ pc'[e] = "ok" => next'[e] > Len(snapshot'[e])
                      /\ \A x \in before'[e] : pc'[x] = "ok"
    BY DEF Looping
  <2>1. CASE e = d
    <3>1. Len(chans) \in Nat BY LenProperties
    <3>2. pc'[e] = "sending" /\ snapshot'[e] = chans /\ next'[e] = 1 /\ before'[e] = Ended
      BY <1>1, <1>4, <2>1 DEF TypeOK
    <3>3. \A x \in Ended : pc'[x] = "ok" BY <1>1, <1>2 DEF TypeOK
    <3> QED BY <3>1, <3>2, <3>3
  <2>2. CASE e # d
    <3>1. /\ pc'[e] = pc[e] /\ snapshot'[e] = snapshot[e] /\ next'[e] = next[e]
          /\ before'[e] = before[e]
      BY <1>1, <2>2 DEF TypeOK
    <3>2. \A x \in before[e] : pc'[x] = "ok" BY <1>1 DEF TypeOK, Looping
    <3> QED BY <3>1, <3>2 DEF Looping
  <2> QED BY <2>1, <2>2
<1>6. \A c \in Chans : Stream(c)' = Stream(c) BY DEF Stream
<1>7. \A c \in Chans : ~Contains(Stream(c), d)
  <2>1. 1 .. next[d] - 1 = {} BY <1>4
  <2> QED BY <2>1 DEF Given
<1>8. Given'
  <2> SUFFICES ASSUME NEW c \in Chans, NEW e \in Calls
               PROVE  /\ IsInjective(Stream(c)')
                      /\ Contains(Stream(c)', e) <=>
                           \E i \in 1 .. next'[e] - 1 : snapshot'[e][i] = c
    BY DEF Given
  <2>1. CASE e = d
    <3>1. 1 .. next'[e] - 1 = {} BY <1>1, <1>4, <2>1
    <3> QED BY <1>6, <1>7, <2>1, <3>1 DEF Given
  <2>2. CASE e # d
    <3>1. snapshot'[e] = snapshot[e] /\ next'[e] = next[e] BY <1>1, <2>2 DEF TypeOK
    <3> QED BY <1>6, <3>1 DEF Given
  <2> QED BY <2>1, <2>2
<1>9. Ordered'
  <2> SUFFICES ASSUME NEW c \in Chans, NEW i \in 1 .. Len(Stream(c)),
  NEW j \in 1 .. Len(Stream(c)),
                      Stream(c)[i] \in before'[Stream(c)[j]]
               PROVE  i < j
    BY <1>6 DEF Ordered
  <2>1. Stream(c)[j] # d /\ Stream(c)[j] \in Calls BY <1>7, StreamTyped DEF Contains
  <2>2. before'[Stream(c)[j]] = before[Stream(c)[j]] BY <1>1, <2>1 DEF TypeOK
  <2> QED BY <2>2 DEF Ordered
<1> QED BY <1>3, <1>5, <1>8, <1>9

\* Only the place of a call changes, and it had not returned nil.
LEMMA Moved ==
  ASSUME TypeOK, Looping, Given, Ordered, NEW d \in Calls, pc[d] # "ok",
         NEW place \in {"recorded", "checked", "ok", "ctx", "ErrClosed", "panic"},
         pc' = [pc EXCEPT ![d] = place], UNCHANGED <<snapshot, next, before, buf, got>>,
         place \in {"recorded", "checked", "ErrClosed"} => snapshot[d] = <<>> /\ next[d] = 1,
         place = "ok" => next[d] > Len(snapshot[d])
  PROVE  CallsTyped' /\ Looping' /\ Given' /\ Ordered'
<1>1. CallsTyped' BY DEF TypeOK, CallsTyped
<1>2. pc'[d] = place /\ \A e \in Calls : e # d => pc'[e] = pc[e] BY DEF TypeOK
<1>3. \A e \in Calls : before[e] \subseteq Calls BY DEF TypeOK
<1>4. Looping'
  <2> SUFFICES ASSUME NEW e \in Calls
               PROVE  /\ IsInjective(snapshot[e]) /\ next[e] \in 1 .. Len(snapshot[e]) + 1
                      /\ pc'[e] \in {"idle", "recorded", "checked", "ErrClosed"} =>
                           snapshot[e] = <<>> /\ next[e] = 1
                      /\ pc'[e] = "ok" => next[e] > Len(snapshot[e])
                      /\ \A x \in before[e] : pc'[x] = "ok"
    BY DEF Looping
  <2>1. IsInjective(snapshot[e]) /\ next[e] \in 1 .. Len(snapshot[e]) + 1 BY DEF Looping
  <2>2. \A x \in before[e] : pc'[x] = "ok" BY <1>2, <1>3 DEF Looping
  <2>3. CASE e = d BY <1>2, <2>1, <2>2, <2>3
  <2>4. CASE e # d BY <1>2, <2>1, <2>2, <2>4 DEF Looping
  <2> QED BY <2>3, <2>4
<1>5. \A c \in Chans : Stream(c)' = Stream(c) BY DEF Stream
<1>6. Given' BY <1>5 DEF Given
<1>7. Ordered' BY <1>5 DEF Ordered
<1> QED BY <1>1, <1>4, <1>6, <1>7

\* The message of a call goes behind all that the channel got.
LEMMA Grown ==
  ASSUME TypeOK, NEW d \in Calls, NEW c \in Chans, buf' = [buf EXCEPT ![c] = Append(@, d)],
         got' = got
  PROVE  /\ Stream(c)' = Append(Stream(c), d)
         /\ \A x \in Chans : x # c => Stream(x)' = Stream(x)
<1>1. got[c] \in Seq(Calls) /\ buf[c] \in Seq(Calls) BY DEF TypeOK
<1>2. Stream(c)' = got[c] \o Append(buf[c], d) BY DEF TypeOK, Stream
<1>3. got[c] \o Append(buf[c], d) = Append(got[c] \o buf[c], d)
  <2> DEFINE a == got[c]
             b == buf[c]
  <2>1. a \in Seq(Calls) /\ b \in Seq(Calls) BY <1>1
  <2> HIDE DEF a, b
  <2>2. a \o Append(b, d) = Append(a \o b, d) BY <2>1, AppendedBehind
  <2> QED BY <2>2 DEF a, b
<1>4. \A x \in Chans : x # c => Stream(x)' = Stream(x) BY DEF TypeOK, Stream
<1> QED BY <1>2, <1>3, <1>4 DEF Stream

\* What the application takes, the channel had got.
LEMMA Taken ==
  ASSUME TypeOK, NEW c \in Chans, buf[c] # <<>>,
         got' = [got EXCEPT ![c] = Append(@, Head(buf[c]))],
         buf' = [buf EXCEPT ![c] = Tail(@)]
  PROVE  \A x \in Chans : Stream(x)' = Stream(x)
<1>1. got[c] \in Seq(Calls) /\ buf[c] \in Seq(Calls) BY DEF TypeOK
<1>2. got'[c] = Append(got[c], Head(buf[c])) /\ buf'[c] = Tail(buf[c]) BY DEF TypeOK
<1>3. Append(got[c], Head(buf[c])) \o Tail(buf[c]) = got[c] \o buf[c] BY <1>1, HeadMoves
<1>4. Stream(c)' = Stream(c) BY <1>2, <1>3 DEF Stream
<1>5. \A x \in Chans : x # c => Stream(x)' = Stream(x) BY DEF TypeOK, Stream
<1> QED BY <1>4, <1>5

-----------------------------------------------------------------------------
(* The invariant holds.                                                    *)

\* Every initial state satisfies the invariant.
LEMMA InitHolds == Init => IInv
<1> SUFFICES ASSUME Init PROVE IInv OBVIOUS
<1>1. TypeOK
  <2>1. /\ <<>> \in Seq(MsgChans) /\ <<>> \in Seq(ReactChans) /\ <<>> \in Seq(Deliveries)
        /\ <<>> \in Seq(Calls) /\ <<>> \in Seq(Chans) /\ Len(<<>>) = 0
    BY EmptySeq
  <2>2. /\ listeners \in Seq(MsgChans) /\ reactionListeners \in Seq(ReactChans)
        /\ closed \in BOOLEAN /\ sent \in Seq(Deliveries)
        /\ closePc \in {"idle", "called", "locked", "done"}
        /\ ctxDone \subseteq Chans /\ panicked \in BOOLEAN
    BY <2>1 DEF Init
  <2>3. /\ chanState \in [Chans -> {"none", "checked", "refused", "open", "closed"}]
        /\ buf \in [Chans -> Seq(Calls)] /\ \A c \in Chans : Len(buf[c]) <= BufferSize
        /\ got \in [Chans -> Seq(Calls)]
    BY <2>1 DEF Init
  <2>4. CallsTyped BY <2>1 DEF Init, CallsTyped
  <2> QED BY <2>2, <2>3, <2>4 DEF TypeOK, CallsTyped
<1>2. Registered BY Empty DEF Init, Registered
<1>3. Looping BY Empty DEF Init, Looping
<1>4. \A c \in Chans : Stream(c) = <<>> BY DEF Init, Stream
<1>5. Given BY <1>4, Empty DEF Init, Given
<1>6. Ordered BY <1>4 DEF Ordered
<1> QED BY <1>1, <1>2, <1>3, <1>5, <1>6 DEF IInv

\* The variables that are not the calls' have their types.
OthersTyped ==
  /\ listeners \in Seq(MsgChans) /\ reactionListeners \in Seq(ReactChans)
  /\ closed \in BOOLEAN /\ sent \in Seq(Deliveries)
  /\ closePc \in {"idle", "called", "locked", "done"}
  /\ chanState \in [Chans -> {"none", "checked", "refused", "open", "closed"}]
  /\ buf \in [Chans -> Seq(Calls)] /\ \A c \in Chans : Len(buf[c]) <= BufferSize
  /\ ctxDone \subseteq Chans /\ panicked \in BOOLEAN
  /\ got \in [Chans -> Seq(Calls)]

\* A type invariant of two halves.
LEMMA Typed == TypeOK <=> OthersTyped /\ CallsTyped
BY DEF TypeOK, OthersTyped, CallsTyped

\* What concerns the calls does not depend on the channels that are open.
LEMMA CallsKept ==
  ASSUME Looping, Given, Ordered, UNCHANGED <<calls, buf, got>>
  PROVE  Looping' /\ Given' /\ Ordered'
<1>1. \A c \in Chans : Stream(c)' = Stream(c) BY DEF Stream
<1> QED BY <1>1 DEF calls, Looping, Given, Ordered

\* A registered channel is one of its kind.
LEMMA OfItsKind ==
  ASSUME TypeOK
  PROVE  /\ \A x : Contains(listeners, x) => x \in MsgChans
         /\ \A x : Contains(reactionListeners, x) => x \in ReactChans
BY ElementOfSeq DEF TypeOK, Contains

\* Every step keeps the invariant: one case per action.
LEMMA NextKeeps == IInv /\ [Next]_vars => IInv'
<1> SUFFICES ASSUME IInv, [Next]_vars PROVE IInv' OBVIOUS
<1>0. TypeOK /\ Registered /\ Looping /\ Given /\ Ordered /\ OthersTyped /\ CallsTyped
  BY Typed DEF IInv
<1>A. OthersTyped' /\ CallsTyped' /\ Registered' /\ Looping' /\ Given' /\ Ordered' => IInv'
  BY DEF IInv, TypeOK, OthersTyped, CallsTyped
<1>B. UNCHANGED calls => CallsTyped'
  BY <1>0 DEF calls, CallsTyped
<1>C. \A x : Contains(listeners, x) => x \in MsgChans /\ x \in Chans /\ x \notin ReactChans
  BY <1>0, OfItsKind DEF Chans
<1>D. \A x : Contains(reactionListeners,
x) => x \in ReactChans /\ x \in Chans /\ x \notin MsgChans
  BY <1>0, OfItsKind DEF Chans
<1>1. ASSUME NEW c \in MsgChans, Listen(c) PROVE IInv'
  <2>1. chanState[c] = "none" /\ UNCHANGED <<reactionListeners, closed, calls, sent, closePc,
                                             buf, ctxDone, panicked, got>>
    BY <1>1 DEF Listen
  <2>2. c \in Chans /\ ~Contains(listeners, c) /\ ~Contains(reactionListeners, c)
    BY <1>0, <2>1 DEF Registered, Chans
  <2>3. CallsTyped' /\ Looping' /\ Given' /\ Ordered' BY <1>0, <1>B, <2>1, CallsKept
  <2>4. CASE closed
    <3>1. chanState' = [chanState EXCEPT ![c] = "refused"] /\ listeners' = listeners
      BY <1>1, <2>4 DEF Listen
    <3>2. OthersTyped' BY <1>0, <2>1, <3>1 DEF OthersTyped
    <3>3. Registered' BY <1>0, <2>1, <2>2, <3>1 DEF OthersTyped, Registered
    <3> QED BY <1>A, <2>3, <3>2, <3>3
  <2>5. CASE ~closed
    <3>1. chanState' = [chanState EXCEPT ![c] = "open"] /\ listeners' = Append(listeners, c)
      BY <1>1, <2>5 DEF Listen
    <3>2. /\ listeners' \in Seq(MsgChans) /\ IsInjective(listeners')
          /\ \A x : Contains(listeners', x) <=> Contains(listeners, x) \/ x = c
      BY <1>0, <2>2, <3>1, Appended DEF OthersTyped, Registered
    <3>3. OthersTyped' BY <1>0, <2>1, <3>1, <3>2 DEF OthersTyped
    <3>4. Registered' BY <1>0, <2>1, <2>2, <3>1, <3>2 DEF OthersTyped, Registered
    <3> QED BY <1>A, <2>3, <3>3, <3>4
  <2> QED BY <2>4, <2>5
<1>2. ASSUME NEW c \in MsgChans, RemoveListener(c) PROVE IInv'
  <2>1. /\ Contains(listeners, c) /\ listeners' = RemoveFirst(listeners, c)
        /\ chanState' = [chanState EXCEPT ![c] = "closed"]
        /\ UNCHANGED <<reactionListeners, closed, calls, sent, closePc, buf, ctxDone,
                       panicked, got>>
    BY <1>2 DEF RemoveListener
  <2>2. /\ listeners' \in Seq(MsgChans) /\ IsInjective(listeners')
        /\ \A x : Contains(listeners', x) <=> Contains(listeners, x) /\ x # c
    BY <1>0, <2>1, Removed DEF OthersTyped, Registered
  <2>3. CallsTyped' /\ Looping' /\ Given' /\ Ordered' BY <1>0, <1>B, <2>1, CallsKept
  <2>4. OthersTyped' BY <1>0, <2>1, <2>2 DEF OthersTyped
  <2>5. Registered' BY <1>0, <1>D, <2>1, <2>2 DEF OthersTyped, Registered
  <2> QED BY <1>A, <2>3, <2>4, <2>5
<1>3. ASSUME NEW c \in ReactChans, ListenReactionsCheck(c) PROVE IInv'
  <2>1. /\ chanState[c] = "none"
        /\ chanState' = [chanState EXCEPT ![c] = IF closed THEN "refused" ELSE "checked"]
        /\ UNCHANGED <<registry, calls, sent, closePc, buf, ctxDone, panicked, got>>
    BY <1>3 DEF ListenReactionsCheck
  <2>2. c \in Chans /\ ~Contains(listeners, c) /\ ~Contains(reactionListeners, c)
    BY <1>0, <2>1 DEF Registered, Chans
  <2>3. CallsTyped' /\ Looping' /\ Given' /\ Ordered' BY <1>0, <1>B, <2>1, CallsKept
  <2>4. OthersTyped' BY <1>0, <2>1 DEF OthersTyped, registry
  <2>5. Registered' BY <1>0, <2>1, <2>2 DEF OthersTyped, Registered, registry
  <2> QED BY <1>A, <2>3, <2>4, <2>5
<1>4. ASSUME NEW c \in ReactChans, ListenReactionsRegister(c) PROVE IInv'
  <2>1. /\ chanState[c] = "checked" /\ chanState' = [chanState EXCEPT ![c] = "open"]
        /\ reactionListeners' = Append(reactionListeners, c)
        /\ UNCHANGED <<listeners, closed, calls, sent, closePc, buf, ctxDone, panicked, got>>
    BY <1>4 DEF ListenReactionsRegister
  <2>2. c \in Chans /\ ~Contains(listeners, c) /\ ~Contains(reactionListeners, c)
    BY <1>0, <2>1 DEF Registered, Chans
  <2>3. /\ reactionListeners' \in Seq(ReactChans) /\ IsInjective(reactionListeners')
        /\ \A x : Contains(reactionListeners', x) <=> Contains(reactionListeners, x) \/ x = c
    BY <1>0, <2>1, <2>2, Appended DEF OthersTyped, Registered
  <2>4. CallsTyped' /\ Looping' /\ Given' /\ Ordered' BY <1>0, <1>B, <2>1, CallsKept
  <2>5. OthersTyped' BY <1>0, <2>1, <2>3 DEF OthersTyped
  <2>6. Registered' BY <1>0, <2>1, <2>2, <2>3 DEF OthersTyped, Registered
  <2> QED BY <1>A, <2>4, <2>5, <2>6
<1>5. ASSUME NEW c \in ReactChans, RemoveReactionListener(c) PROVE IInv'
  <2>1. /\ Contains(reactionListeners, c)
        /\ reactionListeners' = RemoveFirst(reactionListeners, c)
        /\ UNCHANGED <<listeners, closed, calls, sent, closePc, chanState, buf, ctxDone,
                       panicked, got>>
    BY <1>5 DEF RemoveReactionListener
  <2>2. /\ reactionListeners' \in Seq(ReactChans) /\ IsInjective(reactionListeners')
        /\ \A x : Contains(reactionListeners', x) <=> Contains(reactionListeners, x) /\ x # c
    BY <1>0, <2>1, Removed DEF OthersTyped, Registered
  <2>3. CallsTyped' /\ Looping' /\ Given' /\ Ordered' BY <1>0, <1>B, <2>1, CallsKept
  <2>4. OthersTyped' BY <1>0, <2>1, <2>2 DEF OthersTyped
  <2>5. Registered' BY <1>0, <2>1, <2>2 DEF Registered
  <2> QED BY <1>A, <2>3, <2>4, <2>5
<1>6. ASSUME NEW c \in Chans, EndContext(c) PROVE IInv'
  <2>1. /\ ctxDone' = ctxDone \cup {c}
        /\ UNCHANGED <<registry, calls, sent, closePc, chanState, buf, panicked, got>>
    BY <1>6 DEF EndContext
  <2>2. CallsTyped' /\ Looping' /\ Given' /\ Ordered' BY <1>0, <1>B, <2>1, CallsKept
  <2>3. OthersTyped' BY <1>0, <2>1 DEF OthersTyped, registry
  <2>4. Registered' BY <1>0, <2>1 DEF Registered, registry
  <2> QED BY <1>A, <2>2, <2>3, <2>4
<1>7. ASSUME NEW c \in Chans, Receive(c) PROVE IInv'
  <2>1. /\ buf[c] # <<>> /\ got' = [got EXCEPT ![c] = Append(@, Head(buf[c]))]
        /\ buf' = [buf EXCEPT ![c] = Tail(@)]
        /\ UNCHANGED <<registry, calls, sent, closePc, chanState, ctxDone, panicked>>
    BY <1>7 DEF Receive
  <2>2. got[c] \in Seq(Calls) /\ buf[c] \in Seq(Calls) /\ Len(buf[c]) <= BufferSize
    BY <1>0 DEF OthersTyped
  <2>3. /\ Head(buf[c]) \in Calls /\ Tail(buf[c]) \in Seq(Calls) /\ Len(buf[c]) \in Nat
        /\ Len(Tail(buf[c])) = Len(buf[c]) - 1 /\ Append(got[c], Head(buf[c])) \in Seq(Calls)
    BY <2>1, <2>2, HeadTailProperties, LenProperties, AppendProperties
  <2>4. OthersTyped'
    <3>1. got' \in [Chans -> Seq(Calls)] /\ buf' \in [Chans -> Seq(Calls)]
      BY <1>0, <2>1, <2>3 DEF OthersTyped
    <3>2. \A x \in Chans : Len(buf'[x]) <= BufferSize BY <1>0, <2>1, <2>2, <2>3 DEF OthersTyped
    <3> QED BY <1>0, <2>1, <3>1, <3>2 DEF OthersTyped, registry
  <2>5. \A x \in Chans : Stream(x)' = Stream(x) BY <1>0, <2>1, Taken
  <2>6. Looping' /\ Given' /\ Ordered' BY <1>0, <2>1, <2>5 DEF calls, Looping, Given, Ordered
  <2>7. Registered' BY <1>0, <2>1 DEF Registered, registry
  <2> QED BY <1>A, <1>B, <2>1, <2>4, <2>6, <2>7
<1>8. ASSUME NEW d \in Deliveries, Send(d) PROVE IInv'
  <2> DEFINE place == IF Loopback THEN "recorded" ELSE "ok"
  <2>1. /\ d \in Calls /\ pc[d] = "idle" /\ sent' = Append(sent, d)
        /\ pc' = [pc EXCEPT ![d] = place]
        /\ UNCHANGED <<registry, snapshot, next, before, closePc, chanState, buf, ctxDone,
                       panicked, got>>
    BY <1>8 DEF Send, Calls
  <2>2. snapshot[d] = <<>> /\ next[d] = 1 /\ Len(<<>>) = 0 BY <1>0, <2>1, EmptySeq DEF Looping
  <2>3. /\ place \in {"recorded", "checked", "ok", "ctx", "ErrClosed", "panic"} /\ pc[d] # "ok"
        /\ next[d] > Len(snapshot[d])
    BY <2>1, <2>2
  <2> HIDE DEF place
  <2>4. CallsTyped' /\ Looping' /\ Given' /\ Ordered' BY <1>0, <2>1, <2>2, <2>3, Moved
  <2>5. Append(sent, d) \in Seq(Deliveries) BY <1>0, AppendProperties DEF OthersTyped
  <2>6. OthersTyped' BY <1>0, <2>1, <2>5 DEF OthersTyped, registry
  <2>7. Registered' BY <1>0, <2>1 DEF Registered, registry
  <2> QED BY <1>A, <2>4, <2>6, <2>7
<1>E. UNCHANGED <<registry, sent, closePc, chanState, buf, ctxDone, panicked, got>>
        => OthersTyped' /\ Registered'
  BY <1>0 DEF OthersTyped, Registered, registry
<1>F. ASSUME NEW d \in Calls, pc[d] \in {"idle", "recorded"}, Refuse(d), UNCHANGED <<buf, got>>
      PROVE  CallsTyped' /\ Looping' /\ Given' /\ Ordered'
  <2>1. pc' = [pc EXCEPT ![d] = "ErrClosed"] /\ UNCHANGED <<snapshot, next, before>>
    BY <1>F DEF Refuse
  <2>2. snapshot[d] = <<>> /\ next[d] = 1 BY <1>0, <1>F DEF Looping
  <2> QED BY <1>0, <1>F, <2>1, <2>2, Moved
<1>9. ASSUME NEW d \in Deliveries, Deliver(d) PROVE IInv'
  <2>1. /\ d \in Calls /\ pc[d] \in {"idle", "recorded"}
        /\ UNCHANGED <<registry, sent, closePc, chanState, buf, ctxDone, panicked, got>>
    BY <1>9 DEF Deliver, Calls
  <2>2. CASE closed
    <3>1. Refuse(d) BY <1>9, <2>2 DEF Deliver
    <3> QED BY <1>A, <1>E, <1>F, <2>1, <3>1
  <2>3. CASE ~closed
    <3>1. TakeSnapshot(d, listeners) BY <1>9, <2>3 DEF Deliver
    <3>2. listeners \in Seq(Chans) /\ IsInjective(listeners)
      BY <1>0, SeqMonotonic DEF OthersTyped, Registered, Chans
    <3>3. CallsTyped' /\ Looping' /\ Given' /\ Ordered' BY <1>0, <2>1, <3>1, <3>2, Snapped
    <3> QED BY <1>A, <1>E, <2>1, <3>3
  <2> QED BY <2>2, <2>3
<1>10. ASSUME NEW r \in Reactions, React(r) PROVE IInv'
  <2>1. /\ r \in Calls /\ pc[r] = "idle"
        /\ UNCHANGED <<registry, sent, closePc, chanState, buf, ctxDone, panicked, got>>
    BY <1>10 DEF React, Calls
  <2>2. CASE closed
    <3>1. Refuse(r) BY <1>10, <2>2 DEF React
    <3> QED BY <1>A, <1>E, <1>F, <2>1, <3>1
  <2>3. CASE ~closed
    <3>1. pc' = [pc EXCEPT ![r] = "checked"] /\ UNCHANGED <<snapshot, next, before>>
      BY <1>10, <2>3 DEF React
    <3>2. snapshot[r] = <<>> /\ next[r] = 1 BY <1>0, <2>1 DEF Looping
    <3>3. CallsTyped' /\ Looping' /\ Given' /\ Ordered' BY <1>0, <2>1, <3>1, <3>2, Moved
    <3> QED BY <1>A, <1>E, <2>1, <3>3
  <2> QED BY <2>2, <2>3
<1>11. ASSUME NEW r \in Reactions, ReactSnapshot(r) PROVE IInv'
  <2>1. /\ r \in Calls /\ pc[r] = "checked" /\ TakeSnapshot(r, reactionListeners)
        /\ UNCHANGED <<registry, sent, closePc, chanState, buf, ctxDone, panicked, got>>
    BY <1>11 DEF ReactSnapshot, Calls
  <2>2. reactionListeners \in Seq(Chans) /\ IsInjective(reactionListeners)
    BY <1>0, SeqMonotonic DEF OthersTyped, Registered, Chans
  <2>3. CallsTyped' /\ Looping' /\ Given' /\ Ordered' BY <1>0, <2>1, <2>2, Snapped
  <2> QED BY <1>A, <1>E, <2>1, <2>3
<1>12. ASSUME NEW d \in Calls, SendNext(d) PROVE IInv'
  <2> DEFINE k == next[d]
  <2>0. PICK c \in Chans : c = Current(d)
    <3>1. snapshot[d] \in Seq(Chans) BY <1>0 DEF CallsTyped
    <3>2. k \in 1 .. Len(snapshot[d])
      BY <1>0, <1>12, <3>1, LenProperties DEF Looping, SendNext, InLoop
    <3> QED BY <3>1, <3>2, ElementOfSeq DEF Current
  <2>1. /\ pc[d] = "sending" /\ k <= Len(snapshot[d])
        /\ Len(buf[c]) < BufferSize
        /\ buf' = [buf EXCEPT ![c] = Append(@, d)] /\ next' = [next EXCEPT ![d] = @ + 1]
        /\ UNCHANGED <<registry, pc, snapshot, before, sent, closePc, chanState, ctxDone,
                       panicked, got>>
    BY <1>12, <2>0 DEF SendNext, InLoop
  <2>2. /\ snapshot[d] \in Seq(Chans) /\ Len(snapshot[d]) \in Nat /\ k \in 1 .. Len(snapshot[d])
        /\ DOMAIN snapshot[d] = 1 .. Len(snapshot[d]) /\ IsInjective(snapshot[d])
        /\ c = snapshot[d][k] /\ c \in Chans /\ k = next[d]
    <3>1. snapshot[d] \in Seq(Chans) BY <1>0 DEF CallsTyped
    <3>2. k \in 1 .. Len(snapshot[d]) BY <1>0, <2>1, <3>1, LenProperties DEF Looping
    <3> QED BY <1>0, <2>0, <3>1, <3>2, LenProperties, ElementOfSeq DEF Looping, Current
  <2> HIDE DEF k
  <2>3. ~Contains(Stream(c), d)
    <3>1. \A i \in 1 .. k - 1 : snapshot[d][i] # c BY <2>2 DEF IsInjective
    <3> QED BY <1>0, <2>2, <3>1 DEF Given
  <2>4. /\ Stream(c) \in Seq(Calls) /\ Len(Stream(c)) \in Nat
        /\ \A i \in 1 .. Len(Stream(c)) : Stream(c)[i] \in Calls
    BY <1>0, <2>2, StreamTyped
  <2>5. /\ Stream(c)' = Append(Stream(c), d)
        /\ \A x \in Chans : x # c => Stream(x)' = Stream(x)
    BY <1>0, <2>1, <2>2, Grown
  <2>6. /\ IsInjective(Stream(c)')
        /\ \A x : Contains(Stream(c)', x) <=> Contains(Stream(c), x) \/ x = d
    <3>1. IsInjective(Stream(c)) BY <1>0, <2>2 DEF Given
    <3> QED BY <2>3, <2>4, <2>5, <3>1, Appended
  <2>7. next'[d] = k + 1 /\ \A e \in Calls : e # d => next'[e] = next[e]
    BY <1>0, <2>1, <2>2 DEF CallsTyped
  <2>8. CallsTyped'
    <3>1. next' \in [Calls -> Nat] BY <1>0, <2>1 DEF CallsTyped
    <3> QED BY <1>0, <2>1, <3>1 DEF CallsTyped
  <2>9. Looping'
    <3> SUFFICES ASSUME NEW e \in Calls
                 PROVE  /\ IsInjective(snapshot[e]) /\ next'[e] \in 1 .. Len(snapshot[e]) + 1
                        /\ pc[e] \in {"idle", "recorded", "checked", "ErrClosed"} =>
                             snapshot[e] = <<>> /\ next'[e] = 1
                        /\ pc[e] = "ok" => next'[e] > Len(snapshot[e])
                        /\ \A x \in before[e] : pc[x] = "ok"
      BY <2>1 DEF Looping
    <3>1. CASE e = d
      <4>1. k + 1 \in 1 .. Len(snapshot[d]) + 1 BY <2>2
      <4> QED BY <1>0, <2>1, <2>7, <3>1, <4>1 DEF Looping
    <3>2. CASE e # d BY <1>0, <2>7, <3>2 DEF Looping
    <3> QED BY <3>1, <3>2
  <2>10. Given'
    <3> SUFFICES ASSUME NEW x \in Chans, NEW e \in Calls
                 PROVE  /\ IsInjective(Stream(x)')
                        /\ Contains(Stream(x)', e) <=>
                             \E i \in 1 .. next'[e] - 1 : snapshot[e][i] = x
      BY <2>1 DEF Given
    <3>1. IsInjective(Stream(x)') BY <1>0, <2>5, <2>6 DEF Given
    <3>2. Contains(Stream(x), e) <=> \E i \in 1 .. next[e] - 1 : snapshot[e][i] = x
      BY <1>0 DEF Given
    <3>3. Contains(Stream(x)', e) <=> Contains(Stream(x), e) \/ (x = c /\ e = d)
      BY <2>5, <2>6
    <3>4. CASE e = d
      <4>1. next'[e] - 1 = k /\ next[e] = k /\ k \in Int BY <2>2, <2>7, <3>4
      <4>2. \A i : i \in 1 .. k <=> i \in 1 .. k - 1 \/ i = k BY <2>2
      <4> QED BY <2>2, <3>1, <3>2, <3>3, <3>4, <4>1, <4>2
    <3>5. CASE e # d BY <2>7, <3>1, <3>2, <3>3, <3>5
    <3> QED BY <3>4, <3>5
  <2>11. Ordered'
    <3> DEFINE s == Stream(c)
    <3>1. /\ Stream(c)' = Append(s, d) /\ s = Stream(c) /\ Len(s) \in Nat
          /\ Len(Append(s, d)) = Len(s) + 1 /\ Append(s, d)[Len(s) + 1] = d
          /\ \A i \in 1 .. Len(s) : Append(s, d)[i] = s[i] /\ s[i] \in Calls
      BY <2>4, <2>5, AppendProperties
    <3> HIDE DEF s
    <3>2. ASSUME NEW i \in 1 .. Len(s) + 1, NEW j \in 1 .. Len(s) + 1,
                 Append(s, d)[i] \in before[Append(s, d)[j]]
          PROVE  i < j
      <4>1. Append(s, d)[j] \in Calls
        <5>1. j \in 1 .. Len(s) \/ j = Len(s) + 1 BY <3>1
        <5> QED BY <3>1, <5>1
      <4>2. d \notin before[Append(s, d)[j]] BY <1>0, <2>1, <4>1 DEF Looping
      <4>3. i # Len(s) + 1 BY <3>1, <3>2, <4>2
      <4>4. i \in 1 .. Len(s) BY <3>1, <4>3
      <4>5. CASE j = Len(s) + 1 BY <3>1, <4>4, <4>5
      <4>6. CASE j # Len(s) + 1
        <5>1. j \in 1 .. Len(s) BY <3>1, <4>6
        <5>2. s[i] \in before[s[j]] BY <3>1, <3>2, <4>4, <5>1
        <5> QED BY <1>0, <2>2, <3>1, <4>4, <5>1, <5>2 DEF Ordered
      <4> QED BY <4>5, <4>6
    <3>3. ASSUME NEW x \in Chans, NEW i \in 1 .. Len(Stream(x)'),
    NEW j \in 1 .. Len(Stream(x)'),
                 Stream(x)'[i] \in before[Stream(x)'[j]]
          PROVE  i < j
      <4>1. CASE x = c BY <3>1, <3>2, <3>3, <4>1
      <4>2. CASE x # c BY <1>0, <2>5, <3>3, <4>2 DEF Ordered
      <4> QED BY <4>1, <4>2
    <3> QED BY <2>1, <3>3 DEF Ordered
  <2>12. OthersTyped'
    <3>1. buf[c] \in Seq(Calls) BY <1>0, <2>2 DEF OthersTyped
    <3>2. Append(buf[c], d) \in Seq(Calls) /\ Len(Append(buf[c], d)) <= BufferSize
      BY <2>1, <3>1, AppendProperties, LenProperties
    <3>3. buf' \in [Chans -> Seq(Calls)] BY <1>0, <2>1, <3>2 DEF OthersTyped
    <3>4. \A x \in Chans : Len(buf'[x]) <= BufferSize BY <1>0, <2>1, <3>2 DEF OthersTyped
    <3> QED BY <1>0, <2>1, <3>3, <3>4 DEF OthersTyped, registry
  <2>13. Registered' BY <1>0, <2>1 DEF Registered, registry
  <2> QED BY <1>A, <2>8, <2>9, <2>10, <2>11, <2>12, <2>13
<1>13. ASSUME NEW d \in Calls, SendPanics(d) PROVE IInv'
  <2>1. /\ pc[d] = "sending" /\ pc' = [pc EXCEPT ![d] = "panic"] /\ panicked' = TRUE
        /\ UNCHANGED <<registry, snapshot, next, before, sent, closePc, chanState, buf, ctxDone,
                       got>>
    BY <1>13 DEF SendPanics, InLoop
  <2>2. CallsTyped' /\ Looping' /\ Given' /\ Ordered' BY <1>0, <2>1, Moved
  <2>3. OthersTyped' /\ Registered' BY <1>0, <2>1 DEF OthersTyped, Registered, registry
  <2> QED BY <1>A, <2>2, <2>3
<1>14. ASSUME NEW d \in Calls, SendCancelled(d) PROVE IInv'
  <2>1. /\ pc[d] = "sending" /\ pc' = [pc EXCEPT ![d] = "ctx"]
        /\ UNCHANGED <<registry, snapshot, next, before, sent, closePc, chanState, buf, ctxDone,
                       panicked, got>>
    BY <1>14 DEF SendCancelled, InLoop
  <2>2. CallsTyped' /\ Looping' /\ Given' /\ Ordered' BY <1>0, <2>1, Moved
  <2> QED BY <1>A, <1>E, <2>1, <2>2
<1>15. ASSUME NEW d \in Calls, Return(d) PROVE IInv'
  <2>1. /\ pc[d] = "sending" /\ next[d] > Len(snapshot[d]) /\ pc' = [pc EXCEPT ![d] = "ok"]
        /\ UNCHANGED <<registry, snapshot, next, before, sent, closePc, chanState, buf, ctxDone,
                       panicked, got>>
    BY <1>15 DEF Return
  <2>2. CallsTyped' /\ Looping' /\ Given' /\ Ordered' BY <1>0, <2>1, Moved
  <2> QED BY <1>A, <1>E, <2>1, <2>2
<1>16. CASE Reset
  <2>1. /\ sent' = <<>> /\ UNCHANGED <<registry, calls, closePc, chanState, buf, ctxDone,
                           panicked, got>>
    BY <1>16 DEF Reset
  <2>2. CallsTyped' /\ Looping' /\ Given' /\ Ordered' BY <1>0, <1>B, <2>1, CallsKept
  <2>3. <<>> \in Seq(Deliveries) BY EmptySeq
  <2>4. OthersTyped' /\ Registered' BY <1>0, <2>1, <2>3 DEF OthersTyped, Registered, registry
  <2> QED BY <1>A, <2>2, <2>4
<1>17. CASE CloseCall
  <2>1. /\ closePc' = "called"
        /\ UNCHANGED <<registry, calls, sent, chanState, buf, ctxDone, panicked, got>>
    BY <1>17 DEF CloseCall
  <2>2. CallsTyped' /\ Looping' /\ Given' /\ Ordered' BY <1>0, <1>B, <2>1, CallsKept
  <2>3. OthersTyped' /\ Registered' BY <1>0, <2>1 DEF OthersTyped, Registered, registry
  <2> QED BY <1>A, <2>2, <2>3
<1>18. CASE CloseListeners
  <2>1. /\ closePc' = "locked" /\ closed' = TRUE /\ chanState' = CloseAll(listeners)
        /\ listeners' = <<>>
        /\ UNCHANGED <<reactionListeners, calls, sent, buf, ctxDone, panicked, got>>
    BY <1>18 DEF CloseListeners
  <2>2. CallsTyped' /\ Looping' /\ Given' /\ Ordered' BY <1>0, <1>B, <2>1, CallsKept
  <2>3. <<>> \in Seq(MsgChans) BY EmptySeq
  <2>4. OthersTyped' BY <1>0, <2>1, <2>3 DEF OthersTyped, CloseAll
  <2>5. Registered' BY <1>0, <1>C, <1>D, <2>1, Empty DEF Registered, CloseAll
  <2> QED BY <1>A, <2>2, <2>4, <2>5
<1>19. CASE CloseReactionListeners
  <2>1. /\ closePc' = "done" /\ chanState' = CloseAll(reactionListeners)
        /\ reactionListeners' = <<>>
        /\ UNCHANGED <<listeners, closed, calls, sent, buf, ctxDone, panicked, got>>
    BY <1>19 DEF CloseReactionListeners
  <2>2. CallsTyped' /\ Looping' /\ Given' /\ Ordered' BY <1>0, <1>B, <2>1, CallsKept
  <2>3. <<>> \in Seq(ReactChans) BY EmptySeq
  <2>4. OthersTyped' BY <1>0, <2>1, <2>3 DEF OthersTyped, CloseAll
  <2>5. Registered' BY <1>0, <1>C, <1>D, <2>1, Empty DEF Registered, CloseAll
  <2> QED BY <1>A, <2>2, <2>4, <2>5
<1>20. CASE UNCHANGED vars
  <2>1. CallsTyped' /\ Looping' /\ Given' /\ Ordered' BY <1>0, <1>B, <1>20, CallsKept DEF vars
  <2> QED BY <1>A, <1>E, <1>20, <2>1 DEF vars
<1> QED
  BY <1>1, <1>2, <1>3, <1>4, <1>5, <1>6, <1>7, <1>8, <1>9, <1>10, <1>11, <1>12, <1>13, <1>14,
     <1>15, <1>16, <1>17, <1>18, <1>19, <1>20 DEF Next

(* Every reachable state satisfies the invariant.                          *)
THEOREM Invariance == Spec => []IInv
  BY InitHolds, NextKeeps, PTL DEF Spec

(* A channel is never closed twice, and never holds more than its buffer   *)
(* has room for: what the goroutine of a listener or Close finds           *)
(* registered is open, and is found once.                                  *)
THEOREM ClosedOnce == Spec => []NoDoubleClose
<1>1. IInv => NoDoubleClose
  <2> SUFFICES ASSUME TypeOK, Registered, NEW chans \in {listeners, reactionListeners}
               PROVE  /\ IsInjective(chans)
                      /\ \A i \in DOMAIN chans : chanState[chans[i]] = "open"
    BY DEF IInv, NoDoubleClose
  <2>1. DOMAIN chans = 1 .. Len(chans) BY LenProperties DEF TypeOK
  <2>2. \A i \in DOMAIN chans : Contains(chans, chans[i]) BY <2>1 DEF Contains
  <2>3. \A i \in DOMAIN chans : chans[i] \in Chans BY <2>2, OfItsKind DEF Chans
  <2> QED BY <2>2, <2>3 DEF Registered
<1> QED BY <1>1, Invariance, PTL

(* A message reaches each listener of its snapshot once, and no other: an  *)
(* index that goes through a snapshot without repetition, into channels    *)
(* that only their reader takes from.                                      *)
THEOREM OncePerListener == Spec => []FanOutExactlyOnce
<1>1. IInv => FanOutExactlyOnce
  <2> SUFFICES ASSUME TypeOK, Looping, Given, NEW d \in Calls, NEW c \in Chans
               PROVE  Occurrences(d, Stream(c)) =
                        IF \E i \in 1 .. next[d] - 1 : i <= Len(snapshot[d]) /\ snapshot[d][i] = c
                        THEN 1 ELSE 0
    BY DEF IInv, FanOutExactlyOnce
  <2> DEFINE s == Stream(c)
             past == \E i \in 1 .. next[d] - 1 : i <= Len(snapshot[d]) /\ snapshot[d][i] = c
  <2>1. DOMAIN s = 1 .. Len(s) /\ IsInjective(s) BY StreamTyped DEF Given
  <2>2. Contains(s, d) <=> past
    <3>1. Len(snapshot[d]) \in Nat BY LenProperties DEF TypeOK
    <3>2. next[d] \in 1 .. Len(snapshot[d]) + 1 BY DEF Looping
    <3>3. \A i \in 1 .. next[d] - 1 : i <= Len(snapshot[d]) BY <3>1, <3>2
    <3> QED BY <3>3 DEF Given
  <2> HIDE DEF s, past
  <2>3. CASE Contains(s, d)
    <3>1. PICK k \in 1 .. Len(s) : s[k] = d BY <2>3 DEF Contains
    <3>2. {i \in DOMAIN s : s[i] = d} = {k} BY <2>1, <3>1 DEF IsInjective
    <3> QED BY <2>2, <2>3, <3>2, FS_Singleton DEF Occurrences, s, past
  <2>4. CASE ~Contains(s, d)
    <3>1. {i \in DOMAIN s : s[i] = d} = {} BY <2>1, <2>4 DEF Contains
    <3> QED BY <2>2, <2>4, <3>1, FS_EmptySet DEF Occurrences, s, past
  <2> QED BY <2>3, <2>4
<1> QED BY <1>1, Invariance, PTL

(* A delivery that returned nil is ahead, in every channel of its          *)
(* snapshot, of those that began afterwards: it had gone through all of    *)
(* its snapshot by then.                                                   *)
THEOREM AheadOfLaterOnes == Spec => []DeliveriesInOrder
<1>1. IInv => DeliveriesInOrder
  <2> SUFFICES ASSUME TypeOK, Looping, Given, Ordered, NEW d \in Calls, NEW e \in Calls,
                      NEW c \in Chans, d \in before[e], Contains(Stream(c), e),
                      Contains(snapshot[d], c)
               PROVE  /\ Contains(Stream(c), d)
                      /\ Position(d, Stream(c)) < Position(e, Stream(c))
    BY DEF IInv, DeliveriesInOrder
  <2> DEFINE s == Stream(c)
  <2>1. DOMAIN s = 1 .. Len(s) BY StreamTyped
  <2>2. Contains(s, d)
    <3>1. PICK i \in 1 .. Len(snapshot[d]) : snapshot[d][i] = c BY DEF Contains
    <3>2. next[d] > Len(snapshot[d]) /\ next[d] \in Nat /\ Len(snapshot[d]) \in Nat
      BY LenProperties DEF Looping, TypeOK
    <3>3. i \in 1 .. next[d] - 1 BY <3>2
    <3> QED BY <3>1, <3>3 DEF Given
  <2>3. \A x : Contains(s, x) =>
          Position(x, s) \in 1 .. Len(s) /\ s[Position(x, s)] = x
    <3> HIDE DEF s
    <3> QED BY <2>1 DEF Contains, Position
  <2>4. /\ Position(d, s) \in 1 .. Len(s) /\ s[Position(d, s)] = d
        /\ Position(e, s) \in 1 .. Len(s) /\ s[Position(e, s)] = e
    BY <2>2, <2>3
  <2> QED BY <2>2, <2>4 DEF Ordered
<1> QED BY <1>1, Invariance, PTL

=============================================================================
