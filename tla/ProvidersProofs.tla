-------------------------- MODULE ProvidersProofs --------------------------
(* The Send of every chat provider, for every message, text and limit; the *)
(* sessions of Discord for every number of calls and messages, the replies *)
(* of WhatsApp for every number of calls and events, the part opener for   *)
(* every source size, threshold and number of calls, and the connection of *)
(* Signal for every number of calls and messages and every buffer.         *)
EXTENDS MCProviders, MCSignalRpc, TLAPS, SequenceTheorems, WellFoundedInduction,
  FiniteSetTheorems

-----------------------------------------------------------------------------
(* Induction over the natural numbers, with the set of those that have the *)
(* property.                                                               *)

(* A set of natural numbers has a least element.                           *)
LEMMA LeastNat ==
  ASSUME NEW T, T \subseteq Nat, T # {}
  PROVE  \E n \in T : \A m \in T : n <= m
<1>1. PICK n \in T : \A m \in T : ~ (<<m, n>> \in OpToRel(<, Nat))
  BY NatLessThanWellFounded, WFMin, Zenon
<1>2. \A m \in T : ~(m < n)
  BY <1>1 DEF OpToRel
<1>3. QED
  BY <1>2

(* What holds of zero, and of n + 1 when it holds of n, holds of all.      *)
LEMMA Induction ==
  ASSUME NEW T, 0 \in T, \A n \in Nat : n \in T => n + 1 \in T
  PROVE  \A n \in Nat : n \in T
<1>. DEFINE B == {n \in Nat : n \notin T}
<1>1. ASSUME B # {} PROVE FALSE
  <2>1. PICK n \in B : \A m \in B : n <= m
    BY ONLY <1>1, LeastNat
  <2>2. n # 0 /\ n - 1 \notin B /\ n - 1 \in Nat
    BY <2>1
  <2>3. QED
    BY <2>1, <2>2
<1>2. QED
  BY <1>1

-----------------------------------------------------------------------------
(* What the library says of sequences, under names the provers match.      *)

\* a is q and e behind it
Grown(a, q, e) ==
  /\ a = Append(q, e) /\ Len(a) = Len(q) + 1
  /\ \A i \in 1 .. Len(q) : a[i] = q[i]
  /\ a[Len(q) + 1] = e

Regroups(a, b, c) == (a \o b) \o c = a \o (b \o c)

LEMMA AppendGrows ==
  ASSUME NEW S, NEW q \in Seq(S), NEW e \in S
  PROVE  Append(q, e) \in Seq(S) /\ Grown(Append(q, e), q, e)
BY AppendProperties DEF Grown

LEMMA Regroup ==
  ASSUME NEW S, NEW a \in Seq(S), NEW b \in Seq(S), NEW c \in Seq(S)
  PROVE  Regroups(a, b, c)
BY ConcatAssociative DEF Regroups

-----------------------------------------------------------------------------
(* FlattenSeq.                                                             *)

\* f holds what the beginnings of q are, put together
Flattens(f, q) ==
  /\ DOMAIN f = 1 .. Len(q)
  /\ f[1] = q[1]
  /\ \A i \in 2 .. Len(q) : f[i] = f[i - 1] \o q[i]

(* There is such a function.                                               *)
LEMMA FlattensExists ==
  ASSUME NEW S, NEW q \in Seq(Seq(S)), q # <<>>
  PROVE  \E f \in [1 .. Len(q) -> Seq(S)] : Flattens(f, q)
<1>. DEFINE To(n, f) == /\ f[1] = q[1]
                        /\ \A i \in 2 .. n : f[i] = f[i - 1] \o q[i]
            P(n) == n \in 1 .. Len(q) => \E f \in [1 .. n -> Seq(S)] : To(n, f)
            T == {n \in Nat : P(n)}
<1>1. Len(q) \in Nat \ {0} /\ \A i \in 1 .. Len(q) : q[i] \in Seq(S)
  BY EmptySeq, LenProperties
<1>2. P(0)
  OBVIOUS
<1>3. ASSUME NEW n \in Nat, P(n) PROVE P(n + 1)
  <2>. SUFFICES ASSUME n + 1 \in 1 .. Len(q)
                PROVE  \E f \in [1 .. n + 1 -> Seq(S)] : To(n + 1, f)
    OBVIOUS
  <2>1. CASE n = 0
    <3>. DEFINE g == [i \in 1 .. n + 1 |-> q[1]]
    <3>1. g \in [1 .. n + 1 -> Seq(S)]
      BY <1>1
    <3>2. To(n + 1, g)
      BY <2>1
    <3>3. QED
      BY <3>1, <3>2
  <2>2. CASE n # 0
    <3>1. n \in 1 .. Len(q)
      BY <1>1, <2>2
    <3>2. PICK f \in [1 .. n -> Seq(S)] : To(n, f)
      BY <1>3, <3>1
    <3>3. PICK e \in Seq(S) : e = f[n] \o q[n + 1]
      <4>1. f[n] \in Seq(S) /\ q[n + 1] \in Seq(S)
        BY <1>1, <3>1
      <4>2. QED
        BY <4>1, ConcatProperties
    <3>. DEFINE g == [i \in 1 .. n + 1 |-> IF i = n + 1 THEN e ELSE f[i]]
    <3>4. g \in [1 .. n + 1 -> Seq(S)]
      BY <3>3
    <3>5. g[n + 1] = e /\ \A i \in 1 .. n : g[i] = f[i]
      OBVIOUS
    <3>. HIDE DEF g
    <3>6. g[1] = q[1]
      BY <2>2, <3>2, <3>5
    <3>7. ASSUME NEW i \in 2 .. n + 1 PROVE g[i] = g[i - 1] \o q[i]
      <4>1. CASE i = n + 1
        <5>1. i - 1 = n /\ n \in 1 .. n
          BY <2>2, <4>1
        <5>2. QED
          BY <3>3, <3>5, <4>1, <5>1
      <4>2. CASE i # n + 1
        <5>1. i \in 2 .. n /\ i \in 1 .. n /\ i - 1 \in 1 .. n
          BY <4>2
        <5>2. QED
          BY <3>2, <3>5, <5>1
      <4>3. QED
        BY <4>1, <4>2
    <3>8. QED
      BY <3>4, <3>6, <3>7
  <2>3. QED
    BY <2>1, <2>2
<1>4. P(Len(q))
  <2>. HIDE DEF P
  <2>1. 0 \in T /\ \A n \in Nat : n \in T => n + 1 \in T
    BY <1>2, <1>3
  <2>. HIDE DEF T
  <2>2. \A n \in Nat : n \in T
    BY <2>1, Induction, Zenon
  <2>3. QED
    BY <1>1, <2>2 DEF T
<1>5. PICK f \in [1 .. Len(q) -> Seq(S)] : To(Len(q), f)
  <2>1. Len(q) \in 1 .. Len(q)
    BY <1>1
  <2>2. QED
    BY <1>4, <2>1
<1>6. QED
  BY <1>5 DEF Flattens

\* f is a solution of the equation of FlattenSeq
Solves(f, q) ==
  \A i \in 1 .. Len(q) : f[i] = IF i = 1 THEN q[i] ELSE f[i - 1] \o q[i]

Agree(f, g, q) == \A i \in 1 .. Len(q) : f[i] = g[i]

(* There is no other.                                                      *)
LEMMA SolutionIsUnique ==
  ASSUME NEW q, Len(q) \in Nat, NEW f, NEW g, Solves(f, q), Solves(g, q)
  PROVE  Agree(f, g, q)
<1>. SUFFICES \A i \in 1 .. Len(q) : f[i] = g[i]
  BY DEF Agree
<1>. DEFINE T == {i \in Nat : i \in 1 .. Len(q) => f[i] = g[i]}
<1>1. 0 \in T
  OBVIOUS
<1>2. ASSUME NEW i \in Nat, i \in T PROVE i + 1 \in T
  <2>. SUFFICES ASSUME i + 1 \in 1 .. Len(q) PROVE f[i + 1] = g[i + 1]
    OBVIOUS
  <2>1. CASE i = 0
    BY <2>1 DEF Solves
  <2>2. CASE i # 0
    <3>1. f[i] = g[i] /\ i + 1 # 1 /\ (i + 1) - 1 = i
      BY <1>2, <2>2
    <3>2. QED
      BY <3>1 DEF Solves
  <2>3. QED
    BY <2>1, <2>2
<1>3. \A i \in Nat : i \in T
  <2>. HIDE DEF T
  <2>1. QED
    BY <1>1, <1>2, Induction, Zenon
<1>4. QED
  BY <1>3

(* FlattenSeq is the last value of that function: its recursive definition *)
(* computes what its equation says.                                        *)
LEMMA FlattenIsLast ==
  ASSUME NEW S, NEW q \in Seq(Seq(S)), q # <<>>,
         NEW f \in [1 .. Len(q) -> Seq(S)], Flattens(f, q)
  PROVE  FlattenSeq(q) = f[Len(q)]
<1>1. Len(q) \in Nat \ {0}
  BY EmptySeq
<1>. DEFINE D(g) == [i \in 1 .. Len(q) |-> IF i = 1 THEN q[i] ELSE g[i - 1] \o q[i]]
            F == CHOOSE g : g = D(g)
<1>2. FlattenSeq(q) = F[Len(q)]
  BY <1>1 DEF FlattenSeq
<1>3. f = D(f)
  <2>1. \A i \in 1 .. Len(q) : f[i] = IF i = 1 THEN q[i] ELSE f[i - 1] \o q[i]
    <3>. SUFFICES ASSUME NEW i \in 1 .. Len(q), i # 1
                  PROVE  i \in 2 .. Len(q)
      BY DEF Flattens
    <3>1. QED
      BY <1>1
  <2>2. f = [i \in 1 .. Len(q) |-> f[i]]
    OBVIOUS
  <2>3. QED
    BY <2>1, <2>2
<1>4. F = D(F)
  <2>. HIDE DEF D
  <2>1. QED
    BY <1>3
<1>5. Solves(F, q)
  <2>. HIDE DEF F
  <2>1. QED
    BY <1>4 DEF Solves
<1>6. Solves(f, q)
  <2>. HIDE DEF F
  <2>1. QED
    BY <1>3 DEF Solves
<1>7. \A i \in 1 .. Len(q) : f[i] = F[i]
  <2>. HIDE DEF F, D
  <2>1. Len(q) \in Nat
    BY <1>1
  <2>2. Agree(f, F, q)
    BY ONLY <2>1, <1>5, <1>6, SolutionIsUnique
  <2>3. QED
    BY <2>2 DEF Agree
<1>8. QED
  <2>. HIDE DEF F
  <2>1. QED
    BY <1>1, <1>2, <1>7

LEMMA FlattensSolves ==
  ASSUME NEW S, NEW q \in Seq(Seq(S)), NEW f, Flattens(f, q)
  PROVE  Solves(f, q)
<1>1. Len(q) \in Nat
  BY LenProperties
<1>2. ASSUME NEW i \in 1 .. Len(q), i # 1
      PROVE  i \in 2 .. Len(q)
  BY <1>1, <1>2
<1>3. QED
  BY <1>2 DEF Solves, Flattens

LEMMA FlattenEmpty == FlattenSeq(<<>>) = <<>>
BY DEF FlattenSeq

LEMMA FlattenType ==
  ASSUME NEW S, NEW q \in Seq(Seq(S))
  PROVE  FlattenSeq(q) \in Seq(S)
<1>1. CASE q = <<>>
  BY <1>1, FlattenEmpty, EmptySeq
<1>2. CASE q # <<>>
  <2>1. PICK f \in [1 .. Len(q) -> Seq(S)] : Flattens(f, q)
    BY <1>2, FlattensExists
  <2>2. FlattenSeq(q) = f[Len(q)]
    BY <1>2, <2>1, FlattenIsLast
  <2>3. Len(q) \in 1 .. Len(q)
    BY <1>2, EmptySeq
  <2>4. QED
    BY <2>1, <2>2, <2>3
<1>3. QED
  BY <1>1, <1>2

(* One more sequence is put behind the others.                             *)
LEMMA FlattenAppend ==
  ASSUME NEW S, NEW q \in Seq(Seq(S)), NEW s \in Seq(S)
  PROVE  FlattenSeq(Append(q, s)) = FlattenSeq(q) \o s
<1>. DEFINE r == Append(q, s)
<1>1. /\ r \in Seq(Seq(S)) /\ r # <<>> /\ Len(r) = Len(q) + 1
      /\ \A i \in 1 .. Len(q) : r[i] = q[i]
      /\ r[Len(q) + 1] = s
  BY AppendProperties
<1>2. Len(q) \in Nat
  BY LenProperties
<1>. HIDE DEF r
<1>3. PICK g \in [1 .. Len(r) -> Seq(S)] : Flattens(g, r)
  BY <1>1, FlattensExists
<1>4. FlattenSeq(r) = g[Len(r)]
  BY <1>1, <1>3, FlattenIsLast
<1>5. CASE q = <<>>
  <2>1. Len(r) = 1 /\ r[1] = s
    BY <1>1, <1>5
  <2>2. g[1] = s
    BY <1>3, <2>1 DEF Flattens
  <2>3. <<>> \o s = s
    BY ConcatEmptySeq
  <2>4. QED
    BY <1>4, <1>5, <2>1, <2>2, <2>3, FlattenEmpty DEF r
<1>6. CASE q # <<>>
  <2>1. PICK f \in [1 .. Len(q) -> Seq(S)] : Flattens(f, q)
    BY <1>6, FlattensExists
  <2>2. FlattenSeq(q) = f[Len(q)]
    BY <1>6, <2>1, FlattenIsLast
  <2>3. Len(q) \in 1 .. Len(q) /\ Len(r) \in 2 .. Len(r) /\ Len(r) - 1 = Len(q)
    BY <1>1, <1>2, <1>6, EmptySeq
  <2>4. Solves(f, q)
    BY <2>1, FlattensSolves
  <2>5. Solves(g, q)
    <3>1. Solves(g, r)
      BY <1>1, <1>3, FlattensSolves
    <3>2. ASSUME NEW i \in 1 .. Len(q)
          PROVE  i \in 1 .. Len(r) /\ r[i] = q[i]
      BY <1>1, <1>2
    <3>3. QED
      BY <3>1, <3>2 DEF Solves
  <2>6. \A i \in 1 .. Len(q) : f[i] = g[i]
    <3>1. Len(q) \in Nat
      BY <1>2
    <3>2. Agree(f, g, q)
      BY ONLY <3>1, <2>4, <2>5, SolutionIsUnique
    <3>3. QED
      BY <3>2 DEF Agree
  <2>. f[Len(q)] = g[Len(q)]
    BY <2>3, <2>6
  <2>7. g[Len(r)] = g[Len(q)] \o s
    BY <1>1, <1>3, <2>3 DEF Flattens
  <2>8. QED
    BY <1>4, <2>2, <2>6, <2>7 DEF r
<1>7. QED
  BY <1>5, <1>6

(* What holds of the empty sequence, and of a longer one when it holds of  *)
(* the shorter, holds of all sequences.                                    *)
LEMMA SeqInduction ==
  ASSUME NEW S, NEW T, <<>> \in T,
         \A s \in Seq(S) : \A e \in S : s \in T => Append(s, e) \in T
  PROVE  \A s \in Seq(S) : s \in T
<1>. DEFINE P(n) == \A s \in Seq(S) : Len(s) = n => s \in T
            N == {n \in Nat : P(n)}
<1>1. P(0)
  BY EmptySeq
<1>2. ASSUME NEW n \in Nat, P(n) PROVE P(n + 1)
  <2>. SUFFICES ASSUME NEW s \in Seq(S), Len(s) = n + 1 PROVE s \in T
    OBVIOUS
  <2>1. s # <<>>
    BY EmptySeq
  <2>2. PICK t \in Seq(S), e \in S : s = Append(t, e)
    BY <2>1, SequenceEmptyOrAppend
  <2>3. Len(t) = n
    BY <2>2, AppendProperties, LenProperties
  <2>4. QED
    BY <1>2, <2>2, <2>3
<1>3. \A n \in Nat : n \in N
  <2>. HIDE DEF P
  <2>1. 0 \in N /\ \A n \in Nat : n \in N => n + 1 \in N
    BY <1>1, <1>2
  <2>. HIDE DEF N
  <2>2. QED
    BY <2>1, Induction, Zenon
<1>4. QED
  BY <1>3, LenProperties

(* Two lists of sequences, one behind the other.                           *)
LEMMA FlattenConcat ==
  ASSUME NEW S, NEW q \in Seq(Seq(S)), NEW r \in Seq(Seq(S))
  PROVE  FlattenSeq(q \o r) = FlattenSeq(q) \o FlattenSeq(r)
<1>. DEFINE P(s) == FlattenSeq(q \o s) = FlattenSeq(q) \o FlattenSeq(s)
            T == {s \in Seq(Seq(S)) : P(s)}
<1>1. P(<<>>)
  BY FlattenEmpty, FlattenType, ConcatEmptySeq
<1>2. ASSUME NEW s \in Seq(Seq(S)), NEW e \in Seq(S), P(s) PROVE P(Append(s, e))
  <2>1. q \o Append(s, e) = Append(q \o s, e)
    <3>1. <<e>> \in Seq(Seq(S))
      OBVIOUS
    <3>2. Append(s, e) = s \o <<e>>
      BY AppendIsConcat
    <3>3. (q \o s) \in Seq(Seq(S))
      BY ConcatProperties
    <3>4. Append(q \o s, e) = (q \o s) \o <<e>>
      BY <3>3, AppendIsConcat
    <3>5. (q \o s) \o <<e>> = q \o (s \o <<e>>)
      <4>1. Regroups(q, s, <<e>>)
        BY ONLY <3>1, q \in Seq(Seq(S)), s \in Seq(Seq(S)), Regroup
      <4>2. QED
        BY ONLY <4>1 DEF Regroups
    <3>6. QED
      BY <3>2, <3>4, <3>5
  <2>2. FlattenSeq(Append(q \o s, e)) = FlattenSeq(q \o s) \o e
    <3>1. (q \o s) \in Seq(Seq(S))
      BY ConcatProperties
    <3>2. QED
      BY <3>1, FlattenAppend
  <2>3. FlattenSeq(Append(s, e)) = FlattenSeq(s) \o e
    BY FlattenAppend
  <2>4. (FlattenSeq(q) \o FlattenSeq(s)) \o e = FlattenSeq(q) \o (FlattenSeq(s) \o e)
    <3>1. PICK a \in Seq(S), b \in Seq(S) : a = FlattenSeq(q) /\ b = FlattenSeq(s)
      BY FlattenType
    <3>2. Regroups(a, b, e)
      BY ONLY a \in Seq(S), b \in Seq(S), e \in Seq(S), Regroup
    <3>3. QED
      BY ONLY <3>1, <3>2 DEF Regroups
  <2>5. QED
    BY <1>2, <2>1, <2>2, <2>3, <2>4
<1>3. \A s \in Seq(Seq(S)) : s \in T
  <2>. HIDE DEF P
  <2>1. <<>> \in T
    BY <1>1, EmptySeq
  <2>2. \A s \in Seq(Seq(S)) : \A e \in Seq(S) : s \in T => Append(s, e) \in T
    BY <1>2, AppendProperties
  <2>. HIDE DEF T
  <2>3. QED
    BY <2>1, <2>2, SeqInduction, Zenon
<1>4. QED
  BY <1>3

(* Of one sequence.                                                        *)
LEMMA FlattenOne ==
  ASSUME NEW S, NEW s \in Seq(S)
  PROVE  FlattenSeq(<<s>>) = s
<1>1. <<s>> = Append(<<>>, s) /\ <<>> \in Seq(Seq(S))
  OBVIOUS
<1>2. FlattenSeq(<<s>>) = <<>> \o s
  BY <1>1, FlattenAppend, FlattenEmpty
<1>3. QED
  BY <1>2, ConcatEmptySeq

(* The first sequence, and the others behind it.                           *)
LEMMA FlattenHead ==
  ASSUME NEW S, NEW q \in Seq(Seq(S)), q # <<>>
  PROVE  FlattenSeq(q) = Head(q) \o FlattenSeq(Tail(q))
<1>1. Head(q) \in Seq(S) /\ Tail(q) \in Seq(Seq(S))
  BY HeadTailProperties
<1>2. <<Head(q)>> \in Seq(Seq(S)) /\ q = <<Head(q)>> \o Tail(q)
  OBVIOUS
<1>3. FlattenSeq(q) = FlattenSeq(<<Head(q)>>) \o FlattenSeq(Tail(q))
  BY <1>1, <1>2, FlattenConcat
<1>4. QED
  BY <1>1, <1>3, FlattenOne

(* Nothing comes of empty sequences alone.                                 *)
LEMMA FlattenNothing ==
  ASSUME NEW S, NEW q \in Seq(Seq(S)), \A i \in 1 .. Len(q) : q[i] = <<>>
  PROVE  FlattenSeq(q) = <<>>
<1>. DEFINE P(s) == (\A i \in 1 .. Len(s) : s[i] = <<>>) => FlattenSeq(s) = <<>>
            T == {s \in Seq(Seq(S)) : P(s)}
<1>1. P(<<>>)
  BY FlattenEmpty
<1>2. ASSUME NEW s \in Seq(Seq(S)), NEW e \in Seq(S), P(s) PROVE P(Append(s, e))
  <2>. SUFFICES ASSUME \A i \in 1 .. Len(Append(s, e)) : Append(s, e)[i] = <<>>
                PROVE  FlattenSeq(Append(s, e)) = <<>>
    OBVIOUS
  <2>1. (\A i \in 1 .. Len(s) : s[i] = <<>>) /\ e = <<>>
    <3>1. Len(s) \in Nat
      BY LenProperties
    <3>2. PICK a : a = Append(s, e) /\ Grown(a, s, e)
      BY ONLY s \in Seq(Seq(S)), e \in Seq(S), AppendGrows
    <3>3. \A i \in 1 .. Len(s) + 1 : a[i] = <<>>
      BY <3>2 DEF Grown
    <3>. QED
      BY ONLY <3>1, <3>2, <3>3 DEF Grown
  <2>2. FlattenSeq(Append(s, e)) = FlattenSeq(s) \o e
    BY FlattenAppend
  <2>3. QED
    BY <1>2, <2>1, <2>2, ConcatEmptySeq
<1>3. \A s \in Seq(Seq(S)) : s \in T
  <2>. HIDE DEF P
  <2>1. <<>> \in T
    BY <1>1, EmptySeq
  <2>2. \A s \in Seq(Seq(S)) : \A e \in Seq(S) : s \in T => Append(s, e) \in T
    BY <1>2, AppendProperties
  <2>. HIDE DEF T
  <2>3. QED
    BY <2>1, <2>2, SeqInduction, Zenon
<1>4. QED
  BY <1>3

(* Something comes of a list with a sequence that is not empty.            *)
LEMMA FlattenSomething ==
  ASSUME NEW S, NEW q \in Seq(Seq(S)), NEW k \in 1 .. Len(q), q[k] # <<>>
  PROVE  FlattenSeq(q) # <<>>
<1>. DEFINE P(s) == (\E i \in 1 .. Len(s) : s[i] # <<>>) => FlattenSeq(s) # <<>>
            T == {s \in Seq(Seq(S)) : P(s)}
<1>1. P(<<>>)
  OBVIOUS
<1>2. ASSUME NEW s \in Seq(Seq(S)), NEW e \in Seq(S), P(s) PROVE P(Append(s, e))
  <2>. SUFFICES ASSUME \E i \in 1 .. Len(Append(s, e)) : Append(s, e)[i] # <<>>
                PROVE  FlattenSeq(Append(s, e)) # <<>>
    OBVIOUS
  <2>1. (\E i \in 1 .. Len(s) : s[i] # <<>>) \/ e # <<>>
    <3>1. /\ Len(s) \in Nat /\ Len(Append(s, e)) = Len(s) + 1
          /\ \A i \in 1 .. Len(s) : Append(s, e)[i] = s[i]
          /\ Append(s, e)[Len(s) + 1] = e
      BY AppendProperties, LenProperties
    <3>2. PICK i \in 1 .. Len(s) + 1 : Append(s, e)[i] # <<>>
      BY <3>1
    <3>3. i \in 1 .. Len(s) \/ i = Len(s) + 1
      BY <3>1
    <3>4. QED
      BY <3>1, <3>2, <3>3
  <2>2. FlattenSeq(Append(s, e)) = FlattenSeq(s) \o e
    BY FlattenAppend
  <2>3. FlattenSeq(s) # <<>> \/ e # <<>>
    BY <1>2, <2>1
  <2>4. FlattenSeq(s) \in Seq(S)
    BY FlattenType
  <2>5. QED
    BY <2>2, <2>3, <2>4, ConcatEqualIffEmpty
<1>3. \A s \in Seq(Seq(S)) : s \in T
  <2>. HIDE DEF P
  <2>1. <<>> \in T
    BY <1>1, EmptySeq
  <2>2. \A s \in Seq(Seq(S)) : \A e \in Seq(S) : s \in T => Append(s, e) \in T
    BY <1>2, AppendProperties
  <2>. HIDE DEF T
  <2>3. QED
    BY <2>1, <2>2, SeqInduction, Zenon
<1>4. QED
  BY <1>3

-----------------------------------------------------------------------------
(* The least and the greatest of some natural numbers.                     *)

LEMMA MinOfNats ==
  ASSUME NEW T, T \subseteq Nat, T # {}
  PROVE  Min(T) \in T /\ \A m \in T : Min(T) <= m
BY LeastNat DEF Min

LEMMA MaxOfNats ==
  ASSUME NEW n \in Nat, NEW T, T \subseteq 0 .. n, T # {}
  PROVE  Max(T) \in T /\ \A m \in T : m <= Max(T)
<1>. DEFINE D == {n - i : i \in T}
<1>1. D \subseteq Nat /\ D # {}
  <2>1. \A i \in T : n - i \in Nat
    OBVIOUS
  <2>2. QED
    BY <2>1
<1>2. PICK d \in D : \A m \in D : d <= m
  <2>. HIDE DEF D
  <2>1. QED
    BY <1>1, LeastNat
<1>3. PICK i \in T : d = n - i
  OBVIOUS
<1>4. ASSUME NEW m \in T PROVE m <= i
  <2>1. d <= n - m
    BY <1>2
  <2>2. QED
    BY <1>3, <2>1
<1>5. QED
  BY <1>4 DEF Max

-----------------------------------------------------------------------------
(* The characters of a text.                                               *)

Ps == {"char", "file"} \X Nat
CharOf(c) == IF Blank(c) THEN <<>> ELSE <<<<"char", c>>>>
CharSeq(text) == [i \in DOMAIN text |-> CharOf(text[i])]

LEMMA CharsIsFlat == ASSUME NEW text PROVE Chars(text) = FlattenSeq(CharSeq(text))
BY DEF Chars, CharSeq, CharOf

LEMMA CharOfType ==
  ASSUME NEW c \in Nat \cup {LineFeed}
  PROVE  CharOf(c) \in Seq(Ps) /\ (CharOf(c) = <<>> <=> Blank(c))
<1>1. CASE Blank(c)
  BY <1>1 DEF CharOf
<1>2. CASE ~Blank(c)
  <2>1. <<"char", c>> \in Ps
    BY <1>2 DEF Ps, Blank
  <2>2. CharOf(c) = <<<<"char", c>>>>
    BY <1>2 DEF CharOf
  <2>3. QED
    BY <1>2, <2>1, <2>2
<1>3. QED
  BY <1>1, <1>2

LEMMA CharSeqType ==
  ASSUME NEW text \in Texts
  PROVE  CharSeq(text) \in Seq(Seq(Ps)) /\ Len(CharSeq(text)) = Len(text)
<1>1. /\ Len(text) \in Nat /\ DOMAIN text = 1 .. Len(text)
      /\ \A i \in 1 .. Len(text) : text[i] \in Nat \cup {LineFeed}
  BY LenProperties DEF Texts
<1>2. \A i \in 1 .. Len(text) : CharOf(text[i]) \in Seq(Ps)
  BY <1>1, CharOfType
<1>3. CharSeq(text) = [i \in 1 .. Len(text) |-> CharOf(text[i])]
  BY <1>1 DEF CharSeq
<1>4. QED
  BY <1>1, <1>2, <1>3

LEMMA CharsType ==
  ASSUME NEW text \in Texts
  PROVE  Chars(text) \in Seq(Ps)
BY CharSeqType, CharsIsFlat, FlattenType

(* The characters of two texts, one behind the other.                      *)
LEMMA CharsConcat ==
  ASSUME NEW s \in Texts, NEW t \in Texts
  PROVE  s \o t \in Texts /\ Chars(s \o t) = Chars(s) \o Chars(t)
<1>1. s \o t \in Texts
  BY ConcatProperties DEF Texts
<1>2. CharSeq(s \o t) = CharSeq(s) \o CharSeq(t)
  <2>1. /\ Len(s) \in Nat /\ Len(t) \in Nat
        /\ Len(s \o t) = Len(s) + Len(t)
        /\ \A i \in 1 .. Len(s) + Len(t) :
             (s \o t)[i] = IF i <= Len(s) THEN s[i] ELSE t[i - Len(s)]
        /\ DOMAIN s = 1 .. Len(s) /\ DOMAIN t = 1 .. Len(t)
        /\ DOMAIN (s \o t) = 1 .. Len(s \o t)
    BY <1>1, ConcatProperties, LenProperties DEF Texts
  <2>2. /\ CharSeq(s) \in Seq(Seq(Ps)) /\ Len(CharSeq(s)) = Len(s)
        /\ CharSeq(t) \in Seq(Seq(Ps)) /\ Len(CharSeq(t)) = Len(t)
        /\ CharSeq(s \o t) \in Seq(Seq(Ps)) /\ Len(CharSeq(s \o t)) = Len(s) + Len(t)
    BY <1>1, <2>1, CharSeqType
  <2>3. PICK r \in Seq(Seq(Ps)) :
          /\ r = CharSeq(s) \o CharSeq(t) /\ Len(r) = Len(s) + Len(t)
          /\ \A i \in 1 .. Len(s) + Len(t) :
               r[i] = IF i <= Len(s) THEN CharSeq(s)[i] ELSE CharSeq(t)[i - Len(s)]
    <3>1. /\ CharSeq(s) \o CharSeq(t) \in Seq(Seq(Ps))
          /\ Len(CharSeq(s) \o CharSeq(t)) = Len(s) + Len(t)
          /\ \A i \in 1 .. Len(s) + Len(t) :
               (CharSeq(s) \o CharSeq(t))[i]
                 = IF i <= Len(s) THEN CharSeq(s)[i] ELSE CharSeq(t)[i - Len(s)]
      <4>1. PICK u \in Seq(Seq(Ps)) : u = CharSeq(s)
        BY <2>2
      <4>2. PICK v \in Seq(Seq(Ps)) : v = CharSeq(t)
        BY <2>2
      <4>3. /\ u \o v \in Seq(Seq(Ps)) /\ Len(u \o v) = Len(u) + Len(v)
            /\ \A i \in 1 .. Len(u) + Len(v) :
                 (u \o v)[i] = IF i <= Len(u) THEN u[i] ELSE v[i - Len(u)]
        BY ConcatProperties
      <4>4. Len(u) = Len(s) /\ Len(v) = Len(t)
        BY <2>2, <4>1, <4>2
      <4>5. QED
        BY ONLY <4>1, <4>2, <4>3, <4>4
    <3>2. QED
      BY <3>1
  <2>4. ASSUME NEW i \in 1 .. Len(s) + Len(t)
        PROVE  CharSeq(s \o t)[i] = r[i]
    <3>1. CharSeq(s \o t)[i] = CharOf((s \o t)[i])
      BY <2>1 DEF CharSeq
    <3>2. CASE i <= Len(s)
      <4>1. i \in 1 .. Len(s)
        BY <2>1, <3>2
      <4>2. CharSeq(s)[i] = CharOf(s[i])
        BY <2>1, <4>1 DEF CharSeq
      <4>3. QED
        BY <2>1, <2>3, <3>1, <3>2, <4>2
    <3>3. CASE ~(i <= Len(s))
      <4>1. i - Len(s) \in 1 .. Len(t)
        BY <2>1, <3>3
      <4>2. CharSeq(t)[i - Len(s)] = CharOf(t[i - Len(s)])
        BY <2>1, <4>1 DEF CharSeq
      <4>3. QED
        BY <2>1, <2>3, <3>1, <3>3, <4>2
    <3>4. QED
      BY <3>2, <3>3
  <2>5. QED
    BY <2>2, <2>3, <2>4, SeqEqual
<1>3. FlattenSeq(CharSeq(s) \o CharSeq(t))
        = FlattenSeq(CharSeq(s)) \o FlattenSeq(CharSeq(t))
  BY CharSeqType, FlattenConcat
<1>4. QED
  BY <1>1, <1>2, <1>3, CharsIsFlat

(* A text has no characters exactly when it is blank.                      *)
LEMMA CharsOfBlank ==
  ASSUME NEW text \in Texts
  PROVE  Chars(text) = <<>> <=> \A i \in 1 .. Len(text) : Blank(text[i])
<1>1. \A i \in 1 .. Len(text) : text[i] \in Nat \cup {LineFeed}
  BY ElementOfSeq DEF Texts
<1>2. /\ CharSeq(text) \in Seq(Seq(Ps)) /\ Len(CharSeq(text)) = Len(text)
      /\ \A i \in 1 .. Len(text) : CharSeq(text)[i] = CharOf(text[i])
  <2>1. DOMAIN text = 1 .. Len(text)
    BY LenProperties DEF Texts
  <2>2. QED
    BY <2>1, CharSeqType DEF CharSeq
<1>3. CASE \A i \in 1 .. Len(text) : Blank(text[i])
  <2>1. \A i \in 1 .. Len(CharSeq(text)) : CharSeq(text)[i] = <<>>
    BY <1>1, <1>2, <1>3, CharOfType
  <2>2. FlattenSeq(CharSeq(text)) = <<>>
    BY <1>2, <2>1, FlattenNothing
  <2>3. QED
    BY <1>3, <2>2, CharsIsFlat
<1>4. CASE \E i \in 1 .. Len(text) : ~Blank(text[i])
  <2>1. PICK i \in 1 .. Len(text) : ~Blank(text[i])
    BY <1>4
  <2>2. CharSeq(text)[i] # <<>> /\ i \in 1 .. Len(CharSeq(text))
    BY <1>1, <1>2, <2>1, CharOfType
  <2>3. FlattenSeq(CharSeq(text)) # <<>>
    BY <1>2, <2>2, FlattenSomething
  <2>4. QED
    BY <2>1, <2>3, CharsIsFlat
<1>5. QED
  BY <1>3, <1>4

(* What TrimSpace leaves of a text: nothing of a blank one, else what lies *)
(* between two letters, outside of which all is blank.                     *)
LEMMA TrimSpaceIs ==
  ASSUME NEW text \in Texts
  PROVE  \/ TrimSpace(text) = <<>> /\ \A i \in 1 .. Len(text) : Blank(text[i])
         \/ \E a \in 1 .. Len(text) : \E b \in a .. Len(text) :
              /\ TrimSpace(text) = SubSeq(text, a, b)
              /\ ~Blank(text[a]) /\ ~Blank(text[b])
              /\ \A i \in 1 .. Len(text) : i < a \/ i > b => Blank(text[i])
<1>. DEFINE ink == {i \in DOMAIN text : ~Blank(text[i])}
<1>1. DOMAIN text = 1 .. Len(text) /\ Len(text) \in Nat
  BY LenProperties DEF Texts
<1>2. CASE ink = {}
  BY <1>1, <1>2 DEF TrimSpace
<1>3. CASE ink # {}
  <2>1. ink \subseteq Nat /\ ink \subseteq 0 .. Len(text)
    BY <1>1
  <2>2. TrimSpace(text) = SubSeq(text, Min(ink), Max(ink))
    BY <1>3 DEF TrimSpace
  <2>3. /\ Min(ink) \in ink /\ \A m \in ink : Min(ink) <= m
        /\ Max(ink) \in ink /\ \A m \in ink : m <= Max(ink)
    <3>. HIDE DEF ink
    <3>1. QED
      BY <1>1, <1>3, <2>1, MinOfNats, MaxOfNats
  <2>4. PICK a \in ink : a = Min(ink)
    BY <2>3
  <2>5. PICK b \in ink : b = Max(ink)
    BY <2>3
  <2>6. a \in 1 .. Len(text) /\ b \in a .. Len(text)
    BY <1>1, <2>3, <2>4, <2>5
  <2>7. \A i \in 1 .. Len(text) : i < a \/ i > b => Blank(text[i])
    <3>1. \A i \in ink : a <= i /\ i <= b
      <4>. HIDE DEF ink
      <4>1. QED
        BY <2>3, <2>4, <2>5
    <3>2. ASSUME NEW i \in 1 .. Len(text), ~Blank(text[i])
          PROVE  a <= i /\ i <= b
      BY <1>1, <3>1, <3>2
    <3>3. QED
      BY <1>1, <2>6, <3>2
  <2>8. QED
    BY <2>2, <2>4, <2>5, <2>6, <2>7
<1>4. QED
  BY <1>2, <1>3

LEMMA SubText ==
  ASSUME NEW text \in Texts, NEW a \in Int, NEW b \in Int, 1 <= a, b <= Len(text)
  PROVE  /\ SubSeq(text, a, b) \in Texts
         /\ Len(SubSeq(text, a, b)) = IF a <= b THEN b - a + 1 ELSE 0
         /\ \A i \in 1 .. b - a + 1 : SubSeq(text, a, b)[i] = text[a + i - 1]
<1>1. Len(text) \in Nat
  BY LenProperties DEF Texts
<1>2. \A i \in a .. b : text[i] \in Nat \cup {LineFeed}
  BY <1>1, ElementOfSeq DEF Texts
<1>3. QED
  BY <1>2, SubSeqProperties DEF Texts

(* TrimSpace takes no character away, and leaves a letter at both ends.    *)
LEMMA TrimSpaceKeeps ==
  ASSUME NEW text \in Texts
  PROVE  /\ TrimSpace(text) \in Texts /\ Chars(TrimSpace(text)) = Chars(text)
         /\ TrimSpace(text) = <<>> <=> Chars(text) = <<>>
         /\ TrimSpace(text) # <<>> =>
              /\ ~Blank(TrimSpace(text)[1])
              /\ ~Blank(TrimSpace(text)[Len(TrimSpace(text))])
<1>1. Len(text) \in Nat
  BY LenProperties DEF Texts
<1>2. CASE TrimSpace(text) = <<>> /\ \A i \in 1 .. Len(text) : Blank(text[i])
  <2>1. Chars(text) = <<>>
    BY <1>2, CharsOfBlank
  <2>2. <<>> \in Texts /\ Chars(<<>>) = <<>>
    <3>1. <<>> \in Texts
      BY EmptySeq DEF Texts
    <3>2. QED
      BY <3>1, CharsOfBlank
  <2>3. QED
    BY <1>2, <2>1, <2>2
<1>3. CASE \E a \in 1 .. Len(text) : \E b \in a .. Len(text) :
              /\ TrimSpace(text) = SubSeq(text, a, b)
              /\ ~Blank(text[a]) /\ ~Blank(text[b])
              /\ \A i \in 1 .. Len(text) : i < a \/ i > b => Blank(text[i])
  <2>1. PICK a \in 1 .. Len(text), b \in 1 .. Len(text) :
              /\ a <= b
              /\ TrimSpace(text) = SubSeq(text, a, b)
              /\ ~Blank(text[a]) /\ ~Blank(text[b])
              /\ \A i \in 1 .. Len(text) : i < a \/ i > b => Blank(text[i])
    BY <1>1, <1>3
  <2>2. PICK l \in Texts : /\ l = SubSeq(text, 1, a - 1)
                           /\ Len(l) = a - 1
                           /\ \A i \in 1 .. a - 1 : l[i] = text[i]
    <3>1. a - 1 \in Int /\ 1 \in Int /\ 1 <= 1 /\ a - 1 <= Len(text)
      BY <1>1
    <3>2. /\ SubSeq(text, 1, a - 1) \in Texts
          /\ Len(SubSeq(text, 1, a - 1)) = IF 1 <= a - 1 THEN a - 1 - 1 + 1 ELSE 0
          /\ \A i \in 1 .. a - 1 - 1 + 1 : SubSeq(text, 1, a - 1)[i] = text[1 + i - 1]
      BY ONLY <3>1, text \in Texts, SubText
    <3>3. /\ (IF 1 <= a - 1 THEN a - 1 - 1 + 1 ELSE 0) = a - 1
          /\ a - 1 - 1 + 1 = a - 1
          /\ \A i \in 1 .. a - 1 : 1 + i - 1 = i
      BY <1>1
    <3>4. QED
      BY <3>2, <3>3
  <2>3. PICK m \in Texts : /\ m = SubSeq(text, a, b)
                           /\ Len(m) = b - a + 1
                           /\ \A i \in 1 .. b - a + 1 : m[i] = text[a + i - 1]
    <3>1. a \in Int /\ b \in Int /\ 1 <= a /\ b <= Len(text)
      BY <1>1
    <3>2. /\ SubSeq(text, a, b) \in Texts
          /\ Len(SubSeq(text, a, b)) = IF a <= b THEN b - a + 1 ELSE 0
          /\ \A i \in 1 .. b - a + 1 : SubSeq(text, a, b)[i] = text[a + i - 1]
      BY ONLY <3>1, text \in Texts, SubText
    <3>3. QED
      BY <2>1, <3>2
  <2>4. PICK r \in Texts : /\ r = SubSeq(text, b + 1, Len(text))
                           /\ Len(r) = Len(text) - b
                           /\ \A i \in 1 .. Len(text) - b : r[i] = text[b + i]
    <3>1. /\ SubSeq(text, b + 1, Len(text)) \in Texts
          /\ Len(SubSeq(text, b + 1, Len(text))) = Len(text) - b
          /\ \A i \in 1 .. Len(text) - b : SubSeq(text, b + 1, Len(text))[i] = text[b + 1 + i - 1]
      BY <1>1, SubText
    <3>2. \A i \in 1 .. Len(text) - b : b + 1 + i - 1 = b + i
      BY <1>1
    <3>3. QED
      BY <3>1, <3>2
  <2>5. text = l \o (m \o r)
    <3>1. m \o r = SubSeq(text, a, Len(text))
      <4>1. a \in 1 .. Len(text) + 1 /\ b \in a - 1 .. Len(text) /\ Len(text) \in b .. Len(text)
        BY <1>1, <2>1
      <4>2. text \in Seq(Nat \cup {LineFeed})
        BY DEF Texts
      <4>3. SubSeq(text, a, b) \o SubSeq(text, b + 1, Len(text)) = SubSeq(text, a, Len(text))
        BY ONLY <4>1, <4>2, ConcatAdjacentSubSeq
      <4>4. QED
        BY <2>3, <2>4, <4>3
    <3>2. l \o SubSeq(text, a, Len(text)) = SubSeq(text, 1, Len(text))
      <4>1. a - 1 \in 0 .. Len(text) /\ Len(text) \in (a - 1) .. Len(text) /\ 1 \in 1 .. Len(text) + 1
        BY <1>1
      <4>2. SubSeq(text, 1, a - 1) \o SubSeq(text, (a - 1) + 1, Len(text)) = SubSeq(text, 1, Len(text))
        <5>1. text \in Seq(Nat \cup {LineFeed}) /\ 1 - 1 = 0
          BY DEF Texts
        <5>2. QED
          BY ONLY <4>1, <5>1, ConcatAdjacentSubSeq
      <4>3. (a - 1) + 1 = a
        BY <1>1
      <4>4. QED
        BY <2>2, <4>2, <4>3
    <3>3. QED
      BY <3>1, <3>2, SubSeqFull DEF Texts
  <2>6. Chars(l) = <<>> /\ Chars(r) = <<>>
    <3>1. \A i \in 1 .. Len(l) : Blank(l[i])
      BY <1>1, <2>1, <2>2
    <3>2. \A i \in 1 .. Len(r) : Blank(r[i])
      <4>1. \A i \in 1 .. Len(text) - b : b + i \in 1 .. Len(text) /\ b + i > b
        BY <1>1
      <4>2. QED
        BY <2>1, <2>4, <4>1
    <3>3. QED
      BY <3>1, <3>2, CharsOfBlank
  <2>7. Chars(text) = Chars(l) \o (Chars(m) \o Chars(r))
    <3>1. m \o r \in Texts /\ Chars(m \o r) = Chars(m) \o Chars(r)
      BY CharsConcat
    <3>2. PICK t \in Texts : t = m \o r
      BY <3>1
    <3>3. Chars(l \o t) = Chars(l) \o Chars(t)
      BY CharsConcat
    <3>4. QED
      BY <2>5, <3>1, <3>2, <3>3
  <2>8. Chars(m) = Chars(text)
    <3>1. Chars(m) \in Seq(Ps)
      BY CharsType
    <3>2. QED
      BY <2>6, <2>7, <3>1, ConcatEmptySeq
  <2>9. ~Blank(m[1]) /\ ~Blank(m[Len(m)]) /\ Len(m) \in 1 .. Len(m)
    <3>1. a + 1 - 1 = a /\ a + (b - a + 1) - 1 = b /\ 1 \in 1 .. b - a + 1 /\ b - a + 1 \in 1 .. b - a + 1
      BY <1>1, <2>1
    <3>2. m[1] = text[a] /\ m[b - a + 1] = text[b]
      BY <2>3, <3>1
    <3>3. QED
      BY <2>1, <2>3, <3>1, <3>2
  <2>10. m # <<>> /\ Chars(m) # <<>>
    BY <2>9, CharsOfBlank, EmptySeq
  <2>11. QED
    BY <2>1, <2>3, <2>8, <2>9, <2>10
<1>4. QED
  BY <1>2, <1>3, TrimSpaceIs

-----------------------------------------------------------------------------
\* f[i] is known where i is a stop, and comes of a later value elsewhere
StepsOn(f, n, stop, v, h, next) ==
  f = [i \in 1 .. n |-> IF i \in stop THEN v[i] ELSE h[i] \o f[next[i]]]

(* Recursion towards the end of a sequence: there is such a function.      *)
LEMMA SuffixRecursion ==
  ASSUME NEW n \in Nat, NEW stop, NEW v, NEW h, NEW next,
         \A i \in 1 .. n : i \notin stop => next[i] \in i + 1 .. n
  PROVE  \E f : StepsOn(f, n, stop, v, h, next)
<1>. DEFINE E(f, i) == IF i \in stop THEN v[i] ELSE h[i] \o f[next[i]]
            P(k) == \E f : \A i \in 1 .. n : n - i < k => f[i] = E(f, i)
            T == {k \in Nat : P(k)}
<1>1. P(0)
  OBVIOUS
<1>2. ASSUME NEW k \in Nat, P(k) PROVE P(k + 1)
  <2>1. PICK f : \A i \in 1 .. n : n - i < k => f[i] = E(f, i)
    BY <1>2
  <2>2. PICK e : e = E(f, n - k)
    OBVIOUS
  <2>. DEFINE g == [i \in 1 .. n |-> IF i = n - k THEN e ELSE f[i]]
  <2>3. \A i \in 1 .. n : i # n - k => g[i] = f[i]
    OBVIOUS
  <2>4. n - k \in 1 .. n => g[n - k] = e
    OBVIOUS
  <2>. HIDE DEF g
  <2>5. ASSUME NEW i \in 1 .. n, n - i < k + 1 PROVE g[i] = E(g, i)
    <3>1. i \notin stop => next[i] \in 1 .. n /\ next[i] # n - k
      BY <2>5
    <3>2. i \notin stop => g[next[i]] = f[next[i]]
      BY <2>3, <3>1
    <3>3. E(g, i) = E(f, i)
      BY <3>2
    <3>. HIDE DEF E
    <3>4. CASE i = n - k
      BY <2>2, <2>4, <3>3, <3>4
    <3>5. CASE i # n - k
      <4>1. n - i < k
        BY <2>5, <3>5
      <4>2. QED
        BY <2>1, <2>3, <3>3, <3>5, <4>1
    <3>6. QED
      BY <3>4, <3>5
  <2>6. QED
    BY <2>5
<1>3. P(n)
  <2>. HIDE DEF P
  <2>1. 0 \in T /\ \A k \in Nat : k \in T => k + 1 \in T
    BY <1>1, <1>2
  <2>. HIDE DEF T
  <2>2. \A k \in Nat : k \in T
    BY <2>1, Induction, Zenon
  <2>3. QED
    BY <2>2 DEF T
<1>4. PICK f : \A i \in 1 .. n : n - i < n => f[i] = E(f, i)
  BY <1>3
<1>. DEFINE g == [i \in 1 .. n |-> f[i]]
<1>5. ASSUME NEW i \in 1 .. n PROVE g[i] = E(g, i)
  <2>1. f[i] = E(f, i) /\ g[i] = f[i]
    BY <1>4
  <2>2. i \notin stop => next[i] \in 1 .. n
    OBVIOUS
  <2>3. i \notin stop => g[next[i]] = f[next[i]]
    BY <2>2
  <2>. HIDE DEF g
  <2>4. QED
    BY <2>1, <2>3
<1>6. g = [i \in 1 .. n |-> E(g, i)]
  <2>1. g = [i \in 1 .. n |-> g[i]]
    OBVIOUS
  <2>. HIDE DEF g, E
  <2>2. QED
    BY <1>5, <2>1
<1>. HIDE DEF g
<1>7. QED
  BY <1>6 DEF StepsOn

(* A text that is cut goes on: the cut is behind its first character, and  *)
(* not behind its last.                                                    *)
LEMMA CutIsInside ==
  ASSUME NEW window \in Texts, window # <<>>
  PROVE  Cut(window) \in 1 .. Len(window)
<1>. DEFINE seps == <<<<LineFeed, LineFeed>>, <<LineFeed>>, <<Space>>>>
            At(sep) == {i \in 0..(Len(window) - Len(sep)) :
              i > Len(window) \div 2 /\ SubSeq(window, i + 1, i + Len(sep)) = sep}
            found == {k \in DOMAIN seps : At(seps[k]) # {}}
<1>1. Len(window) \in Nat \ {0}
  BY EmptySeq DEF Texts
<1>2. DOMAIN seps = 1 .. 3 /\ Len(seps[1]) = 2 /\ Len(seps[2]) = 1 /\ Len(seps[3]) = 1
  OBVIOUS
<1>3. Cut(window) = IF found = {} THEN Len(window) ELSE Max(At(seps[Min(found)]))
  BY DEF Cut
<1>4. CASE found = {}
  <2>. HIDE DEF found, At, seps
  <2>1. Cut(window) = Len(window)
    BY <1>3, <1>4
  <2>2. QED
    BY <1>1, <2>1
<1>5. CASE found # {}
  <2>1. found \subseteq Nat
    BY <1>2
  <2>2. Min(found) \in found
    <3>. HIDE DEF found
    <3>1. QED
      BY <1>5, <2>1, MinOfNats
  <2>3. PICK k \in found : k = Min(found)
    BY <2>2
  <2>4. k \in 1 .. 3 /\ At(seps[k]) # {}
    BY <1>2, <2>3
  <2>5. \A i \in At(seps[k]) : i \in 1 .. Len(window)
    <3>. HIDE DEF seps
    <3>1. Len(seps[k]) \in 1 .. 2
      <4>1. k = 1 \/ k = 2 \/ k = 3
        BY <2>4
      <4>2. QED
        BY <1>2, <4>1
    <3>2. ASSUME NEW i \in At(seps[k]) PROVE i \in 1 .. Len(window)
      <4>1. i \in 0 .. Len(window) - Len(seps[k]) /\ i > Len(window) \div 2
        OBVIOUS
      <4>2. QED
        BY <1>1, <3>1, <4>1
    <3>3. QED
      BY <3>2
  <2>6. At(seps[k]) \subseteq 0 .. Len(window)
    BY <1>1, <2>5
  <2>7. Max(At(seps[k])) \in At(seps[k])
    <3>. HIDE DEF At
    <3>1. QED
      BY <1>1, <2>4, <2>6, MaxOfNats
  <2>8. QED
    BY <1>3, <1>5, <2>3, <2>5, <2>7
<1>6. QED
  BY <1>4, <1>5

-----------------------------------------------------------------------------
(* The chunks of a text.                                                   *)

CharLists(texts) == [i \in DOMAIN texts |-> Chars(texts[i])]
Joined(texts) == FlattenSeq(CharLists(texts))

LEMMA CharListsType ==
  ASSUME NEW texts \in Seq(Texts)
  PROVE  /\ CharLists(texts) \in Seq(Seq(Ps)) /\ Len(CharLists(texts)) = Len(texts)
         /\ \A i \in 1 .. Len(texts) : CharLists(texts)[i] = Chars(texts[i])
<1>1. /\ Len(texts) \in Nat /\ DOMAIN texts = 1 .. Len(texts)
      /\ \A i \in 1 .. Len(texts) : texts[i] \in Texts
  BY LenProperties, ElementOfSeq
<1>2. \A i \in 1 .. Len(texts) : Chars(texts[i]) \in Seq(Ps)
  BY <1>1, CharsType
<1>3. CharLists(texts) = [i \in 1 .. Len(texts) |-> Chars(texts[i])]
  BY <1>1 DEF CharLists
<1>4. QED
  BY <1>1, <1>2, <1>3

LEMMA JoinedFirst ==
  ASSUME NEW t \in Texts, NEW texts \in Seq(Texts)
  PROVE  /\ <<t>> \o texts \in Seq(Texts)
         /\ Joined(<<t>> \o texts) = Chars(t) \o Joined(texts)
         /\ Len(<<t>> \o texts) = Len(texts) + 1
         /\ (<<t>> \o texts)[1] = t
         /\ \A i \in 2 .. Len(texts) + 1 : (<<t>> \o texts)[i] = texts[i - 1]
<1>1. <<t>> \in Seq(Texts) /\ Len(<<t>>) = 1 /\ <<t>>[1] = t
  OBVIOUS
<1>2. Len(texts) \in Nat
  BY LenProperties
<1>3. PICK c \in Seq(Texts) :
        /\ c = <<t>> \o texts /\ Len(c) = Len(texts) + 1 /\ c[1] = t
        /\ \A i \in 2 .. Len(texts) + 1 : c[i] = texts[i - 1]
  <2>1. PICK o \in Seq(Texts) : o = <<t>> /\ Len(o) = 1 /\ o[1] = t
    BY <1>1
  <2>2. /\ o \o texts \in Seq(Texts) /\ Len(o \o texts) = Len(o) + Len(texts)
        /\ \A i \in 1 .. Len(o) + Len(texts) :
             (o \o texts)[i] = IF i <= Len(o) THEN o[i] ELSE texts[i - Len(o)]
    BY ConcatProperties
  <2>3. (o \o texts)[1] = t
    BY <1>2, <2>1, <2>2
  <2>4. \A i \in 2 .. Len(texts) + 1 : (o \o texts)[i] = texts[i - 1]
    BY <1>2, <2>1, <2>2
  <2>5. Len(o \o texts) = Len(texts) + 1
    BY <1>2, <2>1, <2>2
  <2>6. QED
    BY <2>1, <2>2, <2>3, <2>4, <2>5
<1>4. Chars(t) \in Seq(Ps)
  BY CharsType
<1>5. /\ CharLists(texts) \in Seq(Seq(Ps)) /\ Len(CharLists(texts)) = Len(texts)
      /\ \A i \in 1 .. Len(texts) : CharLists(texts)[i] = Chars(texts[i])
  BY CharListsType
<1>6. /\ CharLists(c) \in Seq(Seq(Ps)) /\ Len(CharLists(c)) = Len(texts) + 1
      /\ \A i \in 1 .. Len(texts) + 1 : CharLists(c)[i] = Chars(c[i])
  BY <1>3, CharListsType
<1>7. CharLists(c) # <<>> /\ Head(CharLists(c)) = Chars(t)
  <2>1. PICK q \in Seq(Seq(Ps)) : q = CharLists(c)
    BY <1>6
  <2>2. q # <<>> /\ q[1] = Chars(t)
    BY <1>2, <1>3, <1>6, <2>1
  <2>3. Head(q) = q[1]
    BY <2>2
  <2>4. QED
    BY <2>1, <2>2, <2>3
<1>8. Tail(CharLists(c)) = CharLists(texts)
  <2>1. PICK q \in Seq(Seq(Ps)) : q = CharLists(c)
    BY <1>6
  <2>2. PICK r \in Seq(Seq(Ps)) : r = CharLists(texts)
    BY <1>5
  <2>3. PICK p \in Seq(Seq(Ps)) : /\ p = Tail(q) /\ Len(p) = Len(q) - 1
                                  /\ \A i \in 1 .. Len(p) : p[i] = q[i + 1]
    BY <1>7, <2>1, HeadTailProperties
  <2>4. Len(p) = Len(r) /\ Len(p) = Len(texts)
    BY <1>2, <1>5, <1>6, <2>1, <2>2, <2>3
  <2>5. ASSUME NEW i \in 1 .. Len(texts) PROVE p[i] = r[i]
    <3>1. i + 1 \in 2 .. Len(texts) + 1 /\ i + 1 \in 1 .. Len(texts) + 1 /\ (i + 1) - 1 = i
      BY <1>2
    <3>2. p[i] = q[i + 1] /\ q[i + 1] = Chars(c[i + 1])
      BY <1>6, <2>1, <2>3, <2>4, <3>1
    <3>3. c[i + 1] = texts[i]
      BY <1>3, <3>1
    <3>4. r[i] = Chars(texts[i])
      BY <1>5, <2>2
    <3>5. QED
      BY <3>2, <3>3, <3>4
  <2>6. p = r
    <3>1. Len(p) = Len(r) /\ \A i \in 1 .. Len(p) : p[i] = r[i]
      BY <2>4, <2>5
    <3>2. QED
      BY ONLY <3>1, p \in Seq(Seq(Ps)), r \in Seq(Seq(Ps)), SeqEqual
  <2>7. QED
    BY <2>1, <2>2, <2>3, <2>6
<1>9. FlattenSeq(CharLists(c)) = Chars(t) \o FlattenSeq(CharLists(texts))
  BY <1>6, <1>7, <1>8, FlattenHead
<1>10. QED
  BY <1>3, <1>9 DEF Joined

LEMMA JoinedNone == <<>> \in Seq(Texts) /\ Joined(<<>>) = <<>>
<1>1. CharLists(<<>>) = <<>>
  BY DEF CharLists
<1>2. QED
  BY <1>1, FlattenEmpty, EmptySeq DEF Joined

LEMMA JoinedOne ==
  ASSUME NEW t \in Texts
  PROVE  <<t>> \in Seq(Texts) /\ Joined(<<t>>) = Chars(t)
<1>1. <<t>> \in Seq(Texts)
  OBVIOUS
<1>2. <<t>> \o <<>> = <<t>>
  BY <1>1, ConcatEmptySeq
<1>3. Joined(<<t>> \o <<>>) = Chars(t) \o <<>>
  BY JoinedFirst, JoinedNone
<1>4. Chars(t) \o <<>> = Chars(t)
  BY CharsType, ConcatEmptySeq
<1>5. QED
  BY <1>1, <1>2, <1>3, <1>4

LEMMA TrimSpaceShortens ==
  ASSUME NEW text \in Texts
  PROVE  Len(TrimSpace(text)) <= Len(text)
<1>1. Len(text) \in Nat
  BY LenProperties DEF Texts
<1>2. CASE TrimSpace(text) = <<>>
  BY <1>1, <1>2
<1>3. ASSUME NEW a \in 1 .. Len(text), NEW b \in a .. Len(text),
             TrimSpace(text) = SubSeq(text, a, b)
      PROVE  Len(TrimSpace(text)) <= Len(text)
  <2>1. a \in Int /\ b \in Int /\ 1 <= a /\ b <= Len(text) /\ a <= b
    BY <1>1
  <2>2. Len(SubSeq(text, a, b)) = IF a <= b THEN b - a + 1 ELSE 0
    BY ONLY <2>1, text \in Texts, SubText
  <2>3. QED
    BY <1>1, <1>3, <2>1, <2>2
<1>4. QED
  BY <1>2, <1>3, TrimSpaceIs

(* What is left of a text that ends in a letter, from the next letter on.  *)
LEMMA RestOfText ==
  ASSUME NEW all \in Texts, ~Blank(all[Len(all)]), NEW i \in 1 .. Len(all)
  PROVE  \E start \in i .. Len(all) :
           /\ TrimSpace(SubSeq(all, i, Len(all))) = SubSeq(all, start, Len(all))
           /\ SubSeq(all, start, Len(all)) \in Texts
           /\ Len(SubSeq(all, start, Len(all))) = Len(all) - start + 1
           /\ ~Blank(all[start])
           /\ Chars(SubSeq(all, start, Len(all))) = Chars(SubSeq(all, i, Len(all)))
<1>. DEFINE n == Len(all)
<1>1. n \in Nat /\ i \in Int /\ 1 <= i /\ n <= Len(all) /\ i <= n
  BY LenProperties DEF Texts
<1>. HIDE DEF n
<1>2. PICK s \in Texts : /\ s = SubSeq(all, i, n) /\ Len(s) = n - i + 1
                         /\ \A j \in 1 .. n - i + 1 : s[j] = all[i + j - 1]
  <2>1. /\ SubSeq(all, i, n) \in Texts
        /\ Len(SubSeq(all, i, n)) = IF i <= n THEN n - i + 1 ELSE 0
        /\ \A j \in 1 .. n - i + 1 : SubSeq(all, i, n)[j] = all[i + j - 1]
    BY ONLY <1>1, n \in Int, all \in Texts, SubText
  <2>2. QED
    BY <1>1, <2>1
<1>3. ~Blank(s[n - i + 1]) /\ n - i + 1 \in 1 .. Len(s)
  <2>1. n - i + 1 \in 1 .. n - i + 1 /\ i + (n - i + 1) - 1 = n
    BY <1>1
  <2>2. s[n - i + 1] = all[n]
    BY <1>2, <2>1
  <2>3. QED
    BY <1>2, <2>1, <2>2 DEF n
<1>4. PICK a \in 1 .. Len(s), b \in 1 .. Len(s) :
        /\ a <= b /\ TrimSpace(s) = SubSeq(s, a, b) /\ ~Blank(s[a])
        /\ \A j \in 1 .. Len(s) : j < a \/ j > b => Blank(s[j])
  <2>1. ~(\A j \in 1 .. Len(s) : Blank(s[j]))
    BY <1>3
  <2>2. PICK a \in 1 .. Len(s) : \E b \in a .. Len(s) :
              /\ TrimSpace(s) = SubSeq(s, a, b)
              /\ ~Blank(s[a]) /\ ~Blank(s[b])
              /\ \A j \in 1 .. Len(s) : j < a \/ j > b => Blank(s[j])
    BY <2>1, TrimSpaceIs
  <2>3. PICK b \in a .. Len(s) :
              /\ TrimSpace(s) = SubSeq(s, a, b)
              /\ ~Blank(s[a]) /\ ~Blank(s[b])
              /\ \A j \in 1 .. Len(s) : j < a \/ j > b => Blank(s[j])
    BY <2>2
  <2>4. b \in 1 .. Len(s) /\ a <= b
    BY <1>1, <1>2
  <2>5. QED
    BY <2>3, <2>4
<1>5. b = n - i + 1
  <2>1. ~(n - i + 1 > b)
    BY <1>3, <1>4
  <2>2. b <= n - i + 1
    BY <1>2, <1>4
  <2>3. QED
    BY <1>1, <2>1, <2>2
<1>6. PICK start \in i .. n : start = i + a - 1
  BY <1>1, <1>2, <1>4, <1>5
<1>7. SubSeq(s, a, b) = SubSeq(all, start, n)
  <2>1. /\ i \in 1 .. Len(all) /\ n \in 1 .. Len(all)
        /\ a \in 1 .. n - i + 1 /\ b \in 1 .. n - i + 1
        /\ i + a - 1 = start /\ i + b - 1 = n
    BY <1>1, <1>2, <1>5, <1>6 DEF n
  <2>2. all \in Seq(Nat \cup {LineFeed}) /\ s \in Seq(Nat \cup {LineFeed})
    BY DEF Texts
  <2>3. SubSeq(SubSeq(all, i, n), a, b) = SubSeq(all, i + a - 1, i + b - 1)
    BY ONLY <2>1, <2>2, SubSeqOfSubSeq
  <2>4. QED
    BY <1>2, <2>1, <2>3
<1>8. s[a] = all[start]
  BY <1>1, <1>2, <1>6
<1>9. /\ SubSeq(all, start, n) \in Texts
      /\ Len(SubSeq(all, start, n)) = n - start + 1
  <2>1. start \in Int /\ n \in Int /\ 1 <= start /\ start <= n
    BY <1>1
  <2>2. /\ SubSeq(all, start, n) \in Texts
        /\ Len(SubSeq(all, start, n)) = IF start <= n THEN n - start + 1 ELSE 0
    BY ONLY <1>1, <2>1, all \in Texts, SubText
  <2>3. QED
    BY <2>1, <2>2
<1>10. Chars(SubSeq(all, start, n)) = Chars(s)
  BY <1>4, <1>7, TrimSpaceKeeps
<1>11. QED
  BY <1>2, <1>4, <1>7, <1>8, <1>9, <1>10 DEF n

\* the chunks are those of the text from its i-th character on
ChunksOf(chunks, all, i) ==
  /\ chunks \in Seq(Texts)
  /\ Joined(chunks) = Chars(SubSeq(all, i, Len(all)))
  /\ \A k \in 1 .. Len(chunks) : Chars(chunks[k]) # <<>> /\ Len(chunks[k]) <= MaxText

LEMMA ChunksNone ==
  ASSUME NEW all \in Texts
  PROVE  ChunksOf(<<>>, all, Len(all) + 1)
<1>1. Len(all) \in Nat
  BY LenProperties DEF Texts
<1>2. SubSeq(all, Len(all) + 1, Len(all)) = <<>>
  BY <1>1, SubSeqEmpty
<1>3. <<>> \in Texts /\ Len(<<>>) = 0
  BY EmptySeq DEF Texts
<1>4. Chars(<<>>) = <<>>
  BY <1>3, CharsOfBlank
<1>5. Joined(<<>>) = Chars(SubSeq(all, Len(all) + 1, Len(all)))
  BY <1>2, <1>4, JoinedNone
<1>6. \A k \in 1 .. Len(<<>>) : Chars(<<>>[k]) # <<>> /\ Len(<<>>[k]) <= MaxText
  BY <1>3
<1>7. QED
  BY <1>5, <1>6, JoinedNone DEF ChunksOf

LEMMA ChunksOne ==
  ASSUME NEW all \in Texts, NEW i, NEW rest \in Texts, Len(rest) <= MaxText,
         rest # <<>>, ~Blank(rest[1]),
         Chars(rest) = Chars(SubSeq(all, i, Len(all)))
  PROVE  ChunksOf(<<rest>>, all, i)
<1>1. 1 \in 1 .. Len(rest)
  BY EmptySeq DEF Texts
<1>2. Chars(rest) # <<>>
  BY <1>1, CharsOfBlank
<1>3. Len(<<rest>>) = 1 /\ <<rest>>[1] = rest
  OBVIOUS
<1>4. QED
  BY <1>2, <1>3, JoinedOne DEF ChunksOf

(* A chunk is cut from the rest of the text, and the next chunks are those *)
(* of what is behind the cut.                                              *)
LEMMA ChunksMore ==
  ASSUME NEW all \in Texts, NEW i \in 1 .. Len(all), NEW start \in i .. Len(all),
         NEW cut \in 1 .. MaxText, MaxText \in Nat, cut < Len(all) - start + 1,
         ~Blank(all[start]),
         Chars(SubSeq(all, start, Len(all))) = Chars(SubSeq(all, i, Len(all))),
         NEW chunks, ChunksOf(chunks, all, start + cut)
  PROVE  ChunksOf(<<TrimSpace(SubSeq(SubSeq(all, start, Len(all)), 1, cut))>> \o chunks, all, i)
<1>. DEFINE n == Len(all)
<1>1. n \in Nat /\ i <= n /\ start <= n /\ start \in 1 .. n /\ cut \in Nat \ {0}
  BY LenProperties DEF Texts
<1>2. all \in Seq(Nat \cup {LineFeed}) /\ n = Len(all)
  BY DEF Texts
<1>. HIDE DEF n
<1>3. PICK w : w = SubSeq(all, start, start + cut - 1)
  OBVIOUS
<1>4. SubSeq(SubSeq(all, start, n), 1, cut) = w
  <2>1. /\ start \in 1 .. Len(all) /\ n \in 1 .. Len(all)
        /\ 1 \in 1 .. n - start + 1 /\ cut \in 1 .. n - start + 1
        /\ start + 1 - 1 = start
    BY <1>1, <1>2
  <2>2. SubSeq(all, start, n) \in Seq(Nat \cup {LineFeed})
    <3>1. \A j \in start .. n : all[j] \in Nat \cup {LineFeed}
      BY <1>1, <1>2, ElementOfSeq
    <3>2. QED
      BY <1>1, <3>1, SubSeqProperties
  <2>3. SubSeq(SubSeq(all, start, n), 1, cut) = SubSeq(all, start + 1 - 1, start + cut - 1)
    BY ONLY <1>2, <2>1, <2>2, SubSeqOfSubSeq
  <2>4. QED
    BY <1>3, <2>1, <2>3
<1>5. /\ w \in Texts /\ Len(w) = cut /\ w[1] = all[start]
  <2>1. start \in Int /\ start + cut - 1 \in Int /\ 1 <= start /\ start + cut - 1 <= Len(all)
    BY <1>1, <1>2
  <2>2. /\ SubSeq(all, start, start + cut - 1) \in Texts
        /\ Len(SubSeq(all, start, start + cut - 1))
             = IF start <= start + cut - 1 THEN start + cut - 1 - start + 1 ELSE 0
        /\ \A j \in 1 .. start + cut - 1 - start + 1 :
             SubSeq(all, start, start + cut - 1)[j] = all[start + j - 1]
    <3>1. \A a, b \in Int : 1 <= a /\ b <= Len(all) =>
            /\ SubSeq(all, a, b) \in Texts
            /\ Len(SubSeq(all, a, b)) = IF a <= b THEN b - a + 1 ELSE 0
            /\ \A j \in 1 .. b - a + 1 : SubSeq(all, a, b)[j] = all[a + j - 1]
      BY ONLY all \in Texts, SubText
    <3>2. QED
      BY ONLY <2>1, <3>1
  <2>3. /\ start <= start + cut - 1 /\ start + cut - 1 - start + 1 = cut
        /\ 1 \in 1 .. cut /\ start + 1 - 1 = start
    BY <1>1
  <2>4. QED
    BY <1>3, <2>2, <2>3
<1>6. PICK t : t = SubSeq(all, start + cut, n) /\ t \in Texts
  <2>1. start + cut \in Int /\ n \in Int /\ 1 <= start + cut /\ n <= Len(all)
    BY <1>1, <1>2
  <2>2. SubSeq(all, start + cut, n) \in Texts
    BY ONLY <2>1, all \in Texts, SubText
  <2>3. QED
    BY <2>2
<1>7. w \o t = SubSeq(all, start, n)
  <2>1. /\ start \in 1 .. Len(all) + 1
        /\ start + cut - 1 \in start - 1 .. Len(all)
        /\ n \in start + cut - 1 .. Len(all)
        /\ (start + cut - 1) + 1 = start + cut
    BY <1>1, <1>2
  <2>2. SubSeq(all, start, start + cut - 1) \o SubSeq(all, (start + cut - 1) + 1, n)
          = SubSeq(all, start, n)
    BY ONLY <1>2, <2>1, ConcatAdjacentSubSeq
  <2>3. QED
    BY <1>3, <1>6, <2>1, <2>2
<1>8. Chars(SubSeq(all, i, n)) = Chars(w) \o Chars(t)
  <2>1. Chars(w \o t) = Chars(w) \o Chars(t)
    BY <1>5, <1>6, CharsConcat
  <2>2. QED
    BY <1>2, <1>7, <2>1
<1>9. PICK chunk \in Texts : /\ chunk = TrimSpace(w) /\ Chars(chunk) = Chars(w)
                             /\ Chars(chunk) # <<>> /\ Len(chunk) <= MaxText
  <2>1. 1 \in 1 .. Len(w) /\ ~Blank(w[1])
    BY <1>1, <1>5
  <2>2. Chars(w) # <<>>
    BY <1>5, <2>1, CharsOfBlank
  <2>3. Len(TrimSpace(w)) <= MaxText
    <3>1. TrimSpace(w) \in Texts /\ Len(TrimSpace(w)) <= Len(w)
      BY <1>5, TrimSpaceKeeps, TrimSpaceShortens
    <3>2. Len(TrimSpace(w)) \in Nat
      BY <3>1, LenProperties DEF Texts
    <3>3. QED
      BY <1>5, <3>1, <3>2
  <2>4. QED
    BY <1>5, <2>2, <2>3, TrimSpaceKeeps
<1>10. /\ chunks \in Seq(Texts) /\ Joined(chunks) = Chars(t)
       /\ \A k \in 1 .. Len(chunks) : Chars(chunks[k]) # <<>> /\ Len(chunks[k]) <= MaxText
  BY <1>2, <1>6 DEF ChunksOf
<1>11. PICK c \in Seq(Texts) :
         /\ c = <<chunk>> \o chunks
         /\ Joined(c) = Chars(chunk) \o Joined(chunks)
         /\ Len(c) = Len(chunks) + 1 /\ c[1] = chunk
         /\ \A k \in 2 .. Len(chunks) + 1 : c[k] = chunks[k - 1]
  <2>1. chunk \in Texts /\ chunks \in Seq(Texts)
    BY <1>9, <1>10
  <2>2. /\ <<chunk>> \o chunks \in Seq(Texts)
        /\ Joined(<<chunk>> \o chunks) = Chars(chunk) \o Joined(chunks)
        /\ Len(<<chunk>> \o chunks) = Len(chunks) + 1
        /\ (<<chunk>> \o chunks)[1] = chunk
        /\ \A k \in 2 .. Len(chunks) + 1 : (<<chunk>> \o chunks)[k] = chunks[k - 1]
    BY ONLY <2>1, JoinedFirst
  <2>3. PICK c : c = <<chunk>> \o chunks
    OBVIOUS
  <2>4. QED
    BY ONLY <2>2, <2>3
<1>12. ASSUME NEW k \in 1 .. Len(c)
       PROVE  Chars(c[k]) # <<>> /\ Len(c[k]) <= MaxText
  <2>1. Len(chunks) \in Nat
    BY <1>10, LenProperties
  <2>2. CASE k = 1
    BY <1>9, <1>11, <2>2
  <2>3. CASE k # 1
    <3>1. k \in 2 .. Len(chunks) + 1 /\ k - 1 \in 1 .. Len(chunks)
      BY <1>11, <2>1, <2>3
    <3>2. QED
      BY <1>10, <1>11, <3>1
  <2>4. QED
    BY <2>2, <2>3
<1>13. ChunksOf(c, all, i)
  BY <1>2, <1>8, <1>9, <1>10, <1>11, <1>12 DEF ChunksOf
<1>14. QED
  BY <1>2, <1>4, <1>9, <1>11, <1>13

(* splitText of whatsappcloud: put together, the chunks are the text, the  *)
(* blanks between the words aside; no chunk is blank, and none is longer   *)
(* than the platform allows.                                               *)
THEOREM SplitTextIsWhole ==
  ASSUME NEW text \in Texts
  PROVE  /\ SplitText(text) \in Seq(Texts)
         /\ Joined(SplitText(text)) = Chars(text)
         /\ \A k \in 1 .. Len(SplitText(text)) :
              Chars(SplitText(text)[k]) # <<>> /\ Len(SplitText(text)[k]) <= MaxText
<1>. DEFINE all == TrimSpace(text)
            n == Len(all)
            rest(i) == TrimSpace(SubSeq(all, i, n))
            next(i) == n - Len(rest(i)) + 1 + Cut(SubSeq(rest(i), 1, MaxText))
            D(f) == [i \in 1 .. (n + 1) |->
                       IF rest(i) = <<>> THEN <<>>
                       ELSE IF Len(rest(i)) <= MaxText THEN <<rest(i)>>
                       ELSE <<TrimSpace(SubSeq(rest(i), 1, Cut(SubSeq(rest(i), 1, MaxText))))>>
                              \o f[next(i)]]
            F == CHOOSE f : f = D(f)
<1>1. SplitText(text) = F[1]
  BY DEF SplitText
<1>2. MaxText \in Nat \ {0}
  BY SendingAssumption
<1>3. all \in Texts /\ n \in Nat
  BY TrimSpaceKeeps, LenProperties DEF Texts
<1>4. Chars(all) = Chars(text) /\ (all # <<>> => ~Blank(all[n]))
  BY TrimSpaceKeeps
<1>. HIDE DEF all
<1>5. ASSUME NEW i \in 1 .. n
      PROVE  \E start \in i .. n :
               /\ rest(i) = SubSeq(all, start, n) /\ rest(i) \in Texts
               /\ Len(rest(i)) = n - start + 1 /\ ~Blank(all[start])
               /\ Chars(rest(i)) = Chars(SubSeq(all, i, n))
  <2>1. all # <<>>
    BY <1>3
  <2>2. QED
    BY <1>3, <1>4, <2>1, RestOfText
<1>6. rest(n + 1) = <<>>
  <2>1. SubSeq(all, n + 1, n) = <<>>
    BY <1>3, SubSeqEmpty
  <2>2. <<>> \in Texts /\ Len(<<>>) = 0
    BY EmptySeq DEF Texts
  <2>3. TrimSpace(<<>>) = <<>>
    BY <2>2, TrimSpaceIs
  <2>4. QED
    BY <2>1, <2>3
<1>7. ASSUME NEW i \in 1 .. n, NEW start \in i .. n, rest(i) = SubSeq(all, start, n),
             rest(i) \in Texts, Len(rest(i)) = n - start + 1, ~(Len(rest(i)) <= MaxText)
      PROVE  \E cut \in 1 .. MaxText :
               /\ cut = Cut(SubSeq(rest(i), 1, MaxText))
               /\ next(i) = start + cut /\ cut < n - start + 1
               /\ start + cut \in i + 1 .. n + 1
  <2>1. PICK w \in Texts : w = SubSeq(rest(i), 1, MaxText) /\ Len(w) = MaxText
    <3>1. 1 \in Int /\ MaxText \in Int /\ 1 <= 1 /\ MaxText <= Len(rest(i)) /\ 1 <= MaxText
      BY <1>2, <1>3, <1>7
    <3>2. /\ SubSeq(rest(i), 1, MaxText) \in Texts
          /\ Len(SubSeq(rest(i), 1, MaxText)) = IF 1 <= MaxText THEN MaxText - 1 + 1 ELSE 0
      BY ONLY <1>7, <3>1, SubText
    <3>3. MaxText - 1 + 1 = MaxText
      BY <1>2
    <3>4. QED
      BY <3>1, <3>2, <3>3
  <2>2. w # <<>>
    BY <1>2, <2>1
  <2>3. PICK cut \in 1 .. MaxText : cut = Cut(w)
    BY <2>1, <2>2, CutIsInside
  <2>4. next(i) = start + cut
    BY <1>3, <1>7, <2>1, <2>3
  <2>5. cut < n - start + 1 /\ start + cut \in i + 1 .. n + 1
    BY <1>2, <1>3, <1>7
  <2>6. QED
    BY <2>1, <2>3, <2>4, <2>5
<1>8. \E f : f = D(f)
  <2>. DEFINE stop == {i \in 1 .. n + 1 : rest(i) = <<>> \/ Len(rest(i)) <= MaxText}
              v == [i \in 1 .. n + 1 |-> IF rest(i) = <<>> THEN <<>> ELSE <<rest(i)>>]
              h == [i \in 1 .. n + 1 |->
                      <<TrimSpace(SubSeq(rest(i), 1, Cut(SubSeq(rest(i), 1, MaxText))))>>]
              x == [i \in 1 .. n + 1 |-> next(i)]
  <2>1. ASSUME NEW i \in 1 .. n + 1, i \notin stop PROVE x[i] \in i + 1 .. n + 1
    <3>1. i \in 1 .. n
      BY <1>3, <1>6, <2>1
    <3>2. ~(Len(rest(i)) <= MaxText)
      BY <2>1
    <3>3. PICK start \in i .. n : rest(i) = SubSeq(all, start, n) /\ rest(i) \in Texts
                                   /\ Len(rest(i)) = n - start + 1
      BY <1>5, <3>1
    <3>. HIDE DEF n, rest, next
    <3>4. next(i) \in i + 1 .. n + 1
      BY <1>7, <3>1, <3>2, <3>3
    <3>5. QED
      BY <3>4
  <2>2. PICK f : f = [i \in 1 .. n + 1 |-> IF i \in stop THEN v[i] ELSE h[i] \o f[x[i]]]
    <3>1. PICK m \in Nat : m = n + 1
      BY <1>3
    <3>. HIDE DEF stop, v, h, x, n
    <3>2. \A i \in 1 .. m : i \notin stop => x[i] \in i + 1 .. m
      BY <2>1, <3>1
    <3>3. PICK f : StepsOn(f, m, stop, v, h, x)
      BY ONLY <3>2, m \in Nat, SuffixRecursion
    <3>4. f = [i \in 1 .. m |-> IF i \in stop THEN v[i] ELSE h[i] \o f[x[i]]]
      BY <3>3 DEF StepsOn
    <3>5. QED
      BY <3>1, <3>4
  <2>3. ASSUME NEW i \in 1 .. n + 1
        PROVE  (IF i \in stop THEN v[i] ELSE h[i] \o f[x[i]]) = D(f)[i]
    <3>. HIDE DEF n, rest, next
    <3>1. CASE rest(i) = <<>>
      BY <3>1
    <3>2. CASE rest(i) # <<>> /\ Len(rest(i)) <= MaxText
      BY <3>2
    <3>3. CASE rest(i) # <<>> /\ ~(Len(rest(i)) <= MaxText)
      BY <3>3
    <3>4. QED
      BY <3>1, <3>2, <3>3
  <2>4. f = [i \in 1 .. n + 1 |-> D(f)[i]]
    <3>. HIDE DEF stop, v, h, x, D, n
    <3>1. QED
      BY <2>2, <2>3
  <2>5. D(f) = [i \in 1 .. n + 1 |-> D(f)[i]]
    <3>. HIDE DEF n, rest, next
    <3>1. QED
      OBVIOUS
  <2>6. QED
    BY <2>4, <2>5
<1>9. F = D(F)
  <2>. HIDE DEF D
  <2>1. QED
    BY <1>8
<1>10. ASSUME NEW i \in 1 .. n + 1
       PROVE  F[i] = IF rest(i) = <<>> THEN <<>>
                     ELSE IF Len(rest(i)) <= MaxText THEN <<rest(i)>>
                     ELSE <<TrimSpace(SubSeq(rest(i), 1, Cut(SubSeq(rest(i), 1, MaxText))))>>
                            \o F[next(i)]
  <2>1. F[i] = D(F)[i]
    <3>. HIDE DEF D
    <3>1. QED
      BY <1>9
  <2>. HIDE DEF F, n, rest, next
  <2>2. QED
    BY <2>1
<1>. HIDE DEF F
<1>. DEFINE P(k) == \A i \in 1 .. n + 1 : n + 1 - i < k => ChunksOf(F[i], all, i)
            T == {k \in Nat : P(k)}
<1>11. P(0)
  BY <1>3
<1>12. ASSUME NEW k \in Nat, P(k), NEW i \in 1 .. n + 1, n + 1 - i < k + 1
       PROVE  ChunksOf(F[i], all, i)
  <2>1. CASE i = n + 1
    <3>1. F[i] = <<>>
      BY <1>6, <1>10, <2>1
    <3>2. QED
      BY <1>3, <2>1, <3>1, ChunksNone
  <2>2. CASE i # n + 1
    <3>1. i \in 1 .. n
      BY <1>3, <2>2
    <3>2. PICK start \in i .. n :
               /\ rest(i) = SubSeq(all, start, n) /\ rest(i) \in Texts
               /\ Len(rest(i)) = n - start + 1 /\ ~Blank(all[start])
               /\ Chars(rest(i)) = Chars(SubSeq(all, i, n))
      BY <1>5, <3>1
    <3>3. rest(i) # <<>> /\ ~Blank(rest(i)[1])
      <4>1. 1 <= start /\ n <= Len(all) /\ start <= n /\ start \in Int /\ n \in Int
        BY <1>3
      <4>2. \A j \in 1 .. n - start + 1 : SubSeq(all, start, n)[j] = all[start + j - 1]
        BY ONLY <1>3, <4>1, SubText
      <4>3. 1 \in 1 .. n - start + 1 /\ start + 1 - 1 = start /\ n - start + 1 # 0
        BY <1>3, <4>1
      <4>. HIDE DEF rest
      <4>4. rest(i)[1] = all[start]
        BY <3>2, <4>2, <4>3
      <4>5. Len(rest(i)) # 0
        BY <3>2, <4>3
      <4>6. rest(i) # <<>>
        BY <4>5
      <4>7. QED
        BY <3>2, <4>4, <4>6
    <3>4. CASE Len(rest(i)) <= MaxText
      <4>1. F[i] = <<rest(i)>>
        <5>. HIDE DEF n, rest, next
        <5>1. QED
          BY <1>10, <3>3, <3>4
      <4>2. ChunksOf(<<rest(i)>>, all, i)
        <5>. HIDE DEF rest
        <5>1. QED
          BY <1>3, <3>2, <3>3, <3>4, ChunksOne
      <4>3. QED
        BY <4>1, <4>2
    <3>5. CASE ~(Len(rest(i)) <= MaxText)
      <4>1. PICK cut \in 1 .. MaxText :
               /\ cut = Cut(SubSeq(rest(i), 1, MaxText))
               /\ next(i) = start + cut /\ cut < n - start + 1
               /\ start + cut \in i + 1 .. n + 1
        <5>. HIDE DEF n, rest, next
        <5>1. QED
          BY <1>7, <3>1, <3>2, <3>5
      <4>2. F[i] = <<TrimSpace(SubSeq(rest(i), 1, cut))>> \o F[start + cut]
        <5>. HIDE DEF n, rest, next
        <5>1. QED
          BY <1>10, <3>3, <3>5, <4>1
      <4>3. ChunksOf(F[start + cut], all, start + cut)
        <5>. HIDE DEF n, rest, next
        <5>1. start + cut \in 1 .. n + 1 /\ n + 1 - (start + cut) < k
          BY <1>3, <1>12, <4>1
        <5>2. QED
          BY <1>12, <5>1
      <4>4. PICK chunks : chunks = F[start + cut]
        OBVIOUS
      <4>5. ChunksOf(<<TrimSpace(SubSeq(SubSeq(all, start, n), 1, cut))>> \o chunks, all, i)
        <5>1. Chars(SubSeq(all, start, n)) = Chars(SubSeq(all, i, n))
          BY <3>2
        <5>2. MaxText \in Nat /\ i \in 1 .. Len(all) /\ start \in i .. Len(all)
          BY <1>2, <3>1
        <5>3. ChunksOf(chunks, all, start + cut) /\ cut < Len(all) - start + 1 /\ ~Blank(all[start])
          BY <3>2, <4>1, <4>3, <4>4
        <5>4. QED
          BY ONLY <1>3, <5>1, <5>2, <5>3, cut \in 1 .. MaxText, ChunksMore
      <4>6. QED
        BY <3>2, <4>2, <4>4, <4>5
    <3>6. QED
      BY <3>4, <3>5
  <2>3. QED
    BY <2>1, <2>2
<1>13. ChunksOf(F[1], all, 1)
  <2>1. \A k \in Nat : P(k) => P(k + 1)
    BY <1>12
  <2>. HIDE DEF P
  <2>2. 0 \in T /\ \A k \in Nat : k \in T => k + 1 \in T
    BY <1>11, <2>1
  <2>. HIDE DEF T
  <2>3. \A k \in Nat : k \in T
    BY <2>2, Induction, Zenon
  <2>4. P(n + 1)
    BY <1>3, <2>3 DEF T
  <2>5. QED
    BY <1>3, <2>4 DEF P
<1>14. Chars(SubSeq(all, 1, n)) = Chars(text)
  <2>1. SubSeq(all, 1, n) = all
    BY <1>3, SubSeqFull DEF Texts
  <2>2. QED
    BY <1>4, <2>1
<1>15. QED
  BY <1>1, <1>13, <1>14 DEF ChunksOf

-----------------------------------------------------------------------------
(* The pieces of a content, and of a list of posts.                        *)

LEMMA FilesType ==
  ASSUME NEW files \in Seq(Attachments)
  PROVE  /\ Files(files) \in Seq(Ps) /\ Len(Files(files)) = Len(files)
         /\ \A i \in 1 .. Len(files) : Files(files)[i] = <<"file", files[i][2]>>
<1>1. /\ Len(files) \in Nat /\ DOMAIN files = 1 .. Len(files)
      /\ \A i \in 1 .. Len(files) : files[i] \in Attachments
  BY LenProperties, ElementOfSeq
<1>2. \A i \in 1 .. Len(files) : <<"file", files[i][2]>> \in Ps
  BY <1>1 DEF Attachments, Ps
<1>3. Files(files) = [i \in 1 .. Len(files) |-> <<"file", files[i][2]>>]
  BY <1>1 DEF Files
<1>4. QED
  BY <1>1, <1>2, <1>3

LEMMA ContentType ==
  ASSUME NEW text \in Texts, NEW files \in Seq(Attachments)
  PROVE  /\ Content(text, files) \in Seq(Ps)
         /\ Content(text, <<>>) = Chars(text)
         /\ Content(<<>>, files) = Files(files)
         /\ files # <<>> => Content(text, files) # <<>>
<1>1. Chars(text) \in Seq(Ps) /\ Files(files) \in Seq(Ps)
  BY CharsType, FilesType
<1>2. Content(text, files) = Chars(text) \o Files(files)
  BY DEF Content
<1>3. Files(<<>>) = <<>> /\ Chars(<<>>) = <<>>
  <2>1. <<>> \in Texts /\ Len(<<>>) = 0
    BY EmptySeq DEF Texts
  <2>2. Files(<<>>) = <<>>
    BY DEF Files
  <2>3. QED
    BY <2>1, <2>2, CharsOfBlank
<1>4. files # <<>> => Files(files) # <<>>
  <2>1. Len(files) # 0 => Len(Files(files)) # 0
    BY FilesType
  <2>2. QED
    BY <2>1, EmptySeq
<1>5. QED
  BY <1>1, <1>2, <1>3, <1>4, ConcatProperties, ConcatEmptySeq, ConcatEqualIffEmpty DEF Content

ToPost == [text : Texts, files : Seq(Attachments)]
ArePosts(T) == \A p \in T : p.text \in Texts /\ p.files \in Seq(Attachments)
PieceLists(list) == [i \in DOMAIN list |-> PiecesOf(list[i])]

LEMMA PieceListsType ==
  ASSUME NEW T, ArePosts(T), NEW list \in Seq(T)
  PROVE  /\ PieceLists(list) \in Seq(Seq(Ps)) /\ Len(PieceLists(list)) = Len(list)
         /\ \A i \in 1 .. Len(list) : PieceLists(list)[i] = PiecesOf(list[i])
<1>1. /\ Len(list) \in Nat /\ DOMAIN list = 1 .. Len(list)
      /\ \A i \in 1 .. Len(list) : list[i] \in T
  BY LenProperties, ElementOfSeq
<1>2. \A i \in 1 .. Len(list) : PiecesOf(list[i]) \in Seq(Ps)
  BY <1>1, ContentType DEF PiecesOf, ArePosts
<1>3. PieceLists(list) = [i \in 1 .. Len(list) |-> PiecesOf(list[i])]
  BY <1>1 DEF PieceLists
<1>4. QED
  BY <1>1, <1>2, <1>3

LEMMA PieceListsAppend ==
  ASSUME NEW T, ArePosts(T), NEW list \in Seq(T), NEW post \in T
  PROVE  PieceLists(Append(list, post)) = Append(PieceLists(list), PiecesOf(post))
<1>1. PICK l \in Seq(T) : /\ l = Append(list, post) /\ Len(l) = Len(list) + 1
                          /\ \A i \in 1 .. Len(list) : l[i] = list[i]
                          /\ l[Len(list) + 1] = post
  BY AppendProperties
<1>2. PiecesOf(post) \in Seq(Ps) /\ Len(list) \in Nat
  BY ContentType, LenProperties DEF PiecesOf, ArePosts
<1>3. PICK q \in Seq(Seq(Ps)) :
        /\ q = PieceLists(list) /\ Len(q) = Len(list)
        /\ \A i \in 1 .. Len(list) : q[i] = PiecesOf(list[i])
  BY PieceListsType
<1>4. PICK r \in Seq(Seq(Ps)) :
        /\ r = PieceLists(l) /\ Len(r) = Len(list) + 1
        /\ \A i \in 1 .. Len(list) + 1 : r[i] = PiecesOf(l[i])
  BY <1>1, PieceListsType
<1>5. PICK a \in Seq(Seq(Ps)) :
        /\ a = Append(q, PiecesOf(post)) /\ Len(a) = Len(list) + 1
        /\ \A i \in 1 .. Len(list) : a[i] = q[i]
        /\ a[Len(list) + 1] = PiecesOf(post)
  <2>1. PICK p \in Seq(Ps) : p = PiecesOf(post)
    BY <1>2
  <2>2. PICK a \in Seq(Seq(Ps)) : Grown(a, q, p)
    BY ONLY q \in Seq(Seq(Ps)), p \in Seq(Ps), AppendGrows
  <2>3. QED
    BY <1>3, <2>1, <2>2 DEF Grown
<1>6. ASSUME NEW i \in 1 .. Len(list) + 1 PROVE a[i] = r[i]
  <2>1. CASE i = Len(list) + 1
    BY <1>1, <1>4, <1>5, <2>1
  <2>2. CASE i # Len(list) + 1
    <3>1. i \in 1 .. Len(list)
      BY <1>2, <2>2
    <3>2. QED
      BY <1>1, <1>3, <1>4, <1>5, <3>1
  <2>3. QED
    BY <2>1, <2>2
<1>7. a = r
  BY <1>4, <1>5, <1>6, SeqEqual
<1>8. QED
  BY <1>1, <1>3, <1>4, <1>5, <1>7

LEMMA PieceListsHead ==
  ASSUME NEW T, ArePosts(T), NEW list \in Seq(T), list # <<>>
  PROVE  /\ PieceLists(list) # <<>>
         /\ Head(PieceLists(list)) = PiecesOf(Head(list))
         /\ Tail(PieceLists(list)) = PieceLists(Tail(list))
<1>1. PICK t \in Seq(T) : /\ t = Tail(list) /\ Len(t) = Len(list) - 1
                          /\ \A i \in 1 .. Len(t) : t[i] = list[i + 1]
  BY HeadTailProperties
<1>2. Len(list) \in Nat \ {0} /\ 1 \in 1 .. Len(list)
  BY EmptySeq
<1>3. PICK q \in Seq(Seq(Ps)) :
        /\ q = PieceLists(list) /\ Len(q) = Len(list)
        /\ \A i \in 1 .. Len(list) : q[i] = PiecesOf(list[i])
  BY PieceListsType
<1>4. PICK r \in Seq(Seq(Ps)) :
        /\ r = PieceLists(t) /\ Len(r) = Len(t)
        /\ \A i \in 1 .. Len(t) : r[i] = PiecesOf(t[i])
  BY PieceListsType
<1>5. q # <<>> /\ Head(q) = PiecesOf(Head(list))
  <2>1. q # <<>>
    BY <1>2, <1>3
  <2>2. Head(q) = q[1] /\ Head(list) = list[1]
    BY <2>1
  <2>3. QED
    BY <1>2, <1>3, <2>1, <2>2
<1>6. PICK u \in Seq(Seq(Ps)) : /\ u = Tail(q) /\ Len(u) = Len(q) - 1
                                /\ \A i \in 1 .. Len(u) : u[i] = q[i + 1]
  BY <1>5, HeadTailProperties
<1>7. ASSUME NEW i \in 1 .. Len(t) PROVE u[i] = r[i]
  <2>1. i + 1 \in 1 .. Len(list) /\ i \in 1 .. Len(u)
    BY <1>1, <1>2, <1>3, <1>6
  <2>2. QED
    BY <1>1, <1>3, <1>4, <1>6, <2>1
<1>8. u = r
  <2>1. Len(u) = Len(t)
    BY <1>1, <1>3, <1>6
  <2>2. QED
    BY <1>4, <1>7, <2>1, SeqEqual
<1>9. QED
  BY <1>1, <1>3, <1>4, <1>5, <1>6, <1>8

LEMMA PieceListsConcat ==
  ASSUME NEW list \in Seq(ToPost), NEW more \in Seq(ToPost)
  PROVE  /\ list \o more \in Seq(ToPost)
         /\ FlattenSeq(PieceLists(list \o more))
              = FlattenSeq(PieceLists(list)) \o FlattenSeq(PieceLists(more))
<1>1. ArePosts(ToPost)
  BY DEF ArePosts, ToPost
<1>2. /\ Len(list) \in Nat /\ Len(more) \in Nat
      /\ list \o more \in Seq(ToPost) /\ Len(list \o more) = Len(list) + Len(more)
      /\ \A i \in 1 .. Len(list) + Len(more) :
           (list \o more)[i] = IF i <= Len(list) THEN list[i] ELSE more[i - Len(list)]
  BY ConcatProperties, LenProperties
<1>3. PICK q \in Seq(Seq(Ps)) :
        /\ q = PieceLists(list) /\ Len(q) = Len(list)
        /\ \A i \in 1 .. Len(list) : q[i] = PiecesOf(list[i])
  BY <1>1, PieceListsType
<1>4. PICK r \in Seq(Seq(Ps)) :
        /\ r = PieceLists(more) /\ Len(r) = Len(more)
        /\ \A i \in 1 .. Len(more) : r[i] = PiecesOf(more[i])
  BY <1>1, PieceListsType
<1>5. PICK u \in Seq(Seq(Ps)) :
        /\ u = PieceLists(list \o more) /\ Len(u) = Len(list) + Len(more)
        /\ \A i \in 1 .. Len(list) + Len(more) : u[i] = PiecesOf((list \o more)[i])
  BY <1>1, <1>2, PieceListsType
<1>6. PICK v \in Seq(Seq(Ps)) :
        /\ v = q \o r /\ Len(v) = Len(list) + Len(more)
        /\ \A i \in 1 .. Len(list) + Len(more) :
             v[i] = IF i <= Len(list) THEN q[i] ELSE r[i - Len(list)]
  <2>1. PICK v \in Seq(Seq(Ps)) :
          /\ v = q \o r /\ Len(v) = Len(q) + Len(r)
          /\ \A i \in 1 .. Len(q) + Len(r) :
               v[i] = IF i <= Len(q) THEN q[i] ELSE r[i - Len(q)]
    <3>1. /\ q \o r \in Seq(Seq(Ps)) /\ Len(q \o r) = Len(q) + Len(r)
          /\ \A i \in 1 .. Len(q) + Len(r) :
               (q \o r)[i] = IF i <= Len(q) THEN q[i] ELSE r[i - Len(q)]
      BY ConcatProperties
    <3>2. QED
      BY <3>1
  <2>2. Len(q) = Len(list) /\ Len(r) = Len(more)
    BY <1>3, <1>4
  <2>3. QED
    BY <2>1, <2>2
<1>7. ASSUME NEW i \in 1 .. Len(list) + Len(more) PROVE u[i] = v[i]
  <2>1. CASE i <= Len(list)
    <3>1. i \in 1 .. Len(list)
      BY <1>2, <2>1
    <3>2. QED
      BY <1>2, <1>3, <1>5, <1>6, <2>1, <3>1
  <2>2. CASE ~(i <= Len(list))
    <3>1. i - Len(list) \in 1 .. Len(more)
      BY <1>2, <2>2
    <3>2. QED
      BY <1>2, <1>4, <1>5, <1>6, <2>2, <3>1
  <2>3. QED
    BY <2>1, <2>2
<1>8. u = v
  BY <1>5, <1>6, <1>7, SeqEqual
<1>9. FlattenSeq(v) = FlattenSeq(q) \o FlattenSeq(r)
  BY <1>6, FlattenConcat
<1>10. QED
  BY <1>2, <1>3, <1>4, <1>5, <1>8, <1>9

Singles(s) == [i \in DOMAIN s |-> <<s[i]>>]

LEMMA SinglesType ==
  ASSUME NEW A, NEW s \in Seq(A)
  PROVE  /\ Singles(s) \in Seq(Seq(A)) /\ Len(Singles(s)) = Len(s)
         /\ \A i \in 1 .. Len(s) : Singles(s)[i] = <<s[i]>>
<1>1. /\ Len(s) \in Nat /\ DOMAIN s = 1 .. Len(s)
      /\ \A i \in 1 .. Len(s) : s[i] \in A
  BY LenProperties, ElementOfSeq
<1>2. \A i \in 1 .. Len(s) : <<s[i]>> \in Seq(A)
  BY <1>1
<1>3. Singles(s) = [i \in 1 .. Len(s) |-> <<s[i]>>]
  BY <1>1 DEF Singles
<1>4. QED
  BY <1>1, <1>2, <1>3

(* A sequence is what its elements are, put together.                      *)
LEMMA FlattenSingles ==
  ASSUME NEW A, NEW s \in Seq(A)
  PROVE  FlattenSeq(Singles(s)) = s
<1>. DEFINE P(t) == FlattenSeq(Singles(t)) = t
            T == {t \in Seq(A) : P(t)}
<1>1. P(<<>>)
  <2>1. Singles(<<>>) = <<>>
    BY DEF Singles
  <2>2. QED
    BY <2>1, FlattenEmpty
<1>2. ASSUME NEW t \in Seq(A), NEW e \in A, P(t) PROVE P(Append(t, e))
  <2>1. PICK l \in Seq(A) : /\ l = Append(t, e) /\ Len(l) = Len(t) + 1
                            /\ \A i \in 1 .. Len(t) : l[i] = t[i]
                            /\ l[Len(t) + 1] = e
    BY AppendProperties
  <2>2. PICK q \in Seq(Seq(A)) : /\ q = Singles(t) /\ Len(q) = Len(t)
                                 /\ \A i \in 1 .. Len(t) : q[i] = <<t[i]>>
    BY SinglesType
  <2>3. PICK r \in Seq(Seq(A)) : /\ r = Singles(l) /\ Len(r) = Len(t) + 1
                                 /\ \A i \in 1 .. Len(t) + 1 : r[i] = <<l[i]>>
    <3>1. /\ Singles(l) \in Seq(Seq(A)) /\ Len(Singles(l)) = Len(l)
          /\ \A i \in 1 .. Len(l) : Singles(l)[i] = <<l[i]>>
      BY SinglesType
    <3>2. QED
      BY <2>1, <3>1
  <2>4. PICK o \in Seq(A) : o = <<e>>
    <3>1. <<e>> \in Seq(A)
      OBVIOUS
    <3>2. QED
      BY <3>1
  <2>5. PICK a \in Seq(Seq(A)) : /\ a = Append(q, o) /\ Len(a) = Len(q) + 1
                                 /\ \A i \in 1 .. Len(q) : a[i] = q[i]
                                 /\ a[Len(q) + 1] = o
    <3>1. PICK a \in Seq(Seq(A)) : Grown(a, q, o)
      BY ONLY q \in Seq(Seq(A)), o \in Seq(A), AppendGrows
    <3>2. QED
      BY ONLY <3>1 DEF Grown
  <2>6. Len(t) \in Nat
    BY LenProperties
  <2>7. ASSUME NEW i \in 1 .. Len(t) + 1 PROVE a[i] = r[i]
    <3>1. CASE i = Len(t) + 1
      BY <2>1, <2>2, <2>3, <2>4, <2>5, <3>1
    <3>2. CASE i # Len(t) + 1
      <4>1. i \in 1 .. Len(t)
        BY <2>6, <3>2
      <4>2. QED
        BY <2>1, <2>2, <2>3, <2>5, <4>1
    <3>3. QED
      BY <3>1, <3>2
  <2>8. a = r
    <3>1. Len(a) = Len(t) + 1 /\ Len(a) = Len(r)
      BY <2>2, <2>3, <2>5
    <3>2. QED
      BY <2>7, <3>1, SeqEqual
  <2>9. FlattenSeq(a) = FlattenSeq(q) \o o
    BY <2>5, FlattenAppend
  <2>10. t \o o = l
    BY <2>1, <2>4, AppendIsConcat
  <2>11. QED
    BY <1>2, <2>1, <2>2, <2>3, <2>8, <2>9, <2>10
<1>3. \A t \in Seq(A) : t \in T
  <2>. HIDE DEF P
  <2>1. <<>> \in T
    BY <1>1, EmptySeq
  <2>2. \A t \in Seq(A) : \A e \in A : t \in T => Append(t, e) \in T
    BY <1>2, AppendProperties
  <2>. HIDE DEF T
  <2>3. QED
    BY <2>1, <2>2, SeqInduction, Zenon
<1>4. QED
  BY <1>3

(* Without a quote among them, all files are linked.                       *)
LEMMA LinkedType ==
  ASSUME NEW files \in Seq(Attachments)
  PROVE  /\ Linked(files) \in Seq(Attachments)
         /\ (\A i \in DOMAIN files : files[i][1] # "quote") => Linked(files) = files
<1>. DEFINE q == [i \in DOMAIN files |->
                   IF Kind(files[i]) = "quote" THEN <<>> ELSE <<files[i]>>]
<1>1. /\ Len(files) \in Nat /\ DOMAIN files = 1 .. Len(files)
      /\ \A i \in 1 .. Len(files) : files[i] \in Attachments
  BY LenProperties, ElementOfSeq
<1>2. \A i \in 1 .. Len(files) :
        (IF Kind(files[i]) = "quote" THEN <<>> ELSE <<files[i]>>) \in Seq(Attachments)
  <2>1. ASSUME NEW i \in 1 .. Len(files) PROVE <<files[i]>> \in Seq(Attachments)
    BY <1>1
  <2>2. <<>> \in Seq(Attachments)
    BY EmptySeq
  <2>3. QED
    BY <2>1, <2>2
<1>3. q \in Seq(Seq(Attachments))
  BY <1>1, <1>2
<1>4. Linked(files) = FlattenSeq(q)
  BY DEF Linked
<1>5. (\A i \in DOMAIN files : files[i][1] # "quote") => q = Singles(files)
  BY DEF Kind, Singles
<1>. HIDE DEF q
<1>6. QED
  BY <1>3, <1>4, <1>5, FlattenType, FlattenSingles

MediaList(caption, files) ==
  [i \in DOMAIN files |-> Media(IF i = 1 THEN caption ELSE <<>>, files[i])]

(* One media after the other, the first with the caption.                  *)
LEMMA MediaListIsContent ==
  ASSUME NEW caption \in Texts, NEW files \in Seq(Attachments)
  PROVE  /\ MediaList(caption, files) \in Seq(ToPost)
         /\ Len(MediaList(caption, files)) = Len(files)
         /\ \A i \in 1 .. Len(files) : PiecesOf(MediaList(caption, files)[i]) # <<>>
         /\ files # <<>> =>
              FlattenSeq(PieceLists(MediaList(caption, files))) = Content(caption, files)
<1>1. /\ Len(files) \in Nat /\ DOMAIN files = 1 .. Len(files)
      /\ \A i \in 1 .. Len(files) : files[i] \in Attachments
  BY LenProperties, ElementOfSeq
<1>2. <<>> \in Texts
  BY EmptySeq DEF Texts
<1>. DEFINE m == MediaList(caption, files)
            text(i) == IF i = 1 THEN caption ELSE <<>>
<1>3. ASSUME NEW i \in 1 .. Len(files)
      PROVE  text(i) \in Texts /\ <<files[i]>> \in Seq(Attachments) /\ <<files[i]>> # <<>>
  BY <1>1, <1>2
<1>4. m = [i \in 1 .. Len(files) |-> Media(text(i), files[i])]
  BY <1>1 DEF MediaList
<1>. HIDE DEF m, text
<1>5. \A i \in 1 .. Len(files) : Media(text(i), files[i]) \in ToPost
  BY <1>3 DEF Media, ToPost
<1>6. m \in Seq(ToPost) /\ Len(m) = Len(files)
  BY <1>1, <1>4, <1>5
<1>7. \A i \in 1 .. Len(files) : PiecesOf(m[i]) = Content(text(i), <<files[i]>>)
  BY <1>4 DEF PiecesOf, Media
<1>8. \A i \in 1 .. Len(files) : PiecesOf(m[i]) # <<>>
  BY <1>3, <1>7, ContentType
<1>9. ASSUME files # <<>>
      PROVE  FlattenSeq(PieceLists(m)) = Content(caption, files)
  <2>1. ArePosts(ToPost)
    BY DEF ArePosts, ToPost
  <2>2. PICK q \in Seq(Seq(Ps)) : /\ q = PieceLists(m) /\ Len(q) = Len(files)
                                  /\ \A i \in 1 .. Len(files) : q[i] = PiecesOf(m[i])
    BY <1>6, <2>1, PieceListsType
  <2>3. PICK f \in Seq(Ps) : /\ f = Files(files) /\ Len(f) = Len(files)
                             /\ \A i \in 1 .. Len(files) : f[i] = <<"file", files[i][2]>>
    BY FilesType
  <2>4. PICK s \in Seq(Seq(Ps)) : /\ s = Singles(f) /\ Len(s) = Len(files)
                                  /\ \A i \in 1 .. Len(files) : s[i] = <<f[i]>>
    BY <2>3, SinglesType
  <2>5. ASSUME NEW i \in 1 .. Len(files)
        PROVE  Files(<<files[i]>>) = s[i]
    <3>1. DOMAIN <<files[i]>> = 1 .. 1 /\ <<files[i]>>[1] = files[i]
      OBVIOUS
    <3>2. Files(<<files[i]>>) = [j \in 1 .. 1 |-> <<"file", files[i][2]>>]
      BY <3>1 DEF Files
    <3>3. [j \in 1 .. 1 |-> <<"file", files[i][2]>>] = <<<<"file", files[i][2]>>>>
      OBVIOUS
    <3>4. QED
      BY <2>3, <2>4, <3>2, <3>3
  <2>6. 1 \in 1 .. Len(files) /\ Len(files) # 0
    BY <1>1, <1>9, EmptySeq
  <2>7. q # <<>> /\ s # <<>> /\ Head(q) = q[1] /\ Head(s) = s[1]
    BY <2>2, <2>4, <2>6
  <2>8. Head(q) = Chars(caption) \o Head(s)
    <3>1. q[1] = Content(text(1), <<files[1]>>)
      BY <1>7, <2>2, <2>6
    <3>2. text(1) = caption
      BY DEF text
    <3>3. QED
      BY <2>5, <2>6, <2>7, <3>1, <3>2 DEF Content
  <2>9. Tail(q) = Tail(s)
    <3>1. PICK t \in Seq(Seq(Ps)) : /\ t = Tail(q) /\ Len(t) = Len(files) - 1
                                    /\ \A i \in 1 .. Len(t) : t[i] = q[i + 1]
      <4>1. /\ Tail(q) \in Seq(Seq(Ps)) /\ Len(Tail(q)) = Len(q) - 1
            /\ \A i \in 1 .. Len(Tail(q)) : Tail(q)[i] = q[i + 1]
        BY <2>7, HeadTailProperties
      <4>2. QED
        BY <2>2, <4>1
    <3>2. PICK u \in Seq(Seq(Ps)) : /\ u = Tail(s) /\ Len(u) = Len(files) - 1
                                    /\ \A i \in 1 .. Len(u) : u[i] = s[i + 1]
      <4>1. /\ Tail(s) \in Seq(Seq(Ps)) /\ Len(Tail(s)) = Len(s) - 1
            /\ \A i \in 1 .. Len(Tail(s)) : Tail(s)[i] = s[i + 1]
        BY <2>7, HeadTailProperties
      <4>2. QED
        BY <2>4, <4>1
    <3>3. ASSUME NEW i \in 1 .. Len(t) PROVE t[i] = u[i]
      <4>0. /\ Len(files) \in Nat /\ i \in 1 .. Len(t)
            /\ Len(t) = Len(files) - 1 /\ Len(u) = Len(files) - 1
        BY <1>1, <3>1, <3>2
      <4>1. i + 1 \in 1 .. Len(files) /\ i + 1 # 1 /\ i \in 1 .. Len(u)
        BY ONLY <4>0
      <4>2. q[i + 1] = Content(text(i + 1), <<files[i + 1]>>)
        BY <1>7, <2>2, <4>1
      <4>3. text(i + 1) = <<>>
        BY <4>1 DEF text
      <4>4. Content(<<>>, <<files[i + 1]>>) = Files(<<files[i + 1]>>)
        BY <1>2, <1>3, <4>1, ContentType
      <4>5. QED
        BY <2>5, <3>1, <3>2, <4>1, <4>2, <4>3, <4>4
    <3>4. t = u
      BY <3>1, <3>2, <3>3, SeqEqual
    <3>5. QED
      BY <3>1, <3>2, <3>4
  <2>10. FlattenSeq(q) = Head(q) \o FlattenSeq(Tail(q))
    BY <2>7, FlattenHead
  <2>11. f = Head(s) \o FlattenSeq(Tail(s))
    BY <2>3, <2>4, <2>7, FlattenHead, FlattenSingles
  <2>12. Head(s) \in Seq(Ps) /\ FlattenSeq(Tail(s)) \in Seq(Ps)
    BY <2>7, HeadTailProperties, FlattenType
  <2>13. FlattenSeq(q) = Chars(caption) \o f
    <3>1. Chars(caption) \in Seq(Ps)
      BY CharsType
    <3>2. (Chars(caption) \o Head(s)) \o FlattenSeq(Tail(s))
            = Chars(caption) \o (Head(s) \o FlattenSeq(Tail(s)))
      <4>1. PICK c \in Seq(Ps), h \in Seq(Ps), t \in Seq(Ps) :
              c = Chars(caption) /\ h = Head(s) /\ t = FlattenSeq(Tail(s))
        BY <2>12, <3>1
      <4>2. (c \o h) \o t = c \o (h \o t)
        <5>1. Regroups(c, h, t)
          BY ONLY c \in Seq(Ps), h \in Seq(Ps), t \in Seq(Ps), Regroup
        <5>2. QED
          BY ONLY <5>1 DEF Regroups
      <4>3. QED
        BY <4>1, <4>2
    <3>3. QED
      BY <2>8, <2>9, <2>10, <2>11, <3>2
  <2>14. QED
    BY <2>2, <2>3, <2>13 DEF Content
<1>10. QED
  BY <1>6, <1>8, <1>9 DEF m

-----------------------------------------------------------------------------
(* The posts of a message hold its content.                                *)

LEMMA OnePost ==
  ASSUME NEW post \in ToPost
  PROVE  /\ <<post>> \in Seq(ToPost) /\ <<post>> # <<>> /\ Len(<<post>>) = 1
         /\ FlattenSeq(PieceLists(<<post>>)) = PiecesOf(post)
<1>1. <<post>> \in Seq(ToPost) /\ <<post>> # <<>> /\ Len(<<post>>) = 1
  OBVIOUS
<1>2. PieceLists(<<post>>) = <<PiecesOf(post)>>
  <2>1. DOMAIN <<post>> = 1 .. 1 /\ <<post>>[1] = post
    OBVIOUS
  <2>2. PieceLists(<<post>>) = [i \in 1 .. 1 |-> PiecesOf(post)]
    BY <2>1 DEF PieceLists
  <2>3. [i \in 1 .. 1 |-> PiecesOf(post)] = <<PiecesOf(post)>>
    OBVIOUS
  <2>4. QED
    BY <2>2, <2>3
<1>3. PiecesOf(post) \in Seq(Ps)
  BY ContentType DEF ToPost, PiecesOf
<1>4. QED
  BY <1>1, <1>2, <1>3, FlattenOne

TextList(texts) == [i \in DOMAIN texts |-> Text(texts[i])]

LEMMA TextListIsJoined ==
  ASSUME NEW texts \in Seq(Texts)
  PROVE  /\ TextList(texts) \in Seq(ToPost) /\ Len(TextList(texts)) = Len(texts)
         /\ \A i \in 1 .. Len(texts) : PiecesOf(TextList(texts)[i]) = Chars(texts[i])
         /\ FlattenSeq(PieceLists(TextList(texts))) = Joined(texts)
<1>1. /\ Len(texts) \in Nat /\ DOMAIN texts = 1 .. Len(texts)
      /\ \A i \in 1 .. Len(texts) : texts[i] \in Texts
  BY LenProperties, ElementOfSeq
<1>2. <<>> \in Seq(Attachments)
  BY EmptySeq
<1>3. \A i \in 1 .. Len(texts) : Text(texts[i]) \in ToPost
  BY <1>1, <1>2 DEF Text, ToPost
<1>4. TextList(texts) = [i \in 1 .. Len(texts) |-> Text(texts[i])]
  BY <1>1 DEF TextList
<1>5. TextList(texts) \in Seq(ToPost) /\ Len(TextList(texts)) = Len(texts)
  BY <1>1, <1>3, <1>4
<1>6. \A i \in 1 .. Len(texts) : PiecesOf(TextList(texts)[i]) = Chars(texts[i])
  <2>1. \A i \in 1 .. Len(texts) : PiecesOf(TextList(texts)[i]) = Content(texts[i], <<>>)
    BY <1>4 DEF PiecesOf, Text
  <2>2. QED
    BY <1>1, <1>2, <2>1, ContentType
<1>7. PieceLists(TextList(texts)) = CharLists(texts)
  <2>1. PieceLists(TextList(texts)) = [i \in 1 .. Len(texts) |-> PiecesOf(TextList(texts)[i])]
    BY <1>4 DEF PieceLists
  <2>2. QED
    BY <1>1, <1>6, <2>1 DEF CharLists
<1>8. QED
  BY <1>5, <1>6, <1>7 DEF Joined

\* the posts hold the content: each holds some of it, or there is one post
Hold(list, content) ==
  /\ list \in Seq(ToPost) /\ list # <<>>
  /\ FlattenSeq(PieceLists(list)) = content
  /\ (\A i \in 1 .. Len(list) : PiecesOf(list[i]) # <<>>) \/ Len(list) = 1

LEMMA OnePostHolds ==
  ASSUME NEW text \in Texts, NEW files \in Seq(Attachments)
  PROVE  /\ Hold(<<[text |-> text, files |-> files]>>, Content(text, files))
         /\ Len(<<[text |-> text, files |-> files]>>) = 1
<1>1. [text |-> text, files |-> files] \in ToPost
  BY DEF ToPost
<1>2. PiecesOf([text |-> text, files |-> files]) = Content(text, files)
  BY DEF PiecesOf
<1>3. QED
  BY <1>1, <1>2, OnePost DEF Hold

LEMMA MediaHold ==
  ASSUME NEW caption \in Texts, NEW files \in Seq(Attachments), files # <<>>
  PROVE  Hold(MediaList(caption, files), Content(caption, files))
<1>1. Len(files) # 0
  BY EmptySeq
<1>2. Len(MediaList(caption, files)) # 0
  BY <1>1, MediaListIsContent
<1>3. MediaList(caption, files) # <<>>
  BY <1>2
<1>4. QED
  BY <1>3, MediaListIsContent DEF Hold

(* Rocket.Chat, and WhatsApp.                                              *)
LEMMA RocketPostsHold ==
  ASSUME NEW m, m.text \in Texts, m.files \in Seq(Attachments)
  PROVE  /\ Hold(RocketPosts(m), Content(m.text, m.files))
         /\ m.files = <<>> => Len(RocketPosts(m)) = 1
<1>1. CASE m.files = <<>>
  BY <1>1, OnePostHolds DEF RocketPosts, Text
<1>2. CASE m.files # <<>>
  <2>1. RocketPosts(m) = MediaList(m.text, m.files)
    BY <1>2 DEF RocketPosts, MediaList, CaptionOf
  <2>2. QED
    BY <1>2, <2>1, MediaHold
<1>3. QED
  BY <1>1, <1>2

LEMMA WhatsappPostsHold ==
  ASSUME NEW m, m.text \in Texts, m.files \in Seq(Attachments)
  PROVE  Hold(WhatsappPosts(m),
              IF m.files # <<>> /\ Kind(m.files[1]) = "audio"
              THEN Files(m.files) ELSE Content(m.text, m.files))
<1>1. CASE m.files = <<>>
  BY <1>1, OnePostHolds DEF WhatsappPosts, Text
<1>2. CASE m.files # <<>>
  <2>. DEFINE caption == IF Kind(m.files[1]) = "audio" THEN <<>> ELSE m.text
  <2>1. WhatsappPosts(m)
          = [i \in DOMAIN m.files |-> Media(IF i = 1 THEN caption ELSE <<>>, m.files[i])]
    <3>1. \A i : (IF Kind(m.files[i]) = "audio" THEN <<>> ELSE CaptionOf(m, i))
                   = IF i = 1 THEN caption ELSE <<>>
      BY DEF CaptionOf
    <3>2. QED
      BY <1>2, <3>1 DEF WhatsappPosts
  <2>2. caption \in Texts
    BY EmptySeq DEF Texts
  <2>3. Content(caption, m.files)
          = IF Kind(m.files[1]) = "audio" THEN Files(m.files) ELSE Content(m.text, m.files)
    BY <2>2, ContentType
  <2>. HIDE DEF caption
  <2>4. Hold(MediaList(caption, m.files), Content(caption, m.files))
    BY <1>2, <2>2, MediaHold
  <2>5. QED
    BY <1>2, <2>1, <2>3, <2>4 DEF MediaList
<1>3. QED
  BY <1>1, <1>2

(* WhatsApp Cloud: the chunks of the text, then the media.                 *)
LEMMA CloudPostsHold ==
  ASSUME NEW m, m.text \in Texts, m.files \in Seq(Attachments),
         m.files # <<>> \/ TrimSpace(m.text) # <<>>
  PROVE  Hold(CloudPosts(m), Content(m.text, m.files))
<1>. DEFINE texts == IF Captioned(m) THEN <<>> ELSE SplitText(m.text)
            caption == IF Captioned(m) THEN m.text ELSE <<>>
<1>1. CloudPosts(m) = TextList(texts) \o MediaList(caption, m.files)
  <2>1. [i \in DOMAIN m.files |->
           Media(IF i = 1 /\ Captioned(m) THEN m.text ELSE <<>>, m.files[i])]
          = MediaList(caption, m.files)
    <3>1. \A i : (IF i = 1 /\ Captioned(m) THEN m.text ELSE <<>>)
                   = IF i = 1 THEN caption ELSE <<>>
      OBVIOUS
    <3>. HIDE DEF caption
    <3>2. QED
      BY <3>1 DEF MediaList
  <2>2. QED
    BY <2>1 DEF CloudPosts, TextList
<1>2. /\ texts \in Seq(Texts) /\ caption \in Texts
      /\ Content(m.text, m.files) = Joined(texts) \o Content(caption, m.files)
      /\ \A k \in 1 .. Len(texts) : Chars(texts[k]) # <<>>
  <2>1. CASE Captioned(m)
    <3>1. Content(m.text, m.files) \in Seq(Ps)
      BY ContentType
    <3>2. <<>> \o Content(m.text, m.files) = Content(m.text, m.files)
      BY <3>1, ConcatEmptySeq
    <3>3. texts = <<>> /\ caption = m.text
      BY <2>1
    <3>. HIDE DEF texts, caption
    <3>4. \A k \in 1 .. Len(texts) : Chars(texts[k]) # <<>>
      BY <3>3, EmptySeq
    <3>5. Joined(texts) = <<>> /\ texts \in Seq(Texts) /\ caption \in Texts
      BY <3>3, JoinedNone
    <3>6. QED
      BY <3>2, <3>3, <3>4, <3>5
  <2>2. CASE ~Captioned(m)
    <3>1. texts = SplitText(m.text) /\ caption = <<>>
      BY <2>2
    <3>2. <<>> \in Texts /\ Content(<<>>, m.files) = Files(m.files)
      <4>1. <<>> \in Texts
        BY EmptySeq DEF Texts
      <4>2. QED
        BY <4>1, ContentType
    <3>. HIDE DEF texts, caption
    <3>3. QED
      BY <3>1, <3>2, SplitTextIsWhole DEF Content
  <2>3. QED
    BY <2>1, <2>2
<1>3. texts = <<>> => m.files # <<>>
  <2>1. ASSUME m.files = <<>> PROVE texts # <<>>
    <3>1. ~Captioned(m) /\ texts = SplitText(m.text)
      BY <2>1 DEF Captioned
    <3>2. Chars(m.text) # <<>>
      BY <2>1, TrimSpaceKeeps
    <3>3. Joined(texts) # <<>>
      BY <3>1, <3>2, SplitTextIsWhole
    <3>4. QED
      BY <3>3, JoinedNone
  <2>2. QED
    BY <2>1
<1>. HIDE DEF texts, caption
<1>4. PICK l \in Seq(ToPost) :
        /\ l = TextList(texts) /\ Len(l) = Len(texts)
        /\ \A i \in 1 .. Len(texts) : PiecesOf(l[i]) = Chars(texts[i])
        /\ FlattenSeq(PieceLists(l)) = Joined(texts)
  BY <1>2, TextListIsJoined
<1>5. PICK n \in Seq(ToPost) :
        /\ n = MediaList(caption, m.files) /\ Len(n) = Len(m.files)
        /\ \A i \in 1 .. Len(m.files) : PiecesOf(n[i]) # <<>>
        /\ FlattenSeq(PieceLists(n)) = Content(caption, m.files)
  <2>1. CASE m.files # <<>>
    BY <1>2, <2>1, MediaListIsContent
  <2>2. CASE m.files = <<>>
    <3>1. MediaList(caption, <<>>) = <<>> /\ PieceLists(<<>>) = <<>>
      BY DEF MediaList, PieceLists
    <3>2. Content(caption, <<>>) = <<>>
      <4>1. caption = <<>>
        BY <2>2 DEF caption, Captioned
      <4>2. <<>> \in Texts /\ Len(<<>>) = 0
        BY EmptySeq DEF Texts
      <4>3. Chars(<<>>) = <<>>
        BY <4>2, CharsOfBlank
      <4>4. Content(<<>>, <<>>) = Chars(<<>>)
        BY <4>2, ContentType
      <4>5. QED
        BY <4>1, <4>3, <4>4
    <3>3. FlattenSeq(PieceLists(MediaList(caption, m.files))) = Content(caption, m.files)
      BY <2>2, <3>1, <3>2, FlattenEmpty
    <3>4. QED
      BY <1>2, <3>3, MediaListIsContent
  <2>3. QED
    BY <2>1, <2>2
<1>6. PICK c \in Seq(ToPost) :
        /\ c = l \o n /\ Len(c) = Len(l) + Len(n)
        /\ \A i \in 1 .. Len(l) + Len(n) : c[i] = IF i <= Len(l) THEN l[i] ELSE n[i - Len(l)]
        /\ FlattenSeq(PieceLists(c)) = Content(m.text, m.files)
  <2>1. /\ l \o n \in Seq(ToPost) /\ Len(l \o n) = Len(l) + Len(n)
        /\ \A i \in 1 .. Len(l) + Len(n) :
             (l \o n)[i] = IF i <= Len(l) THEN l[i] ELSE n[i - Len(l)]
    BY ConcatProperties
  <2>2. FlattenSeq(PieceLists(l \o n)) = Content(m.text, m.files)
    <3>1. FlattenSeq(PieceLists(l \o n))
            = FlattenSeq(PieceLists(l)) \o FlattenSeq(PieceLists(n))
      BY ONLY l \in Seq(ToPost), n \in Seq(ToPost), PieceListsConcat
    <3>2. QED
      BY <1>2, <1>4, <1>5, <3>1
  <2>3. QED
    BY <2>1, <2>2
<1>7. Len(l) \in Nat /\ Len(n) \in Nat
  BY LenProperties
<1>8. c # <<>>
  <2>1. Len(l) # 0 \/ Len(n) # 0
    <3>1. texts # <<>> \/ m.files # <<>>
      BY <1>3
    <3>2. Len(texts) # 0 \/ Len(m.files) # 0
      BY <1>2, <3>1, EmptySeq
    <3>3. QED
      BY <1>4, <1>5, <3>2
  <2>2. Len(c) # 0
    BY <1>6, <1>7, <2>1
  <2>3. QED
    BY <2>2
<1>9. ASSUME NEW i \in 1 .. Len(c) PROVE PiecesOf(c[i]) # <<>>
  <2>1. CASE i <= Len(l)
    <3>1. i \in 1 .. Len(texts)
      BY <1>4, <1>7, <2>1
    <3>2. QED
      BY <1>2, <1>4, <1>6, <2>1, <3>1
  <2>2. CASE ~(i <= Len(l))
    <3>1. i - Len(l) \in 1 .. Len(m.files)
      BY <1>5, <1>6, <1>7, <2>2
    <3>2. QED
      BY <1>5, <1>6, <2>2, <3>1
  <2>3. QED
    BY <2>1, <2>2
<1>10. QED
  BY <1>1, <1>4, <1>5, <1>6, <1>8, <1>9 DEF Hold

(* A message that is not refused becomes posts that hold what is promised, *)
(* one post where all posts refer to the message answered.                 *)
LEMMA PostsHold ==
  ASSUME message.text \in Texts, message.files \in Seq(Attachments), ~Refused(message)
  PROVE  /\ Hold(Posts(message),
                 IF CaptionLost THEN Files(message.files)
                 ELSE Content(message.text, message.files))
         /\ \/ platform \in {"discord", "mail"}
            \/ platform = "rocket" /\ message.files = <<>>
            => Len(Posts(message)) = 1
<1>1. CASE platform = "whatsappcloud"
  <2>1. message.files # <<>> \/ TrimSpace(message.text) # <<>>
    BY <1>1 DEF Refused
  <2>2. Posts(message) = CloudPosts(message) /\ ~CaptionLost
    BY <1>1 DEF Posts, CaptionLost
  <2>3. QED
    BY <1>1, <2>1, <2>2, CloudPostsHold
<1>2. CASE platform = "whatsapp"
  <2>1. Posts(message) = WhatsappPosts(message)
    BY <1>2 DEF Posts
  <2>2. CaptionLost <=> message.files # <<>> /\ Kind(message.files[1]) = "audio"
    BY <1>2 DEF CaptionLost
  <2>3. QED
    BY <1>2, <2>1, <2>2, WhatsappPostsHold
<1>3. CASE platform = "rocket"
  <2>1. Posts(message) = RocketPosts(message) /\ ~CaptionLost
    BY <1>3 DEF Posts, CaptionLost
  <2>2. QED
    BY <1>3, <2>1, RocketPostsHold
<1>4. CASE platform \notin {"whatsappcloud", "whatsapp", "rocket"}
  <2>1. Posts(message) = SinglePost(message) /\ ~CaptionLost
    BY <1>4 DEF Posts, CaptionLost
  <2>2. QED
    BY <1>4, <2>1, OnePostHolds DEF SinglePost
<1>5. QED
  BY <1>1, <1>2, <1>3, <1>4

-----------------------------------------------------------------------------
(* The invariant of one Send.                                              *)

\* a message is what it stands for; a dropped one stands for nothing
Meant ==
  /\ platform \in Platforms /\ conversation \in ConversationsOf(platform)
  /\ inReplyTo \in BOOLEAN
  /\ message.text \in Texts /\ message.files \in Seq(Attachments)
  /\ step = "dropped" => message.files = <<>> /\ wanted = <<>>
  /\ step # "dropped" => wanted = Content(message.text, message.files)

PostSet ==
  [text : Texts, files : Seq(Attachments), to : ConversationsOf(platform), quotes : BOOLEAN]

\* all posts of such a Send refer to the message answered
QuotesAlways ==
  platform \in {"discord", "mail"} \/ (platform = "rocket" /\ message.files = <<>>)

\* what was posted and what is left to post are the content, and what is left
\* shows something, unless it is the one post of an empty content
Rest ==
  /\ todo \in Seq(ToPost) /\ (posts # <<>> \/ todo # <<>>)
  /\ FlattenSeq(PieceLists(posts)) \o FlattenSeq(PieceLists(todo)) = Promised
  /\ \/ \A i \in 1 .. Len(todo) : PiecesOf(todo[i]) # <<>>
     \/ posts = <<>> /\ Len(todo) = 1
  /\ QuotesAlways => todo = <<>> \/ (posts = <<>> /\ Len(todo) = 1)
  /\ first = IF posts = <<>> THEN 0 ELSE 1

SendInv ==
  /\ Meant
  /\ posts \in Seq(PostSet)
  /\ step \in {"begin", "dropped"} =>
       posts = <<>> /\ todo = <<>> /\ first = 0 /\ result = 0
  /\ step = "posting" => Rest

(* A received message stands for its text, the caption of its files and    *)
(* the files, whatever the provider makes of it; what it forgets is empty. *)
LEMMA ReceivedIsMeant ==
  ASSUME platform \in Platforms, NEW r \in Received[platform]
  PROVE  /\ MessageOf(r).text \in Texts /\ MessageOf(r).files \in Seq(Attachments)
         /\ MessageOf(r).forwarded \in BOOLEAN
         /\ MessageOf(r).forwarded =>
              Content(r.text \o r.caption, Linked(r.files))
                = Content(MessageOf(r).text, MessageOf(r).files)
         /\ ~MessageOf(r).forwarded =>
              /\ MessageOf(r).files = <<>>
              /\ Content(r.text \o r.caption, Linked(r.files)) = <<>>
<1>1. /\ r.text \in Texts /\ r.caption \in Texts /\ r.files \in Seq(Attachments)
      /\ r.caption # <<>> =>
           platform \in {"whatsappcloud", "whatsapp"} /\ r.text = <<>> /\ r.files # <<>>
      /\ platform # "rocket" => Linked(r.files) = r.files
      /\ Linked(r.files) \in Seq(Attachments)
  BY SendingAssumption, LinkedType
<1>2. <<>> \in Texts /\ <<>> \in Seq(Attachments)
  BY EmptySeq DEF Texts
<1>3. /\ r.caption = <<>> => r.text \o r.caption = r.text
      /\ r.text = <<>> => r.text \o r.caption = r.caption
  BY <1>1, ConcatEmptySeq DEF Texts
<1>4. Content(<<>>, <<>>) = <<>>
  <2>1. Content(<<>>, <<>>) = Chars(<<>>)
    BY <1>2, ContentType
  <2>2. QED
    BY <1>2, <2>1, CharsOfBlank, EmptySeq
<1>. DEFINE text == IF r.text = <<>> THEN r.caption ELSE r.text
<1>5. r.text \o r.caption = text /\ text \in Texts
  BY <1>1, <1>3
<1>6. CASE r.text = <<>> /\ r.files = <<>> /\ platform \notin {"rocket"}
  <2>1. r.caption = <<>> /\ Linked(r.files) = <<>>
    BY <1>1, <1>6
  <2>2. Content(r.text \o r.caption, Linked(r.files)) = <<>>
    BY <1>3, <1>4, <1>6, <2>1
  <2>3. \/ MessageOf(r) = Forgotten
        \/ MessageOf(r) = Forward(<<>>, <<>>)
    BY <1>6 DEF MessageOf, CloudMessage, WhatsappMessage, DiscordMessage, SignalMessage, MailMessage
  <2>4. MessageOf(r).text = <<>> /\ MessageOf(r).files = <<>> /\ MessageOf(r).forwarded \in BOOLEAN
    <3>1. CASE MessageOf(r) = Forgotten
      BY <3>1 DEF Forgotten
    <3>2. CASE MessageOf(r) = Forward(<<>>, <<>>)
      BY <3>2 DEF Forward
    <3>3. QED
      BY <2>3, <3>1, <3>2
  <2>5. QED
    BY <1>2, <1>4, <2>2, <2>4
<1>7. CASE platform = "rocket"
  <2>1. MessageOf(r) = Forward(r.text, Linked(r.files))
    BY <1>7 DEF MessageOf, RocketMessage
  <2>2. r.text \o r.caption = r.text
    BY <1>1, <1>3, <1>7
  <2>3. QED
    BY <1>1, <2>1, <2>2 DEF Forward
<1>8. CASE platform # "rocket" /\ (r.text # <<>> \/ r.files # <<>>)
  <2>1. /\ MessageOf(r).forwarded = TRUE
        /\ MessageOf(r).text = text /\ MessageOf(r).files = r.files
    <3>1. CASE platform = "whatsappcloud"
      BY <1>8, <3>1 DEF MessageOf, CloudMessage, Forward
    <3>2. CASE platform = "whatsapp"
      BY <1>1, <1>8, <3>2 DEF MessageOf, WhatsappMessage, Forward
    <3>3. CASE platform \notin {"whatsappcloud", "whatsapp"}
      <4>1. text = r.text
        BY <1>1, <3>3
      <4>2. QED
        BY <1>8, <3>3, <4>1
        DEF MessageOf, DiscordMessage, SignalMessage, MailMessage, Forward
    <3>4. QED
      BY <3>1, <3>2, <3>3
  <2>2. QED
    BY <1>1, <1>5, <1>8, <2>1
<1>9. QED
  BY <1>6, <1>7, <1>8

LEMMA SendInit == Init => SendInv
<1>. SUFFICES ASSUME Init PROVE SendInv
  OBVIOUS
<1>1. /\ platform \in Platforms /\ conversation \in ConversationsOf(platform)
      /\ inReplyTo \in BOOLEAN
      /\ todo = <<>> /\ posts = <<>> /\ first = 0 /\ result = 0
  BY DEF Init
<1>2. Meant /\ step \in {"begin", "dropped"}
  <2>1. ASSUME NEW m \in Messages[platform], message = m, step = "begin",
               wanted = Content(m.text, m.files)
        PROVE  Meant /\ step \in {"begin", "dropped"}
    BY <1>1, <2>1, SendingAssumption DEF Meant
  <2>2. ASSUME NEW r \in Received[platform], message = MessageOf(r),
               step = IF message.forwarded THEN "begin" ELSE "dropped",
               wanted = Content(r.text \o r.caption, Linked(r.files))
        PROVE  Meant /\ step \in {"begin", "dropped"}
    <3>1. /\ message.text \in Texts /\ message.files \in Seq(Attachments)
          /\ message.forwarded \in BOOLEAN
          /\ message.forwarded => wanted = Content(message.text, message.files)
          /\ ~message.forwarded => message.files = <<>> /\ wanted = <<>>
      BY <1>1, <2>2, ReceivedIsMeant
    <3>2. CASE message.forwarded
      <4>1. step = "begin"
        BY <2>2, <3>2
      <4>2. QED
        BY <1>1, <3>1, <3>2, <4>1 DEF Meant
    <3>3. CASE ~message.forwarded
      <4>1. step = "dropped"
        BY <2>2, <3>3
      <4>2. QED
        BY <1>1, <3>1, <3>3, <4>1 DEF Meant
    <3>4. QED
      BY <3>2, <3>3
  <2>3. QED
    BY <2>1, <2>2 DEF Init
<1>3. posts \in Seq(PostSet)
  BY <1>1, EmptySeq
<1>4. QED
  BY <1>1, <1>2, <1>3 DEF SendInv

LEMMA PutBefore ==
  ASSUME NEW S, NEW e \in S, NEW id \in Seq(S)
  PROVE  (<<e>> \o id)[1] = e /\ Tail(<<e>> \o id) = id
<1>1. PICK o \in Seq(S) : o = <<e>> /\ Len(o) = 1 /\ o[1] = e
  <2>1. <<e>> \in Seq(S) /\ Len(<<e>>) = 1 /\ <<e>>[1] = e
    OBVIOUS
  <2>2. QED
    BY <2>1
<1>2. Len(id) \in Nat
  BY LenProperties
<1>3. PICK c \in Seq(S) :
        /\ c = o \o id /\ Len(c) = Len(o) + Len(id)
        /\ \A i \in 1 .. Len(o) + Len(id) : c[i] = IF i <= Len(o) THEN o[i] ELSE id[i - Len(o)]
  <2>1. /\ o \o id \in Seq(S) /\ Len(o \o id) = Len(o) + Len(id)
        /\ \A i \in 1 .. Len(o) + Len(id) :
             (o \o id)[i] = IF i <= Len(o) THEN o[i] ELSE id[i - Len(o)]
    BY ConcatProperties
  <2>2. QED
    BY <2>1
<1>4. c[1] = e
  BY <1>1, <1>2, <1>3
<1>5. c # <<>>
  BY <1>1, <1>2, <1>3, EmptySeq
<1>6. PICK t \in Seq(S) : /\ t = Tail(c) /\ Len(t) = Len(c) - 1
                          /\ \A i \in 1 .. Len(t) : t[i] = c[i + 1]
  <2>1. /\ Tail(c) \in Seq(S) /\ Len(Tail(c)) = Len(c) - 1
        /\ \A i \in 1 .. Len(Tail(c)) : Tail(c)[i] = c[i + 1]
    BY <1>5, HeadTailProperties
  <2>2. QED
    BY <2>1
<1>7. t = id
  <2>1. Len(t) = Len(id)
    BY <1>1, <1>2, <1>3, <1>6
  <2>2. ASSUME NEW i \in 1 .. Len(id) PROVE t[i] = id[i]
    <3>1. i + 1 \in 1 .. Len(o) + Len(id) /\ ~(i + 1 <= Len(o)) /\ (i + 1) - Len(o) = i
      BY <1>1, <1>2
    <3>2. QED
      BY <1>3, <1>6, <2>1, <3>1
  <2>3. QED
    BY <2>1, <2>2, SeqEqual
<1>8. QED
  BY <1>1, <1>3, <1>4, <1>6, <1>7

(* The channel a message came from leads back to its conversation.         *)
LEMMA RecipientIsConversation ==
  ASSUME conversation \in ConversationsOf(platform)
  PROVE  Recipient = conversation
<1>1. CASE conversation = [kind |-> "phone", id |-> <<"n">>]
  BY <1>1 DEF Recipient, ChannelOf, Addressed, AddressSendParams, HasGroupPrefix
<1>2. CASE platform \in {"whatsappcloud", "signal"}
           /\ conversation \in [kind : {"group"}, id : {<<"n">>, <<"n", ".", "x">>}]
  <2>1. /\ conversation = [kind |-> "group", id |-> conversation.id]
        /\ conversation.id \in {<<"n">>, <<"n", ".", "x">>}
        /\ conversation.kind = "group"
    BY <1>2
  <2>2. ChannelOf(conversation) = <<"group:">> \o conversation.id
    BY <2>1 DEF ChannelOf
  <2>3. /\ (<<"group:">> \o conversation.id)[1] = "group:"
        /\ Tail(<<"group:">> \o conversation.id) = conversation.id
    <3>. DEFINE tokens == {"group:", "n", ".", "x"}
    <3>1. <<"n">> \in Seq(tokens) /\ <<"n", ".", "x">> \in Seq(tokens)
      OBVIOUS
    <3>2. PICK id \in Seq(tokens) : id = conversation.id
      BY <2>1, <3>1
    <3>3. "group:" \in tokens
      OBVIOUS
    <3>4. (<<"group:">> \o id)[1] = "group:" /\ Tail(<<"group:">> \o id) = id
      BY <3>3, PutBefore
    <3>5. QED
      BY <3>2, <3>4
  <2>4. QED
    BY <1>2, <2>1, <2>2, <2>3 DEF Recipient, Addressed, AddressSendParams, HasGroupPrefix
<1>3. CASE platform = "whatsappcloud"
           /\ conversation = [kind |-> "user", id |-> <<"n", ".", "x">>]
  <2>1. ChannelOf(conversation) = <<"n", ".", "x">>
    BY <1>3 DEF ChannelOf
  <2>2. ~HasGroupPrefix(<<"n", ".", "x">>)
    BY DEF HasGroupPrefix
  <2>3. \E i \in DOMAIN <<"n", ".", "x">> : <<"n", ".", "x">>[i] = "."
    <3>1. 2 \in DOMAIN <<"n", ".", "x">> /\ <<"n", ".", "x">>[2] = "."
      OBVIOUS
    <3>2. QED
      BY <3>1
  <2>4. QED
    BY <1>3, <2>1, <2>2, <2>3 DEF Recipient, Addressed
<1>4. QED
  BY <1>1, <1>2, <1>3 DEF ConversationsOf

LEMMA PostsArePosts == ArePosts(PostSet) /\ ArePosts(ToPost)
BY DEF ArePosts, PostSet, ToPost

NextPost ==
  [text |-> Next1.text, files |-> Next1.files, to |-> Recipient, quotes |-> Quotes]

LEMMA PostedIs ==
  ASSUME SendInv, step = "posting", todo # <<>>
  PROVE  /\ NextPost \in PostSet /\ Posted = Append(posts, NextPost)
         /\ NextPost.to = conversation /\ NextPost.quotes = Quotes
         /\ PiecesOf(NextPost) = PiecesOf(Next1) /\ PiecesOf(Next1) \in Seq(Ps)
         /\ Quotes \in BOOLEAN
         /\ Quotes => (inReplyTo \/ platform = "mail") /\ posts = <<>>
         /\ Tail(todo) \in Seq(ToPost)
         /\ FlattenSeq(PieceLists(todo))
              = PiecesOf(Next1) \o FlattenSeq(PieceLists(Tail(todo)))
         /\ FlattenSeq(PieceLists(Tail(todo))) \in Seq(Ps)
         /\ PiecesOf(Next1) = <<>> => posts = <<>> /\ Tail(todo) = <<>>
<1>1. Meant /\ posts \in Seq(PostSet) /\ Rest
  BY DEF SendInv
<1>2. todo \in Seq(ToPost) /\ Len(todo) \in Nat \ {0}
  BY <1>1, EmptySeq DEF Rest
<1>3. /\ Next1 \in ToPost /\ Next1 = todo[1]
      /\ Tail(todo) \in Seq(ToPost) /\ Len(Tail(todo)) = Len(todo) - 1
  <2>1. Head(todo) = todo[1]
    BY <1>2
  <2>2. QED
    BY <1>2, <2>1, HeadTailProperties DEF Next1
<1>4. Recipient = conversation /\ conversation \in ConversationsOf(platform)
  BY <1>1, RecipientIsConversation DEF Meant
<1>5. /\ Quotes \in BOOLEAN
      /\ Quotes => (inReplyTo \/ platform = "mail") /\ posts = <<>>
  <2>1. CASE platform = "whatsappcloud"
    <3>1. Quotes = (inReplyTo /\ first = 0)
      BY <2>1 DEF Quotes
    <3>2. first = 0 => posts = <<>>
      BY <1>1 DEF Rest
    <3>3. QED
      BY <3>1, <3>2
  <2>2. CASE QuotesAlways
    <3>1. posts = <<>>
      BY <1>1, <2>2 DEF Rest
    <3>2. CASE platform = "discord"
      <4>1. Quotes = inReplyTo
        BY <3>2 DEF Quotes
      <4>2. QED
        BY <1>1, <3>1, <4>1 DEF Meant
    <3>3. CASE platform = "mail"
      <4>1. Quotes = TRUE
        BY <3>3 DEF Quotes
      <4>2. QED
        BY <3>1, <3>3, <4>1
    <3>4. CASE platform = "rocket"
      <4>1. Quotes = (inReplyTo /\ message.files = <<>>)
        BY <3>4 DEF Quotes
      <4>2. QED
        BY <3>1, <4>1
    <3>5. QED
      BY <2>2, <3>2, <3>3, <3>4 DEF QuotesAlways
  <2>3. CASE platform # "whatsappcloud" /\ ~QuotesAlways
    <3>1. Quotes = FALSE
      <4>1. CASE platform = "rocket"
        BY <2>3, <4>1 DEF Quotes, QuotesAlways
      <4>2. CASE platform # "rocket"
        BY <2>3, <4>2 DEF Quotes, QuotesAlways
      <4>3. QED
        BY <4>1, <4>2
    <3>2. QED
      BY <3>1
  <2>4. QED
    BY <2>1, <2>2, <2>3
<1>6. /\ NextPost \in PostSet /\ Posted = Append(posts, NextPost)
      /\ NextPost.to = conversation /\ NextPost.quotes = Quotes
      /\ NextPost.text = Next1.text /\ NextPost.files = Next1.files
  BY <1>3, <1>4, <1>5 DEF NextPost, PostSet, ToPost, Posted
<1>7. PiecesOf(NextPost) = PiecesOf(Next1)
  BY <1>6 DEF PiecesOf
<1>8. PiecesOf(Next1) \in Seq(Ps)
  BY <1>3, ContentType DEF ToPost, PiecesOf
<1>9. /\ FlattenSeq(PieceLists(todo)) = PiecesOf(Next1) \o FlattenSeq(PieceLists(Tail(todo)))
      /\ FlattenSeq(PieceLists(Tail(todo))) \in Seq(Ps)
  <2>1. /\ PieceLists(todo) # <<>> /\ Head(PieceLists(todo)) = PiecesOf(Next1)
        /\ Tail(PieceLists(todo)) = PieceLists(Tail(todo))
    BY <1>2, PostsArePosts, PieceListsHead DEF Next1
  <2>2. PieceLists(todo) \in Seq(Seq(Ps)) /\ PieceLists(Tail(todo)) \in Seq(Seq(Ps))
    BY <1>2, <1>3, PostsArePosts, PieceListsType
  <2>3. FlattenSeq(PieceLists(todo))
          = Head(PieceLists(todo)) \o FlattenSeq(Tail(PieceLists(todo)))
    BY <2>1, <2>2, FlattenHead
  <2>4. QED
    BY <2>1, <2>2, <2>3, FlattenType
<1>10. ASSUME PiecesOf(Next1) = <<>>
       PROVE  posts = <<>> /\ Tail(todo) = <<>>
  <2>1. 1 \in 1 .. Len(todo)
    BY <1>2
  <2>2. posts = <<>> /\ Len(todo) = 1
    BY <1>1, <1>3, <1>10, <2>1 DEF Rest
  <2>3. Len(Tail(todo)) = 0
    BY <1>3, <2>2
  <2>4. QED
    BY <1>3, <2>2, <2>3, EmptySeq
<1>11. QED
  BY <1>3, <1>5, <1>6, <1>7, <1>8, <1>9, <1>10

\* what the posts hold, and what they show on the platform
Held(list) == FlattenSeq(PieceLists(list))
OnPlatform(list) ==
  [i \in DOMAIN list |->
     [pieces |-> PiecesOf(list[i]), to |-> list[i].to, quotes |-> list[i].quotes]]

LEMMA HeldType ==
  ASSUME NEW T, ArePosts(T), NEW list \in Seq(T)
  PROVE  Held(list) \in Seq(Ps)
BY PieceListsType, FlattenType DEF Held

LEMMA HeldAppend ==
  ASSUME NEW T, ArePosts(T), NEW list \in Seq(T), NEW post \in T
  PROVE  Held(Append(list, post)) = Held(list) \o PiecesOf(post)
<1>1. PiecesOf(post) \in Seq(Ps)
  BY ContentType DEF ArePosts, PiecesOf
<1>2. PieceLists(list) \in Seq(Seq(Ps))
  BY PieceListsType
<1>3. FlattenSeq(Append(PieceLists(list), PiecesOf(post)))
        = FlattenSeq(PieceLists(list)) \o PiecesOf(post)
  BY <1>1, <1>2, FlattenAppend
<1>4. QED
  BY <1>3, PieceListsAppend DEF Held

LEMMA OnPlatformAppend ==
  ASSUME NEW T, NEW list \in Seq(T), NEW post \in T
  PROVE  OnPlatform(Append(list, post))
           = Append(OnPlatform(list),
                    [pieces |-> PiecesOf(post), to |-> post.to, quotes |-> post.quotes])
<1>. DEFINE E(p) == [pieces |-> PiecesOf(p), to |-> p.to, quotes |-> p.quotes]
            U == {E(p) : p \in T}
<1>1. PICK l \in Seq(T) : /\ l = Append(list, post) /\ Len(l) = Len(list) + 1
                          /\ \A i \in 1 .. Len(list) : l[i] = list[i]
                          /\ l[Len(list) + 1] = post
  BY AppendProperties
<1>2. Len(list) \in Nat /\ \A i \in 1 .. Len(list) : list[i] \in T
  BY LenProperties, ElementOfSeq
<1>3. \A k \in Seq(T) : /\ OnPlatform(k) \in Seq(U) /\ Len(OnPlatform(k)) = Len(k)
                        /\ \A i \in 1 .. Len(k) : OnPlatform(k)[i] = E(k[i])
  <2>. SUFFICES ASSUME NEW k \in Seq(T)
                PROVE  /\ OnPlatform(k) \in Seq(U) /\ Len(OnPlatform(k)) = Len(k)
                       /\ \A i \in 1 .. Len(k) : OnPlatform(k)[i] = E(k[i])
    OBVIOUS
  <2>1. /\ DOMAIN k = 1 .. Len(k) /\ Len(k) \in Nat
        /\ \A i \in 1 .. Len(k) : k[i] \in T
    BY LenProperties, ElementOfSeq
  <2>2. OnPlatform(k) = [i \in 1 .. Len(k) |-> E(k[i])]
    BY <2>1 DEF OnPlatform
  <2>3. \A i \in 1 .. Len(k) : E(k[i]) \in U
    BY <2>1
  <2>. HIDE DEF E, U
  <2>4. QED
    BY <2>1, <2>2, <2>3
<1>. HIDE DEF E, U
<1>4. PICK q \in Seq(U) : /\ q = OnPlatform(list) /\ Len(q) = Len(list)
                          /\ \A i \in 1 .. Len(list) : q[i] = E(list[i])
  BY <1>3
<1>5. PICK r \in Seq(U) : /\ r = OnPlatform(l) /\ Len(r) = Len(list) + 1
                          /\ \A i \in 1 .. Len(list) + 1 : r[i] = E(l[i])
  BY <1>1, <1>3
<1>6. PICK e \in U : e = E(post)
  BY DEF U
<1>7. PICK a \in Seq(U) : /\ a = Append(q, e) /\ Len(a) = Len(q) + 1
                          /\ \A i \in 1 .. Len(q) : a[i] = q[i]
                          /\ a[Len(q) + 1] = e
  BY AppendProperties
<1>8. ASSUME NEW i \in 1 .. Len(list) + 1 PROVE a[i] = r[i]
  <2>1. CASE i = Len(list) + 1
    BY <1>1, <1>4, <1>5, <1>6, <1>7, <2>1
  <2>2. CASE i # Len(list) + 1
    <3>1. i \in 1 .. Len(list)
      BY <1>2, <2>2
    <3>2. QED
      BY <1>1, <1>4, <1>5, <1>7, <3>1
  <2>3. QED
    BY <2>1, <2>2
<1>9. a = r
  <2>1. Len(a) = Len(list) + 1 /\ Len(a) = Len(r)
    BY <1>4, <1>5, <1>7
  <2>2. QED
    BY <1>8, <2>1, SeqEqual
<1>10. QED
  BY <1>1, <1>4, <1>5, <1>6, <1>7, <1>9 DEF E

\* the middle of a content
LEMMA Middle ==
  ASSUME NEW S, NEW a \in Seq(S), NEW b \in Seq(S), NEW c \in Seq(S)
  PROVE  /\ SubSeq(a \o (b \o c), Len(a) + 1, Len(a) + Len(b)) = b
         /\ Len(a \o (b \o c)) = Len(a) + (Len(b) + Len(c))
         /\ Len(a) \in Nat /\ Len(b) \in Nat /\ Len(c) \in Nat
<1>1. Len(a) \in Nat /\ Len(b) \in Nat /\ Len(c) \in Nat
  BY LenProperties
<1>2. PICK d \in Seq(S) :
        /\ d = b \o c /\ Len(d) = Len(b) + Len(c)
        /\ \A i \in 1 .. Len(b) + Len(c) : d[i] = IF i <= Len(b) THEN b[i] ELSE c[i - Len(b)]
  <2>1. /\ b \o c \in Seq(S) /\ Len(b \o c) = Len(b) + Len(c)
        /\ \A i \in 1 .. Len(b) + Len(c) :
             (b \o c)[i] = IF i <= Len(b) THEN b[i] ELSE c[i - Len(b)]
    BY ConcatProperties
  <2>2. QED
    BY <2>1
<1>3. PICK w \in Seq(S) :
        /\ w = a \o d /\ Len(w) = Len(a) + Len(d)
        /\ \A i \in 1 .. Len(a) + Len(d) : w[i] = IF i <= Len(a) THEN a[i] ELSE d[i - Len(a)]
  <2>1. /\ a \o d \in Seq(S) /\ Len(a \o d) = Len(a) + Len(d)
        /\ \A i \in 1 .. Len(a) + Len(d) :
             (a \o d)[i] = IF i <= Len(a) THEN a[i] ELSE d[i - Len(a)]
    BY ConcatProperties
  <2>2. QED
    BY <2>1
<1>4. PICK s \in Seq(S) :
        /\ s = SubSeq(w, Len(a) + 1, Len(a) + Len(b)) /\ Len(s) = Len(b)
        /\ \A i \in 1 .. Len(b) : s[i] = w[Len(a) + i]
  <2>1. \A i \in Len(a) + 1 .. Len(a) + Len(b) : w[i] \in S
    <3>1. \A i \in Len(a) + 1 .. Len(a) + Len(b) : i \in 1 .. Len(w)
      BY <1>1, <1>2, <1>3
    <3>2. QED
      BY <3>1, ElementOfSeq
  <2>2. Len(a) + 1 \in Int /\ Len(a) + Len(b) \in Int
    BY <1>1
  <2>3. /\ SubSeq(w, Len(a) + 1, Len(a) + Len(b)) \in Seq(S)
        /\ Len(SubSeq(w, Len(a) + 1, Len(a) + Len(b)))
             = IF Len(a) + 1 <= Len(a) + Len(b)
               THEN (Len(a) + Len(b)) - (Len(a) + 1) + 1 ELSE 0
        /\ \A i \in 1 .. (Len(a) + Len(b)) - (Len(a) + 1) + 1 :
             SubSeq(w, Len(a) + 1, Len(a) + Len(b))[i] = w[(Len(a) + 1) + i - 1]
    BY <2>1, <2>2, SubSeqProperties
  <2>4. /\ (Len(a) + Len(b)) - (Len(a) + 1) + 1 = Len(b)
        /\ (IF Len(a) + 1 <= Len(a) + Len(b)
            THEN (Len(a) + Len(b)) - (Len(a) + 1) + 1 ELSE 0) = Len(b)
        /\ \A i \in 1 .. Len(b) : (Len(a) + 1) + i - 1 = Len(a) + i
    BY <1>1
  <2>5. PICK s \in Seq(S) : s = SubSeq(w, Len(a) + 1, Len(a) + Len(b))
    BY <2>3
  <2>6. Len(s) = Len(b) /\ \A i \in 1 .. Len(b) : s[i] = w[(Len(a) + 1) + i - 1]
    BY ONLY <2>3, <2>4, <2>5
  <2>7. \A i \in 1 .. Len(b) : s[i] = w[Len(a) + i]
    BY ONLY <2>4, <2>6
  <2>8. QED
    BY <2>5, <2>6, <2>7
<1>5. ASSUME NEW i \in 1 .. Len(b) PROVE s[i] = b[i]
  <2>1. /\ Len(a) + i \in 1 .. Len(a) + Len(d) /\ ~(Len(a) + i <= Len(a))
        /\ (Len(a) + i) - Len(a) = i /\ i \in 1 .. Len(b) + Len(c) /\ i <= Len(b)
    BY <1>1, <1>2
  <2>2. QED
    BY <1>2, <1>3, <1>4, <2>1
<1>6. s = b
  BY <1>4, <1>5, SeqEqual
<1>7. QED
  BY <1>1, <1>2, <1>3, <1>4, <1>6

-----------------------------------------------------------------------------
(* Every step keeps the invariant.                                         *)

LEMMA StaysMeant ==
  ASSUME Meant, UNCHANGED given, step # "dropped", step' # "dropped"
  PROVE  Meant'
BY DEF Meant, given

LEMMA PromisedIs ==
  ASSUME Meant, step # "dropped"
  PROVE  /\ Promised = IF CaptionLost THEN Files(message.files)
                       ELSE Content(message.text, message.files)
         /\ Promised \in Seq(Ps)
<1>1. Promised = IF CaptionLost THEN Files(message.files)
                 ELSE Content(message.text, message.files)
  BY DEF Meant, Promised
<1>2. /\ Files(message.files) \in Seq(Ps)
      /\ Content(message.text, message.files) \in Seq(Ps)
  BY FilesType, ContentType DEF Meant
<1>3. QED
  BY <1>1, <1>2

LEMMA PromisedStays ==
  ASSUME UNCHANGED given
  PROVE  Promised' = Promised
BY DEF given, Promised, CaptionLost

LEMMA BeginKeeps == SendInv /\ Begin => SendInv'
<1>. SUFFICES ASSUME SendInv, Begin PROVE SendInv'
  OBVIOUS
<1>1. /\ Meant /\ step = "begin" /\ UNCHANGED <<given, posts>>
      /\ posts = <<>> /\ todo = <<>> /\ first = 0
      /\ step' \in {"posting", "failed"}
  BY DEF SendInv, Begin, Fails
<1>2. Meant'
  BY <1>1, StaysMeant
<1>3. posts' \in Seq(PostSet')
  BY <1>1, EmptySeq
<1>4. ASSUME step' = "posting" PROVE Rest'
  <2>1. ~Refused(message) /\ todo' = Posts(message) /\ first' = 0
    BY <1>1, <1>4 DEF Begin, Fails
  <2>2. /\ Hold(Posts(message), Promised)
        /\ QuotesAlways => Len(Posts(message)) = 1
    BY <1>1, <2>1, PromisedIs, PostsHold DEF Meant, QuotesAlways
  <2>3. PICK list : list = Posts(message) /\ Hold(list, Promised) /\ (QuotesAlways => Len(list) = 1)
    BY <2>2
  <2>4. FlattenSeq(PieceLists(posts')) \o FlattenSeq(PieceLists(list)) = Promised
    <3>1. PieceLists(<<>>) = <<>>
      BY DEF PieceLists
    <3>2. FlattenSeq(PieceLists(posts')) = <<>>
      BY <1>1, <3>1, FlattenEmpty
    <3>3. Promised \in Seq(Ps) /\ FlattenSeq(PieceLists(list)) = Promised
      BY <1>1, <2>3, PromisedIs DEF Hold
    <3>4. QED
      BY <3>2, <3>3, ConcatEmptySeq
  <2>5. Promised' = Promised /\ (QuotesAlways' => QuotesAlways)
    BY <1>1, PromisedStays DEF QuotesAlways, given
  <2>6. /\ todo' \in Seq(ToPost) /\ todo' # <<>>
        /\ (\A i \in 1 .. Len(todo') : PiecesOf(todo'[i]) # <<>>) \/ Len(todo') = 1
    BY <2>1, <2>3 DEF Hold
  <2>7. FlattenSeq(PieceLists(posts')) \o FlattenSeq(PieceLists(todo')) = Promised'
    BY <2>1, <2>3, <2>4, <2>5
  <2>8. posts' = <<>> /\ (QuotesAlways' => Len(todo') = 1) /\ first' = 0
    BY <1>1, <2>1, <2>3, <2>5
  <2>9. QED
    BY <2>6, <2>7, <2>8 DEF Rest
<1>5. QED
  BY <1>1, <1>2, <1>3, <1>4 DEF SendInv

LEMMA FailsKeeps ==
  ASSUME SendInv, step = "posting", Fails, posts' \in Seq(PostSet)
  PROVE  SendInv'
<1>1. Meant /\ UNCHANGED given /\ step' = "failed"
  BY DEF SendInv, Fails
<1>2. Meant'
  BY <1>1, StaysMeant
<1>3. PostSet' = PostSet
  BY <1>1 DEF PostSet, given
<1>4. QED
  BY <1>1, <1>2, <1>3 DEF SendInv

LEMMA PrepareKeeps == SendInv /\ Prepare => SendInv'
<1>. SUFFICES ASSUME SendInv, Prepare PROVE SendInv'
  OBVIOUS
<1>1. /\ Meant /\ posts \in Seq(PostSet) /\ Rest
      /\ step = "posting" /\ UNCHANGED posts
  BY DEF SendInv, Prepare
<1>2. CASE Fails
  BY <1>1, <1>2, FailsKeeps
<1>3. CASE UNCHANGED <<given, step, todo, first, result>>
  <2>1. Meant'
    BY <1>1, <1>3, StaysMeant
  <2>2. PostSet' = PostSet /\ Promised' = Promised /\ (QuotesAlways' <=> QuotesAlways)
    BY <1>3, PromisedStays DEF PostSet, QuotesAlways, given
  <2>3. Rest'
    BY <1>1, <1>3, <2>2 DEF Rest
  <2>4. QED
    BY <1>1, <1>3, <2>1, <2>2, <2>3 DEF SendInv
<1>4. QED
  BY <1>2, <1>3 DEF Prepare

LEMMA PostKeeps == SendInv /\ Post => SendInv'
<1>. SUFFICES ASSUME SendInv, Post PROVE SendInv'
  OBVIOUS
<1>1. /\ Meant /\ posts \in Seq(PostSet) /\ Rest
      /\ step = "posting" /\ step' = "posting" /\ todo # <<>> /\ UNCHANGED given
      /\ posts' = Posted /\ todo' = Tail(todo)
      /\ first' = IF first = 0 THEN Len(posts) + 1 ELSE first
  BY DEF SendInv, Post
<1>2. Meant'
  BY <1>1, StaysMeant
<1>3. PostSet' = PostSet /\ Promised' = Promised /\ (QuotesAlways' <=> QuotesAlways)
  BY <1>1, PromisedStays DEF PostSet, QuotesAlways, given
<1>4. /\ NextPost \in PostSet /\ Posted = Append(posts, NextPost)
      /\ PiecesOf(NextPost) = PiecesOf(Next1) /\ PiecesOf(Next1) \in Seq(Ps)
      /\ Tail(todo) \in Seq(ToPost)
      /\ FlattenSeq(PieceLists(todo))
           = PiecesOf(Next1) \o FlattenSeq(PieceLists(Tail(todo)))
      /\ FlattenSeq(PieceLists(Tail(todo))) \in Seq(Ps)
  BY <1>1, PostedIs
<1>5. posts' \in Seq(PostSet) /\ posts' # <<>>
  <2>1. posts \in Seq(PostSet) /\ NextPost \in PostSet
    BY <1>1, <1>4
  <2>2. Append(posts, NextPost) \in Seq(PostSet) /\ Append(posts, NextPost) # <<>>
    BY ONLY <2>1, AppendProperties
  <2>3. QED
    BY <1>1, <1>4, <2>2
<1>6. Held(posts') = Held(posts) \o PiecesOf(Next1) /\ Held(posts) \in Seq(Ps)
  <2>1. Held(Append(posts, NextPost)) = Held(posts) \o PiecesOf(NextPost)
    BY <1>1, <1>4, PostsArePosts, HeldAppend
  <2>2. Held(posts) \in Seq(Ps)
    BY <1>1, PostsArePosts, HeldType
  <2>3. QED
    BY <1>1, <1>4, <2>1, <2>2
<1>7. Held(posts') \o Held(todo') = Promised
  <2>1. PICK a \in Seq(Ps), b \in Seq(Ps), c \in Seq(Ps) :
          a = Held(posts) /\ b = PiecesOf(Next1) /\ c = Held(Tail(todo))
    BY <1>4, <1>6 DEF Held
  <2>2. a \o (b \o c) = Promised
    BY <1>1, <1>4, <2>1 DEF Rest, Held
  <2>3. (a \o b) \o c = a \o (b \o c)
    <3>1. Regroups(a, b, c)
      BY ONLY a \in Seq(Ps), b \in Seq(Ps), c \in Seq(Ps), Regroup
    <3>2. QED
      BY ONLY <3>1 DEF Regroups
  <2>4. QED
    BY <1>1, <1>6, <2>1, <2>2, <2>3
<1>8. /\ todo \in Seq(ToPost) /\ Len(todo) \in Nat \ {0}
      /\ Len(Tail(todo)) = Len(todo) - 1
      /\ \A i \in 1 .. Len(Tail(todo)) : Tail(todo)[i] = todo[i + 1]
  <2>1. todo \in Seq(ToPost)
    BY <1>1 DEF Rest
  <2>2. QED
    BY <1>1, <2>1, HeadTailProperties, EmptySeq
<1>9. Len(todo) = 1 => todo' = <<>>
  <2>1. Len(todo) = 1 => Len(Tail(todo)) = 0
    BY <1>8
  <2>2. Len(Tail(todo)) = 0 => Tail(todo) = <<>>
    BY <1>4, EmptySeq
  <2>3. QED
    BY <1>1, <2>1, <2>2
<1>10. \A i \in 1 .. Len(todo') : PiecesOf(todo'[i]) # <<>>
  <2>1. ASSUME NEW i \in 1 .. Len(Tail(todo)) PROVE PiecesOf(Tail(todo)[i]) # <<>>
    <3>1. i + 1 \in 1 .. Len(todo) /\ Len(todo) # 1
      BY <1>8
    <3>2. PiecesOf(todo[i + 1]) # <<>>
      BY <1>1, <3>1 DEF Rest
    <3>3. QED
      BY <1>8, <3>2
  <2>2. QED
    BY <1>1, <2>1
<1>11. QuotesAlways' => todo' = <<>>
  BY <1>1, <1>3, <1>9 DEF Rest
<1>12. first' = 1
  <2>1. first = IF posts = <<>> THEN 0 ELSE 1
    BY <1>1 DEF Rest
  <2>2. posts = <<>> => Len(posts) = 0
    BY EmptySeq
  <2>3. QED
    BY <1>1, <2>1, <2>2
<1>13. Rest'
  <2>1. /\ todo' \in Seq(ToPost)
        /\ FlattenSeq(PieceLists(posts')) \o FlattenSeq(PieceLists(todo')) = Promised'
    BY <1>1, <1>3, <1>4, <1>7 DEF Held
  <2>2. QED
    BY <1>5, <1>10, <1>11, <1>12, <2>1 DEF Rest
<1>14. QED
  BY <1>1, <1>2, <1>3, <1>5, <1>13 DEF SendInv

LEMMA PostFailsKeeps == SendInv /\ PostFails => SendInv'
<1>. SUFFICES ASSUME SendInv, PostFails PROVE SendInv'
  OBVIOUS
<1>1. /\ posts \in Seq(PostSet) /\ step = "posting" /\ todo # <<>> /\ Fails
      /\ posts' \in {posts, Posted}
  BY DEF SendInv, PostFails
<1>2. NextPost \in PostSet /\ Posted = Append(posts, NextPost)
  BY <1>1, PostedIs
<1>3. posts' \in Seq(PostSet)
  BY <1>1, <1>2, AppendProperties
<1>4. QED
  BY <1>1, <1>3, FailsKeeps

LEMMA CopyFailsKeeps == SendInv /\ CopyFails => SendInv'
<1>. SUFFICES ASSUME SendInv, CopyFails PROVE SendInv'
  OBVIOUS
<1>1. posts \in Seq(PostSet) /\ step = "posting" /\ Fails /\ posts' = posts
  BY DEF SendInv, CopyFails
<1>2. QED
  BY <1>1, FailsKeeps

LEMMA ReturnKeeps == SendInv /\ Return => SendInv'
<1>. SUFFICES ASSUME SendInv, Return PROVE SendInv'
  OBVIOUS
<1>1. /\ Meant /\ posts \in Seq(PostSet) /\ step = "posting" /\ step' = "sent"
      /\ UNCHANGED <<given, posts>>
  BY DEF SendInv, Return
<1>2. Meant'
  BY <1>1, StaysMeant
<1>3. PostSet' = PostSet
  BY <1>1 DEF PostSet, given
<1>4. QED
  BY <1>1, <1>2, <1>3 DEF SendInv

LEMMA SendNext == SendInv /\ [Next]_vars => SendInv'
<1>. SUFFICES ASSUME SendInv, [Next]_vars PROVE SendInv'
  OBVIOUS
<1>1. CASE UNCHANGED vars
  <2>1. /\ UNCHANGED <<platform, conversation, message, inReplyTo, wanted>>
        /\ UNCHANGED <<step, todo, posts, first, result>>
    BY <1>1 DEF vars, given
  <2>2. Meant' /\ PostSet' = PostSet /\ Promised' = Promised /\ QuotesAlways' = QuotesAlways
    BY <2>1 DEF SendInv, Meant, PostSet, Promised, CaptionLost, QuotesAlways
  <2>3. Rest => Rest'
    BY <2>1, <2>2 DEF Rest
  <2>4. QED
    BY <2>1, <2>2, <2>3 DEF SendInv
<1>2. QED
  BY <1>1, BeginKeeps, PrepareKeeps, PostKeeps, PostFailsKeeps, CopyFailsKeeps, ReturnKeeps
  DEF Next

-----------------------------------------------------------------------------
(* Every step is a step of the delivery, or none.                          *)

LEMMA SendStartsDelivery == Init => Abstract!Init
<1>. SUFFICES ASSUME Init PROVE Abstract!Init
  OBVIOUS
<1>1. /\ SendInv /\ Meant /\ posts = <<>> /\ result = 0
      /\ step \in {"begin", "dropped"}
  <2>1. SendInv
    BY SendInit
  <2>2. step \in {"begin", "dropped"}
    <3>1. ASSUME NEW r, step = IF message.forwarded THEN "begin" ELSE "dropped"
          PROVE  step \in {"begin", "dropped"}
      BY <3>1
    <3>2. QED
      BY <3>1 DEF Init
  <2>3. QED
    BY <2>1, <2>2 DEF SendInv
<1>2. Promised \in Seq(Ps) /\ (step = "dropped" => Promised = <<>>)
  <2>1. CASE step = "dropped"
    <3>1. Promised = <<>>
      BY <1>1, <2>1 DEF Meant, Promised, CaptionLost
    <3>2. QED
      BY <3>1, EmptySeq
  <2>2. CASE step # "dropped"
    BY <1>1, <2>2, PromisedIs
  <2>3. QED
    BY <2>1, <2>2
<1>3. Promised \in Seq({"char", "file"} \X Nat)
  BY <1>2 DEF Ps
<1>4. conversation \in UNION {ConversationsOf(p) : p \in Platforms}
  BY <1>1 DEF Meant
<1>5. (inReplyTo \/ platform = "mail") \in BOOLEAN
  OBVIOUS
<1>6. [i \in DOMAIN posts |->
         [pieces |-> PiecesOf(posts[i]), to |-> posts[i].to, quotes |-> posts[i].quotes]] = <<>>
  BY <1>1
<1>7. Len(FlattenSeq([i \in DOMAIN posts |-> PiecesOf(posts[i])])) = 0
  <2>1. [i \in DOMAIN posts |-> PiecesOf(posts[i])] = <<>>
    BY <1>1
  <2>2. QED
    BY <2>1, FlattenEmpty
<1>8. Status \in {"sending"} \cup (IF Promised = <<>> THEN {"nothing"} ELSE {})
  BY <1>1, <1>2 DEF Status
<1>9. QED
  BY <1>1, <1>3, <1>4, <1>5, <1>6, <1>7, <1>8 DEF Abstract!Init, Abstract!None

\* a step that changes no post, and not where the delivery stands
LEMMA NoStep ==
  ASSUME UNCHANGED <<given, posts, result>>, Status' = Status
  PROVE  UNCHANGED Abstract!vars
<1>1. /\ UNCHANGED <<platform, conversation, message, inReplyTo, wanted>>
      /\ UNCHANGED <<posts, result>>
  BY DEF given
<1>2. Promised' = Promised
  BY PromisedStays
<1>3. /\ ([i \in DOMAIN posts |->
           [pieces |-> PiecesOf(posts[i]), to |-> posts[i].to, quotes |-> posts[i].quotes]])'
         = [i \in DOMAIN posts |->
           [pieces |-> PiecesOf(posts[i]), to |-> posts[i].to, quotes |-> posts[i].quotes]]
      /\ Len(FlattenSeq([i \in DOMAIN posts |-> PiecesOf(posts[i])]))'
         = Len(FlattenSeq([i \in DOMAIN posts |-> PiecesOf(posts[i])]))
      /\ (inReplyTo \/ platform = "mail")' = (inReplyTo \/ platform = "mail")
  BY <1>1
<1>4. QED
  BY <1>1, <1>2, <1>3 DEF Abstract!vars

\* what a Send that fails leaves: the posts, and the identifier it returned
LEMMA FailsIsFail ==
  ASSUME SendInv, step \in {"begin", "posting"}, Fails,
         UNCHANGED posts \/ \E n \in 0 .. Len(Promised) : Abstract!Show(n)
  PROVE  Abstract!Fail
<1>1. UNCHANGED given /\ step' = "failed"
  BY DEF Fails
<1>2. Status = "sending" /\ Status' = "failed"
  BY <1>1 DEF Status
<1>3. result' \in {0} \cup (IF posts = <<>> THEN {} ELSE {1})
  <2>1. result' \in {0, first}
    BY DEF Fails
  <2>2. first = IF posts = <<>> THEN 0 ELSE 1
    BY DEF SendInv, Rest
  <2>3. QED
    BY <2>1, <2>2
<1>4. posts = <<>> <=> OnPlatform(posts) = <<>>
  <2>1. posts \in Seq(PostSet)
    BY DEF SendInv
  <2>2. DOMAIN posts = 1 .. Len(posts) /\ Len(posts) \in Nat
    BY <2>1, LenProperties
  <2>3. DOMAIN OnPlatform(posts) = 1 .. Len(posts)
    BY <2>2 DEF OnPlatform
  <2>4. posts = <<>> => OnPlatform(posts) = <<>>
    BY DEF OnPlatform
  <2>5. posts # <<>> => 1 \in DOMAIN OnPlatform(posts)
    BY <2>1, <2>3, EmptySeq
  <2>6. QED
    BY <2>4, <2>5
<1>5. UNCHANGED Abstract!message
  <2>1. Promised' = Promised
    BY <1>1, PromisedStays
  <2>2. QED
    BY <1>1, <2>1 DEF Abstract!message, given
<1>6. UNCHANGED posts =>
        /\ OnPlatform(posts)' = OnPlatform(posts)
        /\ Len(Held(posts))' = Len(Held(posts))
  BY DEF OnPlatform, Held, PieceLists
<1>7. QED
  BY <1>2, <1>3, <1>4, <1>5, <1>6
  DEF Abstract!Fail, Abstract!None, OnPlatform, Held, PieceLists

\* the next post shows the next pieces of the content
LEMMA PostedShows ==
  ASSUME SendInv, step = "posting", todo # <<>>, posts' = Posted
  PROVE  \E n \in 0 .. Len(Promised) : Abstract!Show(n)
<1>1. Meant /\ posts \in Seq(PostSet) /\ Rest
  BY DEF SendInv
<1>2. /\ NextPost \in PostSet /\ Posted = Append(posts, NextPost)
      /\ NextPost.to = conversation /\ NextPost.quotes = Quotes
      /\ PiecesOf(NextPost) = PiecesOf(Next1) /\ PiecesOf(Next1) \in Seq(Ps)
      /\ Quotes \in BOOLEAN
      /\ Quotes => (inReplyTo \/ platform = "mail") /\ posts = <<>>
      /\ FlattenSeq(PieceLists(todo))
           = PiecesOf(Next1) \o FlattenSeq(PieceLists(Tail(todo)))
      /\ FlattenSeq(PieceLists(Tail(todo))) \in Seq(Ps)
      /\ PiecesOf(Next1) = <<>> => posts = <<>> /\ Tail(todo) = <<>>
  BY PostedIs
<1>3. Held(posts) \in Seq(Ps) /\ Held(Posted) = Held(posts) \o PiecesOf(Next1)
  <2>1. Held(Append(posts, NextPost)) = Held(posts) \o PiecesOf(NextPost)
    BY <1>1, <1>2, PostsArePosts, HeldAppend
  <2>2. QED
    BY <1>1, <1>2, <2>1, PostsArePosts, HeldType
<1>4. PICK a \in Seq(Ps), b \in Seq(Ps), c \in Seq(Ps) :
        a = Held(posts) /\ b = PiecesOf(Next1) /\ c = FlattenSeq(PieceLists(Tail(todo)))
  BY <1>2, <1>3
<1>5. Promised = a \o (b \o c)
  BY <1>1, <1>2, <1>4 DEF Rest, Held
<1>6. /\ Len(a) \in Nat /\ Len(b) \in Nat /\ Len(c) \in Nat
      /\ Len(Promised) = Len(a) + (Len(b) + Len(c))
      /\ SubSeq(Promised, Len(a) + 1, Len(a) + Len(b)) = b
  BY <1>5, Middle
<1>7. Len(b) \in 0 .. Len(Promised) /\ Len(a) + Len(b) <= Len(Promised)
  BY <1>6
<1>8. Len(Held(posts')) = Len(a) + Len(b)
  BY <1>3, <1>4, ConcatProperties
<1>9. OnPlatform(posts')
        = Append(OnPlatform(posts), [pieces |-> b, to |-> conversation, quotes |-> Quotes])
  BY <1>1, <1>2, <1>4, OnPlatformAppend
<1>10. posts = <<>> => OnPlatform(posts) = <<>>
  BY DEF OnPlatform
<1>11. Len(b) = 0 => Promised = <<>> /\ OnPlatform(posts) = <<>>
  <2>1. ASSUME Len(b) = 0 PROVE Promised = <<>> /\ posts = <<>>
    <3>1. PiecesOf(Next1) = <<>>
      BY <1>4, <2>1, EmptySeq
    <3>2. posts = <<>> /\ Tail(todo) = <<>>
      BY <1>2, <3>1
    <3>3. PieceLists(<<>>) = <<>>
      BY DEF PieceLists
    <3>4. Held(posts) = <<>> /\ FlattenSeq(PieceLists(Tail(todo))) = <<>>
      BY <3>2, <3>3, FlattenEmpty DEF Held
    <3>5. Len(a) = 0 /\ Len(c) = 0
      BY <1>4, <3>4
    <3>6. Len(Promised) = 0 /\ Promised \in Seq(Ps)
      <4>1. Promised \in Seq(Ps)
        BY <1>1, PromisedIs
      <4>2. QED
        BY <1>6, <2>1, <3>5, <4>1
    <3>7. QED
      BY <3>2, <3>6, EmptySeq
  <2>2. QED
    BY <1>10, <2>1
<1>12. Abstract!Show(Len(b))
  <2>1. Len(Held(posts)) = Len(a)
    BY <1>4
  <2>2. /\ Len(Held(posts)) + Len(b) <= Len(Promised)
        /\ Len(b) = 0 => Promised = <<>> /\ OnPlatform(posts) = <<>>
        /\ Len(Held(posts')) = Len(Held(posts)) + Len(b)
    BY <1>7, <1>8, <1>11, <2>1
  <2>3. \E quotes \in BOOLEAN :
          /\ quotes => (inReplyTo \/ platform = "mail") /\ OnPlatform(posts) = <<>>
          /\ OnPlatform(posts')
               = Append(OnPlatform(posts),
                        [pieces |-> SubSeq(Promised, Len(Held(posts)) + 1, Len(Held(posts)) + Len(b)),
                         to |-> conversation, quotes |-> quotes])
    <3>. Quotes \in BOOLEAN
      BY <1>2
    <3>. WITNESS Quotes \in BOOLEAN
    <3>1. QED
      BY <1>2, <1>6, <1>9, <1>10, <2>1
  <2>4. QED
    BY <2>2, <2>3 DEF Abstract!Show, OnPlatform, Held, PieceLists
<1>13. QED
  BY <1>7, <1>12

LEMMA SendingIs ==
  /\ step \in {"begin", "posting"} => Status = "sending"
  /\ step = "sent" => Status = "sent"
BY DEF Status

LEMMA SendStepRefines == SendInv /\ [Next]_vars => [Abstract!Next]_(Abstract!vars)
<1>. SUFFICES ASSUME SendInv, [Next]_vars
              PROVE  Abstract!Next \/ UNCHANGED Abstract!vars
  BY Zenon
<1>1. CASE Begin
  <2>1. step = "begin" /\ UNCHANGED posts
    BY <1>1 DEF Begin
  <2>2. CASE Fails
    <3>1. Abstract!Fail
      BY <2>1, <2>2, FailsIsFail
    <3>2. QED
      BY <3>1 DEF Abstract!Next
  <2>3. CASE step' = "posting" /\ UNCHANGED <<given, ready, first, result>>
    <3>1. Status' = Status
      BY <2>1, <2>3 DEF Status
    <3>2. QED
      BY <2>1, <2>3, <3>1, NoStep
  <2>4. QED
    BY <1>1, <2>2, <2>3 DEF Begin
<1>2. CASE Prepare
  <2>1. step = "posting" /\ UNCHANGED posts
    BY <1>2 DEF Prepare
  <2>2. CASE Fails
    <3>1. Abstract!Fail
      BY <2>1, <2>2, FailsIsFail
    <3>2. QED
      BY <3>1 DEF Abstract!Next
  <2>3. CASE UNCHANGED <<given, step, todo, first, result>>
    <3>1. Status' = Status
      BY <2>3 DEF Status
    <3>2. QED
      BY <2>1, <2>3, <3>1, NoStep
  <2>4. QED
    BY <1>2, <2>2, <2>3 DEF Prepare
<1>3. CASE Post
  <2>1. /\ step = "posting" /\ todo # <<>> /\ posts' = Posted
        /\ UNCHANGED <<given, step, result>>
    BY <1>3 DEF Post
  <2>2. \E n \in 0 .. Len(Promised) : Abstract!Show(n)
    BY <2>1, PostedShows
  <2>3. Status = "sending" /\ Status' = Status
    BY <2>1 DEF Status
  <2>4. UNCHANGED Abstract!message
    <3>1. Promised' = Promised
      BY <2>1, PromisedStays
    <3>2. QED
      BY <2>1, <3>1 DEF Abstract!message, given
  <2>5. Abstract!Post
    BY <2>1, <2>2, <2>3, <2>4 DEF Abstract!Post
  <2>6. QED
    BY <2>5 DEF Abstract!Next
<1>4. CASE PostFails
  <2>1. step = "posting" /\ todo # <<>> /\ posts' \in {posts, Posted} /\ Fails
    BY <1>4 DEF PostFails
  <2>2. UNCHANGED posts \/ \E n \in 0 .. Len(Promised) : Abstract!Show(n)
    BY <2>1, PostedShows
  <2>3. Abstract!Fail
    BY <2>1, <2>2, FailsIsFail
  <2>4. QED
    BY <2>3 DEF Abstract!Next
<1>5. CASE CopyFails
  <2>1. step = "posting" /\ UNCHANGED posts /\ Fails
    BY <1>5 DEF CopyFails
  <2>2. Abstract!Fail
    BY <2>1, FailsIsFail
  <2>3. QED
    BY <2>2 DEF Abstract!Next
<1>6. CASE Return
  <2>1. /\ step = "posting" /\ todo = <<>> /\ step' = "sent" /\ result' \in Returned
        /\ UNCHANGED <<given, todo, ready, posts, first>>
    BY <1>6 DEF Return
  <2>2. Rest /\ Meant /\ posts \in Seq(PostSet)
    BY <2>1 DEF SendInv
  <2>3. Status = "sending" /\ Status' = "sent"
    BY <2>1 DEF Status
  <2>4. posts # <<>> /\ Held(posts) = Promised
    <3>1. PieceLists(<<>>) = <<>>
      BY DEF PieceLists
    <3>2. FlattenSeq(PieceLists(todo)) = <<>>
      BY <2>1, <3>1, FlattenEmpty
    <3>3. Held(posts) \in Seq(Ps)
      BY <2>2, PostsArePosts, HeldType
    <3>4. Held(posts) \o <<>> = Promised
      BY <2>2, <3>2 DEF Rest, Held
    <3>5. QED
      BY <2>1, <2>2, <3>3, <3>4, ConcatEmptySeq DEF Rest
  <2>5. OnPlatform(posts) # <<>>
    <3>1. DOMAIN posts = 1 .. Len(posts) /\ Len(posts) # 0 /\ Len(posts) \in Nat
      BY <2>2, <2>4, LenProperties, EmptySeq
    <3>2. 1 \in DOMAIN OnPlatform(posts)
      BY <3>1 DEF OnPlatform
    <3>3. QED
      BY <3>2
  <2>6. result' \in {1, -1}
    BY <2>1, <2>2, <2>4 DEF Returned, Own, Rest
  <2>7. /\ UNCHANGED Abstract!message
        /\ OnPlatform(posts)' = OnPlatform(posts) /\ Len(Held(posts))' = Len(Held(posts))
    <3>1. Promised' = Promised
      BY <2>1, PromisedStays
    <3>2. UNCHANGED Abstract!message
      BY <2>1, <3>1 DEF Abstract!message, given
    <3>3. QED
      BY <2>1, <3>2 DEF OnPlatform, Held, PieceLists
  <2>8. Abstract!Return
    BY <2>3, <2>4, <2>5, <2>6, <2>7
    DEF Abstract!Return, Abstract!Own, OnPlatform, Held, PieceLists
  <2>9. QED
    BY <2>8 DEF Abstract!Next
<1>7. CASE UNCHANGED vars
  <2>1. UNCHANGED <<given, posts, result>> /\ Status' = Status
    BY <1>7 DEF vars, Status
  <2>2. QED
    BY <2>1, NoStep
<1>8. QED
  BY <1>1, <1>2, <1>3, <1>4, <1>5, <1>6, <1>7 DEF Next

(* A Send of any platform is a Delivery: for every message the application *)
(* wrote or the provider received, what shows up in its conversation is    *)
(* the content of the message, whole and in order, or the beginning of it  *)
(* when Send fails; and Send returns the identifier of the first post, or  *)
(* its own.                                                                *)
THEOREM SendIsDelivery == Spec => DeliverySpec
<1>1. Init => SendInv /\ Abstract!Init
  BY SendInit, SendStartsDelivery
<1>2. SendInv /\ [Next]_vars => SendInv'
  BY SendNext
<1>3. SendInv /\ [Next]_vars => [Abstract!Next]_(Abstract!vars)
  BY SendStepRefines
<1>4. QED
  BY <1>1, <1>2, <1>3, PTL DEF Spec, DeliverySpec, Abstract!Spec

-----------------------------------------------------------------------------
(* Discord.                                                                *)

\* A session that is not listening has no goroutine; what is closed or stored
\* has one or had one; two goroutines that wait at once overlap.
DiscordInv ==
  /\ Discord!TypeOK
  /\ \A s \in Sessions : listen[s] # "listening" => watcher[s] = "none"
  /\ \A s \in Sessions : s \in closed \/ session = s => watcher[s] # "none"
  /\ \A s, t \in Sessions :
       s # t /\ watcher[s] = "waiting" /\ watcher[t] = "waiting" => s \in overlapped
  /\ OwnSession

(* The invariant of the sessions holds before any Listen.                  *)
LEMMA DiscordInit == Discord!Init => DiscordInv
BY ProvidersAssumption
   DEF Discord!Init, DiscordInv, Discord!TypeOK, OwnSession, Discord!OwnSession,
       Discord!SessionsAreNumbers

(* Storing a session makes every other one that still waits overlap it.    *)
LEMMA DiscordStore ==
  ASSUME DiscordInv, NEW s \in Sessions, Discord!Store(s)
  PROVE  DiscordInv'
<1>. USE ProvidersAssumption DEF Discord!SessionsAreNumbers
<1>1. Discord!TypeOK'
  BY DEF DiscordInv, Discord!TypeOK, Discord!Store, Discord!messages,
         Discord!Overlap, Discord!Waiting
<1>2. QED
  BY <1>1 DEF DiscordInv, Discord!TypeOK, Discord!Store, Discord!messages,
              Discord!Overlap, Discord!Waiting, OwnSession, Discord!OwnSession

(* The goroutine of an ended context closes the session of the provider:   *)
(* its own, or one it overlapped.                                          *)
LEMMA DiscordEnd ==
  ASSUME DiscordInv, NEW s \in Sessions, Discord!End(s)
  PROVE  DiscordInv'
<1>. USE ProvidersAssumption DEF Discord!SessionsAreNumbers
<1>1. Discord!TypeOK'
  BY DEF DiscordInv, Discord!TypeOK, Discord!End, Discord!messages
<1>2. QED
  BY <1>1 DEF DiscordInv, Discord!TypeOK, Discord!End, Discord!messages,
              OwnSession, Discord!OwnSession

(* Opening a session and ending a context touch none that is stored.       *)
LEMMA DiscordOpenCancel ==
  ASSUME DiscordInv, NEW s \in Sessions, Discord!Open(s) \/ Discord!Cancel(s)
  PROVE  DiscordInv'
<1>1. CASE Discord!Open(s)
  BY <1>1 DEF DiscordInv, Discord!TypeOK, Discord!Open, Discord!messages,
              OwnSession, Discord!OwnSession
<1>2. CASE Discord!Cancel(s)
  BY <1>2 DEF DiscordInv, Discord!TypeOK, Discord!Cancel, Discord!messages,
              Discord!sessions, OwnSession, Discord!OwnSession
<1>3. QED
  BY <1>1, <1>2

(* Neither the handlers of messages nor the users of a session change the  *)
(* sessions.                                                               *)
LEMMA DiscordOthers ==
  ASSUME DiscordInv,
         \/ \E s \in Sessions, m \in DiscordMessages :
              \/ Discord!Dispatch(s, m) \/ Discord!Skip(s, m) \/ Discord!Convert(s, m)
              \/ Discord!Hand(s, m) \/ Discord!LetGo(s, m)
         \/ \E u \in Users : Discord!GetSession(u) \/ Discord!Return(u)
         \/ UNCHANGED Discord!vars
  PROVE  DiscordInv'
<1>1. UNCHANGED <<session, listen, watcher, closed, overlapped, cancelled>>
  BY DEF Discord!Dispatch, Discord!Skip, Discord!Convert, Discord!Hand, Discord!LetGo,
         Discord!GetSession, Discord!Return, Discord!vars, Discord!sessions
<1>2. handler' \in [Sessions -> [DiscordMessages -> {"none", "converting", "handing", "done"}]]
  <2>1. handler \in [Sessions -> [DiscordMessages -> {"none", "converting", "handing", "done"}]]
    BY DEF DiscordInv, Discord!TypeOK
  <2>2. QED
    BY <2>1 DEF Discord!Dispatch, Discord!Skip, Discord!Convert, Discord!Hand, Discord!LetGo,
         Discord!GetSession, Discord!Return, Discord!vars, Discord!messages
<1>3. /\ buffered' \subseteq DiscordMessages /\ taken' \in [Sessions -> SUBSET DiscordMessages]
      /\ use' \in [Users -> {"none", "refused", "using", "done"}]
  BY DEF DiscordInv, Discord!TypeOK, Discord!Dispatch, Discord!Skip, Discord!Convert,
         Discord!Hand, Discord!LetGo, Discord!GetSession, Discord!Return, Discord!vars,
         Discord!messages
<1>4. QED
  BY <1>1, <1>2, <1>3 DEF DiscordInv, Discord!TypeOK, OwnSession, Discord!OwnSession

(* Every step of a session preserves the invariant.                        *)
LEMMA DiscordNext == DiscordInv /\ [Discord!Next]_(Discord!vars) => DiscordInv'
BY DiscordStore, DiscordEnd, DiscordOpenCancel, DiscordOthers DEF Discord!Next

(* The end of a context closes its own session, and every session that no  *)
(* other overlapped is the provider's as long as it is open                *)
(* (provider/discord, Listen).                                             *)
THEOREM DiscordOwnSession == Discord!Spec => []OwnSession
<1>1. DiscordInv => OwnSession
  BY DEF DiscordInv
<1>2. QED
  BY DiscordInit, DiscordNext, <1>1, PTL DEF Discord!Spec
-----------------------------------------------------------------------------
(* WhatsApp.                                                               *)

WhatsappCalls == Listeners \cup ReactionListeners \cup Senders

WhatsappTypes ==
  /\ Whatsapp!TypeOK
  /\ log \in Seq(Whatsapp!Events)
  /\ handlers \in Seq(WhatsappCalls \cup {Watch})
  /\ to \in Seq(WhatsappCalls \cup {Watch})
  /\ reply \in [Senders -> [base : Nat, lifetime : Timers \cup {DisappearingTimer,
                                                                Whatsapp!Unknown}]]

\* an event at or after the i-th gave the chat this lifetime
SettledSince(i, lifetime) ==
  \E k \in DOMAIN log :
    k >= i /\ Whatsapp!Settles(log[k]) /\ log[k].timer = lifetime

\* Handlers only run on an event of the log.  The last setting that went
\* through Listen is not after the current event, and what is remembered is
\* that setting or a later one; a handler that has remembered the current event
\* remembers what it says.  A Send that runs began at the present or an earlier
\* setting.
WhatsappInv ==
  /\ WhatsappTypes
  /\ to # <<>> => done < Len(log)
  /\ settled <= done + (IF to = <<>> THEN 0 ELSE 1)
  /\ \/ settled = 0 /\ expiration = Whatsapp!Unknown
     \/ SettledSince(settled, expiration)
  /\ remembered =>
       /\ to # <<>>
       /\ Whatsapp!Settles(log[done + 1]) => expiration = log[done + 1].timer
  /\ \A s \in Senders : op[s] = "sending" => reply[s].base <= settled
  /\ ReplyIsRecent

(* The invariant of the replies holds before any call.                     *)
LEMMA WhatsappInit == Whatsapp!Init => WhatsappInv
<1>. USE ProvidersAssumption DEF Whatsapp!TimersAreNumbers
<1>1. SUFFICES ASSUME Whatsapp!Init PROVE WhatsappInv
  OBVIOUS
<1>2. WhatsappTypes
  <2>1. /\ {paired, remembered} \subseteq BOOLEAN
        /\ op \in [Whatsapp!Callers -> {"idle", "waiting", "got", "sending", "done", "failed"}]
        /\ reply \in [Senders -> [base : Nat,
                                 lifetime : Timers \cup {DisappearingTimer, Whatsapp!Unknown}]]
    BY <1>1 DEF Whatsapp!Init
  <2>2. QED
    BY <1>1, <2>1 DEF Whatsapp!Init, WhatsappTypes, Whatsapp!TypeOK
<1>3. QED
  BY <1>1, <1>2 DEF Whatsapp!Init, WhatsappInv, WhatsappTypes, ReplyIsRecent,
     Whatsapp!ReplyIsRecent,
              Whatsapp!Callers

(* What the log holds stays in it.                                         *)
LEMMA LogGrows ==
  ASSUME WhatsappInv, NEW e \in Whatsapp!Events, Whatsapp!Event(e)
  PROVE  WhatsappInv'
<1>. USE ProvidersAssumption DEF Whatsapp!TimersAreNumbers
<1>1. /\ log \in Seq(Whatsapp!Events) /\ log' \in Seq(Whatsapp!Events)
      /\ Len(log') = Len(log) + 1
      /\ \A i \in DOMAIN log : i \in DOMAIN log' /\ log'[i] = log[i]
  BY AppendProperties DEF WhatsappInv, WhatsappTypes, Whatsapp!Event
<1>2. \A i \in Int : \A x : SettledSince(i, x) => SettledSince(i, x)'
  BY <1>1 DEF SettledSince
<1>3. WhatsappTypes'
  <2>1. Len(log) \in Nat /\ DOMAIN log = 1..Len(log) /\ DOMAIN log' = 1..Len(log')
    BY <1>1, LenProperties
  <2>2. /\ done' \in 0..Len(log') /\ settled' \in 0..Len(log') /\ told' \subseteq DOMAIN log'
        /\ \A i \in DOMAIN log' : log'[i] \in Whatsapp!Events
    <3>1. /\ done \in 0..Len(log) /\ settled \in 0..Len(log) /\ told \subseteq DOMAIN log
          /\ UNCHANGED <<done, settled, told>>
      BY DEF WhatsappInv, WhatsappTypes, Whatsapp!TypeOK, Whatsapp!Event
    <3>2. \A i \in DOMAIN log' : log'[i] \in Whatsapp!Events
      BY <1>1, ElementOfSeq, LenProperties
    <3>3. QED
      BY <1>1, <2>1, <3>1, <3>2
  <2>3. /\ UNCHANGED <<init, paired, op, handlers, to, remembered, expiration, ended, reply>>
        /\ WhatsappTypes /\ Whatsapp!TypeOK
    BY DEF WhatsappInv, WhatsappTypes, Whatsapp!Event, Whatsapp!client
  <2>4. QED
    BY <1>1, <2>2, <2>3 DEF WhatsappTypes, Whatsapp!TypeOK
<1>4. ReplyIsRecent'
  <2>1. UNCHANGED <<op, reply>> /\ Whatsapp!TypeOK'
    BY <1>3 DEF Whatsapp!Event, Whatsapp!client, WhatsappTypes
  <2>2. \A s \in Senders : op[s] = "done" =>
          \/ reply[s].base = 0 /\ reply[s].lifetime = DisappearingTimer
          \/ \E i \in DOMAIN log :
               i >= reply[s].base /\ Whatsapp!Settles(log[i]) /\ log[i].timer = reply[s].lifetime
    BY DEF WhatsappInv, ReplyIsRecent, Whatsapp!ReplyIsRecent
  <2>3. QED
    BY <1>1, <2>1, <2>2 DEF ReplyIsRecent, Whatsapp!ReplyIsRecent
<1>5. /\ UNCHANGED <<op, done, to, remembered, expiration, settled, reply>>
      /\ done \in Int /\ settled \in Int /\ Len(log) \in Nat
  BY <1>1, LenProperties
  DEF WhatsappInv, WhatsappTypes, Whatsapp!TypeOK, Whatsapp!Event, Whatsapp!client
<1>6. (to # <<>> => done < Len(log))' /\ (settled <= done + (IF to = <<>> THEN 0 ELSE 1))'
  BY <1>1, <1>5 DEF WhatsappInv
<1>7. (settled = 0 /\ expiration = Whatsapp!Unknown)' \/ SettledSince(settled, expiration)'
  <2>1. (settled = 0 /\ expiration = Whatsapp!Unknown) \/ SettledSince(settled, expiration)
    BY DEF WhatsappInv
  <2>2. CASE settled = 0 /\ expiration = Whatsapp!Unknown
    BY <1>5, <2>2
  <2>3. CASE SettledSince(settled, expiration)
    BY <1>1, <1>5, <2>3 DEF SettledSince
  <2>4. QED
    BY <2>1, <2>2, <2>3
<1>8. (remembered =>
         /\ to # <<>>
         /\ Whatsapp!Settles(log[done + 1]) => expiration = log[done + 1].timer)'
  <2>1. SUFFICES ASSUME remembered'
                 PROVE  /\ to' # <<>> /\ log'[done' + 1] = log[done + 1]
                        /\ Whatsapp!Settles(log[done + 1]) => expiration = log[done + 1].timer
    BY <1>5
  <2>2. /\ to # <<>> /\ done < Len(log)
        /\ Whatsapp!Settles(log[done + 1]) => expiration = log[done + 1].timer
    BY <1>5, <2>1 DEF WhatsappInv
  <2>3. done >= 0 /\ DOMAIN log = 1 .. Len(log)
    BY <1>1, LenProperties DEF WhatsappInv, WhatsappTypes, Whatsapp!TypeOK
  <2>4. done + 1 \in DOMAIN log
    BY <1>5, <2>2, <2>3
  <2>5. QED
    BY <1>1, <1>5, <2>2, <2>4
<1>9. \A s \in Senders : (op[s] = "sending" => reply[s].base <= settled)'
  BY <1>5 DEF WhatsappInv
<1>10. QED
  BY <1>3, <1>4, <1>6, <1>7, <1>8, <1>9 DEF WhatsappInv

(* Calls, the client and the ends of contexts leave the settings alone.    *)
LEMMA WhatsappClientStep ==
  ASSUME WhatsappInv,
         \/ \E c \in Whatsapp!Callers : Whatsapp!Call(c) \/ Whatsapp!Client(c)
         \/ Whatsapp!InitClient
         \/ \E h \in Whatsapp!Handlers : Whatsapp!AddHandler(h) \/ Whatsapp!Cancel(h)
         \/ UNCHANGED Whatsapp!vars
  PROVE  WhatsappInv'
<1>. USE DEF Whatsapp!Call, Whatsapp!Client, Whatsapp!InitClient, Whatsapp!AddHandler,
             Whatsapp!Cancel, Whatsapp!vars, Whatsapp!client, Whatsapp!events
<1>1. UNCHANGED <<log, done, to, remembered, expiration, settled, reply, told>>
  OBVIOUS
<1>2. /\ init' \in {"none", "connecting", "up", "failed"}
      /\ {paired, remembered}' \subseteq BOOLEAN
      /\ ended' \subseteq Whatsapp!Handlers
  BY Zenon DEF WhatsappInv, WhatsappTypes, Whatsapp!TypeOK
<1>3. op' \in [Whatsapp!Callers -> {"idle", "waiting", "got", "sending", "done", "failed"}]
  BY DEF WhatsappInv, WhatsappTypes, Whatsapp!TypeOK
<1>4. handlers' \in Seq(WhatsappCalls \cup {Watch})
  <2>1. \/ handlers' = handlers
        \/ \E x \in WhatsappCalls \cup {Watch} : handlers' = Append(handlers, x)
    <3>1. Watch \in WhatsappCalls \cup {Watch}
          /\ Whatsapp!Handlers \subseteq WhatsappCalls \cup {Watch}
      BY DEF WhatsappCalls, Whatsapp!Handlers
    <3>2. \/ handlers' = handlers \/ handlers' = Append(handlers, Watch)
          \/ \E h \in Whatsapp!Handlers : handlers' = Append(handlers, h)
      BY Zenon
    <3>3. QED
      BY <3>1, <3>2, Zenon
  <2>2. handlers \in Seq(WhatsappCalls \cup {Watch})
    BY DEF WhatsappInv, WhatsappTypes
  <2>. HIDE DEF Whatsapp!Call, Whatsapp!Client, Whatsapp!InitClient, Whatsapp!AddHandler,
                Whatsapp!Cancel, Whatsapp!vars, Whatsapp!client, Whatsapp!events
  <2>3. QED
    BY <2>1, <2>2, AppendProperties
<1>5. \A s \in Senders : op'[s] \in {"sending", "done"} => op[s] = op'[s]
  BY ProvidersAssumption DEF WhatsappInv, WhatsappTypes, Whatsapp!TypeOK, Whatsapp!CallsDiffer,
                             Whatsapp!Callers
<1>.  HIDE DEF Whatsapp!Call, Whatsapp!Client, Whatsapp!InitClient, Whatsapp!AddHandler,
               Whatsapp!Cancel, Whatsapp!vars, Whatsapp!client, Whatsapp!events
<1>6. WhatsappTypes'
  BY <1>1, <1>2, <1>3, <1>4 DEF WhatsappInv, WhatsappTypes, Whatsapp!TypeOK
<1>7. QED
  BY <1>1, <1>5, <1>6 DEF WhatsappInv, WhatsappTypes, SettledSince, ReplyIsRecent,
                          Whatsapp!ReplyIsRecent, Whatsapp!Settles

(* What Return, the end of a handler, does to the queue of handlers.       *)
LEMMA HandlerReturns ==
  ASSUME WhatsappInv, to # <<>>, Whatsapp!Return
  PROVE  /\ to' \in Seq(WhatsappCalls \cup {Watch}) /\ remembered' = FALSE /\ log' = log
         /\ done + 1 \in DOMAIN log
         /\ IF to' = <<>> THEN done' = done + 1 ELSE done' = done
<1>1. to \in Seq(WhatsappCalls \cup {Watch}) /\ done < Len(log) /\ done \in Nat /\ Len(log) \in Nat
  BY DEF WhatsappInv, WhatsappTypes, Whatsapp!TypeOK
<1>2. to' \in Seq(WhatsappCalls \cup {Watch}) /\ Len(to') = Len(to) - 1
  BY <1>1, HeadTailProperties DEF Whatsapp!Return
<1>3. to' = <<>> <=> Len(to) = 1
  <2>1. Len(to) \in Nat /\ (to' = <<>> <=> Len(to') = 0)
    BY <1>1, <1>2, EmptySeq, LenProperties
  <2>2. QED
    BY <1>2, <2>1
<1>4. done + 1 \in DOMAIN log
  <2>1. DOMAIN log = 1 .. Len(log)
    BY LenProperties DEF WhatsappInv, WhatsappTypes
  <2>2. QED
    BY <1>1, <2>1
<1>5. QED
  BY <1>2, <1>3, <1>4 DEF Whatsapp!Return, Whatsapp!Next1

(* A handler that returns without a setting, or with the one it remembered. *)
LEMMA WhatsappHandlerStep ==
  ASSUME WhatsappInv,
         \/ Whatsapp!Tell
         \/ \E h \in Whatsapp!Handlers : Whatsapp!Pass(h) \/ Whatsapp!Hand(h) \/ Whatsapp!LetGo(h)
  PROVE  WhatsappInv'
<1>. USE ProvidersAssumption DEF Whatsapp!TimersAreNumbers
<1>1. /\ to # <<>> /\ Whatsapp!Return
      /\ UNCHANGED <<init, paired, op, handlers, expiration, ended, reply>>
  BY DEF Whatsapp!Tell, Whatsapp!Pass, Whatsapp!Hand, Whatsapp!LetGo, Whatsapp!client
<1>2. /\ to' \in Seq(WhatsappCalls \cup {Watch}) /\ remembered' = FALSE /\ log' = log
      /\ done + 1 \in DOMAIN log
      /\ IF to' = <<>> THEN done' = done + 1 ELSE done' = done
  BY <1>1, HandlerReturns
<1>3. /\ told' \subseteq DOMAIN log
      /\ \/ settled' = settled
         \/ /\ settled' = done + 1 /\ Whatsapp!Settles(log[done + 1])
            /\ log[done + 1].timer = expiration
  <2>1. CASE Whatsapp!Tell
    BY <1>2, <2>1 DEF Whatsapp!Tell, Whatsapp!Next1, WhatsappInv, WhatsappTypes, Whatsapp!TypeOK
  <2>2. CASE \E h \in Whatsapp!Handlers : Whatsapp!LetGo(h)
    BY <2>2 DEF Whatsapp!LetGo, WhatsappInv, WhatsappTypes, Whatsapp!TypeOK
  <2>3. CASE \E h \in Whatsapp!Handlers : Whatsapp!Pass(h) \/ Whatsapp!Hand(h)
    <3>1. PICK h \in Whatsapp!Handlers : Whatsapp!Pass(h) \/ Whatsapp!Hand(h)
      BY <2>3
    <3>2. Whatsapp!Settle(h) /\ told' = told
      BY <3>1 DEF Whatsapp!Pass, Whatsapp!Hand
    <3>3. h \in Listeners /\ Whatsapp!Settles(Whatsapp!Now) => remembered
      BY <3>1 DEF Whatsapp!Pass, Whatsapp!Hand, Whatsapp!Nothing, Whatsapp!Forwards,
                  Whatsapp!Settles
    <3>4. QED
      BY <3>2, <3>3 DEF Whatsapp!Settle, Whatsapp!Now, Whatsapp!Next1, WhatsappInv,
                        WhatsappTypes, Whatsapp!TypeOK
  <2>4. QED
    BY <2>1, <2>2, <2>3
<1>4. settled \in Nat /\ done \in Nat /\ settled <= done + 1 /\ settled' \in 0 .. Len(log)
      /\ Len(log) \in Nat /\ DOMAIN log = 1 .. Len(log)
  BY <1>2, <1>3 DEF WhatsappInv, WhatsappTypes, Whatsapp!TypeOK
<1>5. WhatsappTypes'
  <2>1. {paired, remembered}' \subseteq BOOLEAN
    BY <1>1, <1>2 DEF WhatsappInv, WhatsappTypes, Whatsapp!TypeOK
  <2>2. done' \in 0 .. Len(log)
    BY <1>2, <1>4
  <2>3. QED
    BY <1>1, <1>2, <1>3, <1>4, <2>1, <2>2 DEF WhatsappInv, WhatsappTypes, Whatsapp!TypeOK
<1>6. \/ settled' = 0 /\ expiration = Whatsapp!Unknown
      \/ SettledSince(settled, expiration)'
  BY <1>1, <1>2, <1>3, <1>4 DEF WhatsappInv, SettledSince, Whatsapp!Settles
<1>7. ReplyIsRecent'
  BY <1>1, <1>2, <1>5 DEF WhatsappInv, WhatsappTypes, ReplyIsRecent, Whatsapp!ReplyIsRecent,
     Whatsapp!Settles
<1>8. \A s \in Senders : op'[s] = "sending" => reply'[s].base <= settled'
  BY <1>1, <1>3, <1>4 DEF WhatsappInv, WhatsappTypes
<1>9. settled' <= done' + (IF to' = <<>> THEN 0 ELSE 1) /\ (to' # <<>> => done' < Len(log'))
  BY <1>2, <1>3, <1>4 DEF WhatsappInv
<1>10. QED
  BY <1>1, <1>2, <1>5, <1>6, <1>7, <1>8, <1>9 DEF WhatsappInv

(* rememberExpiration: the chat has the lifetime of the current event.     *)
LEMMA WhatsappRemember ==
  ASSUME WhatsappInv, NEW l \in Whatsapp!Handlers, Whatsapp!Remember(l)
  PROVE  WhatsappInv'
<1>. USE ProvidersAssumption DEF Whatsapp!TimersAreNumbers
<1>1. /\ UNCHANGED <<init, paired, op, handlers, log, done, to, ended, told, settled, reply>>
      /\ to # <<>> /\ remembered' = TRUE
      /\ expiration' = IF Whatsapp!Settles(log[done + 1]) THEN log[done + 1].timer ELSE expiration
  BY DEF Whatsapp!Remember, Whatsapp!client, Whatsapp!Now, Whatsapp!Next1
<1>2. /\ done + 1 \in DOMAIN log /\ log[done + 1] \in Whatsapp!Events
      /\ done \in Nat /\ settled \in Nat /\ settled <= done + 1
  BY <1>1 DEF WhatsappInv, WhatsappTypes, Whatsapp!TypeOK
<1>3. expiration' \in Timers \cup {Whatsapp!Unknown}
  BY <1>1, <1>2 DEF WhatsappInv, WhatsappTypes, Whatsapp!TypeOK, Whatsapp!Events
<1>4. WhatsappTypes'
  BY <1>1, <1>3 DEF WhatsappInv, WhatsappTypes, Whatsapp!TypeOK
<1>5. \/ settled' = 0 /\ expiration' = Whatsapp!Unknown
      \/ SettledSince(settled, expiration)'
  BY <1>1, <1>2 DEF WhatsappInv, SettledSince, Whatsapp!Settles
<1>6. ReplyIsRecent'
  BY <1>1, <1>4 DEF WhatsappInv, WhatsappTypes, ReplyIsRecent, Whatsapp!ReplyIsRecent,
     Whatsapp!Settles
<1>7. QED
  BY <1>1, <1>4, <1>5, <1>6 DEF WhatsappInv, Whatsapp!Settles

(* Events taken up, or that nobody handles.                                *)
LEMMA WhatsappDispatch ==
  ASSUME WhatsappInv, Whatsapp!Dispatch \/ Whatsapp!Ignored
  PROVE  WhatsappInv'
<1>1. /\ UNCHANGED <<init, paired, op, handlers, log, remembered, expiration, ended, told,
                     settled, reply>>
      /\ to = <<>> /\ done < Len(log)
      /\ \/ to' = handlers /\ done' = done /\ handlers # <<>>
         \/ to' = <<>> /\ done' = done + 1
  BY DEF Whatsapp!Dispatch, Whatsapp!Ignored, Whatsapp!client, Whatsapp!Next1
<1>2. WhatsappTypes'
  <2>1. done' \in 0 .. Len(log) /\ told' = told
    BY <1>1 DEF WhatsappInv, WhatsappTypes, Whatsapp!TypeOK, Whatsapp!Dispatch, Whatsapp!Ignored
  <2>2. QED
    BY <1>1, <2>1 DEF WhatsappInv, WhatsappTypes, Whatsapp!TypeOK
<1>3. ReplyIsRecent'
  BY <1>1, <1>2 DEF WhatsappInv, WhatsappTypes, ReplyIsRecent, Whatsapp!ReplyIsRecent,
                    Whatsapp!Settles
<1>4. ~remembered
  BY <1>1 DEF WhatsappInv
<1>5. /\ settled' <= done' + (IF to' = <<>> THEN 0 ELSE 1)
      /\ to' # <<>> => done' < Len(log')
  BY <1>1 DEF WhatsappInv, WhatsappTypes, Whatsapp!TypeOK
<1>6. QED
  BY <1>1, <1>2, <1>3, <1>4, <1>5 DEF WhatsappInv, SettledSince, Whatsapp!Settles

(* A Send takes the lifetime the chat has: the option's, or a setting not  *)
(* older than the one at which it began.                                   *)
LEMMA WhatsappSend ==
  ASSUME WhatsappInv, NEW s \in Senders, Whatsapp!Begin(s) \/ Whatsapp!Apply(s)
  PROVE  WhatsappInv'
<1>. USE ProvidersAssumption DEF Whatsapp!TimersAreNumbers
<1>0. /\ settled \in Nat /\ expiration \in Timers \cup {Whatsapp!Unknown}
      /\ op \in [Whatsapp!Callers -> {"idle", "waiting", "got", "sending", "done", "failed"}]
      /\ reply \in [Senders -> [base : Nat,
                               lifetime : Timers \cup {DisappearingTimer, Whatsapp!Unknown}]]
  BY DEF WhatsappInv, WhatsappTypes, Whatsapp!TypeOK
<1>1. UNCHANGED <<init, paired, handlers, log, done, to, remembered, expiration, ended, told,
                  settled>>
  BY DEF Whatsapp!Begin, Whatsapp!Apply, Whatsapp!events
<1>2. s \in Whatsapp!Callers
  BY DEF Whatsapp!Callers
<1>3. CASE Whatsapp!Begin(s)
  <2>1. /\ op' = [op EXCEPT ![s] = "sending"]
        /\ reply' = [reply EXCEPT ![s].base = settled]
    BY <1>3 DEF Whatsapp!Begin
  <2>2. /\ reply' \in [Senders -> [base : Nat,
                               lifetime : Timers \cup {DisappearingTimer, Whatsapp!Unknown}]]
        /\ reply'[s].base = settled
        /\ op' \in [Whatsapp!Callers -> {"idle", "waiting", "got", "sending", "done", "failed"}]
    BY <1>0, <2>1
  <2>3. WhatsappTypes'
    BY <1>1, <2>2 DEF WhatsappInv, WhatsappTypes, Whatsapp!TypeOK
  <2>4. ReplyIsRecent'
    BY <1>0, <1>1, <1>2, <2>1, <2>3 DEF WhatsappInv, WhatsappTypes, ReplyIsRecent,
       Whatsapp!ReplyIsRecent, Whatsapp!Settles, Whatsapp!Callers
  <2>5. QED
    BY <1>0, <1>1, <2>1, <2>2, <2>3, <2>4
       DEF WhatsappInv, SettledSince, Whatsapp!Settles, Whatsapp!Callers
<1>4. CASE Whatsapp!Apply(s)
  <2>1. /\ op' = [op EXCEPT ![s] = "done"] /\ op[s] = "sending"
        /\ reply' = [reply EXCEPT ![s].lifetime =
             IF expiration = Whatsapp!Unknown THEN DisappearingTimer ELSE expiration]
    BY <1>4 DEF Whatsapp!Apply
  <2>2. /\ reply' \in [Senders -> [base : Nat,
                               lifetime : Timers \cup {DisappearingTimer, Whatsapp!Unknown}]]
        /\ op' \in [Whatsapp!Callers -> {"idle", "waiting", "got", "sending", "done", "failed"}]
        /\ reply'[s].base = reply[s].base
        /\ reply'[s].lifetime = IF expiration = Whatsapp!Unknown THEN DisappearingTimer ELSE expiration
    BY <1>0, <2>1
  <2>3. WhatsappTypes'
    BY <1>1, <2>2 DEF WhatsappInv, WhatsappTypes, Whatsapp!TypeOK
  <2>4. reply[s].base \in Nat /\ reply[s].base <= settled
    BY <1>0, <2>1 DEF WhatsappInv
  <2>5. \/ reply'[s].base = 0 /\ reply'[s].lifetime = DisappearingTimer
        \/ \E i \in DOMAIN log :
            /\ i >= reply'[s].base /\ Whatsapp!Settles(log[i])
            /\ log[i].timer = reply'[s].lifetime
    <3>1. CASE settled = 0 /\ expiration = Whatsapp!Unknown
      BY <2>2, <2>4, <3>1
    <3>2. CASE SettledSince(settled, expiration)
      <4>1. PICK k \in DOMAIN log :
              k >= settled /\ Whatsapp!Settles(log[k]) /\ log[k].timer = expiration
        BY <3>2 DEF SettledSince
      <4>2. k \in Nat /\ log[k].timer \in Timers
        <5>1. log \in Seq(Whatsapp!Events)
          BY DEF WhatsappInv, WhatsappTypes
        <5>2. k \in Nat /\ log[k] \in Whatsapp!Events
          BY <5>1
        <5>3. QED
          BY <5>2 DEF Whatsapp!Events
      <4>3. expiration # Whatsapp!Unknown
        BY <4>1, <4>2 DEF Whatsapp!Unknown
      <4>4. k >= reply'[s].base /\ log[k].timer = reply'[s].lifetime
        BY <1>0, <2>2, <2>4, <4>1, <4>2, <4>3
      <4>5. QED
        BY <4>1, <4>4
    <3>3. QED
      BY <3>1, <3>2 DEF WhatsappInv
  <2>6. \A t \in Senders \ {s} : op'[t] = op[t] /\ reply'[t] = reply[t]
    BY <1>0, <2>1 DEF Whatsapp!Callers
  <2>7. ReplyIsRecent'
    <3>1. ASSUME NEW t \in Senders, op'[t] = "done"
          PROVE  \/ reply'[t].base = 0 /\ reply'[t].lifetime = DisappearingTimer
                 \/ \E i \in DOMAIN log :
                      /\ i >= reply'[t].base /\ Whatsapp!Settles(log[i])
                      /\ log[i].timer = reply'[t].lifetime
      <4>1. CASE t = s
        BY <2>5, <4>1
      <4>2. CASE t # s
        BY <2>6, <3>1, <4>2 DEF WhatsappInv, ReplyIsRecent, Whatsapp!ReplyIsRecent
      <4>3. QED
        BY <4>1, <4>2
    <3>2. Whatsapp!TypeOK'
      BY <2>3 DEF WhatsappTypes
    <3>3. QED
      BY <1>1, <3>1, <3>2 DEF ReplyIsRecent, Whatsapp!ReplyIsRecent, Whatsapp!Settles
  <2>8. QED
    BY <1>0, <1>1, <1>2, <2>1, <2>3, <2>6, <2>7 DEF WhatsappInv, SettledSince, Whatsapp!Settles
<1>5. QED
  BY <1>3, <1>4

(* Every step of the provider preserves the invariant.                     *)
LEMMA WhatsappNext == WhatsappInv /\ [Whatsapp!Next]_(Whatsapp!vars) => WhatsappInv'
BY LogGrows, WhatsappClientStep, WhatsappHandlerStep, WhatsappRemember, WhatsappDispatch,
   WhatsappSend DEF Whatsapp!Next

(* A reply has the lifetime carried by an event of the chat, message or    *)
(* reaction, at least as recent as the last one that went through Listen   *)
(* before the Send, and the option's only while none has                   *)
(* (provider/whatsapp, rememberExpiration and applyExpiration).            *)
THEOREM WhatsappReplyIsRecent == Whatsapp!Spec => []ReplyIsRecent
<1>1. WhatsappInv => ReplyIsRecent
  BY DEF WhatsappInv
<1>2. QED
  BY WhatsappInit, WhatsappNext, <1>1, PTL DEF Whatsapp!Spec
-----------------------------------------------------------------------------
(* The part opener.                                                        *)

USE ProvidersAssumption DEF Opener!OpenerAssumption

(* What was read before the limit was reached is a number of bytes.         *)
LEMMA HeadIsNat == Opener!TypeOK => Opener!HeadBytes \in Nat
  BY DEF Opener!TypeOK, Opener!HeadBytes

(* The inductive invariant holds before any call.                          *)
LEMMA OpenerInit == Opener!Init => Opener!IInv
<1>1. SUFFICES ASSUME Opener!Init PROVE Opener!IInv
  OBVIOUS
<1>2. DOMAIN disk = {} /\ disk \in [DOMAIN disk -> Nat]
  BY <1>1 DEF Opener!Init
<1>3. 0 \in 0 .. (MaxInMemory - 1)
  OBVIOUS
<1>4. Opener!TypeOK
  BY <1>1, <1>2, <1>3 DEF Opener!Init, Opener!TypeOK, Opener!Errors
<1>5. QED
  BY <1>1, <1>2, <1>4 DEF Opener!Init, Opener!IInv, Opener!HeldCopy,
                           Opener!BeforeFirstRead, Opener!Replayable,
                           Opener!NoOrphanFile, Opener!NeverNotReplayable

(* What materialization preserves, whether it is the first one or not:     *)
(* everything but the readers, which Serve produces afterwards.            *)
Materialized ==
  /\ openErr' \in Opener!Errors \cup {"nil"}
  /\ openErr' # "ErrNotReplayable"
  /\ buffer' \in 0 .. (MaxInMemory - 1)
  /\ tempPath' \in TempNames \cup {NoFile}
  /\ DOMAIN disk' \subseteq TempNames
  /\ disk' \in [DOMAIN disk' -> Nat]
  /\ lost' \subseteq TempNames
  /\ DOMAIN disk' \subseteq {tempPath'} \cup lost'
  /\ openErr' = "nil" /\ ~released =>
       /\ tempPath' = NoFile => buffer' = source
       /\ tempPath' \in DOMAIN disk' => disk'[tempPath'] = source

(* The first read materializes the source or fails for good.               *)
LEMMA FirstReadMaterializes ==
  ASSUME Opener!IInv, ~resolved, Opener!FirstRead
  PROVE  Materialized
<1>1. /\ ~consumed /\ tempPath = NoFile /\ openErr = "nil" /\ ~released
      /\ DOMAIN disk \subseteq lost
  BY DEF Opener!IInv, Opener!BeforeFirstRead, Opener!NoOrphanFile, Opener!TypeOK
<1>2. Opener!HeadBytes \in Nat /\ source \in Nat
  BY HeadIsNat DEF Opener!IInv, Opener!TypeOK
<1>. USE <1>1, <1>2 DEF Opener!IInv, Opener!TypeOK, Materialized, Opener!Errors
<1>3. CASE Opener!SourceFails
  BY <1>3 DEF Opener!SourceFails, Opener!Fail
<1>4. CASE Opener!KeepInMemory
  BY <1>4 DEF Opener!KeepInMemory, Opener!HeadBytes
<1>5. CASE Opener!Spill
  BY <1>5 DEF Opener!Spill, Opener!WithFile
<1>6. CASE Opener!SpillFails
  BY <1>6 DEF Opener!SpillFails, Opener!Fail, Opener!WithFile
<1>7. QED
  BY <1>3, <1>4, <1>5, <1>6 DEF Opener!FirstRead

(* A read, the first one or a later one, keeps the invariant.              *)
LEMMA OpenStep == Opener!IInv /\ Opener!Open => Opener!IInv'
<1>1. SUFFICES ASSUME Opener!IInv, Opener!Open PROVE Opener!IInv'
  OBVIOUS
<1>2. Materialized /\ resolved' = TRUE /\ consumed' \in BOOLEAN
  <2>1. CASE resolved
    BY <1>1, <2>1 DEF Opener!Open, Opener!Materialize, Opener!copy, Opener!IInv,
                       Opener!TypeOK, Opener!HeldCopy, Opener!NoOrphanFile,
                       Opener!NeverNotReplayable, Materialized
  <2>2. CASE ~resolved
    BY <1>1, <2>2, FirstReadMaterializes DEF Opener!Open, Opener!Materialize,
           Opener!FirstRead
  <2>3. QED
    BY <2>1, <2>2
<1>3. UNCHANGED <<source, once, released>>
  BY <1>1 DEF Opener!Open
<1>4. reads' \subseteq [bytes : Nat, released : BOOLEAN] /\ Opener!Replayable'
  <2>1. CASE reads' = reads
    BY <1>1, <1>3, <2>1 DEF Opener!IInv, Opener!TypeOK, Opener!Replayable
  <2>2. CASE openErr' = "nil" /\ tempPath' \in DOMAIN disk' /\ Opener!Yield(disk'[tempPath'])
    BY <1>1, <1>2, <1>3, <2>2 DEF Opener!Yield, Opener!IInv, Opener!TypeOK,
           Opener!Replayable, Materialized
  <2>3. CASE openErr' = "nil" /\ tempPath' = NoFile /\ Opener!Yield(buffer')
    BY <1>1, <1>2, <1>3, <2>3 DEF Opener!Yield, Opener!IInv, Opener!TypeOK,
           Opener!Replayable, Materialized
  <2>4. QED
    BY <1>1, <2>1, <2>2, <2>3 DEF Opener!Open, Opener!Serve
<1>5. QED
  BY <1>1, <1>2, <1>3, <1>4 DEF Opener!IInv, Opener!TypeOK, Opener!HeldCopy,
         Opener!BeforeFirstRead, Opener!NoOrphanFile, Opener!NeverNotReplayable,
         Materialized

(* The release keeps the invariant: what remains on disk is what could not *)
(* be removed.                                                             *)
LEMMA CloseStep == Opener!IInv /\ Opener!Close => Opener!IInv'
<1>1. SUFFICES ASSUME Opener!IInv, Opener!Close PROVE Opener!IInv'
  OBVIOUS
<1>2. DOMAIN disk' \subseteq lost' /\ Opener!TypeOK'
  <2>1. CASE disk' = Opener!WithoutFile(tempPath) /\ UNCHANGED lost
    BY <1>1, <2>1 DEF Opener!Close, Opener!WithoutFile, Opener!IInv, Opener!TypeOK,
                       Opener!NoOrphanFile
  <2>2. CASE tempPath \in DOMAIN disk /\ lost' = lost \cup {tempPath} /\ UNCHANGED disk
    BY <1>1, <2>2 DEF Opener!Close, Opener!IInv, Opener!TypeOK, Opener!NoOrphanFile
  <2>3. QED
    BY <1>1, <2>1, <2>2 DEF Opener!Close
<1>3. QED
  BY <1>1, <1>2 DEF Opener!Close, Opener!IInv, Opener!TypeOK, Opener!HeldCopy,
                     Opener!BeforeFirstRead, Opener!Replayable, Opener!NoOrphanFile,
                     Opener!NeverNotReplayable

(* A spill file that somebody else removes leaves nothing wrong behind.    *)
LEMMA TempCleanedStep == Opener!IInv /\ Opener!TempCleaned => Opener!IInv'
<1>1. SUFFICES ASSUME Opener!IInv, Opener!TempCleaned PROVE Opener!IInv'
  OBVIOUS
<1>2. /\ DOMAIN disk' = DOMAIN disk \ {tempPath}
      /\ disk' \in [DOMAIN disk' -> Nat]
  BY <1>1 DEF Opener!TempCleaned, Opener!WithoutFile, Opener!IInv, Opener!TypeOK
<1>3. QED
  BY <1>1, <1>2 DEF Opener!TempCleaned, Opener!IInv, Opener!TypeOK, Opener!HeldCopy,
                     Opener!BeforeFirstRead, Opener!Replayable, Opener!NoOrphanFile,
                     Opener!NeverNotReplayable

(* Every step keeps the invariant.                                         *)
LEMMA OpenerNext == Opener!IInv /\ [Opener!Next]_(Opener!vars) => Opener!IInv'
<1>1. Opener!IInv /\ UNCHANGED Opener!vars => Opener!IInv'
  BY DEF Opener!vars, Opener!IInv, Opener!TypeOK, Opener!HeldCopy,
          Opener!BeforeFirstRead, Opener!Replayable, Opener!NoOrphanFile,
          Opener!NeverNotReplayable
<1>2. QED
  BY <1>1, OpenStep, CloseStep, TempCleanedStep DEF Opener!Next

(* The invariant holds in every state of a part opener.                    *)
THEOREM OpenerInvariance == Opener!Spec => []Opener!IInv
  BY OpenerInit, OpenerNext, PTL DEF Opener!Spec

(* Every reader returned before the copy is released yields the whole      *)
(* source (opener.go:22-24), for every size and threshold.                 *)
THEOREM AlwaysReplayable == Opener!Spec => []Replayable
<1>1. Opener!IInv => Replayable
  BY DEF Opener!IInv, Replayable
<1>2. QED
  BY OpenerInvariance, <1>1, PTL

(* No spill file is left on disk that a later CloseFunc would not remove,  *)
(* but those whose removal failed.                                         *)
THEOREM AlwaysNoOrphanFile == Opener!Spec => []NoOrphanFile
<1>1. Opener!IInv => NoOrphanFile
  BY DEF Opener!IInv, NoOrphanFile
<1>2. QED
  BY OpenerInvariance, <1>1, PTL

(* A single use source wrapped in BufferedOpener never reports             *)
(* ErrNotReplayable.                                                       *)
THEOREM AlwaysOpenedOnce == Opener!Spec => []NeverNotReplayable
<1>1. Opener!IInv => NeverNotReplayable
  BY DEF Opener!IInv, NeverNotReplayable
<1>2. QED
  BY OpenerInvariance, <1>1, PTL

(* Once the first read failed, the error stays and no reader is returned.  *)
THEOREM AlwaysFailureIsFinal == Opener!Spec => FailureIsFinal
<1>1. Opener!IInv /\ [Opener!Next]_(Opener!vars) =>
        [openErr # "nil" => reads' = reads /\ openErr' = openErr]_(Opener!vars)
  <2>1. SUFFICES ASSUME Opener!IInv, Opener!Next, openErr # "nil"
                 PROVE  reads' = reads /\ openErr' = openErr
    OBVIOUS
  <2>2. resolved
    BY <2>1 DEF Opener!IInv, Opener!BeforeFirstRead
  <2>3. CASE Opener!Open
    BY <2>1, <2>2, <2>3 DEF Opener!Open, Opener!Materialize, Opener!copy, Opener!Serve
  <2>4. CASE Opener!Close \/ Opener!TempCleaned
    BY <2>4 DEF Opener!Close, Opener!TempCleaned
  <2>5. QED
    BY <2>1, <2>3, <2>4 DEF Opener!Next
<1>2. QED
  BY OpenerInvariance, <1>1, PTL DEF Opener!Spec, FailureIsFinal, Opener!FailureIsFinal

-----------------------------------------------------------------------------
(* Signal.                                                                 *)

\* Where the wire holds a notification.
Notes(frames) == {i \in DOMAIN frames : frames[i] = Reading}
\* what readLoop holds in its hands
Offering == IF reader = "offering" THEN 1 ELSE 0

(* What was passed on was notified before, and is with the listener or in  *)
(* the channel until the application took it.                              *)
RpcInv ==
  /\ Rpc!TypeOK
  /\ client = "none" => reader = "none" /\ listener = "none"
  /\ offered + Offering + Cardinality(Notes(wire)) <= received
  /\ listener # "ended" =>
       offered = handed + notifications + (IF listener = "handing" THEN 1 ELSE 0)
  /\ listener = "ended" /\ ~rpcCancelled =>
       reader = "ended" /\ notifications = 0 /\ handed = offered

(* The notifications on the wire are finitely many.                        *)
LEMMA NotesFinite ==
  ASSUME NEW T, NEW s \in Seq(T)
  PROVE  IsFiniteSet(Notes(s)) /\ Cardinality(Notes(s)) \in Nat
<1>1. IsFiniteSet(1 .. Len(s)) /\ Notes(s) \in SUBSET (1 .. Len(s))
  BY FS_Interval DEF Notes
<1>2. QED
  BY ONLY <1>1, FS_Subset, FS_CardinalityType

(* A frame that is sent adds to them, or not.                              *)
LEMMA NotesAppend ==
  ASSUME NEW T, NEW s \in Seq(T), NEW x \in T
  PROVE  Cardinality(Notes(Append(s, x))) = Cardinality(Notes(s)) + (IF x = Reading THEN 1 ELSE 0)
<1>1. IsFiniteSet(Notes(s)) /\ Cardinality(Notes(s)) \in Nat
  BY ONLY NotesFinite, s \in Seq(T)
<1>2. Notes(Append(s, x)) = IF x = Reading THEN Notes(s) \cup {Len(s) + 1} ELSE Notes(s)
  BY DEF Notes
<1>3. Len(s) + 1 \notin Notes(s)
  BY DEF Notes
<1>4. Cardinality(Notes(s) \cup {Len(s) + 1}) = Cardinality(Notes(s)) + 1
  BY ONLY <1>1, <1>3, FS_AddElement
<1>5. QED
  BY ONLY <1>1, <1>2, <1>4

(* A frame that is read no longer counts.                                  *)
LEMMA NotesTail ==
  ASSUME NEW T, NEW s \in Seq(T), s # <<>>
  PROVE  Cardinality(Notes(s)) = Cardinality(Notes(Tail(s))) + (IF Head(s) = Reading THEN 1 ELSE 0)
<1>. DEFINE Later == Notes(s) \ {1}
<1>0. Tail(s) \in Seq(T)
  OBVIOUS
<1>1. /\ IsFiniteSet(Notes(s)) /\ Cardinality(Notes(s)) \in Nat
      /\ IsFiniteSet(Notes(Tail(s))) /\ Cardinality(Notes(Tail(s))) \in Nat
  BY ONLY <1>0, NotesFinite, s \in Seq(T)
<1>2. 1 \in Notes(s) <=> Head(s) = Reading
  BY DEF Notes
<1>3. ExistsBijection(Notes(Tail(s)), Later)
  <2>. DEFINE up == [i \in Notes(Tail(s)) |-> i + 1]
  <2>1. up \in [Notes(Tail(s)) -> Later]
    BY DEF Notes
  <2>2. \A i, j \in Notes(Tail(s)) : up[i] = up[j] => i = j
    BY DEF Notes
  <2>3. \A k \in Later : k - 1 \in Notes(Tail(s)) /\ up[k - 1] = k
    BY DEF Notes
  <2>4. up \in Injection(Notes(Tail(s)), Later)
    BY ONLY <2>1, <2>2 DEF Injection, IsInjective
  <2>5. up \in Surjection(Notes(Tail(s)), Later)
    BY ONLY <2>1, <2>3 DEF Surjection
  <2>6. QED
    BY ONLY <2>4, <2>5 DEF ExistsBijection, Bijection
<1>4. Cardinality(Later) = Cardinality(Notes(Tail(s)))
  BY <1>1, <1>3, FS_Bijection
<1>5. Cardinality(Later) = IF 1 \in Notes(s) THEN Cardinality(Notes(s)) - 1 ELSE Cardinality(Notes(s))
  BY ONLY <1>1, FS_RemoveElement
<1>6. QED
  BY ONLY <1>1, <1>2, <1>4, <1>5

(* The invariant of the connection holds before anything is connected.     *)
LEMMA RpcInit == Rpc!Init => RpcInv
<1>1. Notes(<<>>) = {} /\ Cardinality({}) = 0
  BY FS_EmptySet DEF Notes
<1>2. Rpc!Init => Rpc!TypeOK
  <2>. SUFFICES ASSUME Rpc!Init PROVE Rpc!TypeOK
    OBVIOUS
  <2>1. wire = <<>> /\ wire \in Seq(Calls \union {Reading})
    BY DEF Rpc!Init
  <2>2. /\ mailbox \in [Calls -> {"empty", "response", "closed"}]
        /\ call \in [Calls -> {"idle", "registered", "waiting", "ok", "error", "cancelled"}]
    BY DEF Rpc!Init
  <2>3. 0 \in 0 .. MaxReceives /\ 0 \in 0 .. NotifyBuffer /\ 0 \in 0 .. 0
    BY SignalAssumption DEF Rpc!RpcAssumption
  <2>4. QED
    BY <2>1, <2>2, <2>3 DEF Rpc!Init, Rpc!TypeOK
<1>3. Rpc!Init => offered + Offering + Cardinality(Notes(wire)) <= received
  <2>. SUFFICES ASSUME Rpc!Init PROVE offered + Offering + Cardinality(Notes(wire)) <= received
    OBVIOUS
  <2>1. offered = 0 /\ received = 0 /\ Offering = 0
    BY DEF Rpc!Init, Offering
  <2>2. Cardinality(Notes(wire)) = 0
    BY <1>1 DEF Rpc!Init
  <2>3. QED
    BY <2>1, <2>2
<1>4. QED
  BY <1>2, <1>3 DEF Rpc!Init, RpcInv

(* Neither the daemon nor the calls touch what the listener is given.      *)
LEMMA RpcDaemon ==
  ASSUME RpcInv,
         Rpc!Connect \/ Rpc!Receive \/ Rpc!Lose \/ \E c \in Calls : Rpc!Respond(c)
  PROVE  RpcInv'
<1>. DEFINE F == Calls \union {Reading}
<1>. USE SignalAssumption DEF Rpc!RpcAssumption
<1>0. /\ Rpc!TypeOK /\ wire \in Seq(F) /\ Cardinality(Notes(wire)) \in Nat
      /\ offered \in Nat /\ received \in Nat /\ Offering \in 0 .. 1
      /\ offered + Offering + Cardinality(Notes(wire)) <= received
  BY NotesFinite DEF RpcInv, Rpc!TypeOK, Offering
<1>1. CASE Rpc!Connect
  BY <1>0, <1>1 DEF RpcInv, Rpc!TypeOK, Rpc!Connect, Rpc!calls, Rpc!consumer, Offering
<1>2. CASE Rpc!Receive
  <2>1. wire' = Append(wire, Reading) /\ received' = received + 1 /\ received' <= MaxReceives
    BY <1>0, <1>2 DEF Rpc!TypeOK, Rpc!Receive
  <2>2. Cardinality(Notes(wire')) = Cardinality(Notes(wire)) + 1
    BY ONLY <1>0, <2>1, NotesAppend, Reading \in F
  <2>3. wire' \in Seq(F) /\ Offering' = Offering
    BY <1>0, <1>2, <2>1 DEF Rpc!Receive, Offering
  <2>4. Rpc!TypeOK'
    BY <1>0, <1>2, <2>1, <2>3 DEF Rpc!TypeOK, Rpc!Receive, Rpc!calls, Rpc!consumer
  <2>5. QED
    BY <1>0, <1>2, <2>1, <2>2, <2>3, <2>4 DEF RpcInv, Rpc!Receive, Rpc!calls, Rpc!consumer
<1>3. CASE Rpc!Lose
  <2>1. Cardinality(Notes(<<>>)) = 0
    BY FS_EmptySet DEF Notes
  <2>2. wire' = wire \/ wire' = <<>>
    BY <1>3 DEF Rpc!Lose
  <2>3. /\ wire' \in Seq(F) /\ Offering' = Offering
        /\ Cardinality(Notes(wire')) \in Nat
        /\ Cardinality(Notes(wire')) <= Cardinality(Notes(wire))
    <3>1. CASE wire' = wire
      BY <1>0, <1>3, <3>1 DEF Rpc!Lose, Offering
    <3>2. CASE wire' = <<>>
      BY <1>0, <1>3, <2>1, <3>2 DEF Rpc!Lose, Offering
    <3>3. QED
      BY <2>2, <3>1, <3>2
  <2>4. Rpc!TypeOK'
    BY <1>0, <1>3, <2>3 DEF Rpc!TypeOK, Rpc!Lose, Rpc!calls, Rpc!consumer
  <2>5. QED
    BY <1>0, <1>3, <2>3, <2>4 DEF RpcInv, Rpc!Lose, Rpc!calls, Rpc!consumer
<1>4. ASSUME NEW c \in Calls, Rpc!Respond(c) PROVE RpcInv'
  <2>1. wire' = Append(wire, c) /\ c \in F /\ c # Reading
    BY <1>4 DEF Rpc!Respond
  <2>2. Cardinality(Notes(wire')) = Cardinality(Notes(wire)) + 0
    BY ONLY <1>0, <2>1, NotesAppend
  <2>3. wire' \in Seq(F) /\ Offering' = Offering
    BY <1>0, <1>4, <2>1 DEF Rpc!Respond, Offering
  <2>4. Rpc!TypeOK'
    BY <1>0, <1>4, <2>3 DEF Rpc!TypeOK, Rpc!Respond, Rpc!calls, Rpc!consumer
  <2>5. QED
    BY <1>0, <1>4, <2>2, <2>3, <2>4 DEF RpcInv, Rpc!Respond, Rpc!calls, Rpc!consumer
<1>5. QED
  BY <1>1, <1>2, <1>3, <1>4

(* readLoop passes on what it took from the wire, one notification at a    *)
(* time, and none once it has ended.                                       *)
LEMMA RpcReadLoop == ASSUME RpcInv, Rpc!ReadLoop PROVE RpcInv'
<1>. DEFINE F == Calls \union {Reading}
<1>. USE SignalAssumption DEF Rpc!RpcAssumption
<1>0. /\ Rpc!TypeOK /\ wire \in Seq(F) /\ Cardinality(Notes(wire)) \in Nat
      /\ offered \in Nat /\ received \in Nat /\ Offering \in 0 .. 1
      /\ offered + Offering + Cardinality(Notes(wire)) <= received
  BY NotesFinite DEF RpcInv, Rpc!TypeOK, Offering
<1>1. CASE Rpc!ReadResponse
  <2>1. wire # <<>> /\ Head(wire) # Reading /\ Head(wire) \in Calls /\ wire' = Tail(wire)
    BY <1>1 DEF Rpc!ReadResponse
  <2>2. Cardinality(Notes(wire)) = Cardinality(Notes(wire')) + 0
    BY ONLY <1>0, <2>1, NotesTail
  <2>3. wire' \in Seq(F) /\ Offering' = Offering /\ Cardinality(Notes(wire')) \in Nat
    <3>1. wire' \in Seq(F) /\ Offering' = Offering
      BY <1>0, <1>1, <2>1 DEF Rpc!ReadResponse, Offering
    <3>2. QED
      BY ONLY <3>1, NotesFinite
  <2>4. mailbox' \in [Calls -> {"empty", "response", "closed"}] /\ pending' \subseteq Calls
    BY <1>0, <1>1, <2>1 DEF Rpc!TypeOK, Rpc!ReadResponse
  <2>5. Rpc!TypeOK'
    BY <1>0, <1>1, <2>3, <2>4 DEF Rpc!TypeOK, Rpc!ReadResponse, Rpc!consumer
  <2>6. QED
    BY <1>0, <1>1, <2>2, <2>3, <2>5 DEF RpcInv, Rpc!ReadResponse, Rpc!consumer
<1>2. CASE Rpc!ReadNotification
  <2>1. wire # <<>> /\ Head(wire) = Reading /\ wire' = Tail(wire)
    BY <1>2 DEF Rpc!ReadNotification
  <2>2. Cardinality(Notes(wire)) = Cardinality(Notes(wire')) + 1
    BY ONLY <1>0, <2>1, NotesTail
  <2>3. wire' \in Seq(F) /\ Offering = 0 /\ Offering' = 1
    BY <1>0, <1>2, <2>1 DEF Rpc!ReadNotification, Offering
  <2>4. Cardinality(Notes(wire')) \in Nat
    BY ONLY <2>3, NotesFinite
  <2>5. Rpc!TypeOK'
    BY <1>0, <1>2, <2>3 DEF Rpc!TypeOK, Rpc!ReadNotification, Rpc!calls, Rpc!consumer
  <2>6. QED
    BY <1>0, <1>2, <2>2, <2>3, <2>4, <2>5 DEF RpcInv, Rpc!ReadNotification, Rpc!calls, Rpc!consumer
<1>3. CASE Rpc!Offer
  <2>1. wire' = wire /\ Offering = 1 /\ Offering' = 0 /\ offered' = offered + 1
    BY <1>0, <1>3 DEF Rpc!TypeOK, Rpc!Offer, Offering, Rpc!socket
  <2>2. Rpc!TypeOK'
    BY <1>0, <1>3, <2>1 DEF Rpc!TypeOK, Rpc!Offer, Rpc!socket, Rpc!calls, Rpc!consumer
  <2>3. QED
    BY <1>0, <1>3, <2>1, <2>2 DEF RpcInv, Rpc!TypeOK, Rpc!Offer, Rpc!socket, Rpc!calls, Rpc!consumer
<1>4. CASE Rpc!Stops
  <2>1. wire' = wire /\ Offering' = 0
    BY <1>0, <1>4 DEF Rpc!TypeOK, Rpc!Stops, Offering, Rpc!socket
  <2>2. Rpc!TypeOK'
    BY <1>0, <1>4 DEF Rpc!TypeOK, Rpc!Stops, Rpc!socket, Rpc!calls, Rpc!consumer
  <2>3. QED
    BY <1>0, <1>4, <2>1, <2>2 DEF RpcInv, Rpc!TypeOK, Rpc!Stops, Rpc!socket, Rpc!calls, Rpc!consumer
<1>5. CASE Rpc!Sweep
  <2>1. wire' = wire /\ Offering' = 0
    BY <1>0, <1>5 DEF Rpc!TypeOK, Rpc!Sweep, Offering, Rpc!socket
  <2>2. Rpc!TypeOK'
    BY <1>0, <1>5 DEF Rpc!TypeOK, Rpc!Sweep, Rpc!socket, Rpc!consumer
  <2>3. QED
    BY <1>0, <1>5, <2>1, <2>2 DEF RpcInv, Rpc!TypeOK, Rpc!Sweep, Rpc!socket, Rpc!consumer
<1>6. QED
  BY <1>1, <1>2, <1>3, <1>4, <1>5 DEF Rpc!ReadLoop

(* The calls leave alone what readLoop and the listener hold.              *)
LEMMA RpcCalls ==
  ASSUME RpcInv, NEW c \in Calls, Rpc!CallStep(c) \/ Rpc!GiveUp(c)
  PROVE  RpcInv'
<1>1. /\ UNCHANGED <<Rpc!socket, reader, offered, notifications, listener, rpcCancelled, handed>>
      /\ Rpc!TypeOK'
  <2>. USE DEF RpcInv, Rpc!TypeOK, Rpc!socket, Rpc!consumer
  <2>1. CASE Rpc!Start(c)
    BY <2>1 DEF Rpc!Start
  <2>2. CASE Rpc!Write(c)
    BY <2>2 DEF Rpc!Write
  <2>3. CASE Rpc!WriteFails(c)
    BY <2>3 DEF Rpc!WriteFails, Rpc!Return
  <2>4. CASE Rpc!TakeResponse(c)
    BY <2>4 DEF Rpc!TakeResponse, Rpc!Return
  <2>5. CASE Rpc!TakeClosed(c)
    BY <2>5 DEF Rpc!TakeClosed, Rpc!Return
  <2>6. CASE Rpc!GiveUp(c)
    BY <2>6 DEF Rpc!GiveUp, Rpc!Return
  <2>7. QED
    BY <2>1, <2>2, <2>3, <2>4, <2>5, <2>6 DEF Rpc!CallStep
<1>2. QED
  BY <1>1 DEF RpcInv, Offering, Rpc!socket

(* The listener takes from the channel and hands on, one at a time; it     *)
(* ends when the channel is closed and empty, or with its context.         *)
LEMMA RpcListener == ASSUME RpcInv, Rpc!Listen \/ Rpc!Cancel \/ Rpc!ListenLoop PROVE RpcInv'
<1>. USE SignalAssumption DEF Rpc!RpcAssumption
<1>1. wire' = wire /\ reader' = reader /\ offered' = offered /\ received' = received
      /\ Offering' = Offering /\ client' = client
  BY DEF Rpc!Listen, Rpc!Cancel, Rpc!ListenLoop, Rpc!Take, Rpc!Skip, Rpc!Hand, Rpc!Drained, Rpc!Close, Rpc!socket, Offering
<1>3. CASE Rpc!Listen
  BY <1>1, <1>3 DEF RpcInv, Rpc!TypeOK, Rpc!Listen, Rpc!socket, Rpc!calls
<1>4. CASE Rpc!Cancel
  BY <1>1, <1>4 DEF RpcInv, Rpc!TypeOK, Rpc!Cancel, Rpc!socket, Rpc!calls
<1>5. CASE Rpc!Take
  BY <1>1, <1>5 DEF RpcInv, Rpc!TypeOK, Rpc!Take, Rpc!socket, Rpc!calls
<1>6. CASE Rpc!Skip
  BY <1>1, <1>6 DEF RpcInv, Rpc!TypeOK, Rpc!Skip, Rpc!socket, Rpc!calls
<1>7. CASE Rpc!Hand
  BY <1>1, <1>7 DEF RpcInv, Rpc!TypeOK, Rpc!Hand, Rpc!socket, Rpc!calls
<1>8. CASE Rpc!Drained
  BY <1>1, <1>8 DEF RpcInv, Rpc!TypeOK, Rpc!Drained, Rpc!socket, Rpc!calls
<1>9. CASE Rpc!Close
  BY <1>1, <1>9 DEF RpcInv, Rpc!TypeOK, Rpc!Close, Rpc!calls
<1>10. QED
  BY <1>3, <1>4, <1>5, <1>6, <1>7, <1>8, <1>9 DEF Rpc!ListenLoop

(* Every step of the connection keeps its invariant.                       *)
LEMMA RpcStep == RpcInv /\ [Rpc!Next]_(Rpc!vars) => RpcInv'
<1>1. RpcInv /\ UNCHANGED Rpc!vars => RpcInv'
  BY DEF RpcInv, Rpc!TypeOK, Offering, Rpc!vars, Rpc!socket, Rpc!calls, Rpc!consumer
<1>2. QED
  BY <1>1, RpcDaemon, RpcReadLoop, RpcCalls, RpcListener DEF Rpc!Next

(* When the channel of Listen is closed because the connection is gone,    *)
(* and not by the end of its context, the application took every message   *)
(* readLoop passed on, and no buffer ever held more than it can            *)
(* (provider/signal: rpc.go, readLoop, and provider.go, Listen).           *)
THEOREM RpcLeavesNothing == Rpc!Spec => []NothingLeftBehind
<1>1. RpcInv => NothingLeftBehind
  BY DEF RpcInv, NothingLeftBehind, Rpc!NothingLeftBehind
<1>2. QED
  BY <1>1, RpcInit, RpcStep, PTL DEF Rpc!Spec

=============================================================================
