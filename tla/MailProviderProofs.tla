------------------------- MODULE MailProviderProofs -------------------------
(* The receiving side of the mail provider, for every number of mails,     *)
(* folders, sessions that run together and mishaps.                        *)
EXTENDS MailProvider, TLAPS, SequenceTheorems

USE MailAssumption DEF NoMail

States == {"idle", "opening", "reading", "handing", "waiting", "ended"}
Producers ==
  [state : {"none", "fetching", "closed"}, todo : SUBSET Mails, wire : Seq(Mails), emails : Seq(Mails)]

Types ==
  /\ mailbox \in [Mails -> {"absent", "unread", "seen"}]
  /\ session \in [Sessions -> States]
  /\ folder \in [Sessions -> 1 .. (Len(Folders) + 1)]
  /\ holding \in [Sessions -> Mails \cup {NoMail}]
  /\ producer \in [Sessions -> Producers]
  /\ handed \in [Sessions -> Seq(Mails)]
  /\ mishaps \in 0 .. MaxMishaps /\ late \subseteq cancelled /\ cancelled \subseteq Sessions
  /\ release \cup lost \subseteq Mails

\* the mails that went to a session
Fetched(s) == Range(handed[s]) \cup ({holding[s]} \ {NoMail}) \cup Content(s)

\* Where the goroutine of a session may stand with what its producer holds.
InStep(s) ==
  /\ session[s] \in {"idle", "opening"} => producer[s] = None
  /\ session[s] \in {"waiting", "ended"} /\ s \notin cancelled => producer[s] = None
  /\ producer[s].state = "none" => producer[s] = None
  /\ producer[s].state = "closed" => producer[s].todo = {} /\ producer[s].wire = <<>>
  /\ Len(producer[s].emails) <= 1
  /\ holding[s] # NoMail <=> session[s] = "handing"
  /\ session[s] \in {"opening", "reading", "handing"} => folder[s] <= Len(Folders)

\* A mail is at one place of a session, and was marked when it got there.
OnePlace(s) ==
  /\ IsInjective(handed[s]) /\ IsInjective(producer[s].wire)
  /\ holding[s] \notin Range(handed[s]) \cup Content(s) \cup producer[s].todo
  /\ Range(handed[s]) \cap (Content(s) \cup producer[s].todo) = {}
  /\ Content(s) \cap producer[s].todo = {}
  /\ Range(producer[s].wire) \cap Range(producer[s].emails) = {}
  /\ \A m \in Fetched(s) : mailbox[m] = "seen"

\* what was marked and went to no session was given up
NoneForgotten ==
  \A m \in Mails : mailbox[m] = "seen" => m \in lost \/ \E s \in Sessions : m \in Fetched(s)

IInv ==
  /\ Types
  /\ \A s \in Sessions : InStep(s) /\ OnePlace(s)
  /\ NoneForgotten
  /\ NothingBuffered

-----------------------------------------------------------------------------
(* The elements of a sequence, by their positions.                         *)
LEMMA ByPosition ==
  ASSUME NEW seq \in Seq(Mails)
  PROVE  /\ Len(seq) \in Nat /\ Range(seq) \subseteq Mails
         /\ \A i \in 1 .. Len(seq) : seq[i] \in Mails /\ seq[i] \in Range(seq)
         /\ \A m : m \in Range(seq) <=> \E i \in 1 .. Len(seq) : seq[i] = m
         /\ IsInjective(seq) <=> \A i, j \in 1 .. Len(seq) : seq[i] = seq[j] => i = j
<1>1. Len(seq) \in Nat /\ DOMAIN seq = 1 .. Len(seq) /\ \A i \in 1 .. Len(seq) : seq[i] \in Mails
  BY LenProperties
<1>2. Range(seq) = {seq[i] : i \in 1 .. Len(seq)}
  BY <1>1, Zenon DEF Range
<1>3. IsInjective(seq) <=> \A i, j \in 1 .. Len(seq) : seq[i] = seq[j] => i = j
  BY <1>1, Zenon DEF IsInjective
<1>4. QED
  BY <1>1, <1>2, <1>3

(* A sequence that is given an element it does not hold.                   *)
LEMMA RangeOfAppend ==
  ASSUME NEW seq \in Seq(Mails), NEW m \in Mails
  PROVE  /\ Append(seq, m) \in Seq(Mails)
         /\ Range(Append(seq, m)) = Range(seq) \cup {m}
         /\ IsInjective(seq) /\ m \notin Range(seq) => IsInjective(Append(seq, m))
<1>. DEFINE longer == Append(seq, m)
<1>1. /\ longer \in Seq(Mails) /\ Len(longer) = Len(seq) + 1
      /\ \A i \in 1 .. Len(seq) : longer[i] = seq[i]
      /\ longer[Len(seq) + 1] = m
  BY AppendProperties
<1>. HIDE DEF longer
<1>2. /\ \A i \in 1 .. Len(longer) : i \in 1 .. Len(seq) \/ i = Len(seq) + 1
      /\ \A i \in 1 .. Len(seq) : i \in 1 .. Len(longer)
      /\ Len(seq) + 1 \in 1 .. Len(longer)
  <2>1. Len(seq) \in Nat
    BY ByPosition
  <2>2. QED
    BY <1>1, <2>1
<1>3. \A x : x \in Range(longer) <=> \E i \in 1 .. Len(longer) : longer[i] = x
  BY <1>1, ByPosition
<1>4. \A x : x \in Range(seq) <=> \E i \in 1 .. Len(seq) : seq[i] = x
  BY ByPosition
<1>5. \A x : x \in Range(longer) <=> x \in Range(seq) \/ x = m
  BY <1>1, <1>2, <1>3, <1>4, Zenon
<1>6. IsInjective(seq) /\ m \notin Range(seq) => IsInjective(longer)
  <2>1. IsInjective(longer) <=> \A i, j \in 1 .. Len(longer) : longer[i] = longer[j] => i = j
    BY <1>1, ByPosition
  <2>2. IsInjective(seq) <=> \A i, j \in 1 .. Len(seq) : seq[i] = seq[j] => i = j
    BY ByPosition
  <2>3. SUFFICES ASSUME IsInjective(seq), m \notin Range(seq),
                        NEW i \in 1 .. Len(longer), NEW j \in 1 .. Len(longer),
                        longer[i] = longer[j]
                 PROVE  i = j
    BY <2>1
  <2>4. CASE i \in 1 .. Len(seq) /\ j \in 1 .. Len(seq)
    BY <1>1, <2>2, <2>3, <2>4, Zenon
  <2>5. QED
    BY <1>1, <1>2, <1>4, <2>3, <2>4, Zenon
<1>7. QED
  BY <1>1, <1>5, <1>6 DEF longer

(* A sequence without its first element.                                   *)
LEMMA RangeOfTail ==
  ASSUME NEW seq \in Seq(Mails), seq # <<>>
  PROVE  /\ Tail(seq) \in Seq(Mails) /\ Head(seq) \in Mails
         /\ Range(seq) = Range(Tail(seq)) \cup {Head(seq)}
         /\ IsInjective(seq) => IsInjective(Tail(seq)) /\ Head(seq) \notin Range(Tail(seq))
<1>. DEFINE rest == Tail(seq)
<1>1. /\ rest \in Seq(Mails) /\ Len(seq) \in Nat \ {0} /\ Head(seq) = seq[1]
      /\ Head(seq) \in Mails /\ Len(rest) = Len(seq) - 1
      /\ \A i \in 1 .. Len(rest) : rest[i] = seq[i + 1]
  BY HeadTailProperties, EmptySeq
<1>. HIDE DEF rest
<1>2. \A i \in 1 .. Len(seq) : i = 1 \/ \E j \in 1 .. Len(rest) : i = j + 1
  <2>1. \A i \in 1 .. Len(seq) : i = 1 \/ (i - 1 \in 1 .. Len(rest) /\ i = (i - 1) + 1)
    BY <1>1
  <2>2. QED
    BY <2>1
<1>3. \A j \in 1 .. Len(rest) : j + 1 \in 1 .. Len(seq) /\ j + 1 # 1
  BY <1>1
<1>4. \A x : x \in Range(seq) <=> x \in Range(rest) \/ x = Head(seq)
  <2>1. \A x : x \in Range(seq) <=> \E i \in 1 .. Len(seq) : seq[i] = x
    BY ByPosition
  <2>2. \A x : x \in Range(rest) <=> \E i \in 1 .. Len(rest) : rest[i] = x
    BY <1>1, ByPosition
  <2>3. 1 \in 1 .. Len(seq)
    BY <1>1
  <2>4. ASSUME NEW i \in 1 .. Len(seq) PROVE seq[i] \in Range(rest) \/ seq[i] = Head(seq)
    <3>1. CASE i = 1
      BY <1>1, <3>1
    <3>2. CASE \E j \in 1 .. Len(rest) : i = j + 1
      <4>1. PICK j \in 1 .. Len(rest) : i = j + 1
        BY <3>2
      <4>2. rest[j] = seq[i]
        BY <1>1, <4>1
      <4>3. QED
        BY <2>2, <4>2, Zenon
    <3>3. QED
      BY <1>2, <3>1, <3>2
  <2>5. ASSUME NEW j \in 1 .. Len(rest) PROVE rest[j] \in Range(seq)
    <3>1. rest[j] = seq[j + 1] /\ j + 1 \in 1 .. Len(seq)
      BY <1>1, <1>3
    <3>2. QED
      BY <2>1, <3>1, Zenon
  <2>6. QED
    BY <1>1, <2>1, <2>2, <2>3, <2>4, <2>5, Zenon
<1>5. IsInjective(seq) => IsInjective(rest) /\ Head(seq) \notin Range(rest)
  <2>1. \A x : x \in Range(rest) <=> \E i \in 1 .. Len(rest) : rest[i] = x
    BY <1>1, ByPosition
  <2>2. IsInjective(rest) <=> \A i, j \in 1 .. Len(rest) : rest[i] = rest[j] => i = j
    BY <1>1, ByPosition
  <2>3. IsInjective(seq) <=> \A i, j \in 1 .. Len(seq) : seq[i] = seq[j] => i = j
    BY ByPosition
  <2>4. 1 \in 1 .. Len(seq) /\ \A i, j \in 1 .. Len(rest) : i + 1 = j + 1 => i = j
    BY <1>1
  <2>5. ASSUME IsInjective(seq), NEW i \in 1 .. Len(rest), NEW j \in 1 .. Len(rest),
               rest[i] = rest[j]
        PROVE  i = j
    <3>1. i + 1 = j + 1
      BY <1>1, <1>3, <2>3, <2>5
    <3>2. QED
      BY <2>4, <3>1
  <2>6. ASSUME IsInjective(seq), NEW j \in 1 .. Len(rest), rest[j] = Head(seq)
        PROVE  FALSE
    <3>1. j + 1 = 1
      BY <1>1, <1>3, <2>3, <2>4, <2>6
    <3>2. QED
      BY <1>3, <3>1
  <2>7. QED
    BY <2>1, <2>2, <2>5, <2>6
<1>6. QED
  BY <1>1, <1>4, <1>5 DEF rest

(* A sequence cut before or after its first element.                       *)
LEMMA RangeOfCut ==
  ASSUME NEW seq \in Seq(Mails), NEW kept \in {0, 1} \cap 0 .. Len(seq)
  PROVE  /\ SubSeq(seq, 1, kept) \in Seq(Mails)
         /\ Range(seq) = Range(SubSeq(seq, 1, kept)) \cup Range(SubSeq(seq, kept + 1, Len(seq)))
         /\ IsInjective(SubSeq(seq, 1, kept))
<1>1. Len(seq) \in Nat /\ \A i \in 1 .. Len(seq) : seq[i] \in Mails
  BY ByPosition
<1>. DEFINE a == SubSeq(seq, 1, kept)
            b == SubSeq(seq, kept + 1, Len(seq))
<1>2. a \in Seq(Mails) /\ Len(a) = kept /\ \A i \in 1 .. kept : a[i] = seq[i]
  BY <1>1, SubSeqProperties
<1>3. /\ b \in Seq(Mails) /\ Len(b) = Len(seq) - kept
      /\ \A i \in 1 .. (Len(seq) - kept) : b[i] = seq[kept + i]
  BY <1>1, SubSeqProperties
<1>. HIDE DEF a, b
<1>4. \A i \in 1 .. Len(seq) :
        i \in 1 .. kept \/ \E j \in 1 .. (Len(seq) - kept) : i = kept + j
  <2>1. \A i \in 1 .. Len(seq) :
          i \in 1 .. kept \/ (i - kept \in 1 .. (Len(seq) - kept) /\ i = kept + (i - kept))
    BY <1>1
  <2>2. QED
    BY <2>1
<1>5. \A i \in 1 .. kept : i \in 1 .. Len(seq)
  BY <1>1
<1>6. \A j \in 1 .. (Len(seq) - kept) : kept + j \in 1 .. Len(seq)
  BY <1>1
<1>7. \A x : x \in Range(seq) <=> x \in Range(a) \/ x \in Range(b)
  <2>1. \A x : x \in Range(seq) <=> \E i \in 1 .. Len(seq) : seq[i] = x
    BY ByPosition
  <2>2. \A x : x \in Range(a) <=> \E i \in 1 .. kept : a[i] = x
    BY <1>2, ByPosition
  <2>3. \A x : x \in Range(b) <=> \E i \in 1 .. (Len(seq) - kept) : b[i] = x
    BY <1>3, ByPosition
  <2>4. ASSUME NEW i \in 1 .. Len(seq) PROVE seq[i] \in Range(a) \/ seq[i] \in Range(b)
    <3>1. CASE i \in 1 .. kept
      BY <1>2, <2>2, <3>1, Zenon
    <3>2. CASE \E j \in 1 .. (Len(seq) - kept) : i = kept + j
      <4>1. PICK j \in 1 .. (Len(seq) - kept) : i = kept + j
        BY <3>2
      <4>2. b[j] = seq[i]
        BY <1>3, <4>1
      <4>3. QED
        BY <2>3, <4>2, Zenon
    <3>3. QED
      BY <1>4, <3>1, <3>2
  <2>5. ASSUME NEW i \in 1 .. kept PROVE a[i] \in Range(seq)
    BY <1>2, <1>5, <2>1, Zenon
  <2>6. ASSUME NEW j \in 1 .. (Len(seq) - kept) PROVE b[j] \in Range(seq)
    <3>1. b[j] = seq[kept + j] /\ kept + j \in 1 .. Len(seq)
      BY <1>3, <1>6
    <3>2. QED
      BY <2>1, <3>1, Zenon
  <2>7. ASSUME NEW x \in Range(seq) PROVE x \in Range(a) \/ x \in Range(b)
    BY <2>1, <2>4, Zenon
  <2>8. ASSUME NEW x \in Range(a) PROVE x \in Range(seq)
    BY <2>2, <2>5, Zenon
  <2>9. ASSUME NEW x \in Range(b) PROVE x \in Range(seq)
    BY <2>3, <2>6, Zenon
  <2>10. QED
    BY <2>7, <2>8, <2>9, Zenon
<1>8. IsInjective(a)
  BY <1>2, ByPosition
<1>9. QED
  BY <1>2, <1>7, <1>8 DEF a, b

(* A sequence of one mail, and of none.                                    *)
LEMMA RangeOfFew ==
  /\ <<>> \in Seq(Mails) /\ Range(<<>>) = {} /\ IsInjective(<<>>) /\ Len(<<>>) = 0
  /\ \A m \in Mails : <<m>> \in Seq(Mails) /\ Range(<<m>>) = {m} /\ Len(<<m>>) = 1
<1>1. <<>> \in Seq(Mails) /\ Len(<<>>) = 0 /\ 1 .. 0 = {}
  BY EmptySeq
<1>2. Range(<<>>) = {} /\ IsInjective(<<>>)
  BY <1>1, ByPosition
<1>3. ASSUME NEW m \in Mails
      PROVE  <<m>> \in Seq(Mails) /\ Range(<<m>>) = {m} /\ Len(<<m>>) = 1
  <2>1. <<m>> \in Seq(Mails) /\ Len(<<m>>) = 1 /\ <<m>>[1] = m /\ 1 .. 1 = {1}
    OBVIOUS
  <2>2. \A x : x \in Range(<<m>>) <=> \E i \in 1 .. Len(<<m>>) : <<m>>[i] = x
    BY <2>1, ByPosition
  <2>. HIDE DEF NoMail
  <2>3. \A x : x \in Range(<<m>>) <=> x = m
    BY <2>1, <2>2
  <2>4. QED
    BY <2>1, <2>3
<1>4. QED
  BY <1>1, <1>2, <1>3

(* What a step of another session leaves as it was.                        *)
LEMMA OthersKeep ==
  ASSUME IInv, NEW s \in Sessions,
         UNCHANGED <<session[s], folder[s], holding[s], producer[s], handed[s]>>,
         cancelled \subseteq cancelled',
         \A m \in Mails : mailbox[m] = "seen" => mailbox'[m] = "seen"
  PROVE  InStep(s)' /\ OnePlace(s)' /\ Fetched(s)' = Fetched(s)
<1>1. Fetched(s) \subseteq Mails
  <2>1. /\ handed[s] \in Seq(Mails) /\ producer[s].wire \in Seq(Mails)
        /\ producer[s].emails \in Seq(Mails) /\ holding[s] \in Mails \cup {NoMail}
    BY DEF IInv, Types, Producers
  <2>2. /\ Range(handed[s]) \subseteq Mails /\ Range(producer[s].wire) \subseteq Mails
        /\ Range(producer[s].emails) \subseteq Mails
    BY <2>1, ByPosition
  <2>3. QED
    BY <2>1, <2>2 DEF Fetched, Content
<1>2. Fetched(s)' = Fetched(s) /\ Content(s)' = Content(s)
  BY DEF Fetched, Content
<1>3. InStep(s)'
  BY DEF IInv, InStep
<1>4. OnePlace(s)'
  <2>1. OnePlace(s)
    BY DEF IInv
  <2>2. \A m \in Fetched(s)' : mailbox'[m] = "seen"
    BY <1>1, <1>2, <2>1 DEF OnePlace
  <2>3. QED
    BY <1>2, <2>1, <2>2 DEF OnePlace
<1>5. QED
  BY <1>2, <1>3, <1>4

(* The invariant holds before anything happens.                            *)
LEMMA InitIInv == Init => IInv
<1>1. SUFFICES ASSUME Init PROVE IInv
  OBVIOUS
<1>2. None \in Producers /\ Len(Folders) \in Nat
  BY RangeOfFew, LenProperties DEF None, Producers
<1>3. Types
  BY <1>1, <1>2, RangeOfFew DEF Init, Types, States
<1>4. ASSUME NEW s \in Sessions PROVE InStep(s) /\ OnePlace(s)
  BY <1>1, RangeOfFew DEF Init, InStep, OnePlace, None, Content, Fetched
<1>5. QED
  BY <1>1, <1>3, <1>4 DEF Init, IInv, NoneForgotten, NothingBuffered

-----------------------------------------------------------------------------
\* The other sessions stay as they are.
Elsewhere(s) ==
  \A t \in Sessions \ {s} :
    UNCHANGED <<session[t], folder[t], holding[t], producer[t], handed[t]>>

(* What a step of one session has to show: its own part of the invariant,  *)
(* and that what it lets go of is given up.                                *)
LEMMA StepOfSession ==
  ASSUME IInv, NEW s \in Sessions,
         Types', InStep(s)', OnePlace(s)',
         Elsewhere(s),
         cancelled \subseteq cancelled', lost \subseteq lost',
         \A m \in Mails : mailbox[m] = "seen" => mailbox'[m] = "seen",
         \A m \in Mails : mailbox'[m] = "seen" /\ mailbox[m] # "seen" => m \in Fetched(s)',
         Fetched(s) \subseteq Fetched(s)' \cup lost',
         release' = release \/ session'[s] \notin {"idle", "ended"} \/ release' = {},
         session'[s] \in {"idle", "ended"} /\ release' # {} => session[s] \in {"idle", "ended"}
  PROVE  IInv'
<1>1. \A t \in Sessions : InStep(t)' /\ OnePlace(t)'
  BY OthersKeep DEF Elsewhere
<1>2. \A t \in Sessions \ {s} : Fetched(t)' = Fetched(t)
  BY OthersKeep DEF Elsewhere
<1>3. NoneForgotten'
  <2>1. SUFFICES ASSUME NEW m \in Mails, mailbox'[m] = "seen"
                 PROVE  m \in lost' \/ \E t \in Sessions : m \in Fetched(t)'
    BY DEF NoneForgotten
  <2>2. CASE mailbox[m] = "seen"
    <3>1. m \in lost \/ \E t \in Sessions : m \in Fetched(t)
      BY <2>2 DEF IInv, NoneForgotten
    <3>2. CASE m \in lost \/ m \in Fetched(s)
      BY <3>2
    <3>3. CASE \E t \in Sessions \ {s} : m \in Fetched(t)
      BY <1>2, <3>3
    <3>4. QED
      BY <3>1, <3>2, <3>3
  <2>3. QED
    BY <2>1, <2>2
<1>4. NothingBuffered'
  BY DEF IInv, NothingBuffered, Elsewhere
<1>5. QED
  BY <1>1, <1>3, <1>4 DEF IInv

\* What the invariant says of one session.
Known(s) ==
  /\ Types /\ InStep(s) /\ OnePlace(s)
  /\ producer[s] \in Producers /\ holding[s] \in Mails \cup {0} /\ handed[s] \in Seq(Mails)
  /\ producer[s].wire \in Seq(Mails) /\ producer[s].emails \in Seq(Mails)
  /\ producer[s].todo \subseteq Mails
  /\ session[s] \in States /\ folder[s] \in 1 .. (Len(Folders) + 1)
  /\ Len(Folders) \in Nat

(* The invariant says it of each.                                          *)
LEMMA OfSession ==
  ASSUME IInv, NEW s \in Sessions
  PROVE  Known(s)
BY LenProperties DEF IInv, Types, Producers, Known

(* Steps that change neither the mails nor where they are.                 *)
LEMMA MoveOfSession ==
  ASSUME IInv, NEW s \in Sessions, Types', InStep(s)',
         \A t \in Sessions \ {s} : UNCHANGED <<session[t], folder[t]>>,
         UNCHANGED <<mailbox, holding, producer, handed, lost>>,
         cancelled \subseteq cancelled',
         release' = release \/ release' = {},
         session'[s] \in {"idle", "ended"} /\ release' # {} => session[s] \in {"idle", "ended"}
  PROVE  IInv'
<1>1. OnePlace(s)' /\ Fetched(s)' = Fetched(s)
  BY DEF IInv, OnePlace, Fetched, Content
<1>2. QED
  BY <1>1, StepOfSession DEF Elsewhere

(* A new mail is at no session.                                            *)
LEMMA ArriveStep ==
  ASSUME IInv, NEW m \in Mails, Arrive(m)
  PROVE  IInv'
<1>1. /\ mailbox' = [mailbox EXCEPT ![m] = "unread"] /\ mailbox[m] = "absent"
      /\ UNCHANGED <<polling, cancelled, producer, mishaps, release, handed, lost>>
  BY DEF Arrive
<1>2. Types'
  BY <1>1 DEF IInv, Types, polling
<1>3. \A k \in Mails : mailbox'[k] = "seen" <=> mailbox[k] = "seen"
  BY <1>1 DEF IInv, Types
<1>4. \A s \in Sessions : InStep(s)' /\ OnePlace(s)' /\ Fetched(s)' = Fetched(s)
  BY <1>1, <1>3, OthersKeep DEF polling
<1>5. QED
  BY <1>1, <1>2, <1>3, <1>4 DEF IInv, NoneForgotten, NothingBuffered, polling

(* The source a Send fetches is given up.                                  *)
LEMMA AnswerStep ==
  ASSUME IInv, NEW a \in Sessions, NEW m \in Mails, Answer(a, m)
  PROVE  IInv'
<1>1. PICK source \in Sources(m) :
        /\ mailbox[source] = "unread"
        /\ mailbox' = [mailbox EXCEPT ![source] = "seen"]
        /\ lost' = lost \cup {source}
  BY DEF Answer
<1>2. source \in Mails /\ UNCHANGED <<polling, cancelled, producer, mishaps, release, handed>>
  BY DEF Answer, Sources
<1>3. Types'
  BY <1>1, <1>2 DEF IInv, Types, polling
<1>4. /\ \A k \in Mails : mailbox[k] = "seen" => mailbox'[k] = "seen"
      /\ \A k \in Mails : mailbox'[k] = "seen" => mailbox[k] = "seen" \/ k \in lost'
  BY <1>1, <1>2 DEF IInv, Types
<1>5. \A s \in Sessions : InStep(s)' /\ OnePlace(s)' /\ Fetched(s)' = Fetched(s)
  BY <1>2, <1>4, OthersKeep DEF polling
<1>6. NoneForgotten'
  BY <1>1, <1>4, <1>5 DEF IInv, NoneForgotten
<1>7. QED
  BY <1>2, <1>3, <1>5, <1>6 DEF IInv, NothingBuffered, polling

(* Steps of the polling goroutine at the bounds of a folder.               *)
LEMMA GotoStep ==
  ASSUME IInv, NEW s \in Sessions, Listen(s) \/ OpenFails(s) \/ Tick(s)
  PROVE  IInv'
<1>0. Known(s)
  BY OfSession
<1>. USE <1>0 DEF Known
<1>1. PICK index \in 1 .. (Len(Folders) + 1) : Goto(s, index)
  <2>1. CASE OpenFails(s)
    <3>1. folder[s] + 1 \in 1 .. (Len(Folders) + 1)
      BY <2>1 DEF OpenFails, InStep
    <3>2. QED
      BY <2>1, <3>1 DEF OpenFails
  <2>2. QED
    BY <2>1 DEF Listen, Tick
<1>2. producer[s] = None /\ session[s] # "handing" /\ session[s] \notin {"ended"}
  BY DEF Listen, OpenFails, Tick, InStep
<1>3. /\ UNCHANGED <<mailbox, holding, cancelled, producer, release, handed, lost>>
      /\ mishaps' \in 0 .. MaxMishaps /\ late' \subseteq cancelled'
  <2>1. CASE Listen(s)
    BY <2>1 DEF Listen, Types
  <2>2. CASE OpenFails(s)
    BY <2>2 DEF OpenFails, Types
  <2>3. CASE Tick(s)
    BY <2>3 DEF Tick, Types
  <2>4. QED
    BY <2>1, <2>2, <2>3
<1>4. /\ folder' = [folder EXCEPT ![s] = index]
      /\ session' = [session EXCEPT ![s] = IF index > Len(Folders) THEN "waiting" ELSE "opening"]
  BY <1>1 DEF Goto
<1>5. Types'
  BY <1>3, <1>4 DEF Types, States
<1>6. InStep(s)'
  BY <1>2, <1>3, <1>4, <1>5 DEF InStep, Types
<1>7. \A t \in Sessions \ {s} : UNCHANGED <<session[t], folder[t]>>
  BY <1>4 DEF Types
<1>8. session'[s] \notin {"idle", "ended"}
  BY <1>4 DEF Types
<1>9. QED
  BY <1>3, <1>5, <1>6, <1>7, <1>8, MoveOfSession

(* The end of a context, and of the goroutine, which releases everything.  *)
LEMMA EndStep ==
  ASSUME IInv, NEW s \in Sessions, End(s) \/ Cancel(s)
  PROVE  IInv'
<1>0. Known(s)
  BY OfSession
<1>. USE <1>0 DEF Known
<1>1. CASE End(s)
  <2>1. Types' /\ InStep(s)'
    BY <1>1 DEF End, Types, States, InStep
  <2>2. QED
    BY <1>1, <2>1, MoveOfSession DEF End, Types
<1>2. CASE Cancel(s)
  <2>1. Types' /\ InStep(s)'
    BY <1>2 DEF Cancel, polling, Types, InStep
  <2>2. QED
    BY <1>2, <2>1, MoveOfSession DEF Cancel, polling
<1>3. QED
  BY <1>1, <1>2

(* The producer of a folder is asked for mails nobody has marked.          *)
LEMMA OpenStep ==
  ASSUME IInv, NEW s \in Sessions, Open(s)
  PROVE  IInv'
<1>0. Known(s)
  BY OfSession
<1>. USE <1>0 DEF Known
<1>. DEFINE todo == Unread(Folders[folder[s]])
<1>1. /\ session[s] = "opening" /\ producer[s] = None
      /\ producer' = [producer EXCEPT ![s] = [None EXCEPT !.state = "fetching", !.todo = todo]]
      /\ session' = [session EXCEPT ![s] = "reading"]
      /\ UNCHANGED <<mailbox, folder, holding, late, cancelled, mishaps, release, handed, lost>>
  BY DEF Open, InStep
<1>2. todo \subseteq Mails /\ \A m \in todo : mailbox[m] # "seen"
  BY DEF Unread
<1>. HIDE DEF todo
<1>3. /\ producer'[s].state = "fetching" /\ producer'[s].todo = todo
      /\ producer'[s].wire = <<>> /\ producer'[s].emails = <<>>
      /\ producer'[s] \in Producers
  BY <1>1, <1>2, RangeOfFew DEF Types, None, Producers
<1>4. Types'
  BY <1>1, <1>3 DEF Types, States
<1>5. session'[s] = "reading" /\ holding[s] = NoMail
  BY <1>1 DEF Types, InStep
<1>6. InStep(s)'
  BY <1>1, <1>3, <1>5, RangeOfFew DEF InStep
<1>7. Content(s)' = {} /\ Content(s) = {}
  BY <1>1, <1>3, RangeOfFew DEF Content, None
<1>8. Fetched(s)' = Fetched(s)
  BY <1>1, <1>7 DEF Fetched
<1>9. OnePlace(s)'
  <2>1. \A m \in todo : m \notin Range(handed[s])
    BY <1>2 DEF OnePlace, Fetched
  <2>2. holding[s] \notin todo
    BY <1>2, <1>5
  <2>3. QED
    BY <1>1, <1>3, <1>5, <1>7, <1>8, <2>1, <2>2, RangeOfFew DEF OnePlace
<1>10. Elsewhere(s)
  BY <1>1 DEF Elsewhere, Types
<1>11. QED
  BY <1>1, <1>4, <1>5, <1>6, <1>8, <1>9, <1>10, StepOfSession

(* A producer that is done leaves nothing behind.                          *)
LEMMA FolderDoneStep ==
  ASSUME IInv, NEW s \in Sessions, FolderDone(s)
  PROVE  IInv'
<1>0. Known(s)
  BY OfSession
<1>. USE <1>0 DEF Known
<1>1. /\ session[s] = "reading" /\ producer[s].state = "closed" /\ producer[s].emails = <<>>
      /\ producer' = [producer EXCEPT ![s] = None]
      /\ folder' = [folder EXCEPT ![s] = folder[s] + 1]
      /\ session' = [session EXCEPT ![s] =
           IF folder[s] + 1 > Len(Folders) THEN "waiting" ELSE "opening"]
      /\ UNCHANGED <<mailbox, holding, late, cancelled, mishaps, release, handed, lost>>
  BY DEF FolderDone, Goto
<1>2. folder[s] + 1 \in 1 .. (Len(Folders) + 1) /\ holding[s] = NoMail
  BY <1>1 DEF InStep
<1>3. None \in Producers /\ producer'[s] = None
  BY <1>1, RangeOfFew DEF None, Producers, Types
<1>4. Types'
  BY <1>1, <1>2, <1>3 DEF Types, States
<1>5. session'[s] = IF folder[s] + 1 > Len(Folders) THEN "waiting" ELSE "opening"
  BY <1>1 DEF Types
<1>6. InStep(s)'
  BY <1>1, <1>2, <1>3, <1>4, <1>5, RangeOfFew DEF InStep, None, Types
<1>7. Content(s) = {} /\ Content(s)' = {}
  BY <1>1, <1>3, RangeOfFew DEF Content, None, InStep
<1>8. Fetched(s)' = Fetched(s)
  BY <1>1, <1>7 DEF Fetched
<1>9. OnePlace(s)'
  BY <1>1, <1>2, <1>3, <1>7, <1>8, RangeOfFew DEF OnePlace, None
<1>10. Elsewhere(s)
  BY <1>1 DEF Elsewhere, Types
<1>11. session'[s] \notin {"idle", "ended"}
  BY <1>5
<1>12. QED
  BY <1>1, <1>4, <1>6, <1>8, <1>9, <1>10, <1>11, StepOfSession

(* A mail goes from the channel to the hand of the polling goroutine.      *)
LEMMA TakeStep ==
  ASSUME IInv, NEW s \in Sessions, Take(s)
  PROVE  IInv'
<1>0. Known(s)
  BY OfSession
<1>. USE <1>0 DEF Known
<1>. DEFINE m == Head(producer[s].emails)
<1>1. /\ session[s] = "reading" /\ producer[s].emails # <<>>
      /\ holding' = [holding EXCEPT ![s] = m] /\ release' = release \cup {m}
      /\ producer' = [producer EXCEPT ![s].emails = <<>>]
      /\ session' = [session EXCEPT ![s] = "handing"]
      /\ UNCHANGED <<mailbox, folder, late, cancelled, mishaps, handed, lost>>
  BY DEF Take
<1>2. m \in Mails /\ Range(producer[s].emails) = {m}
  <2>1. /\ m \in Mails /\ Tail(producer[s].emails) \in Seq(Mails)
        /\ Len(Tail(producer[s].emails)) = Len(producer[s].emails) - 1
        /\ Range(producer[s].emails) = Range(Tail(producer[s].emails)) \cup {m}
        /\ Len(producer[s].emails) \in Nat
    BY <1>1, RangeOfTail, HeadTailProperties, ByPosition
  <2>2. Tail(producer[s].emails) = <<>>
    BY <2>1, EmptySeq DEF InStep
  <2>3. QED
    BY <2>1, <2>2, RangeOfFew
<1>. HIDE DEF m
<1>3. /\ producer'[s].state = producer[s].state /\ producer'[s].todo = producer[s].todo
      /\ producer'[s].wire = producer[s].wire /\ producer'[s].emails = <<>>
      /\ producer'[s] \in Producers
  <2>1. producer'[s] = [producer[s] EXCEPT !.emails = <<>>]
    BY <1>1 DEF Types
  <2>2. QED
    BY <2>1, RangeOfFew DEF Producers
<1>4. Types'
  BY <1>1, <1>2, <1>3 DEF Types, States
<1>5. session'[s] = "handing" /\ holding'[s] = m /\ holding[s] = NoMail /\ m # NoMail
  BY <1>1, <1>2 DEF Types, InStep
<1>6. InStep(s)'
  <2>1. producer[s].state # "none"
    BY <1>1 DEF InStep, None
  <2>2. QED
    BY <1>1, <1>3, <1>5, <2>1, RangeOfFew DEF InStep
<1>7. Content(s) = Content(s)' \cup {m} /\ Content(s)' = Range(producer[s].wire)
  BY <1>2, <1>3, RangeOfFew DEF Content
<1>8. Fetched(s)' = Fetched(s)
  BY <1>1, <1>5, <1>7 DEF Fetched
<1>9. OnePlace(s)'
  BY <1>1, <1>2, <1>3, <1>5, <1>7, <1>8, RangeOfFew DEF OnePlace
<1>10. Elsewhere(s)
  BY <1>1 DEF Elsewhere, Types
<1>11. QED
  BY <1>1, <1>4, <1>5, <1>6, <1>8, <1>9, <1>10, StepOfSession

(* The application takes the mail, or the context ends and it is given up. *)
LEMMA HandStep ==
  ASSUME IInv, NEW s \in Sessions, Hand(s) \/ Abandon(s)
  PROVE  IInv'
<1>0. Known(s)
  BY OfSession
<1>. USE <1>0 DEF Known
<1>1. /\ session[s] = "handing" /\ holding[s] \in Mails /\ holding[s] # NoMail
      /\ holding' = [holding EXCEPT ![s] = NoMail]
      /\ UNCHANGED <<mailbox, folder, late, cancelled, producer, mishaps, release>>
  BY DEF Hand, Abandon, InStep
<1>2. holding'[s] = NoMail /\ Content(s)' = Content(s)
  BY <1>1 DEF Types, Content
<1>3. CASE Hand(s)
  <2>1. /\ handed' = [handed EXCEPT ![s] = Append(handed[s], holding[s])]
        /\ session' = [session EXCEPT ![s] = "reading"] /\ lost' = lost
    BY <1>3 DEF Hand
  <2>2. handed'[s] = Append(handed[s], holding[s]) /\ session'[s] = "reading"
    BY <2>1 DEF Types
  <2>3. /\ handed'[s] \in Seq(Mails) /\ Range(handed'[s]) = Range(handed[s]) \cup {holding[s]}
        /\ IsInjective(handed'[s])
    <3>1. IsInjective(handed[s]) /\ holding[s] \notin Range(handed[s])
      BY DEF OnePlace
    <3>2. QED
      <4>1. handed[s] \in Seq(Mails)
        OBVIOUS
      <4>. HIDE DEF Known
      <4>2. /\ Append(handed[s], holding[s]) \in Seq(Mails)
            /\ Range(Append(handed[s], holding[s])) = Range(handed[s]) \cup {holding[s]}
            /\ IsInjective(Append(handed[s], holding[s]))
        BY <1>1, <3>1, <4>1, RangeOfAppend
      <4>3. QED
        BY <2>2, <4>2
  <2>4. Types'
    BY <1>1, <2>1, <2>2, <2>3 DEF Types, States
  <2>5. InStep(s)'
    BY <1>1, <1>2, <2>2 DEF InStep
  <2>6. Fetched(s)' = Fetched(s)
    BY <1>1, <1>2, <2>3 DEF Fetched
  <2>7. NoMail \notin Range(handed'[s]) \cup Content(s) \cup producer[s].todo
    <3>1. /\ Range(handed'[s]) \subseteq Mails /\ Range(producer[s].wire) \subseteq Mails
          /\ Range(producer[s].emails) \subseteq Mails
      BY <2>3, ByPosition
    <3>2. QED
      BY <3>1 DEF Content
  <2>8. OnePlace(s)'
    BY <1>1, <1>2, <2>3, <2>6, <2>7 DEF OnePlace
  <2>9. Elsewhere(s)
    BY <1>1, <2>1 DEF Elsewhere, Types
  <2>10. QED
    BY <1>1, <2>1, <2>2, <2>4, <2>5, <2>6, <2>8, <2>9, StepOfSession
<1>4. CASE Abandon(s)
  <2>1. /\ handed' = handed /\ lost' = lost \cup {holding[s]} /\ s \in cancelled
        /\ session' = [session EXCEPT ![s] = "waiting"]
    BY <1>4 DEF Abandon
  <2>2. Types' /\ session'[s] = "waiting"
    BY <1>1, <2>1 DEF Types, States
  <2>3. InStep(s)'
    BY <1>1, <1>2, <2>1, <2>2 DEF InStep
  <2>4. Fetched(s) = Fetched(s)' \cup {holding[s]}
    BY <1>1, <1>2, <2>1 DEF Fetched
  <2>5. NoMail \notin Range(handed[s]) \cup Content(s) \cup producer[s].todo
    <3>1. /\ Range(handed[s]) \subseteq Mails /\ Range(producer[s].wire) \subseteq Mails
          /\ Range(producer[s].emails) \subseteq Mails
      BY ByPosition
    <3>2. QED
      BY <3>1 DEF Content
  <2>6. OnePlace(s)'
    BY <1>1, <1>2, <2>1, <2>4, <2>5 DEF OnePlace
  <2>7. Elsewhere(s)
    BY <1>1, <2>1 DEF Elsewhere, Types
  <2>8. QED
    BY <1>1, <2>1, <2>2, <2>3, <2>4, <2>6, <2>7, StepOfSession
<1>5. QED
  BY <1>3, <1>4

-----------------------------------------------------------------------------
(* The producer.                                                           *)

(* What a step of the producer of a session has to show.                   *)
LEMMA StepOfProducer ==
  ASSUME IInv, NEW s \in Sessions, Types',
         NEW p \in Producers, producer' = [producer EXCEPT ![s] = p],
         p.state = producer[s].state \/ (p.state = "closed" /\ p.todo = {} /\ p.wire = <<>>),
         p.todo \subseteq producer[s].todo,
         producer[s].state # "none", producer[s].state = "closed" => p.wire = <<>>,
         UNCHANGED <<polling, cancelled, release, handed>>, lost \subseteq lost',
         Len(p.emails) <= 1, IsInjective(p.wire),
         Range(p.wire) \cap Range(p.emails) = {},
         NEW put \in SUBSET producer[s].todo, put \cap p.todo = {},
         \A m \in Mails : mailbox'[m] = "seen" <=> mailbox[m] = "seen" \/ m \in put,
         Range(p.wire) \cup Range(p.emails) \subseteq Content(s) \cup put,
         Content(s) \subseteq Range(p.wire) \cup Range(p.emails) \cup lost',
         put \subseteq Range(p.wire) \cup Range(p.emails)
  PROVE  IInv'
<1>0. Known(s)
  BY OfSession
<1>1. producer'[s] = p /\ Content(s)' = Range(p.wire) \cup Range(p.emails)
  BY <1>0 DEF Known, Types, Content
<1>2. /\ holding'[s] = holding[s] /\ handed'[s] = handed[s] /\ session'[s] = session[s]
      /\ folder'[s] = folder[s]
  BY DEF polling
<1>3. InStep(s)'
  <2>1. producer[s] # None /\ p.state # "none"
    BY DEF None
  <2>2. QED
    BY <1>0, <1>1, <1>2, <2>1 DEF Known, InStep
<1>4. Fetched(s)' \subseteq Fetched(s) \cup put
  BY <1>1, <1>2 DEF Fetched
<1>5. OnePlace(s)'
  <2>1. /\ Content(s)' \subseteq Content(s) \cup put
        /\ p.todo \subseteq producer[s].todo \ put
    BY <1>1
  <2>2. put \cap (Range(handed[s]) \cup Content(s)) = {} /\ holding[s] \notin put
    BY <1>0 DEF Known, OnePlace
  <2>3. \A m \in Fetched(s)' : mailbox'[m] = "seen"
    <3>1. Fetched(s) \cup put \subseteq Mails
      <4>1. /\ Range(handed[s]) \subseteq Mails /\ Range(producer[s].wire) \subseteq Mails
            /\ Range(producer[s].emails) \subseteq Mails
        BY <1>0, ByPosition DEF Known
      <4>2. QED
        BY <1>0, <4>1 DEF Known, Fetched, Content
    <3>2. QED
      BY <1>0, <1>4, <3>1 DEF Known, OnePlace
  <2>4. QED
    BY <1>0, <1>1, <1>2, <2>1, <2>2, <2>3 DEF Known, OnePlace
<1>6. Fetched(s) \subseteq Fetched(s)' \cup lost' /\ put \subseteq Fetched(s)'
  BY <1>1, <1>2 DEF Fetched
<1>7. Elsewhere(s)
  BY <1>0 DEF Elsewhere, Known, Types, polling
<1>8. QED
  BY <1>2, <1>3, <1>5, <1>6, <1>7, StepOfSession

(* A producer that changes keeps its type.                                 *)
LEMMA ProducersTyped ==
  ASSUME Types, NEW s \in Sessions, NEW p \in Producers,
         producer' = [producer EXCEPT ![s] = p]
  PROVE  producer' \in [Sessions -> Producers]
BY DEF Types

(* The server marks the mail it sends.                                     *)
LEMMA StreamStep ==
  ASSUME IInv, NEW s \in Sessions, Stream(s)
  PROVE  IInv'
<1>0. Known(s)
  BY OfSession
<1>. USE <1>0 DEF Known
<1>1. PICK m \in producer[s].todo :
        /\ mailbox' = [mailbox EXCEPT ![m] = "seen"]
        /\ producer' = [producer EXCEPT ![s].todo = @ \ {m}, ![s].wire = Append(@, m)]
  BY DEF Stream
<1>2. m \in Mails /\ UNCHANGED <<polling, cancelled, mishaps, release, handed, lost>>
  BY DEF Stream
<1>. DEFINE p == [producer[s] EXCEPT !.todo = @ \ {m}, !.wire = Append(@, m)]
<1>3. producer' = [producer EXCEPT ![s] = p]
  BY <1>1 DEF Types
<1>4. /\ p \in Producers /\ p.state = producer[s].state /\ p.todo = producer[s].todo \ {m}
      /\ p.wire = Append(producer[s].wire, m) /\ p.emails = producer[s].emails
  BY <1>2, RangeOfAppend DEF Producers
<1>. HIDE DEF p
<1>5. /\ Range(p.wire) = Range(producer[s].wire) \cup {m}
      /\ IsInjective(p.wire) /\ Range(p.wire) \cap Range(p.emails) = {}
  <2>1. /\ IsInjective(producer[s].wire) /\ m \notin Content(s)
        /\ Range(producer[s].wire) \cap Range(producer[s].emails) = {}
    BY DEF OnePlace
  <2>2. m \notin Range(producer[s].wire) /\ m \notin Range(producer[s].emails)
    BY <2>1 DEF Content
  <2>3. QED
    BY <1>2, <1>4, <2>1, <2>2, RangeOfAppend
<1>6. Types'
  <2>1. UNCHANGED <<session, folder, holding, late>>
    BY <1>2 DEF polling
  <2>2. producer' \in [Sessions -> Producers]
    BY <1>3, <1>4, ProducersTyped
  <2>3. QED
    BY <1>1, <1>2, <1>3, <1>4, <2>1, <2>2 DEF Types
<1>7. producer[s].state = "fetching"
  BY DEF InStep, None, Producers
<1>8. \A k \in Mails : mailbox'[k] = "seen" <=> mailbox[k] = "seen" \/ k \in {m}
  BY <1>1, <1>2 DEF Types
<1>9. QED
  <2>1. Range(p.wire) \cup Range(p.emails) = Content(s) \cup {m}
    BY <1>4, <1>5 DEF Content
  <2>2. Len(p.emails) <= 1
    BY <1>4 DEF InStep
  <2>3. {m} \in SUBSET producer[s].todo /\ {m} \cap p.todo = {} /\ p.todo \subseteq producer[s].todo
    BY <1>4
  <2>4. QED
    BY <1>2, <1>3, <1>4, <1>5, <1>6, <1>7, <1>8, <2>1, <2>2, <2>3, StepOfProducer

(* The network cuts the fetch: at most one mail stays, the others are      *)
(* given up.                                                               *)
LEMMA DisconnectStep ==
  ASSUME IInv, NEW s \in Sessions, Disconnect(s)
  PROVE  IInv'
<1>0. Known(s)
  BY OfSession
<1>. USE <1>0 DEF Known
<1>. DEFINE wire == producer[s].wire
<1>1. PICK kept \in {0, 1} \cap 0 .. Len(wire) :
        /\ producer' = [producer EXCEPT ![s].todo = {}, ![s].wire = SubSeq(wire, 1, kept)]
        /\ lost' = lost \cup Range(SubSeq(wire, kept + 1, Len(wire)))
  BY DEF Disconnect
<1>2. /\ producer[s].state = "fetching" /\ mishaps' \in 0 .. MaxMishaps
      /\ UNCHANGED <<mailbox, polling, cancelled, release, handed>>
  BY DEF Disconnect, Types
<1>. DEFINE p == [producer[s] EXCEPT !.todo = {}, !.wire = SubSeq(wire, 1, kept)]
<1>3. producer' = [producer EXCEPT ![s] = p]
  BY <1>1 DEF Types
<1>4. /\ SubSeq(wire, 1, kept) \in Seq(Mails) /\ IsInjective(SubSeq(wire, 1, kept))
      /\ Range(wire) = Range(SubSeq(wire, 1, kept)) \cup Range(SubSeq(wire, kept + 1, Len(wire)))
      /\ Range(wire) \subseteq Mails
  BY RangeOfCut, ByPosition
<1>5. /\ p \in Producers /\ p.state = producer[s].state /\ p.todo = {}
      /\ p.wire = SubSeq(wire, 1, kept) /\ p.emails = producer[s].emails
  BY <1>4 DEF Producers
<1>. HIDE DEF p
<1>6. Types'
  <2>1. UNCHANGED <<session, folder, holding, late>>
    BY <1>2 DEF polling
  <2>2. producer' \in [Sessions -> Producers]
    BY <1>3, <1>5, ProducersTyped
  <2>3. QED
    BY <1>1, <1>2, <1>3, <1>4, <1>5, <2>1, <2>2 DEF Types
<1>7. /\ Range(p.wire) \cup Range(p.emails) \subseteq Content(s)
      /\ Content(s) \subseteq Range(p.wire) \cup Range(p.emails) \cup lost'
      /\ Range(p.wire) \cap Range(p.emails) = {}
  BY <1>1, <1>4, <1>5 DEF Content, OnePlace
<1>8. Len(p.emails) <= 1 /\ IsInjective(p.wire)
  BY <1>4, <1>5 DEF InStep
<1>9. /\ {} \in SUBSET producer[s].todo /\ {} \cap p.todo = {} /\ p.todo \subseteq producer[s].todo
      /\ lost \subseteq lost'
  BY <1>1, <1>5
<1>10. QED
  BY <1>2, <1>3, <1>5, <1>6, <1>7, <1>8, <1>9, StepOfProducer

(* A body that is given up counts as a mishap, one that is put does not.   *)
LEMMA NextBodyCounts ==
  ASSUME NEW s, Skip(s) \/ Put(s)
  PROVE  mishaps' = mishaps \/ (mishaps < MaxMishaps /\ mishaps' = mishaps + 1)
<1>1. CASE Skip(s)
  BY <1>1, Zenon DEF Skip
<1>2. CASE Put(s)
  <2>1. UNCHANGED <<mailbox, polling, cancelled, mishaps, release, handed, lost>>
    BY <1>2, Zenon DEF Put
  <2>2. mishaps' = mishaps
    BY ONLY <2>1
  <2>3. QED
    BY <2>2, Zenon
<1>3. QED
  BY <1>1, <1>2, Zenon

(* The next body is given up, or put in the channel when there is room.    *)
LEMMA NextBodyStep ==
  ASSUME IInv, NEW s \in Sessions, Skip(s) \/ Put(s)
  PROVE  IInv'
<1>0. Known(s)
  BY OfSession
<1>. USE <1>0 DEF Known
<1>. DEFINE wire == producer[s].wire
<1>1. /\ wire # <<>> /\ mishaps' \in 0 .. MaxMishaps
      /\ UNCHANGED <<mailbox, polling, cancelled, release, handed>>
  <2>1. wire # <<>> /\ UNCHANGED <<mailbox, polling, cancelled, release, handed>>
    BY DEF Skip, Put
  <2>2. mishaps' = mishaps \/ (mishaps < MaxMishaps /\ mishaps' = mishaps + 1)
    BY NextBodyCounts
  <2>3. mishaps \in 0 .. MaxMishaps /\ MaxMishaps \in Nat
    BY DEF Types
  <2>4. mishaps' \in 0 .. MaxMishaps
    BY ONLY <2>2, <2>3
  <2>5. QED
    BY <2>1, <2>4
<1>2. /\ Tail(wire) \in Seq(Mails) /\ Head(wire) \in Mails
      /\ Range(wire) = Range(Tail(wire)) \cup {Head(wire)}
      /\ IsInjective(Tail(wire)) /\ Head(wire) \notin Range(Tail(wire))
  BY <1>1, RangeOfTail DEF OnePlace
<1>3. PICK e \in Seq(Mails) :
        /\ producer' = [producer EXCEPT ![s] = [producer[s] EXCEPT !.wire = Tail(wire), !.emails = e]]
        /\ Len(e) <= 1
        /\ \/ e = producer[s].emails /\ lost' = lost \cup {Head(wire)}
           \/ producer[s].emails = <<>> /\ e = <<Head(wire)>> /\ lost' = lost
  <2>1. CASE Skip(s)
    <3>1. producer' = [producer EXCEPT ![s] =
            [producer[s] EXCEPT !.wire = Tail(wire), !.emails = producer[s].emails]]
      BY <2>1 DEF Skip, Types, Producers
    <3>2. QED
      BY <2>1, <3>1 DEF Skip, InStep
  <2>2. CASE Put(s)
    <3>1. producer' = [producer EXCEPT ![s] =
            [producer[s] EXCEPT !.wire = Tail(wire), !.emails = <<Head(wire)>>]]
      BY <2>2 DEF Put, Types, Producers
    <3>2. /\ <<Head(wire)>> \in Seq(Mails) /\ Len(<<Head(wire)>>) = 1
          /\ producer[s].emails = <<>> /\ lost' = lost
      BY <1>2, <2>2, RangeOfFew DEF Put
    <3>. USE <3>1, <3>2
    <3>. WITNESS <<Head(wire)>> \in Seq(Mails)
    <3>3. QED
      OBVIOUS
  <2>3. QED
    BY <2>1, <2>2
<1>. DEFINE p == [producer[s] EXCEPT !.wire = Tail(wire), !.emails = e]
<1>4. /\ p \in Producers /\ p.state = producer[s].state /\ p.todo = producer[s].todo
      /\ p.wire = Tail(wire) /\ p.emails = e /\ producer' = [producer EXCEPT ![s] = p]
  BY <1>2, <1>3 DEF Producers
<1>. HIDE DEF p
<1>5. Types'
  <2>1. UNCHANGED <<session, folder, holding, late>>
    BY <1>1 DEF polling
  <2>2. producer' \in [Sessions -> Producers]
    BY <1>1, <1>2, <1>3, <1>4 DEF Types
  <2>3. QED
    BY <1>1, <1>2, <1>3, <1>4, <2>1, <2>2 DEF Types
<1>6. producer[s].state = "fetching"
  BY <1>1 DEF InStep, None, Producers
<1>7. /\ Range(p.wire) \cup Range(p.emails) \subseteq Content(s)
      /\ Content(s) \subseteq Range(p.wire) \cup Range(p.emails) \cup lost'
      /\ Range(p.wire) \cap Range(p.emails) = {}
  <2>1. CASE e = producer[s].emails /\ lost' = lost \cup {Head(wire)}
    BY <1>2, <1>4, <2>1 DEF Content, OnePlace
  <2>2. CASE producer[s].emails = <<>> /\ e = <<Head(wire)>> /\ lost' = lost
    <3>1. Range(e) = {Head(wire)} /\ Range(producer[s].emails) = {}
      BY <1>2, <2>2, RangeOfFew
    <3>2. QED
      BY <1>2, <1>4, <3>1 DEF Content
  <2>3. QED
    BY <1>3, <2>1, <2>2
<1>8. IsInjective(p.wire) /\ Len(p.emails) <= 1 /\ lost \subseteq lost'
  BY <1>2, <1>3, <1>4
<1>9. {} \in SUBSET producer[s].todo /\ {} \cap p.todo = {} /\ p.todo \subseteq producer[s].todo
  BY <1>4
<1>10. QED
  BY <1>1, <1>4, <1>5, <1>6, <1>7, <1>8, <1>9, StepOfProducer

(* The producer closes the channel once everything has been put.           *)
LEMMA CloseStep ==
  ASSUME IInv, NEW s \in Sessions, Close(s)
  PROVE  IInv'
<1>0. Known(s)
  BY OfSession
<1>. USE <1>0 DEF Known
<1>. DEFINE p == [producer[s] EXCEPT !.state = "closed"]
<1>1. /\ producer[s].state = "fetching" /\ producer[s].todo = {} /\ producer[s].wire = <<>>
      /\ producer' = [producer EXCEPT ![s] = p]
      /\ UNCHANGED <<mailbox, polling, cancelled, mishaps, release, handed, lost>>
  BY DEF Close, Types
<1>2. /\ p \in Producers /\ p.state = "closed" /\ p.todo = {} /\ p.wire = <<>>
      /\ p.emails = producer[s].emails
  BY <1>1 DEF Producers
<1>. HIDE DEF p
<1>3. Types'
  BY <1>1, <1>2 DEF Types, polling
<1>4. Range(p.wire) \cup Range(p.emails) = Content(s) /\ IsInjective(p.wire) /\ Range(p.wire) = {}
  BY <1>1, <1>2, RangeOfFew DEF Content
<1>5. Len(p.emails) <= 1
  BY <1>2 DEF InStep
<1>6. {} \in SUBSET producer[s].todo /\ {} \cap p.todo = {} /\ p.todo \subseteq producer[s].todo
  BY <1>1, <1>2
<1>7. QED
  BY <1>1, <1>2, <1>3, <1>4, <1>5, <1>6, StepOfProducer

-----------------------------------------------------------------------------
(* Every step preserves the invariant.                                     *)
LEMMA NextIInv == IInv /\ [Next]_vars => IInv'
<1>1. SUFFICES ASSUME IInv, [Next]_vars PROVE IInv'
  OBVIOUS
<1>2. CASE Next
  <2>1. CASE \E m \in Mails : Arrive(m) \/ \E s \in Sessions : Answer(s, m)
    BY <1>1, <2>1, ArriveStep, AnswerStep
  <2>2. ASSUME NEW s \in Sessions,
               \/ Listen(s) \/ Poll(s) \/ OpenFails(s) \/ Hand(s) \/ End(s) \/ Cancel(s)
               \/ Fetch(s) \/ Skip(s) \/ Disconnect(s)
        PROVE  IInv'
    BY <1>1, <2>2, GotoStep, EndStep, OpenStep, FolderDoneStep, TakeStep, HandStep, StreamStep,
       DisconnectStep, NextBodyStep, CloseStep DEF Poll, Fetch
  <2>3. QED
    BY <1>2, <2>1, <2>2 DEF Next
<1>3. CASE UNCHANGED vars
  <2>1. UNCHANGED <<mailbox, session, folder, holding, late, cancelled, producer, mishaps,
                    release, handed, lost>>
    BY <1>3 DEF vars, polling
  <2>2. Types' /\ NothingBuffered'
    BY <1>1, <2>1 DEF IInv, Types, NothingBuffered
  <2>3. \A s \in Sessions : InStep(s)' /\ OnePlace(s)' /\ Fetched(s)' = Fetched(s)
    BY <1>1, <2>1, OthersKeep
  <2>4. NoneForgotten'
    BY <1>1, <2>1, <2>3 DEF IInv, NoneForgotten
  <2>5. QED
    BY <2>2, <2>3, <2>4 DEF IInv
<1>4. QED
  BY <1>1, <1>2, <1>3

(* The invariant of the receiving side.                                    *)
THEOREM Invariance == Spec => []IInv
BY InitIInv, NextIInv, PTL DEF Spec

(* A mail marked as seen on the server was handed over, is on its way to a *)
(* session that still reads it, was left behind by one whose context       *)
(* ended, or was given up; no session hands the same mail over twice       *)
(* (provider/mail, fetchUnreadEmails and checkMailbox).                    *)
THEOREM MailsAccounted == Spec => []SeenIsAccounted
<1>1. ASSUME IInv PROVE SeenIsAccounted
  <2>1. ASSUME NEW s \in Sessions
        PROVE  /\ session[s] \in States /\ folder[s] \in 1 .. (Len(Folders) + 1)
               /\ holding[s] \in Mails \cup {NoMail}
               /\ producer[s].state \in {"none", "fetching", "closed"}
               /\ Content(s) \cup producer[s].todo \subseteq Mails
               /\ IsInjective(handed[s])
    <3>1. Known(s) /\ OnePlace(s)
      BY <1>1, OfSession DEF IInv
    <3>2. Range(producer[s].wire) \subseteq Mails /\ Range(producer[s].emails) \subseteq Mails
      BY <3>1, ByPosition DEF Known
    <3>3. QED
      BY <3>1, <3>2 DEF Known, Content, Producers, OnePlace
  <2>2. TypeOK
    BY <1>1, <2>1 DEF IInv, Types, States, TypeOK
  <2>3. ASSUME NEW m \in Mails, mailbox[m] = "seen", m \notin lost
        PROVE  \E s \in Sessions :
                 \/ m \in Range(handed[s]) \/ holding[s] = m
                 \/ m \in Content(s) /\ (session[s] \in {"reading", "handing"} \/ s \in cancelled)
    <3>1. PICK s \in Sessions : m \in Fetched(s)
      BY <1>1, <2>3 DEF IInv, NoneForgotten
    <3>2. CASE m \in Content(s)
      <4>1. producer[s] # None
        <5>1. Range(None.wire) = {} /\ Range(None.emails) = {}
          BY RangeOfFew DEF None
        <5>2. QED
          BY <3>2, <5>1 DEF Content
      <4>2. session[s] \in {"reading", "handing"} \/ s \in cancelled
        BY <1>1, <4>1, OfSession DEF Known, InStep, States
      <4>3. QED
        BY <3>2, <4>2
    <3>3. QED
      BY <3>1, <3>2 DEF Fetched
  <2>4. QED
    BY <2>1, <2>2, <2>3 DEF SeenIsAccounted
<1>2. QED
  BY <1>1, Invariance, PTL

(* Once no Listen runs, no buffered attachment is left unreleased          *)
(* (provider/mail, the releaseAll the polling goroutine defers).           *)
THEOREM EverythingReleased == Spec => []NothingBuffered
<1>1. IInv => NothingBuffered
  BY DEF IInv
<1>2. QED
  BY <1>1, Invariance, PTL
=============================================================================
