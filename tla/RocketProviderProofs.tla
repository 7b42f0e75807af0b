------------------------ MODULE RocketProviderProofs ------------------------
(* The Rocket.Chat provider, for every number of callers, of messages and  *)
(* of connections lost.                                                    *)
EXTENDS RocketProvider, SequenceTheorems, TLAPS

USE RocketAssumption DEF Callers, Reauths

\* TypeOK, and the types the sequences and the histories have.
ControlTypes ==
  /\ client \in {"none", "kept"} /\ mutex \in Callers \cup {"free"}
  /\ needsLogin \in BOOLEAN /\ listening \in BOOLEAN /\ unusable \in BOOLEAN
  /\ authed \in BOOLEAN /\ heard \in BOOLEAN
  /\ op \in [Callers -> {"idle", "connecting", "watching", "login", "storing", "got",
                         "subscribed", "done", "failed"}]
  /\ reauth \in [Reauths -> {"none", "locking", "login", "storing"}]
  /\ link \in {"none", "up", "down"} /\ leak \in [Callers -> {"none", "up", "down"}]
  /\ report \in {"none", "up", "down"} /\ drops \in 0..MaxDrops

MessageTypes ==
  /\ stream \in Seq(0..MaxMessages) /\ written \in 0..MaxMessages /\ resent \in 0..MaxResent
  /\ again \subseteq 1..written
  /\ update \in [message : 0..MaxMessages, to : Seq(Listeners)]
  /\ listeners \in Seq(Listeners) /\ cancelled \subseteq Listeners
  /\ received \in [Listeners -> SUBSET (1..MaxMessages)]
  /\ handed \in [Listeners -> Seq(0..MaxMessages)]

Types == ControlTypes /\ MessageTypes

-----------------------------------------------------------------------------
(* Messages.                                                               *)

\* One of the messages others wrote, sent when it was written and only then.
New(message) == message # Own /\ message \notin again

(* The server writes in order, and sends again only what it wrote: a new   *)
(* message on its way is newer than all that was sent before it, than what *)
(* is dispatched, and than what a listener met.                            *)
InOrder ==
  /\ \A i \in 1..Len(stream) : stream[i] <= written
  /\ \A i, j \in 1..Len(stream) : i < j /\ New(stream[j]) => stream[i] < stream[j]
  /\ update.message <= written
  /\ \A i \in 1..Len(stream) : New(stream[i]) => update.message < stream[i]

Met ==
  \A l \in Listeners : \A x \in received[l] :
    /\ x <= written
    /\ \A i \in 1..Len(stream) : New(stream[i]) => x < stream[i]
    /\ update.to # <<>> /\ New(update.message) => x <= update.message

\* Only what a listener met was handed over, each message once, and in
\* increasing order but for what was sent again.
Handed ==
  \A l \in Listeners : \A i \in 1..Len(handed[l]) :
    /\ handed[l][i] \in received[l]
    /\ \A j \in 1..(i - 1) :
         /\ handed[l][j] # handed[l][i]
         /\ handed[l][j] < handed[l][i] \/ handed[l][i] \in again

-----------------------------------------------------------------------------
(* Logins.                                                                 *)

Opening == {"connecting", "watching", "login", "storing"}

\* clientMutex is held by the one caller that opens the client, until it is kept.
Locked ==
  /\ \A c \in Callers : op[c] \in Opening <=> mutex = c
  /\ mutex # "free" => client = "none"
  /\ \A c \in Callers : op[c] \in {"got", "subscribed", "done"} => client = "kept"
  /\ listeners # <<>> => client = "kept"
  /\ \A r \in Reauths : reauth[r] \in {"login", "storing"} => client = "kept"

At3(c) == op[c] \in {"watching", "login", "storing"}

\* The connection is the client's, and its last change may still be unreported.
Linked ==
  /\ client = "kept" \/ (\E c \in Callers : At3(c)) => link # "none"
  /\ client # "kept" /\ (\A c \in Callers : ~At3(c)) => link = "none" /\ report = "none"
  /\ client = "kept" \/ (\E c \in Callers : op[c] \in {"login", "storing"}) => listening
  /\ report # "none" => report = link
  /\ link = "down" => ~authed /\ ~heard

\* A login is due, or somebody is about to make one.
Due == needsLogin \/ \E r \in Reauths : reauth[r] \in {"locking", "login"}

(* A connection that is not logged in, once the provider was told so; one  *)
(* that is, but has no subscription, although there are listeners.         *)
LoginDue ==
  (client = "kept" \/ \E c \in Callers : op[c] = "storing")
     /\ ~authed /\ (link = "up" \/ report = "none")
  => Due

SubDue ==
  client = "kept" /\ link = "up" /\ authed /\ ~heard
     /\ (listeners # <<>> \/ \E l \in Listeners : op[l] = "subscribed")
  => Due \/ unusable \/ \E r \in Reauths : reauth[r] = "storing"

IInv == Types /\ InOrder /\ Met /\ Handed /\ Locked /\ Linked /\ LoginDue /\ SubDue

-----------------------------------------------------------------------------
(* Steps.                                                                  *)

\* The bounds are numbers.
LEMMA Bounds == MaxMessages \in Nat /\ MaxResent \in Nat /\ MaxDrops \in Nat /\ Own = 0
OBVIOUS

\* A call that moves on stands somewhere.
LEMMA AtTyped ==
  ASSUME ControlTypes, NEW c \in Callers,
         NEW pc \in {"idle", "connecting", "watching", "login", "storing", "got",
                     "subscribed", "done", "failed"},
         At(c, pc)
  PROVE  op' \in [Callers -> {"idle", "connecting", "watching", "login", "storing", "got",
                              "subscribed", "done", "failed"}]
BY DEF ControlTypes, At

\* What a status changes has its types, and no login is skipped.
LEMMA StatusTyped ==
  ASSUME ControlTypes, NEW status, OnStatus(status)
  PROVE  /\ needsLogin' \in BOOLEAN
         /\ reauth' \in [Reauths -> {"none", "locking", "login", "storing"}]
         /\ \A r \in Reauths : reauth'[r] \in {"login", "storing"} => reauth'[r] = reauth[r]
<1>1. needsLogin' \in BOOLEAN BY DEF OnStatus
<1>2. reauth' = reauth \/ \E r \in Reauths : reauth' = [reauth EXCEPT ![r] = "locking"]
  BY DEF OnStatus, Spawn
<1>3. reauth' \in [Reauths -> {"none", "locking", "login", "storing"}]
  BY <1>2 DEF ControlTypes
<1>4. \A r \in Reauths : reauth'[r] \in {"login", "storing"} => reauth'[r] = reauth[r]
  BY <1>2 DEF ControlTypes
<1> QED BY <1>1, <1>3, <1>4

\* A status keeps a login due, and whoever is storing one.
LEMMA StatusKeepsDue ==
  ASSUME ControlTypes, NEW status, OnStatus(status)
  PROVE  /\ Due => Due'
         /\ \A r \in Reauths : reauth[r] = "storing" => reauth'[r] = "storing"
<1>1. \A r \in Reauths : reauth[r] # "none" => reauth'[r] = reauth[r]
  BY DEF OnStatus, Spawn, ControlTypes
<1>2. needsLogin => needsLogin' \/ Spawn BY DEF OnStatus
<1>3. Spawn => \E r \in Reauths : reauth'[r] = "locking" BY DEF Spawn, ControlTypes
<1> QED BY <1>1, <1>2, <1>3 DEF Due

(* What the server sends is new and newer than all the rest, is sent      *)
(* again, or is a message of the account.                                  *)
LEMMA Sent ==
  ASSUME MessageTypes, InOrder, Met, NEW x \in 0..MaxMessages,
         x = Own \/ x \in again' \/ x = written + 1,
         x <= written', written <= written', written' \in 0..MaxMessages,
         again \subseteq again', stream' = Append(stream, x), UNCHANGED <<update, received>>
  PROVE  stream' \in Seq(0..MaxMessages) /\ InOrder' /\ Met'
<1> DEFINE n == Len(stream)
<1>1. /\ n \in Nat /\ \A i \in 1..n : stream[i] \in 0..MaxMessages
      /\ written \in Nat /\ written' \in Nat /\ x \in Nat /\ update.message \in Nat
  BY Bounds, LenProperties, ElementOfSeq DEF MessageTypes
<1>2. /\ stream' \in Seq(0..MaxMessages) /\ Len(stream') = n + 1 /\ stream'[n + 1] = x
      /\ \A i \in 1..n : stream'[i] = stream[i]
  BY AppendProperties DEF MessageTypes
<1>3. \A i \in 1..(n + 1) : i \in 1..n \/ i = n + 1 BY <1>1
<1>4. \A i \in 1..n : stream[i] \in Nat /\ stream[i] <= written
  BY <1>1, Bounds DEF InOrder
<1>5. \A l \in Listeners : \A y \in received[l] : y \in Nat /\ y <= written
  BY Bounds DEF Met, MessageTypes
<1>6. update.message <= written BY DEF InOrder
<1>7. New(x)' => x = written + 1 BY DEF New
<1>8. \A y : New(y)' => New(y) BY DEF New
<1>9. \A i, j \in 1..n : i < j /\ New(stream[j]) => stream[i] < stream[j] BY DEF InOrder
<1>10. \A i \in 1..n : New(stream[i]) => update.message < stream[i] BY DEF InOrder
<1>11. \A l \in Listeners : \A y \in received[l] : \A i \in 1..n :
         New(stream[i]) => y < stream[i]
  BY DEF Met
<1> HIDE DEF n
<1>12. InOrder'
  <2>1. \A i \in 1..(n + 1) : stream'[i] <= written'
    <3> SUFFICES ASSUME NEW i \in 1..(n + 1) PROVE stream'[i] <= written' OBVIOUS
    <3>1. CASE i \in 1..n BY <1>1, <1>2, <1>4, <3>1
    <3>2. CASE i = n + 1 BY <1>1, <1>2, <3>2
    <3> QED BY <1>3, <3>1, <3>2
  <2>2. \A i, j \in 1..(n + 1) : i < j /\ New(stream[j])' => stream'[i] < stream'[j]
    <3> SUFFICES ASSUME NEW i \in 1..(n + 1), NEW j \in 1..(n + 1), i < j, New(stream[j])'
                 PROVE  stream'[i] < stream'[j]
      OBVIOUS
    <3>1. i \in 1..n BY <1>1
    <3>2. CASE j = n + 1
      <4>1. stream'[j] = written + 1 BY <1>2, <1>7, <3>2 DEF New
      <4>2. stream'[i] \in Nat /\ stream'[i] <= written BY <1>2, <1>4, <3>1
      <4>3. written \in Nat BY <1>1
      <4> QED BY ONLY <4>1, <4>2, <4>3
    <3>3. CASE j \in 1..n
      <4>1. New(stream[j]) BY <1>2, <3>3 DEF New
      <4> QED BY <1>2, <1>9, <3>1, <3>3, <4>1
    <3> QED BY <1>3, <3>2, <3>3
  <2>3. update'.message <= written' BY <1>1, <1>6
  <2>4. \A i \in 1..(n + 1) : New(stream[i])' => update'.message < stream'[i]
    <3> SUFFICES ASSUME NEW i \in 1..(n + 1), New(stream[i])'
                 PROVE  update'.message < stream'[i]
      OBVIOUS
    <3>1. CASE i = n + 1
      <4>1. stream'[i] = written + 1 BY <1>2, <1>7, <3>1 DEF New
      <4> QED BY <1>1, <1>6, <4>1
    <3>2. CASE i \in 1..n
      <4>1. New(stream[i]) BY <1>2, <3>2 DEF New
      <4> QED BY <1>2, <1>10, <3>2, <4>1
    <3> QED BY <1>3, <3>1, <3>2
  <2> QED BY <1>2, <2>1, <2>2, <2>3, <2>4 DEF InOrder
<1>13. Met'
  <2> SUFFICES ASSUME NEW l \in Listeners, NEW y \in received[l]
               PROVE  /\ y <= written'
                      /\ \A i \in 1..(n + 1) : New(stream[i])' => y < stream'[i]
                      /\ update.to # <<>> /\ New(update.message)' => y <= update.message
    BY <1>2 DEF Met
  <2>1. y <= written' BY <1>1, <1>5
  <2>2. ASSUME NEW i \in 1..(n + 1), New(stream[i])' PROVE y < stream'[i]
    <3>1. CASE i = n + 1
      <4>1. stream'[i] = written + 1 BY <1>2, <1>7, <2>2, <3>1 DEF New
      <4> QED BY <1>1, <1>5, <4>1
    <3>2. CASE i \in 1..n
      <4>1. New(stream[i]) BY <1>2, <2>2, <3>2 DEF New
      <4> QED BY <1>2, <1>11, <3>2, <4>1
    <3> QED BY <1>3, <3>1, <3>2
  <2>3. update.to # <<>> /\ New(update.message)' => y <= update.message
    <3>1. New(update.message)' => New(update.message) BY DEF New
    <3> QED BY <3>1 DEF Met
  <2> QED BY <2>1, <2>2, <2>3
<1> QED BY <1>2, <1>12, <1>13

\* The update goes on to the next listener.
LEMMA Passed ==
  ASSUME MessageTypes, update.to # <<>>, Next1
  PROVE  /\ update' \in [message : 0..MaxMessages, to : Seq(Listeners)]
         /\ update'.message = update.message
<1>1. update.to \in Seq(Listeners) BY DEF MessageTypes
<1>2. Tail(update.to) \in Seq(Listeners) BY <1>1, HeadTailProperties
<1> QED BY <1>2 DEF MessageTypes, Next1

\* A listener meets the update: nothing it met before was newer, if it is new.
LEMMA Meets ==
  ASSUME MessageTypes, InOrder, Met, NEW l \in Listeners, Meet(l), Next1,
         UNCHANGED <<stream, written, again>>
  PROVE  /\ received' \in [Listeners -> SUBSET (1..MaxMessages)] /\ InOrder' /\ Met'
         /\ update.message # Own /\ update.message \notin received[l]
         /\ received'[l] = received[l] \cup {update.message}
         /\ \A k \in Listeners : k # l => received'[k] = received[k]
<1>1. /\ update.to # <<>> /\ update.message # Own /\ update.message \notin received[l]
      /\ received' = [received EXCEPT ![l] = @ \cup {update.message}]
  BY DEF Meet, Skipped
<1>2. update'.message = update.message BY <1>1, Passed
<1>3. update.message \in 1..MaxMessages BY <1>1, Bounds DEF MessageTypes
<1>4. /\ received' \in [Listeners -> SUBSET (1..MaxMessages)]
      /\ received'[l] = received[l] \cup {update.message}
      /\ \A k \in Listeners : k # l => received'[k] = received[k]
  BY <1>1, <1>3 DEF MessageTypes
<1>5. InOrder' BY <1>2 DEF InOrder, New
<1>6. Met'
  <2> SUFFICES ASSUME NEW k \in Listeners, NEW x \in received'[k]
               PROVE  /\ x <= written
                      /\ \A i \in 1..Len(stream) : New(stream[i]) => x < stream[i]
                      /\ New(update.message) => x <= update.message
    BY <1>2 DEF Met, New
  <2>1. CASE x = update.message BY <1>3, <2>1 DEF InOrder
  <2>2. CASE x # update.message
    <3>1. x \in received[k] BY <1>4, <2>2
    <3> QED BY <1>1, <3>1 DEF Met
  <2> QED BY <2>1, <2>2
<1> QED BY <1>1, <1>4, <1>5, <1>6

-----------------------------------------------------------------------------
\* Every initial state satisfies the invariant.
LEMMA InitHolds == Init => IInv
<1> SUFFICES ASSUME Init PROVE IInv OBVIOUS
<1>1. Types
  <2>1. \A S : <<>> \in Seq(S) BY EmptySeq
  <2>2. ControlTypes
    <3>1. drops \in 0..MaxDrops BY Bounds DEF Init
    <3> QED BY <3>1 DEF Init, ControlTypes
  <2>3. Idle \in [message : 0..MaxMessages, to : Seq(Listeners)] BY <2>1 DEF Idle
  <2>4. MessageTypes BY <2>1, <2>3 DEF Init, MessageTypes
  <2> QED BY <2>2, <2>4 DEF Types
<1>2. InOrder /\ Met /\ Handed BY EmptySeq DEF Init, InOrder, Met, Handed, Idle, New
<1>3. Locked /\ Linked /\ LoginDue /\ SubDue
  BY DEF Init, Locked, Linked, LoginDue, SubDue, Opening, At3
<1> QED BY <1>1, <1>2, <1>3 DEF IInv

\* Every step keeps the invariant: one case per action.
LEMMA NextKeeps == IInv /\ [Next]_vars => IInv'
<1> SUFFICES ASSUME IInv, [Next]_vars PROVE IInv' OBVIOUS
<1>0. Types /\ InOrder /\ Met /\ Handed /\ Locked /\ Linked /\ LoginDue /\ SubDue BY DEF IInv
<1>1. ASSUME NEW c \in Callers, Enter(c) PROVE IInv'
  <2>1. Types'
    <3>1. ControlTypes'
      <4>1. ControlTypes /\ (At(c, "got") \/ At(c, "connecting"))
        BY <1>0, <1>1 DEF Types, Enter
      <4>2. op' \in [Callers -> {"idle", "connecting", "watching", "login", "storing", "got",
                                "subscribed", "done", "failed"}]
        BY <4>1, AtTyped
      <4>3. mutex' \in Callers \cup {"free"} BY <1>1, <4>1 DEF ControlTypes, Enter
      <4> QED BY <1>1, <4>1, <4>2, <4>3 DEF ControlTypes, Enter, network
    <3>2. MessageTypes'
      BY <1>0, <1>1 DEF Types, MessageTypes, Enter, At, network, server, dispatch
    <3> QED BY <3>1, <3>2 DEF Types
  <2>2. Locked'
    <3>1. /\ op[c] = "idle" /\ mutex = "free"
          /\ UNCHANGED <<client, reauth, listeners>>
      BY <1>1 DEF Enter, network, server, dispatch
    <3>2. CASE client = "kept"
      <4>1. op' = [op EXCEPT ![c] = "got"] /\ mutex' = mutex BY <1>1, <3>2 DEF Enter, At
      <4> QED BY <1>0, <3>1, <3>2, <4>1 DEF Types, ControlTypes, Locked, Opening
    <3>3. CASE client # "kept"
      <4>1. op' = [op EXCEPT ![c] = "connecting"] /\ mutex' = c /\ client = "none"
        BY <1>0, <1>1, <3>3 DEF Enter, At, Types, ControlTypes
      <4> QED BY <1>0, <3>1, <4>1 DEF Types, ControlTypes, Locked, Opening
    <3> QED BY <3>2, <3>3
  <2>3. Linked'
    BY <1>0, <1>1 DEF Types, ControlTypes, MessageTypes, Locked, Linked, Opening, At3, Enter,
       At, network, server, dispatch
  <2>4. LoginDue'
    BY <1>0, <1>1 DEF Types, ControlTypes, MessageTypes, Locked, Linked, LoginDue, Opening,
       Due, Enter, At, network, server, dispatch
  <2>5. SubDue'
    BY <1>0, <1>1 DEF Types, ControlTypes, MessageTypes, Locked, Linked, LoginDue, SubDue,
       Opening, Due, Enter, At, network, server, dispatch
  <2>6. InOrder' /\ Met' /\ Handed'
    BY <1>0, <1>1 DEF InOrder, Met, Handed, New, Enter, At, network, server, dispatch
  <2> QED BY <2>1, <2>2, <2>3, <2>4, <2>5, <2>6 DEF IInv
<1>2. ASSUME NEW c \in Callers, Connect(c) PROVE IInv'
  <2>1. Types'
    <3>1. ControlTypes'
      <4>1. ControlTypes /\ (At(c, "watching") \/ At(c, "failed"))
        BY <1>0, <1>2 DEF Types, Connect
      <4>2. op' \in [Callers -> {"idle", "connecting", "watching", "login", "storing", "got",
                                "subscribed", "done", "failed"}]
        BY <4>1, AtTyped
      <4>3. mutex' \in Callers \cup {"free"} BY <1>2, <4>1 DEF ControlTypes, Connect
      <4>4. /\ link' \in {"none", "up", "down"} /\ UNCHANGED <<leak, report, drops>>
            /\ UNCHANGED <<client, needsLogin, unusable, reauth>>
        BY <1>2, <4>1 DEF ControlTypes, Connect
      <4>5. authed' \in BOOLEAN /\ heard' \in BOOLEAN /\ listening' \in BOOLEAN
        BY <1>2, <4>1, Zenon DEF ControlTypes, Connect
      <4> QED BY <4>1, <4>2, <4>3, <4>4, <4>5 DEF ControlTypes
    <3>2. MessageTypes' BY <1>0, <1>2 DEF Types, MessageTypes, Connect, At, server, dispatch
    <3> QED BY <3>1, <3>2 DEF Types
  <2>2. Locked'
    <3>1. /\ op[c] = "connecting" /\ UNCHANGED <<client, reauth, listeners>>
          /\ \/ op' = [op EXCEPT ![c] = "watching"] /\ mutex' = mutex
             \/ op' = [op EXCEPT ![c] = "failed"] /\ mutex' = "free"
      BY <1>2 DEF Connect, At, dispatch
    <3>2. CASE op' = [op EXCEPT ![c] = "watching"] /\ mutex' = mutex
      BY <1>0, <3>1, <3>2 DEF Types, ControlTypes, Locked, Opening
    <3>3. CASE op' = [op EXCEPT ![c] = "failed"] /\ mutex' = "free"
      BY <1>0, <3>1, <3>3 DEF Types, ControlTypes, Locked, Opening
    <3> QED BY <3>1, <3>2, <3>3
  <2>3. Linked'
    BY <1>0, <1>2 DEF Types, ControlTypes, MessageTypes, Locked, Linked, Opening, At3,
       Connect, At, server, dispatch
  <2>4. LoginDue'
    <3>1. /\ op[c] = "connecting" /\ mutex = c /\ client = "none"
          /\ \A d \in Callers : op[d] # "storing"
      BY <1>0, <1>2 DEF Types, ControlTypes, Locked, Opening, Connect
    <3>2. client' = "none" /\ \A d \in Callers : op'[d] # "storing"
      BY <1>0, <1>2, <3>1 DEF Types, ControlTypes, Connect, At
    <3> QED BY <3>2 DEF LoginDue
  <2>5. SubDue'
    BY <1>0, <1>2 DEF Types, ControlTypes, MessageTypes, Locked, Linked, LoginDue, SubDue,
       Opening, Due, Connect, At, server, dispatch
  <2>6. InOrder' /\ Met' /\ Handed'
    BY <1>0, <1>2 DEF InOrder, Met, Handed, New, Connect, At, server, dispatch
  <2> QED BY <2>1, <2>2, <2>3, <2>4, <2>5, <2>6 DEF IInv
<1>3. ASSUME NEW c \in Callers, Watch(c) PROVE IInv'
  <2>1. Types'
    <3>1. ControlTypes /\ At(c, "login") BY <1>0, <1>3 DEF Types, Watch
    <3>2. op' \in [Callers -> {"idle", "connecting", "watching", "login", "storing", "got",
                              "subscribed", "done", "failed"}]
      BY <3>1, AtTyped
    <3>3. ControlTypes' BY <1>3, <3>1, <3>2 DEF ControlTypes, Watch, network
    <3>4. MessageTypes' BY <1>0, <1>3 DEF Types, MessageTypes, Watch, server, dispatch
    <3> QED BY <3>3, <3>4 DEF Types
  <2>2. Locked'
    BY <1>0, <1>3 DEF Types, ControlTypes, MessageTypes, Locked, Opening, Watch, At, network,
       server, dispatch
  <2>3. Linked'
    BY <1>0, <1>3 DEF Types, ControlTypes, MessageTypes, Locked, Linked, Opening, At3, Watch,
       At, network, server, dispatch
  <2>4. LoginDue'
    BY <1>0, <1>3 DEF Types, ControlTypes, MessageTypes, Locked, Linked, LoginDue, Opening,
       Due, Watch, At, network, server, dispatch
  <2>5. SubDue'
    BY <1>0, <1>3 DEF Types, ControlTypes, MessageTypes, Locked, Linked, LoginDue, SubDue,
       Opening, Due, Watch, At, network, server, dispatch
  <2>6. InOrder' /\ Met' /\ Handed'
    BY <1>0, <1>3 DEF InOrder, Met, Handed, New, Watch, At, network, server, dispatch
  <2> QED BY <2>1, <2>2, <2>3, <2>4, <2>5, <2>6 DEF IInv
<1>4. ASSUME NEW c \in Callers, Login(c) PROVE IInv'
  <2>1. Types'
    BY <1>0, <1>4 DEF Types, ControlTypes, MessageTypes, Login, At, Answered, provider,
       server, dispatch
  <2>2. Locked'
    BY <1>0, <1>4 DEF Types, ControlTypes, MessageTypes, Locked, Opening, Login, At,
       Answered, provider, server, dispatch
  <2>3. Linked'
    BY <1>0, <1>4 DEF Types, ControlTypes, MessageTypes, Locked, Linked, Opening, At3, Login,
       At, Answered, provider, server, dispatch
  <2>4. LoginDue'
    BY <1>0, <1>4 DEF Types, ControlTypes, MessageTypes, Locked, Linked, LoginDue, Opening,
       Due, Login, At, Answered, provider, server, dispatch
  <2>5. SubDue'
    BY <1>0, <1>4 DEF Types, ControlTypes, MessageTypes, Locked, Linked, LoginDue, SubDue,
       Opening, Due, Login, At, Answered, provider, server, dispatch
  <2>6. InOrder' /\ Met' /\ Handed'
    BY <1>0, <1>4 DEF InOrder, Met, Handed, New, Login, At, Answered, provider, server, dispatch
  <2> QED BY <2>1, <2>2, <2>3, <2>4, <2>5, <2>6 DEF IInv
<1>5. ASSUME NEW c \in Callers, Keep(c) PROVE IInv'
  <2>1. Types'
    BY <1>0, <1>5 DEF Types, ControlTypes, MessageTypes, Keep, At, network, server, dispatch
  <2>2. Locked'
    BY <1>0, <1>5 DEF Types, ControlTypes, MessageTypes, Locked, Opening, Keep, At, network,
       server, dispatch
  <2>3. Linked'
    BY <1>0, <1>5 DEF Types, ControlTypes, MessageTypes, Locked, Linked, Opening, At3, Keep,
       At, network, server, dispatch
  <2>4. LoginDue'
    BY <1>0, <1>5 DEF Types, ControlTypes, MessageTypes, Locked, Linked, LoginDue, Opening,
       Due, Keep, At, network, server, dispatch
  <2>5. SubDue'
    BY <1>0, <1>5 DEF Types, ControlTypes, MessageTypes, Locked, Linked, LoginDue, SubDue,
       Opening, Due, Keep, At, network, server, dispatch
  <2>6. InOrder' /\ Met' /\ Handed'
    BY <1>0, <1>5 DEF InOrder, Met, Handed, New, Keep, At, network, server, dispatch
  <2> QED BY <2>1, <2>2, <2>3, <2>4, <2>5, <2>6 DEF IInv
<1>6. ASSUME NEW c \in Callers, GiveUp(c) PROVE IInv'
  <2>1. Types'
    <3>1. ControlTypes'
      <4>1. leak' \in [Callers -> {"none", "up", "down"}]
        BY <1>0, <1>6 DEF Types, ControlTypes, GiveUp
      <4> QED BY <1>0, <1>6, <4>1 DEF Types, ControlTypes, GiveUp, At
    <3>2. MessageTypes' BY <1>0, <1>6 DEF Types, MessageTypes, GiveUp, server, dispatch
    <3> QED BY <3>1, <3>2 DEF Types
  <2>2. Locked'
    BY <1>0, <1>6 DEF Types, ControlTypes, MessageTypes, Locked, Opening, GiveUp, At, server,
       dispatch
  <2>3. Linked'
    BY <1>0, <1>6 DEF Types, ControlTypes, MessageTypes, Locked, Linked, Opening, At3,
       GiveUp, At, server, dispatch
  <2>4. LoginDue'
    BY <1>0, <1>6 DEF Types, ControlTypes, MessageTypes, Locked, Linked, LoginDue, Opening,
       Due, GiveUp, At, server, dispatch
  <2>5. SubDue'
    BY <1>0, <1>6 DEF Types, ControlTypes, MessageTypes, Locked, Linked, LoginDue, SubDue,
       Opening, Due, GiveUp, At, server, dispatch
  <2>6. InOrder' /\ Met' /\ Handed'
    BY <1>0, <1>6 DEF InOrder, Met, Handed, New, GiveUp, At, server, dispatch
  <2> QED BY <2>1, <2>2, <2>3, <2>4, <2>5, <2>6 DEF IInv
<1>7. ASSUME Drop PROVE IInv'
  <2>1. PICK read \in 0..Len(stream) : stream' = SubSeq(stream, 1, read) BY <1>7 DEF Drop
  <2>2. /\ stream \in Seq(0..MaxMessages) /\ Len(stream) \in Nat
        /\ UNCHANGED <<written, again, update, received>>
    BY <1>0, <1>7, LenProperties DEF Types, MessageTypes, Drop, dispatch
  <2>3. /\ stream' \in Seq(0..MaxMessages) /\ Len(stream') = read
        /\ \A i \in 1..read : i \in 1..Len(stream) /\ stream'[i] = stream[i]
    <3>1. SubSeq(stream, 1, read) \in Seq(0..MaxMessages)
      <4>1. \A i \in 1..read : stream[i] \in 0..MaxMessages BY <2>2, ElementOfSeq
      <4> QED BY <2>2, <4>1, SubSeqProperties
    <3> QED BY <2>1, <2>2, <3>1, SubSeqProperties
  <2>4. Types'
    <3>1. ControlTypes'
      <4>1. drops' \in 0..MaxDrops BY <1>0, <1>7, Bounds DEF Types, ControlTypes, Drop
      <4> QED BY <1>0, <1>7, <4>1 DEF Types, ControlTypes, Drop, calls
    <3>2. MessageTypes' BY <1>0, <1>7, <2>3 DEF Types, MessageTypes, Drop, dispatch
    <3> QED BY <3>1, <3>2 DEF Types
  <2>5. InOrder' /\ Met' BY <1>0, <1>7, <2>2, <2>3 DEF InOrder, Met, New
  <2>6. Linked'
    BY <1>0, <1>7 DEF Types, ControlTypes, MessageTypes, Locked, Linked, Opening, At3, Drop,
       calls, dispatch
  <2>7. LoginDue'
    BY <1>0, <1>7 DEF Types, ControlTypes, MessageTypes, Locked, Linked, LoginDue, Opening,
       Due, Drop, calls, dispatch
  <2>8. SubDue' BY <1>7 DEF SubDue, Drop
  <2>9. Handed' /\ Locked' BY <1>0, <1>7 DEF Handed, Locked, Drop, calls, dispatch
  <2> QED BY <2>4, <2>5, <2>6, <2>7, <2>8, <2>9 DEF IInv
<1>8. ASSUME Reconnect PROVE IInv'
  <2>1. Types'
    BY <1>0, <1>8 DEF Types, ControlTypes, MessageTypes, Reconnect, provider, calls, server,
       dispatch
  <2>2. Linked'
    BY <1>0, <1>8 DEF Types, ControlTypes, MessageTypes, Locked, Linked, Opening, At3,
       Reconnect, provider, calls, server, dispatch
  <2>3. LoginDue'
    BY <1>0, <1>8 DEF Types, ControlTypes, MessageTypes, Locked, Linked, LoginDue, Opening,
       Due, Reconnect, provider, calls, server, dispatch
  <2>4. SubDue'
    BY <1>0, <1>8 DEF Types, ControlTypes, MessageTypes, Locked, Linked, LoginDue, SubDue,
       Opening, Due, Reconnect, provider, calls, server, dispatch
  <2>5. InOrder' /\ Met' /\ Handed' /\ Locked'
    BY <1>0, <1>8 DEF InOrder, Met, Handed, New, Locked, Reconnect, provider, calls, server,
       dispatch
  <2> QED BY <2>1, <2>2, <2>3, <2>4, <2>5 DEF IInv
<1>9. ASSUME Status PROVE IInv'
  <2>1. Types'
    <3>1. /\ needsLogin' \in BOOLEAN
          /\ reauth' \in [Reauths -> {"none", "locking", "login", "storing"}]
      BY <1>0, <1>9, StatusTyped DEF Types, ControlTypes, Status
    <3>2. ControlTypes' BY <1>0, <1>9, <3>1 DEF Types, ControlTypes, Status
    <3>3. MessageTypes' BY <1>0, <1>9 DEF Types, MessageTypes, Status, server, dispatch
    <3> QED BY <3>2, <3>3 DEF Types
  <2>2. Locked'
    <3>1. \A r \in Reauths : reauth'[r] \in {"login", "storing"} => reauth'[r] = reauth[r]
      BY <1>0, <1>9, StatusTyped DEF Types, ControlTypes, Status
    <3>2. UNCHANGED <<client, mutex, op, listeners>> BY <1>9 DEF Status, dispatch
    <3> QED BY <1>0, <3>1, <3>2 DEF Locked
  <2>3. Linked'
    BY <1>0, <1>9 DEF Types, ControlTypes, MessageTypes, Locked, Linked, Opening, At3,
       Status, OnStatus, Spawn, server, dispatch
  <2>4. LoginDue'
    BY <1>0, <1>9 DEF Types, ControlTypes, MessageTypes, Locked, Linked, LoginDue, Opening,
       Due, Status, OnStatus, Spawn, server, dispatch
  <2>5. SubDue'
    <3>1. /\ Due => Due'
          /\ \A r \in Reauths : reauth[r] = "storing" => reauth'[r] = "storing"
      BY <1>0, <1>9, StatusKeepsDue DEF Types, Status, Due
    <3>2. UNCHANGED <<client, link, authed, heard, listeners, op, unusable>>
      BY <1>9 DEF Status, dispatch
    <3> QED BY <1>0, <3>1, <3>2 DEF SubDue
  <2>6. InOrder' /\ Met' /\ Handed'
    BY <1>0, <1>9 DEF InOrder, Met, Handed, New, Status, OnStatus, Spawn, server, dispatch
  <2> QED BY <2>1, <2>2, <2>3, <2>4, <2>5, <2>6 DEF IInv
<1>10. ASSUME NEW c \in Callers, LeakedStatus(c) PROVE IInv'
  <2>1. Types'
    <3>1. ControlTypes'
      <4>1. /\ needsLogin' \in BOOLEAN
            /\ reauth' \in [Reauths -> {"none", "locking", "login", "storing"}]
        BY <1>0, <1>10, StatusTyped DEF Types, LeakedStatus
      <4>2. drops' \in 0..MaxDrops /\ leak' \in [Callers -> {"none", "up", "down"}]
        BY <1>0, <1>10, Bounds DEF Types, ControlTypes, LeakedStatus
      <4> QED BY <1>0, <1>10, <4>1, <4>2 DEF Types, ControlTypes, LeakedStatus
    <3>2. MessageTypes'
      BY <1>0, <1>10 DEF Types, MessageTypes, LeakedStatus, OnStatus, Spawn, server, dispatch
    <3> QED BY <3>1, <3>2 DEF Types
  <2>2. Locked'
    <3>1. \A r \in Reauths : reauth'[r] \in {"login", "storing"} => reauth'[r] = reauth[r]
      BY <1>0, <1>10, StatusTyped DEF Types, LeakedStatus
    <3>2. UNCHANGED <<client, mutex, op, listeners>> BY <1>10 DEF LeakedStatus, dispatch
    <3> QED BY <1>0, <3>1, <3>2 DEF Locked
  <2>3. LoginDue'
    BY <1>0, <1>10 DEF Types, ControlTypes, MessageTypes, Locked, Linked, LoginDue, Opening,
       Due, LeakedStatus, OnStatus, Spawn, server, dispatch
  <2>4. SubDue'
    <3>1. /\ Due => Due'
          /\ \A r \in Reauths : reauth[r] = "storing" => reauth'[r] = "storing"
      BY <1>0, <1>10, StatusKeepsDue DEF Types, LeakedStatus, Due
    <3>2. UNCHANGED <<client, link, authed, heard, listeners, op, unusable>>
      BY <1>10 DEF LeakedStatus, dispatch
    <3> QED BY <1>0, <3>1, <3>2 DEF SubDue
  <2>5. InOrder' /\ Met' /\ Handed' /\ Linked'
    BY <1>0, <1>10 DEF InOrder, Met, Handed, New, Linked, At3, LeakedStatus, OnStatus, Spawn,
       server, dispatch
  <2> QED BY <2>1, <2>2, <2>3, <2>4, <2>5 DEF IInv
<1>11. ASSUME NEW r \in Reauths, ReauthTake(r) PROVE IInv'
  <2>1. Types'
    BY <1>0, <1>11 DEF Types, ControlTypes, MessageTypes, ReauthTake, provider, network,
       server, dispatch
  <2>2. Locked'
    BY <1>0, <1>11 DEF Types, ControlTypes, MessageTypes, Locked, Opening, ReauthTake,
       provider, network, server, dispatch
  <2>3. LoginDue'
    BY <1>0, <1>11 DEF Types, ControlTypes, MessageTypes, Locked, Linked, LoginDue, Opening,
       Due, ReauthTake, provider, network, server, dispatch
  <2>4. SubDue'
    BY <1>0, <1>11 DEF Types, ControlTypes, MessageTypes, Locked, Linked, LoginDue, SubDue,
       Opening, Due, ReauthTake, provider, network, server, dispatch
  <2>5. InOrder' /\ Met' /\ Handed' /\ Linked'
    BY <1>0, <1>11 DEF InOrder, Met, Handed, New, Linked, At3, ReauthTake, provider, network,
       server, dispatch
  <2> QED BY <2>1, <2>2, <2>3, <2>4, <2>5 DEF IInv
<1>12. ASSUME NEW r \in Reauths, ReauthLogin(r) PROVE IInv'
  <2>1. Types'
    <3>1. ControlTypes' BY <1>0, <1>12 DEF Types, ControlTypes, ReauthLogin, provider
    <3>2. MessageTypes' BY <1>0, <1>12 DEF Types, MessageTypes, ReauthLogin, server, dispatch
    <3> QED BY <3>1, <3>2 DEF Types
  <2>2. Locked'
    BY <1>0, <1>12 DEF Types, ControlTypes, MessageTypes, Locked, Opening, ReauthLogin,
       Answered, provider, server, dispatch
  <2>3. Linked'
    BY <1>0, <1>12 DEF Types, ControlTypes, MessageTypes, Locked, Linked, Opening, At3,
       ReauthLogin, Answered, provider, server, dispatch
  <2>4. LoginDue'
    BY <1>0, <1>12 DEF Types, ControlTypes, MessageTypes, Locked, Linked, LoginDue, Opening,
       Due, ReauthLogin, Answered, provider, server, dispatch
  <2>5. SubDue'
    BY <1>0, <1>12 DEF Types, ControlTypes, MessageTypes, Locked, Linked, LoginDue, SubDue,
       Opening, Due, ReauthLogin, Answered, provider, server, dispatch
  <2>6. InOrder' /\ Met' /\ Handed'
    BY <1>0, <1>12 DEF InOrder, Met, Handed, New, ReauthLogin, Answered, provider, server, dispatch
  <2> QED BY <2>1, <2>2, <2>3, <2>4, <2>5, <2>6 DEF IInv
<1>13. ASSUME NEW r \in Reauths, ReauthRefused(r) PROVE IInv'
  <2>1. Types'
    BY <1>0, <1>13 DEF Types, ControlTypes, MessageTypes, ReauthRefused, network, server,
       dispatch
  <2>2. Locked'
    BY <1>0, <1>13 DEF Types, ControlTypes, MessageTypes, Locked, Opening, ReauthRefused,
       network, server, dispatch
  <2>3. LoginDue'
    BY <1>0, <1>13 DEF Types, ControlTypes, MessageTypes, Locked, Linked, LoginDue, Opening,
       Due, ReauthRefused, network, server, dispatch
  <2>4. SubDue'
    BY <1>0, <1>13 DEF Types, ControlTypes, MessageTypes, Locked, Linked, LoginDue, SubDue,
       Opening, Due, ReauthRefused, network, server, dispatch
  <2>5. InOrder' /\ Met' /\ Handed' /\ Linked'
    BY <1>0, <1>13 DEF InOrder, Met, Handed, New, Linked, At3, ReauthRefused, network, server,
       dispatch
  <2> QED BY <2>1, <2>2, <2>3, <2>4, <2>5 DEF IInv
<1>14. ASSUME NEW r \in Reauths, ReauthStore(r) PROVE IInv'
  <2>1. Types'
    <3>1. ControlTypes'
      <4>1. heard' \in BOOLEAN /\ unusable' \in BOOLEAN
        <5>1. heard \in BOOLEAN /\ unusable \in BOOLEAN /\ authed \in BOOLEAN
          BY <1>0 DEF Types, ControlTypes
        <5> QED BY <1>14, <5>1, Zenon DEF ReauthStore, Sub, Answered
      <4>2. reauth' \in [Reauths -> {"none", "locking", "login", "storing"}]
        BY <1>0, <1>14 DEF Types, ControlTypes, ReauthStore
      <4> QED BY <1>0, <1>14, <4>1, <4>2 DEF Types, ControlTypes, ReauthStore
    <3>2. MessageTypes'
      BY <1>0, <1>14 DEF Types, MessageTypes, ReauthStore, Sub, Answered, server, dispatch
    <3> QED BY <3>1, <3>2 DEF Types
  <2>2. Locked'
    BY <1>0, <1>14 DEF Types, ControlTypes, MessageTypes, Locked, Opening, ReauthStore, Sub,
       Answered, server, dispatch
  <2>3. Linked'
    BY <1>0, <1>14 DEF Types, ControlTypes, MessageTypes, Locked, Linked, Opening, At3,
       ReauthStore, Sub, Answered, server, dispatch
  <2>4. LoginDue'
    BY <1>0, <1>14 DEF Types, ControlTypes, MessageTypes, Locked, Linked, LoginDue, Opening,
       Due, ReauthStore, Sub, Answered, server, dispatch
  <2>5. SubDue'
    BY <1>0, <1>14 DEF Types, ControlTypes, MessageTypes, Locked, Linked, LoginDue, SubDue,
       Opening, Due, ReauthStore, Sub, Answered, server, dispatch
  <2>6. InOrder' /\ Met' /\ Handed'
    BY <1>0, <1>14 DEF InOrder, Met, Handed, New, ReauthStore, Sub, Answered, server, dispatch
  <2> QED BY <2>1, <2>2, <2>3, <2>4, <2>5, <2>6 DEF IInv
<1>15. ASSUME NEW l \in Listeners, Subscribe(l) PROVE IInv'
  <2>1. Types'
    <3>1. ControlTypes /\ At(l, "subscribed") BY <1>0, <1>15 DEF Types, Subscribe
    <3>2. op' \in [Callers -> {"idle", "connecting", "watching", "login", "storing", "got",
                              "subscribed", "done", "failed"}]
      BY <3>1, AtTyped
    <3>3. heard' \in BOOLEAN BY <1>15, <3>1, Zenon DEF ControlTypes, Subscribe, Sub
    <3>4. ControlTypes' BY <1>15, <3>1, <3>2, <3>3 DEF ControlTypes, Subscribe, provider
    <3>5. MessageTypes' BY <1>0, <1>15 DEF Types, MessageTypes, Subscribe, server, dispatch
    <3> QED BY <3>4, <3>5 DEF Types
  <2>2. Locked'
    BY <1>0, <1>15 DEF Types, ControlTypes, MessageTypes, Locked, Opening, Subscribe, At,
       Sub, Answered, provider, server, dispatch
  <2>3. Linked'
    BY <1>0, <1>15 DEF Types, ControlTypes, MessageTypes, Locked, Linked, Opening, At3,
       Subscribe, At, Sub, Answered, provider, server, dispatch
  <2>4. LoginDue'
    BY <1>0, <1>15 DEF Types, ControlTypes, MessageTypes, Locked, Linked, LoginDue, Opening,
       Due, Subscribe, At, Sub, Answered, provider, server, dispatch
  <2>5. SubDue'
    BY <1>0, <1>15 DEF Types, ControlTypes, MessageTypes, Locked, Linked, LoginDue, SubDue,
       Opening, Due, Subscribe, At, Sub, Answered, provider, server, dispatch
  <2>6. InOrder' /\ Met' /\ Handed'
    BY <1>0, <1>15 DEF InOrder, Met, Handed, New, Subscribe, At, Sub, Answered, provider,
       server, dispatch
  <2> QED BY <2>1, <2>2, <2>3, <2>4, <2>5, <2>6 DEF IInv
<1>16. ASSUME NEW l \in Listeners, AddUpdateListener(l) PROVE IInv'
  <2>1. Types'
    <3>1. ControlTypes'
      BY <1>0, <1>16 DEF Types, ControlTypes, AddUpdateListener, At, provider, network
    <3>2. listeners' \in Seq(Listeners)
      BY <1>0, <1>16, AppendProperties DEF Types, MessageTypes, AddUpdateListener
    <3>3. MessageTypes' BY <1>0, <1>16, <3>2 DEF Types, MessageTypes, AddUpdateListener, server
    <3> QED BY <3>1, <3>3 DEF Types
  <2>2. Locked'
    BY <1>0, <1>16 DEF Types, ControlTypes, MessageTypes, Locked, Opening, AddUpdateListener,
       At, provider, network, server
  <2>3. Linked'
    BY <1>0, <1>16 DEF Types, ControlTypes, MessageTypes, Locked, Linked, Opening, At3,
       AddUpdateListener, At, provider, network, server
  <2>4. LoginDue'
    BY <1>0, <1>16 DEF Types, ControlTypes, MessageTypes, Locked, Linked, LoginDue, Opening,
       Due, AddUpdateListener, At, provider, network, server
  <2>5. SubDue'
    BY <1>0, <1>16 DEF Types, ControlTypes, MessageTypes, Locked, Linked, LoginDue, SubDue,
       Opening, Due, AddUpdateListener, At, provider, network, server
  <2>6. InOrder' /\ Met' /\ Handed'
    BY <1>0, <1>16 DEF InOrder, Met, Handed, New, AddUpdateListener, At, provider, network, server
  <2> QED BY <2>1, <2>2, <2>3, <2>4, <2>5, <2>6 DEF IInv
<1>17. ASSUME NEW s \in Senders, Call(s) PROVE IInv'
  <2>1. Types'
    <3>1. ControlTypes'
      BY <1>0, <1>17 DEF Types, ControlTypes, Call, At, Answered, provider, network, dispatch
    <3>2. MessageTypes'
      <4>1. stream' \in Seq(0..MaxMessages)
        <5>1. Own \in 0..MaxMessages BY Bounds
        <5>2. Append(stream, Own) \in Seq(0..MaxMessages)
          BY <1>0, <5>1, AppendProperties DEF Types, MessageTypes
        <5> QED BY <1>0, <1>17, <5>2 DEF Types, MessageTypes, Call
      <4> QED BY <1>0, <1>17, <4>1 DEF Types, MessageTypes, Call, dispatch
    <3> QED BY <3>1, <3>2 DEF Types
  <2>2. UNCHANGED <<written, again, update, received>> BY <1>17 DEF Call, dispatch
  <2>3. InOrder' /\ Met'
    <3>1. CASE stream' = Append(stream, Own)
      <4>1. /\ Own \in 0..MaxMessages /\ written \in 0..MaxMessages
            /\ written <= written' /\ Own <= written' /\ again \subseteq again'
        BY <1>0, <2>2, Bounds DEF Types, MessageTypes
      <4> QED BY <1>0, <2>2, <3>1, <4>1, Sent DEF Types
    <3>2. CASE stream' = stream BY <1>0, <2>2, <3>2 DEF InOrder, Met, New
    <3> QED BY <1>17, <3>1, <3>2 DEF Call
  <2>4. Locked'
    BY <1>0, <1>17 DEF Types, ControlTypes, MessageTypes, Locked, Opening, Call, At,
       Answered, provider, network, dispatch
  <2>5. Linked'
    BY <1>0, <1>17 DEF Types, ControlTypes, MessageTypes, Locked, Linked, Opening, At3, Call,
       At, Answered, provider, network, dispatch
  <2>6. LoginDue'
    BY <1>0, <1>17 DEF Types, ControlTypes, MessageTypes, Locked, Linked, LoginDue, Opening,
       Due, Call, At, Answered, provider, network, dispatch
  <2>7. SubDue'
    BY <1>0, <1>17 DEF Types, ControlTypes, MessageTypes, Locked, Linked, LoginDue, SubDue,
       Opening, Due, Call, At, Answered, provider, network, dispatch
  <2>8. Handed' BY <1>0, <1>17 DEF Handed, Call, At, Answered, provider, network, dispatch
  <2> QED BY <2>1, <2>2, <2>3, <2>4, <2>5, <2>6, <2>7, <2>8 DEF IInv
<1>18. ASSUME NEW s \in Senders, CallFails(s) PROVE IInv'
  <2>1. Types'
    <3>1. ControlTypes /\ At(s, "failed") BY <1>0, <1>18 DEF Types, CallFails
    <3>2. op' \in [Callers -> {"idle", "connecting", "watching", "login", "storing", "got",
                              "subscribed", "done", "failed"}]
      BY <3>1, AtTyped
    <3>3. ControlTypes' BY <1>18, <3>1, <3>2 DEF ControlTypes, CallFails, provider, network
    <3>4. MessageTypes' BY <1>0, <1>18 DEF Types, MessageTypes, CallFails, server, dispatch
    <3> QED BY <3>3, <3>4 DEF Types
  <2>2. Locked'
    BY <1>0, <1>18 DEF Types, ControlTypes, MessageTypes, Locked, Opening, CallFails, At,
       provider, network, server, dispatch
  <2>3. Linked'
    BY <1>0, <1>18 DEF Types, ControlTypes, MessageTypes, Locked, Linked, Opening, At3,
       CallFails, At, provider, network, server, dispatch
  <2>4. LoginDue'
    BY <1>0, <1>18 DEF Types, ControlTypes, MessageTypes, Locked, Linked, LoginDue, Opening,
       Due, CallFails, At, provider, network, server, dispatch
  <2>5. SubDue'
    BY <1>0, <1>18 DEF Types, ControlTypes, MessageTypes, Locked, Linked, LoginDue, SubDue,
       Opening, Due, CallFails, At, provider, network, server, dispatch
  <2>6. InOrder' /\ Met' /\ Handed'
    BY <1>0, <1>18 DEF InOrder, Met, Handed, New, CallFails, At, provider, network, server,
       dispatch
  <2> QED BY <2>1, <2>2, <2>3, <2>4, <2>5, <2>6 DEF IInv
<1>19. ASSUME NEW l \in Listeners, Cancel(l) PROVE IInv'
  <2>1. Types'
    BY <1>0, <1>19 DEF Types, ControlTypes, MessageTypes, Cancel, provider, calls, network,
       server
  <2>2. InOrder' /\ Met' /\ Handed' /\ Locked' /\ Linked' /\ LoginDue' /\ SubDue'
    BY <1>0, <1>19 DEF InOrder, Met, Handed, New, Locked, Linked, LoginDue, SubDue, Due, At3,
       Cancel, provider, calls, network, server
  <2> QED BY <2>1, <2>2 DEF IInv
<1>20. ASSUME Write PROVE IInv'
  <2>1. /\ written \in Nat /\ written' = written + 1 /\ written' \in 0..MaxMessages
        /\ UNCHANGED <<again, update, received>>
    BY <1>0, <1>20, Bounds DEF Types, MessageTypes, Write, dispatch
  <2>2. stream' \in Seq(0..MaxMessages) /\ InOrder' /\ Met'
    <3>1. CASE stream' = Append(stream, written + 1)
      BY <1>0, <2>1, <3>1, Sent DEF Types
    <3>2. CASE stream' = stream
      <4>1. /\ \A i \in 1..Len(stream) : stream[i] \in Nat /\ stream[i] <= written
            /\ update.message \in Nat /\ stream \in Seq(0..MaxMessages)
        BY <1>0, ElementOfSeq, Bounds DEF Types, MessageTypes, InOrder
      <4>2. \A l \in Listeners : \A x \in received[l] : x \in Nat /\ x <= written
        BY <1>0, Bounds DEF Types, MessageTypes, Met
      <4>3. InOrder' BY <1>0, <2>1, <3>2, <4>1 DEF InOrder, New
      <4>4. Met' BY <1>0, <2>1, <3>2, <4>2 DEF Met, New
      <4> QED BY <3>2, <4>1, <4>3, <4>4
    <3> QED BY <1>20, <3>1, <3>2 DEF Write
  <2>3. Types'
    <3>1. ControlTypes' BY <1>0, <1>20 DEF Types, ControlTypes, Write, provider, calls, network
    <3>2. again' \subseteq 1..written' BY <1>0, <2>1 DEF Types, MessageTypes
    <3>3. MessageTypes' BY <1>0, <1>20, <2>1, <2>2, <3>2 DEF Types, MessageTypes, Write, dispatch
    <3> QED BY <3>1, <3>3 DEF Types
  <2>4. Handed' /\ Locked' /\ Linked' /\ LoginDue' /\ SubDue'
    BY <1>0, <1>20 DEF Handed, Locked, Linked, LoginDue, SubDue, Due, At3, Write, provider,
       calls, network, dispatch
  <2> QED BY <2>2, <2>3, <2>4 DEF IInv
<1>21. ASSUME NEW message \in 1..written, WriteAgain(message) PROVE IInv'
  <2>1. /\ written \in 0..MaxMessages /\ message \in 0..MaxMessages /\ message <= written
        /\ again' = again \cup {message} /\ stream' = Append(stream, message)
        /\ UNCHANGED <<written, update, received, handed>>
    BY <1>0, <1>21, Bounds DEF Types, MessageTypes, WriteAgain, dispatch
  <2>2. stream' \in Seq(0..MaxMessages) /\ InOrder' /\ Met'
    <3>1. written <= written' BY <2>1, Bounds
    <3> QED BY <1>0, <2>1, <3>1, Sent DEF Types
  <2>3. Types'
    <3>1. ControlTypes'
      BY <1>0, <1>21 DEF Types, ControlTypes, WriteAgain, provider, calls, network
    <3>2. again' \subseteq 1..written' /\ resent' \in 0..MaxResent
      BY <1>0, <1>21, <2>1, Bounds DEF Types, MessageTypes, WriteAgain
    <3>3. MessageTypes'
      BY <1>0, <1>21, <2>1, <2>2, <3>2 DEF Types, MessageTypes, WriteAgain, dispatch
    <3> QED BY <3>1, <3>3 DEF Types
  <2>4. Handed' BY <1>0, <2>1 DEF Handed
  <2>5. Locked' /\ Linked' /\ LoginDue' /\ SubDue'
    BY <1>0, <1>21 DEF Locked, Linked, LoginDue, SubDue, Due, At3, WriteAgain, provider,
       calls, network, dispatch
  <2> QED BY <2>2, <2>3, <2>4, <2>5 DEF IInv
<1>22. ASSUME Dispatch PROVE IInv'
  <2>1. Types'
    <3>1. ControlTypes'
      BY <1>0, <1>22 DEF Types, ControlTypes, Dispatch, provider, calls, network
    <3>2. MessageTypes'
      <4>1. Head(stream) \in 0..MaxMessages /\ Tail(stream) \in Seq(0..MaxMessages)
        BY <1>0, <1>22, HeadTailProperties DEF Types, MessageTypes, Dispatch
      <4>2. update' \in [message : 0..MaxMessages, to : Seq(Listeners)]
        BY <1>0, <1>22, <4>1 DEF Types, MessageTypes, Dispatch
      <4> QED BY <1>0, <1>22, <4>1, <4>2 DEF Types, MessageTypes, Dispatch
    <3> QED BY <3>1, <3>2 DEF Types
  <2> DEFINE n == Len(stream)
  <2>2. /\ update.to = <<>> /\ stream \in Seq(0..MaxMessages) /\ stream # <<>>
        /\ update'.message = Head(stream) /\ stream' = Tail(stream)
        /\ UNCHANGED <<received, written, again>>
    BY <1>0, <1>22 DEF Types, MessageTypes, Dispatch
  <2>3. /\ n \in Nat \ {0} /\ Len(stream') = n - 1 /\ update'.message = stream[1]
        /\ \A i \in 1..(n - 1) : stream'[i] = stream[i + 1] /\ i + 1 \in 1..n
    BY <2>2, HeadTailProperties, LenProperties, EmptySeq
  <2>4. \A i \in 1..n : stream[i] \in 0..MaxMessages BY <2>2, ElementOfSeq
  <2>5. InOrder'
    <3>1. \A i \in 1..n : stream[i] <= written BY <1>0 DEF InOrder
    <3>2. \A i, j \in 1..n : i < j /\ New(stream[j]) => stream[i] < stream[j]
      BY <1>0 DEF InOrder
    <3>3. 1 \in 1..n BY <2>3
    <3> HIDE DEF n
    <3>4. \A i \in 1..(n - 1) : stream'[i] <= written BY <2>3, <3>1
    <3>5. \A i, j \in 1..(n - 1) : i < j /\ New(stream[j])' => stream'[i] < stream'[j]
      <4> SUFFICES ASSUME NEW i \in 1..(n - 1), NEW j \in 1..(n - 1), i < j, New(stream[j])'
                   PROVE  stream'[i] < stream'[j]
        OBVIOUS
      <4>1. i + 1 \in 1..n /\ j + 1 \in 1..n /\ i + 1 < j + 1 BY <2>3
      <4>2. stream'[i] = stream[i + 1] /\ stream'[j] = stream[j + 1] BY <2>3
      <4>3. New(stream[j + 1]) BY <2>2, <4>2 DEF New
      <4> QED BY <3>2, <4>1, <4>2, <4>3
    <3>6. \A i \in 1..(n - 1) : New(stream[i])' => update'.message < stream'[i]
      <4> SUFFICES ASSUME NEW i \in 1..(n - 1), New(stream[i])'
                   PROVE  update'.message < stream'[i]
        OBVIOUS
      <4>1. i + 1 \in 1..n /\ 1 < i + 1 /\ stream'[i] = stream[i + 1] BY <2>3
      <4>2. New(stream[i + 1]) BY <2>2, <4>1 DEF New
      <4> QED BY <2>3, <3>2, <3>3, <4>1, <4>2
    <3> QED BY <2>2, <2>3, <3>1, <3>3, <3>4, <3>5, <3>6 DEF InOrder
  <2>6. Met'
    <3> SUFFICES ASSUME NEW l \in Listeners, NEW x \in received[l]
                 PROVE  /\ x <= written
                        /\ \A i \in 1..(n - 1) : New(stream[i])' => x < stream'[i]
                        /\ New(update.message)' => x <= update'.message
      BY <2>2, <2>3 DEF Met
    <3>1. x <= written /\ \A i \in 1..n : New(stream[i]) => x < stream[i] BY <1>0 DEF Met
    <3>2. 1 \in 1..n /\ x \in Nat
      BY <1>0, <2>3, Bounds DEF Types, MessageTypes
    <3> HIDE DEF n
    <3>3. \A i \in 1..(n - 1) : New(stream[i])' => x < stream'[i]
      BY <2>2, <2>3, <3>1 DEF New
    <3>4. New(update.message)' => x <= update'.message
      BY <2>2, <2>3, <2>4, <3>1, <3>2, Bounds DEF New
    <3> QED BY <3>1, <3>3, <3>4
  <2>7. Handed' /\ Locked' /\ Linked' /\ LoginDue' /\ SubDue'
    BY <1>0, <1>22 DEF Handed, Locked, Linked, LoginDue, SubDue, Due, At3, Dispatch,
       provider, calls, network
  <2> QED BY <2>1, <2>5, <2>6, <2>7 DEF IInv
<1>23. ASSUME Skip PROVE IInv'
  <2>1. Types'
    <3>1. ControlTypes'
      BY <1>0, <1>23 DEF Types, ControlTypes, Skip, Next1, Skipped, provider, calls, network,
         server
    <3>2. update' \in [message : 0..MaxMessages, to : Seq(Listeners)]
      BY <1>0, <1>23, Passed DEF Types, Skip
    <3>3. MessageTypes' BY <1>0, <1>23, <3>2 DEF Types, MessageTypes, Skip, server
    <3> QED BY <3>1, <3>3 DEF Types
  <2>2. InOrder'
    BY <1>0, <1>23 DEF Types, ControlTypes, MessageTypes, InOrder, New, Skip, Next1, Skipped,
       provider, calls, network, server
  <2>3. Met'
    BY <1>0, <1>23 DEF Types, ControlTypes, MessageTypes, InOrder, Met, New, Skip, Next1, Skipped,
       provider, calls, network, server
  <2>4. Handed' /\ Locked' /\ Linked' /\ LoginDue' /\ SubDue'
    BY <1>0, <1>23 DEF Handed, Locked, Linked, LoginDue, SubDue, Due, At3, Skip, Next1,
       Skipped, provider, calls, network, server
  <2> QED BY <2>1, <2>2, <2>3, <2>4 DEF IInv
<1>24. ASSUME NEW l \in Listeners, Hand(l) PROVE IInv'
  <2>1. Meet(l) /\ Next1 /\ UNCHANGED <<stream, written, again>> BY <1>24 DEF Hand, server
  <2>2. /\ received' \in [Listeners -> SUBSET (1..MaxMessages)] /\ InOrder' /\ Met'
        /\ update.message # Own /\ update.message \notin received[l]
        /\ received'[l] = received[l] \cup {update.message}
        /\ \A k \in Listeners : k # l => received'[k] = received[k]
    BY <1>0, <2>1, Meets DEF Types
  <2>3. update' \in [message : 0..MaxMessages, to : Seq(Listeners)]
    BY <1>0, <2>1, Passed DEF Types, Meet
  <2> DEFINE h == handed[l]
  <2>4. /\ h \in Seq(0..MaxMessages) /\ Len(h) \in Nat
        /\ \A i \in 1..Len(h) : h[i] \in 0..MaxMessages
        /\ update.message \in 0..MaxMessages
    BY <1>0, LenProperties, ElementOfSeq DEF Types, MessageTypes
  <2>5. /\ Append(h, update.message) \in Seq(0..MaxMessages)
        /\ Len(Append(h, update.message)) = Len(h) + 1
        /\ Append(h, update.message)[Len(h) + 1] = update.message
        /\ \A i \in 1..Len(h) : Append(h, update.message)[i] = h[i]
    BY <2>4, AppendProperties
  <2>6. /\ handed' = [handed EXCEPT ![l] = Append(h, update.message)]
        /\ handed'[l] = Append(h, update.message)
        /\ \A k \in Listeners : k # l => handed'[k] = handed[k]
    BY <1>0, <1>24 DEF Types, MessageTypes, Hand
  <2>7. Types'
    <3>1. ControlTypes' BY <1>0, <1>24 DEF Types, ControlTypes, Hand, provider, calls, network
    <3>2. handed' \in [Listeners -> Seq(0..MaxMessages)]
      BY <1>0, <2>5, <2>6 DEF Types, MessageTypes
    <3>3. MessageTypes' BY <1>0, <1>24, <2>2, <2>3, <3>2 DEF Types, MessageTypes, Hand, server
    <3> QED BY <3>1, <3>3 DEF Types
  <2>8. Handed'
    <3>1. \A i \in 1..Len(h) :
            /\ h[i] \in received[l]
            /\ \A j \in 1..(i - 1) : h[j] # h[i] /\ (h[j] < h[i] \/ h[i] \in again)
      BY <1>0 DEF Handed
    <3>2. \A i \in 1..Len(h) :
            h[i] # update.message /\ (h[i] < update.message \/ update.message \in again)
      <4> SUFFICES ASSUME NEW i \in 1..Len(h)
                   PROVE  /\ h[i] # update.message
                          /\ h[i] < update.message \/ update.message \in again
        OBVIOUS
      <4>1. h[i] \in received[l] /\ h[i] # update.message BY <2>2, <3>1
      <4>2. New(update.message) => h[i] <= update.message
        BY <1>0, <2>1, <4>1 DEF Met, Meet
      <4>3. New(update.message) \/ update.message \in again BY <2>2 DEF New
      <4> QED BY <2>4, <4>1, <4>2, <4>3, Bounds
    <3> HIDE DEF h
    <3>3. ASSUME NEW i \in 1..(Len(h) + 1)
          PROVE  /\ handed'[l][i] \in received'[l]
                 /\ \A j \in 1..(i - 1) :
                      /\ handed'[l][j] # handed'[l][i]
                      /\ handed'[l][j] < handed'[l][i] \/ handed'[l][i] \in again'
      <4>1. CASE i = Len(h) + 1
        <5>1. handed'[l][i] = update.message BY <2>5, <2>6, <4>1
        <5>2. \A j \in 1..(i - 1) : j \in 1..Len(h) BY <2>4, <4>1
        <5>3. \A j \in 1..Len(h) : handed'[l][j] = h[j] BY <2>5, <2>6
        <5> QED BY <2>1, <2>2, <3>2, <5>1, <5>2, <5>3
      <4>2. CASE i # Len(h) + 1
        <5>1. i \in 1..Len(h) BY <2>4, <4>2
        <5>2. \A j \in 1..i : j \in 1..Len(h) BY <2>4, <5>1
        <5>3. \A j \in 1..Len(h) : handed'[l][j] = h[j] BY <2>5, <2>6
        <5>4. handed'[l][i] = h[i] BY <5>1, <5>3
        <5>5. \A j \in 1..(i - 1) : j \in 1..i BY <5>1
        <5> QED BY <2>1, <2>2, <3>1, <5>1, <5>2, <5>3, <5>4, <5>5
      <4> QED BY <4>1, <4>2
    <3>4. Len(handed'[l]) = Len(h) + 1 BY <2>5, <2>6
    <3>5. \A k \in Listeners : k # l =>
            received'[k] = received[k] /\ handed'[k] = handed[k]
      BY <2>2, <2>6
    <3> QED BY <1>0, <2>1, <3>3, <3>4, <3>5 DEF Handed
  <2>9. Locked' /\ Linked' /\ LoginDue' /\ SubDue'
    BY <1>0, <1>24 DEF Locked, Linked, LoginDue, SubDue, Due, At3, Hand, Next1, Meet,
       Skipped, provider, calls, network, server
  <2> QED BY <2>2, <2>3, <2>4, <2>5, <2>6, <2>7, <2>8, <2>9 DEF IInv
<1>25. ASSUME NEW l \in Listeners, LetGo(l) PROVE IInv'
  <2>1. Meet(l) /\ Next1 /\ UNCHANGED <<stream, written, again>> BY <1>25 DEF LetGo, server
  <2>2. /\ received' \in [Listeners -> SUBSET (1..MaxMessages)] /\ InOrder' /\ Met'
        /\ update.message # Own /\ update.message \notin received[l]
        /\ received'[l] = received[l] \cup {update.message}
        /\ \A k \in Listeners : k # l => received'[k] = received[k]
    BY <1>0, <2>1, Meets DEF Types
  <2>3. update' \in [message : 0..MaxMessages, to : Seq(Listeners)]
    BY <1>0, <2>1, Passed DEF Types, Meet
  <2>4. Types'
    <3>1. ControlTypes' BY <1>0, <1>25 DEF Types, ControlTypes, LetGo, provider, calls, network
    <3>2. MessageTypes' BY <1>0, <1>25, <2>2, <2>3 DEF Types, MessageTypes, LetGo, server
    <3> QED BY <3>1, <3>2 DEF Types
  <2>5. Handed'
    <3>1. \A k \in Listeners : received[k] \subseteq received'[k] BY <2>2
    <3> QED BY <1>0, <1>25, <2>1, <3>1 DEF Handed, LetGo
  <2>6. Locked' /\ Linked' /\ LoginDue' /\ SubDue'
    BY <1>0, <1>25 DEF Locked, Linked, LoginDue, SubDue, Due, At3, LetGo, Next1, Meet,
       Skipped, provider, calls, network, server
  <2> QED BY <2>2, <2>3, <2>4, <2>5, <2>6 DEF IInv
<1>26. CASE UNCHANGED vars
  BY <1>0, <1>26 DEF IInv, Types, ControlTypes, MessageTypes, InOrder, Met, Handed, New,
     Locked, Linked, LoginDue, SubDue, Due, At3,
                     vars, provider, calls, network, server, dispatch
<1> QED
  BY <1>1, <1>2, <1>3, <1>4, <1>5, <1>6, <1>7, <1>8, <1>9, <1>10, <1>11, <1>12, <1>13, <1>14,
     <1>15, <1>16, <1>17, <1>18, <1>19, <1>20, <1>21, <1>22, <1>23, <1>24, <1>25, <1>26
     DEF Next, GetClient, Reauthenticate

-----------------------------------------------------------------------------
\* The types, the order of the messages and the state of the login, for
\* every number of callers, messages and connections lost.
THEOREM Invariance == Spec => []IInv
BY InitHolds, NextKeeps, PTL DEF Spec

\* CollectionUpdate: no listener hands a message twice, none of the account's
\* own, and none late but for those the server sent again.
THEOREM MessagesInOrder == Spec => []HandedInOrder
<1>1. IInv => TypeOK
  <2> SUFFICES ASSUME IInv PROVE TypeOK OBVIOUS
  <2>1. ControlTypes /\ MessageTypes BY DEF IInv, Types
  <2>2. \A i \in DOMAIN stream : stream[i] \in 0..MaxMessages BY <2>1 DEF MessageTypes
  <2>3. update.message \in 0..MaxMessages BY <2>1 DEF MessageTypes
  <2>4. \A l \in Listeners : received[l] \subseteq 1..MaxMessages BY <2>1 DEF MessageTypes
  <2>5. {needsLogin, listening, unusable, authed, heard} \subseteq BOOLEAN
    BY <2>1, Zenon DEF ControlTypes
  <2>6. {link, report} \subseteq {"none", "up", "down"} BY <2>1 DEF ControlTypes
  <2> QED BY <2>1, <2>2, <2>3, <2>4, <2>5, <2>6 DEF TypeOK, ControlTypes, MessageTypes
<1>2. IInv => HandedInOrder
  <2> SUFFICES ASSUME IInv, NEW l \in Listeners, NEW i \in DOMAIN handed[l]
               PROVE  /\ handed[l][i] # Own
                      /\ \A j \in 1..(i - 1) :
                           /\ handed[l][j] # handed[l][i]
                           /\ handed[l][j] < handed[l][i] \/ handed[l][i] \in again
    BY <1>1 DEF HandedInOrder
  <2>1. handed[l] \in Seq(0..MaxMessages) /\ received[l] \subseteq 1..MaxMessages
    BY DEF IInv, Types, MessageTypes
  <2>2. i \in 1..Len(handed[l]) BY <2>1
  <2>3. /\ handed[l][i] \in received[l]
        /\ \A j \in 1..(i - 1) :
             /\ handed[l][j] # handed[l][i]
             /\ handed[l][j] < handed[l][i] \/ handed[l][i] \in again
    BY <2>2 DEF IInv, Handed
  <2> QED BY <2>1, <2>3, Bounds
<1> QED BY Invariance, <1>2, PTL

\* reauthenticate: a client that hears nothing, and on which nobody works,
\* always has a login due, unless its connection is logged in and the last
\* login of that connection to be stored came without credentials.
THEOREM MuteAlwaysKnown == Spec => []MuteIsKnown
<1>1. IInv => MuteIsKnown
  <2> SUFFICES ASSUME IInv, client = "kept", link = "up", report = "none", listeners # <<>>,
                      \A r \in Reauths : reauth[r] = "none", ~(authed /\ heard)
               PROVE  needsLogin \/ (authed /\ unusable)
    BY DEF MuteIsKnown
  <2>1. (\E r \in Reauths : reauth[r] \in {"locking", "login"}) => FALSE OBVIOUS
  <2>2. Due => needsLogin BY <2>1 DEF Due
  <2>3. CASE ~authed BY <2>2, <2>3 DEF IInv, LoginDue
  <2>4. CASE authed /\ ~heard BY <2>2, <2>4 DEF IInv, SubDue
  <2> QED BY <2>3, <2>4
<1> QED BY Invariance, <1>1, PTL
=============================================================================
