---------------------------- MODULE MailProvider ----------------------------
(***************************************************************************)
(* The receiving side of the mail provider (provider/mail: provider.go and *)
(* imap.go).  Each Listen polls the folders in turn, at once and then at   *)
(* each tick.  For each folder it opens a connection, searches the unread  *)
(* mails and starts a producer goroutine that fetches them into a channel  *)
(* of capacity one, which the polling goroutine hands to the application.  *)
(*                                                                         *)
(* Fetching a body marks the mail as seen on the server, which no longer   *)
(* offers it: what is fetched and not handed over is never offered again.  *)
(* Looking up the mail a Send answers fetches a body as well.  The IMAP    *)
(* server, the network and the application are external.                   *)
(***************************************************************************)
EXTENDS Integers, Sequences, FiniteSets, Functions

CONSTANTS
  Sessions,    \* the calls of Listen, numbered in their order
  Together,    \* they may run together, or each replaces a cancelled one
  Mails,       \* the mails, numbered as the server numbers them
  Folders,     \* opts.IMAP.Folders, a sequence
  FolderOf,    \* [Mails -> the folder a mail arrives in]
  Root,        \* [Mails -> the mail its thread starts with]
  MaxMishaps   \* bound: connections lost or refused, mails the parser refuses

ASSUME MailAssumption ==
  /\ Sessions \subseteq Nat /\ Mails \subseteq Nat \ {0} /\ Together \in BOOLEAN
  /\ Folders \in Seq(Range(Folders)) /\ FolderOf \in [Mails -> Range(Folders)]
  /\ Root \in [Mails -> Mails]
  /\ MaxMishaps \in Nat

NoMail == 0

VARIABLES
  mailbox,    \* [Mails -> "absent", "unread" or "seen"]
  session,    \* [Sessions -> where the polling goroutine stands]
  folder,     \* [Sessions -> the index of the folder it is at]
  holding,    \* [Sessions -> the mail it is handing over]
  cancelled,  \* the sessions whose context ended
  late,       \* those that checked once more after that
  producer,   \* [Sessions -> the fetch of its folder]
  mishaps,    \* how many of those there were
  release,    \* p.release: the mails with a buffer to release
  handed,     \* history: [Sessions -> the mails the application took]
  lost        \* history: the mails seen that no session can hand over

polling == <<session, folder, holding, late>>
vars == <<mailbox, polling, cancelled, producer, mishaps, release, handed, lost>>

\* what the server was asked for, what it sent, what the channel holds
None == [state |-> "none", todo |-> {}, wire |-> <<>>, emails |-> <<>>]

Init ==
  /\ mailbox = [m \in Mails |-> "absent"]
  /\ session = [s \in Sessions |-> "idle"]
  /\ folder = [s \in Sessions |-> 1]
  /\ holding = [s \in Sessions |-> NoMail]
  /\ cancelled = {} /\ late = {}
  /\ producer = [s \in Sessions |-> None]
  /\ mishaps = 0 /\ release = {}
  /\ handed = [s \in Sessions |-> <<>>]
  /\ lost = {}

-----------------------------------------------------------------------------
(* The mailbox, and the Sends of the application.                          *)

Arrive(m) ==
  /\ mailbox[m] = "absent"
  /\ mailbox' = [mailbox EXCEPT ![m] = "unread"]
  /\ UNCHANGED <<polling, cancelled, producer, mishaps, release, handed, lost>>

\* findSourceEmail: the mail answered, or the root of its thread
Sources(m) == {m, Root[m]}

\* a Send that answers a mail fetches its source, in whichever folder it is
Answer(s, m) ==
  /\ m \in Range(handed[s])
  /\ \E source \in Sources(m) :
       /\ mailbox[source] = "unread"
       /\ mailbox' = [mailbox EXCEPT ![source] = "seen"]
       /\ lost' = lost \cup {source}
  /\ UNCHANGED <<polling, cancelled, producer, mishaps, release, handed>>

-----------------------------------------------------------------------------
(* fetchUnreadEmails, and its goroutine.                                   *)

\* at the folder of this index, or past the last one
Goto(s, index) ==
  /\ folder' = [folder EXCEPT ![s] = index]
  /\ session' = [session EXCEPT ![s] = IF index > Len(Folders) THEN "waiting" ELSE "opening"]

\* UIDSearch; the set of what to fetch is made of it
Unread(f) == {m \in Mails : mailbox[m] = "unread" /\ FolderOf[m] = f}

Open(s) ==
  /\ session[s] = "opening"
  /\ producer' = [producer EXCEPT ![s] =
       [None EXCEPT !.state = "fetching", !.todo = Unread(Folders[folder[s]])]]
  /\ session' = [session EXCEPT ![s] = "reading"]
  /\ UNCHANGED <<mailbox, folder, holding, late, cancelled, mishaps, release, handed, lost>>

\* faulty: the error ends the goroutine
OpenFailsForGood(s) ==
  /\ session[s] = "opening" /\ mishaps < MaxMishaps
  /\ mishaps' = mishaps + 1
  /\ session' = [session EXCEPT ![s] = "ended"]
  /\ release' = {}
  /\ UNCHANGED <<mailbox, folder, holding, late, cancelled, producer, handed, lost>>

\* no connection, or a command refused: the folder is left for the next check
OpenFails(s) ==
  /\ session[s] = "opening" /\ mishaps < MaxMishaps
  /\ mishaps' = mishaps + 1
  /\ Goto(s, folder[s] + 1)
  /\ UNCHANGED <<mailbox, holding, late, cancelled, producer, release, handed, lost>>

\* the server sends a body, in the order of the numbers, and marks it
Stream(s) ==
  /\ \E m \in producer[s].todo :
       /\ \A k \in producer[s].todo : m <= k
       /\ mailbox' = [mailbox EXCEPT ![m] = "seen"]
       /\ producer' = [producer EXCEPT ![s].todo = @ \ {m}, ![s].wire = Append(@, m)]
  /\ UNCHANGED <<polling, cancelled, mishaps, release, handed, lost>>

\* what the goroutine has parsed and waits to put, at most one, is kept
Disconnect(s) ==
  /\ producer[s].state = "fetching" /\ mishaps < MaxMishaps
  /\ mishaps' = mishaps + 1
  /\ \E kept \in {0, 1} \cap 0..Len(producer[s].wire) :
       LET wire == producer[s].wire IN
       /\ producer' = [producer EXCEPT ![s].todo = {}, ![s].wire = SubSeq(wire, 1, kept)]
       /\ lost' = lost \cup Range(SubSeq(wire, kept + 1, Len(wire)))
  /\ UNCHANGED <<mailbox, polling, cancelled, release, handed>>

\* the next body: a mail the parser refuses is only logged
Skip(s) ==
  /\ producer[s].wire # <<>> /\ mishaps < MaxMishaps
  /\ mishaps' = mishaps + 1
  /\ lost' = lost \cup {Head(producer[s].wire)}
  /\ producer' = [producer EXCEPT ![s].wire = Tail(@)]
  /\ UNCHANGED <<mailbox, polling, cancelled, release, handed>>

\* faulty: drops the mail when the channel is full
PutOrDrop(s) ==
  /\ producer[s].wire # <<>>
  /\ producer' = [producer EXCEPT ![s].wire = Tail(@),
       ![s].emails = IF @ = <<>> THEN <<Head(producer[s].wire)>> ELSE @]
  /\ UNCHANGED <<mailbox, polling, cancelled, mishaps, release, handed, lost>>

\* emails <- &parsed, whether or not anybody still reads the channel
Put(s) ==
  /\ producer[s].wire # <<>> /\ producer[s].emails = <<>>
  /\ producer' = [producer EXCEPT ![s].wire = Tail(@), ![s].emails = <<Head(producer[s].wire)>>]
  /\ UNCHANGED <<mailbox, polling, cancelled, mishaps, release, handed, lost>>

\* the last body: the channel is closed, and the connection
Close(s) ==
  /\ producer[s].state = "fetching"
  /\ producer[s].todo = {} /\ producer[s].wire = <<>>
  /\ producer' = [producer EXCEPT ![s].state = "closed"]
  /\ UNCHANGED <<mailbox, polling, cancelled, mishaps, release, handed, lost>>

-----------------------------------------------------------------------------
(* Listen and checkMailbox: the polling goroutine.                         *)

Listen(s) ==
  /\ session[s] = "idle"
  /\ Together \/ \A t \in Sessions : t < s => t \in cancelled
  /\ Goto(s, 1)
  /\ UNCHANGED <<mailbox, holding, late, cancelled, producer, mishaps, release, handed, lost>>

\* the next mail of the channel, converted: toMessage tracks what it buffers
Take(s) ==
  /\ session[s] = "reading" /\ producer[s].emails # <<>>
  /\ LET m == Head(producer[s].emails) IN
       /\ holding' = [holding EXCEPT ![s] = m]
       /\ release' = release \cup {m}
  /\ producer' = [producer EXCEPT ![s].emails = <<>>]
  /\ session' = [session EXCEPT ![s] = "handing"]
  /\ UNCHANGED <<mailbox, folder, late, cancelled, mishaps, handed, lost>>

Hand(s) ==
  /\ session[s] = "handing"
  /\ handed' = [handed EXCEPT ![s] = Append(@, holding[s])]
  /\ holding' = [holding EXCEPT ![s] = NoMail]
  /\ session' = [session EXCEPT ![s] = "reading"]
  /\ UNCHANGED <<mailbox, folder, late, cancelled, producer, mishaps, release, lost>>

\* faulty: only the application ends the hand-over
AbandonNever(s) == FALSE

\* the context ended: the check ends, its producer is left behind
Abandon(s) ==
  /\ session[s] = "handing" /\ s \in cancelled
  /\ holding' = [holding EXCEPT ![s] = NoMail]
  /\ lost' = lost \cup {holding[s]}
  /\ session' = [session EXCEPT ![s] = "waiting"]
  /\ UNCHANGED <<mailbox, folder, late, cancelled, producer, mishaps, release, handed>>

FolderDone(s) ==
  /\ session[s] = "reading"
  /\ producer[s].state = "closed" /\ producer[s].emails = <<>>
  /\ producer' = [producer EXCEPT ![s] = None]
  /\ Goto(s, folder[s] + 1)
  /\ UNCHANGED <<mailbox, holding, late, cancelled, mishaps, release, handed, lost>>

\* the ticker; a select that finds the context ended as well may choose it
\* (bound: once, and by a session that left no producer behind)
Tick(s) ==
  /\ session[s] = "waiting" /\ s \notin late
  /\ IF s \in cancelled
     THEN producer[s] = None /\ late' = late \cup {s}
     ELSE UNCHANGED late
  /\ Goto(s, 1)
  /\ UNCHANGED <<mailbox, holding, cancelled, producer, mishaps, release, handed, lost>>

\* faulty: a check the context cut short ends without releasing
EndKeeping(s) ==
  /\ session[s] = "waiting" /\ s \in cancelled
  /\ session' = [session EXCEPT ![s] = "ended"]
  /\ release' = IF producer[s] = None THEN {} ELSE release
  /\ UNCHANGED <<mailbox, folder, holding, late, cancelled, producer, mishaps, handed, lost>>

\* the deferred releaseAll empties the list the sessions share
End(s) ==
  /\ session[s] = "waiting" /\ s \in cancelled
  /\ session' = [session EXCEPT ![s] = "ended"]
  /\ release' = {}
  /\ UNCHANGED <<mailbox, folder, late, holding, cancelled, producer, mishaps, handed, lost>>

Cancel(s) ==
  /\ session[s] \notin {"idle", "ended"} /\ s \notin cancelled
  /\ cancelled' = cancelled \cup {s}
  /\ UNCHANGED <<mailbox, polling, producer, mishaps, release, handed, lost>>

-----------------------------------------------------------------------------
Fetch(s) == Stream(s) \/ Put(s) \/ Close(s)
Poll(s) == Open(s) \/ Take(s) \/ Abandon(s) \/ FolderDone(s) \/ Tick(s)

Next ==
  \/ \E m \in Mails : Arrive(m) \/ \E s \in Sessions : Answer(s, m)
  \/ \E s \in Sessions :
       \/ Listen(s) \/ Poll(s) \/ OpenFails(s) \/ Hand(s) \/ End(s) \/ Cancel(s)
       \/ Fetch(s) \/ Skip(s) \/ Disconnect(s)

(* The server sends what it was asked for, a goroutine that can move moves *)
(* and the ticker ticks; the application takes the mails until it ends the *)
(* context.                                                                *)
Fairness ==
  \A s \in Sessions :
    /\ WF_vars(Fetch(s))
    /\ WF_vars(Poll(s) \/ End(s) \/ (Hand(s) /\ s \notin cancelled))

Spec == Init /\ [][Next]_vars /\ Fairness

-----------------------------------------------------------------------------
Content(s) == Range(producer[s].wire) \cup Range(producer[s].emails)

TypeOK ==
  /\ mailbox \in [Mails -> {"absent", "unread", "seen"}]
  /\ session \in [Sessions -> {"idle", "opening", "reading", "handing", "waiting", "ended"}]
  /\ \A s \in Sessions :
       /\ folder[s] \in 1..(Len(Folders) + 1) /\ holding[s] \in Mails \cup {NoMail}
       /\ producer[s].state \in {"none", "fetching", "closed"}
       /\ Content(s) \cup producer[s].todo \subseteq Mails
  /\ mishaps \in 0..MaxMishaps /\ late \subseteq cancelled /\ release \cup lost \subseteq Mails

\* fetchUnreadEmails, checkMailbox: a mail marked as seen on the server was
\* handed over, is on its way to a session that still reads it, was left in
\* the producer of a session whose context ended, or is one of those the code
\* gives up: cut off by the network, refused by the parser, held when the
\* context ended, or fetched by a Send before the poll.  No session hands the
\* same mail over twice.
SeenIsAccounted ==
  /\ TypeOK
  /\ \A m \in Mails : mailbox[m] = "seen" =>
       \/ m \in lost
       \/ \E s \in Sessions :
            \/ m \in Range(handed[s]) \/ holding[s] = m
            \/ m \in Content(s) /\ (session[s] \in {"reading", "handing"} \/ s \in cancelled)
  /\ \A s \in Sessions : IsInjective(handed[s])

\* releaseAll, deferred by the polling goroutine: once no Listen runs, no
\* buffered attachment is left unreleased, the one of a mail converted after
\* the context ended included.
NothingBuffered ==
  (\A s \in Sessions : session[s] \in {"idle", "ended"}) => release = {}

\* an unread mail is fetched, and handed over or given up, as long as
\* somebody listens; a folder that fails only waits for the next check
UnreadIsHanded ==
  \A m \in Mails, s \in Sessions :
    mailbox[m] = "unread" /\ session[s] # "idle"
      ~> \/ s \in cancelled
         \/ m \in lost
         \/ \E t \in Sessions : m \in Range(handed[t])
         \/ \E t \in cancelled : m \in Content(t)

\* a context that ends ends the goroutine, wherever it stands
CancelEnds == \A s \in Sessions : s \in cancelled ~> session[s] = "ended"

\* Listen serves its mailbox until its context ends, and then stops, so that
\* the attachments are released: whatever fails, is slow or not read.
Served == UnreadIsHanded /\ CancelEnds
=============================================================================
