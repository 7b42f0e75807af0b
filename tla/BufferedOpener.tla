--------------------------- MODULE BufferedOpener ---------------------------
(***************************************************************************)
(* The replayable part opener of opener.go: BufferedOpener wrapped around  *)
(* the single use source OpenerOnce, as the mail and rest providers build  *)
(* it for every part of a message, or around a download that can be        *)
(* repeated, as the chat providers do.                                     *)
(*                                                                         *)
(* A content is abstracted to its number of bytes.  The mutex of           *)
(* BufferedOpener is held for the whole of an opener or CloseFunc call, so *)
(* each call is one action, the materialization it may trigger included.   *)
(***************************************************************************)
EXTENDS Integers

CONSTANTS
  Sizes,        \* the sizes a source may have, in bytes
  MaxInMemory,  \* the threshold, after the default of a value <= 0 is applied
  TempNames,    \* the names os.CreateTemp may return
  NoFile        \* tempPath = ""

OpenerAssumption ==
  /\ Sizes \subseteq Nat
  /\ MaxInMemory \in Nat \ {0}
  /\ NoFile \notin TempNames

VARIABLES
  source,    \* size of what the wrapped source yields
  once,      \* the source is an OpenerOnce
  consumed,  \* the source was opened before
  resolved,  \* BufferedOpener: the first read was attempted
  openErr,   \* BufferedOpener: the error of that attempt
  buffer,    \* BufferedOpener: bytes held in memory, 0 for a nil slice
  tempPath,  \* BufferedOpener: the spill file, or NoFile
  disk,      \* the spill files that exist, with the bytes each holds
  lost,      \* history: the files whose removal failed or never had an effect
  released,  \* history: CloseFunc ran after the content was materialized
  reads      \* history: what the successful opener calls yielded

vars == <<source, once, consumed, resolved, openErr, buffer, tempPath, disk,
          lost, released, reads>>

Errors == {"ErrNotReplayable", "source", "temp"}

TypeOK ==
  /\ source \in Sizes
  /\ once \in BOOLEAN
  /\ consumed \in BOOLEAN
  /\ resolved \in BOOLEAN
  /\ openErr \in Errors \cup {"nil"}
  /\ buffer \in 0 .. (MaxInMemory - 1)
  /\ tempPath \in TempNames \cup {NoFile}
  /\ DOMAIN disk \subseteq TempNames
  /\ disk \in [DOMAIN disk -> Nat]
  /\ lost \subseteq TempNames
  /\ released \in BOOLEAN
  /\ reads \subseteq [bytes : Nat, released : BOOLEAN]

Init ==
  /\ source \in Sizes
  /\ once \in BOOLEAN
  /\ consumed = FALSE
  /\ resolved = FALSE
  /\ openErr = "nil"
  /\ buffer = 0
  /\ tempPath = NoFile
  /\ disk = [f \in {} |-> 0]
  /\ lost = {}
  /\ released = FALSE
  /\ reads = {}

-----------------------------------------------------------------------------
(* What io.LimitReader(reader, maxInMemory) lets through.                  *)
HeadBytes == IF source < MaxInMemory THEN source ELSE MaxInMemory

WithFile(f, n) == [x \in DOMAIN disk \cup {f} |-> IF x = f THEN n ELSE disk[x]]
WithoutFile(f) == [x \in DOMAIN disk \ {f} |-> disk[x]]

(* The first read failed, and every later call gets the same error.        *)
Fail(err) ==
  /\ openErr' = err
  /\ UNCHANGED <<buffer, tempPath>>

(* The source cannot be opened, or its first bytes cannot be read.         *)
SourceFails ==
  /\ Fail("source")
  /\ UNCHANGED <<disk, lost>>

(* Faulty variant: a content that fills the limit stays in memory.         *)
KeepInMemoryFull ==
  /\ HeadBytes <= MaxInMemory
  /\ buffer' = HeadBytes
  /\ UNCHANGED <<openErr, tempPath, disk, lost>>

KeepInMemory ==
  /\ HeadBytes < MaxInMemory
  /\ buffer' = HeadBytes
  /\ UNCHANGED <<openErr, tempPath, disk, lost>>

(* Faulty variant: the reader alone is copied to the file, the head that   *)
(* was already read is forgotten.                                          *)
SpillWithoutHead ==
  /\ HeadBytes >= MaxInMemory
  /\ \E f \in TempNames \ DOMAIN disk :
       /\ tempPath' = f
       /\ disk' = WithFile(f, source - HeadBytes)
  /\ UNCHANGED <<openErr, buffer, lost>>

(* The content reached the threshold: the head, then the rest of the       *)
(* source, go to a temporary file.                                         *)
Spill ==
  /\ HeadBytes >= MaxInMemory
  /\ \E f \in TempNames \ DOMAIN disk :
       /\ tempPath' = f
       /\ disk' = WithFile(f, HeadBytes + (source - HeadBytes))
  /\ UNCHANGED <<openErr, buffer, lost>>

(* Faulty variant: the file of a broken copy stays.                        *)
SpillFailsKeepsFile ==
  /\ HeadBytes >= MaxInMemory
  /\ Fail("temp")
  /\ \E f \in TempNames \ DOMAIN disk : disk' = WithFile(f, HeadBytes)
  /\ UNCHANGED lost

(* No temporary file, or the copy into it broke off: the partial file is   *)
(* removed, and an error of that removal is dropped.                       *)
SpillFails ==
  /\ HeadBytes >= MaxInMemory
  /\ Fail("temp")
  /\ \/ UNCHANGED <<disk, lost>>
     \/ \E f \in TempNames \ DOMAIN disk :
          /\ disk' = WithFile(f, HeadBytes)
          /\ lost' = lost \cup {f}

(* OpenerOnce refuses to hand out its reader a second time.                *)
FirstRead ==
  /\ consumed' = TRUE
  /\ IF once /\ consumed
     THEN Fail("ErrNotReplayable") /\ UNCHANGED <<disk, lost>>
     ELSE SourceFails \/ KeepInMemory \/ Spill \/ SpillFails

copy == <<consumed, resolved, openErr, buffer, tempPath, disk, lost>>

(* Faulty variant: a failed first read is tried again.                     *)
MaterializeRetries ==
  \/ resolved /\ UNCHANGED copy
  \/ ~resolved /\ FirstRead /\ resolved' = (openErr' = "nil")

Materialize ==
  \/ resolved /\ UNCHANGED copy
  \/ ~resolved /\ resolved' = TRUE /\ FirstRead

(* A reader over n bytes is returned.                                      *)
Yield(n) == reads' = reads \cup {[bytes |-> n, released |-> released]}

(* What a call returns once the content is materialized: the first error,  *)
(* a reader over the spill file, the error of os.Open when that file is    *)
(* gone, or a reader over the buffer.                                      *)
Serve ==
  \/ openErr' # "nil" /\ UNCHANGED reads
  \/ openErr' = "nil" /\ tempPath' \in DOMAIN disk' /\ Yield(disk'[tempPath'])
  \/ /\ openErr' = "nil" /\ tempPath' \in TempNames \ DOMAIN disk'
     /\ UNCHANGED reads
  \/ openErr' = "nil" /\ tempPath' = NoFile /\ Yield(buffer')

Open == Materialize /\ Serve /\ UNCHANGED <<source, once, released>>

(* CloseFunc: tempPath is cleared before the removal, so the file of a     *)
(* failed removal is out of reach of a second call.                        *)
Close ==
  /\ buffer' = 0
  /\ tempPath' = NoFile
  /\ released' = resolved
  /\ \/ disk' = WithoutFile(tempPath) /\ UNCHANGED lost
     \/ /\ tempPath \in DOMAIN disk
        /\ lost' = lost \cup {tempPath}
        /\ UNCHANGED disk
  /\ UNCHANGED <<source, once, consumed, resolved, openErr, reads>>

(* The environment: a cleaner of the temporary directory (os.IsNotExist is *)
(* accepted by CloseFunc for that reason).                                 *)
TempCleaned ==
  /\ tempPath \in DOMAIN disk
  /\ disk' = WithoutFile(tempPath)
  /\ UNCHANGED <<source, once, consumed, resolved, openErr, buffer, tempPath,
                 lost, released, reads>>

Next == Open \/ Close \/ TempCleaned

Spec == Init /\ [][Next]_vars

-----------------------------------------------------------------------------
(* Until CloseFunc releases the copy, every reader BufferedOpener returns  *)
(* yields the whole source, whether it was kept in memory or spilled, and  *)
(* however many calls came before (opener.go:22-24, 77-80).                *)
Replayable == \A r \in reads : ~r.released => r.bytes = source

(* Every spill file on disk is the one CloseFunc would remove, except the  *)
(* files whose removal the operating system refused: a broken copy, a      *)
(* close, or a close followed by a new read leaves nothing behind.         *)
NoOrphanFile == DOMAIN disk \subseteq {tempPath} \cup lost

(* OpenerOnce is asked for its reader at most once, so wrapping it hides   *)
(* ErrNotReplayable from every caller (opener.go:54-56).                   *)
NeverNotReplayable == openErr # "ErrNotReplayable"

(* The error of the first read is kept: once it failed, no later call      *)
(* yields a reader, not even an empty one.                                 *)
FailureIsFinal == [][openErr # "nil" => reads' = reads /\ openErr' = openErr]_vars

-----------------------------------------------------------------------------
(* What the safety properties rest on: the copy BufferedOpener holds is    *)
(* the whole source until it is released, nothing is on disk but failed    *)
(* removals before the first read, and the source is opened by that read.  *)
HeldCopy ==
  resolved /\ openErr = "nil" /\ ~released =>
    /\ tempPath = NoFile => buffer = source
    /\ tempPath \in DOMAIN disk => disk[tempPath] = source

BeforeFirstRead ==
  ~resolved => /\ tempPath = NoFile /\ openErr = "nil" /\ reads = {}
               /\ ~consumed /\ ~released

IInv == TypeOK /\ HeldCopy /\ BeforeFirstRead /\ Replayable /\ NoOrphanFile
               /\ NeverNotReplayable
=============================================================================
