---------------------------- MODULE HttpDownload -----------------------------
(***************************************************************************)
(* internal/httpclient/client.go: Client.Download and writeDownload, with   *)
(* validateResponse and readResponse.  Transfers of one process or several  *)
(* write to the same destination; each goes through a temporary file of its *)
(* own.  Bodies are counted in bytes, files by what they hold of which      *)
(* body.  What do returns is HttpRetry's business.                          *)
(***************************************************************************)
EXTENDS Integers

CONSTANTS
    Transfers,      \* calls of Download with the same destination
    MaxBytes,       \* the byte limit of the call
    Previous,       \* the file at the destination before
    NoFile

ASSUME LimitAssumption == MaxBytes \in Nat \ {0}
ASSUME PreviousAssumption == Previous \notin Transfers
ASSUME NoFileAssumption == NoFile \notin Nat

VARIABLES
    pc,         \* where each transfer is
    body,       \* the response each transfer got
    temp,       \* bytes in its temporary file, or NoFile
    synced,     \* its temporary file has reached the disk
    dest,       \* the file at the destination
    past,       \* the files that were there before
    result      \* what the transfer returned

vars == <<pc, body, temp, synced, dest, past, result>>

\* Content-Length tells the body's length, or is absent.  A longer body than
\* MaxBytes + 1 adds nothing.
Body == [length : 0 .. MaxBytes + 2, declared : BOOLEAN, archive : BOOLEAN]
NoBody == [length |-> 0, declared |-> FALSE, archive |-> FALSE]

File == [of : Transfers \cup {Previous}, bytes : Nat, durable : BOOLEAN]

Pending == {"start", "answered", "writing", "copied", "flushed"}
Results == {"none", "ok", "notOK", "error"}

TypeOK ==
    /\ pc \in [Transfers -> Pending \cup {"failed", "done", "dead"}]
    /\ body \in [Transfers -> Body]
    /\ \A t \in Transfers :
        temp[t] \in (0 .. MaxBytes + 1) \cup {NoFile}
    /\ \A t \in Transfers : pc[t] \in {"writing", "copied", "flushed"} => temp[t] # NoFile
    /\ synced \in [Transfers -> BOOLEAN]
    /\ dest \in File /\ past \subseteq File
    /\ result \in [Transfers -> Results]

Init ==
    /\ pc = [t \in Transfers |-> "start"]
    /\ body = [t \in Transfers |-> NoBody]
    /\ temp = [t \in Transfers |-> NoFile]
    /\ synced = [t \in Transfers |-> FALSE]
    /\ dest = [of |-> Previous, bytes |-> 0, durable |-> TRUE]
    /\ past = {}
    /\ result = [t \in Transfers |-> "none"]

Lower(m, n) == IF m < n THEN m ELSE n

Return(t, r) ==
    /\ pc' = [pc EXCEPT ![t] = "done"]
    /\ result' = [result EXCEPT ![t] = r]

-----------------------------------------------------------------------------
\* No answer (refused, offline, no permit, do failed), one whose status is
\* not 200, which readResponse reads, checks and returns, or one with status
\* 200 that validateResponse refuses: no file.
ReturnNoFile(t) ==
    /\ pc[t] = "start"
    /\ \E r \in {"notOK", "error"} : Return(t, r)
    /\ UNCHANGED <<body, temp, synced, dest, past>>

\* A response with status 200 that validateResponse accepts.
Accept(t) ==
    /\ pc[t] = "start"
    /\ \E b \in Body :
        /\ b.declared => b.length <= MaxBytes
        /\ body' = [body EXCEPT ![t] = b]
    /\ pc' = [pc EXCEPT ![t] = "answered"]
    /\ UNCHANGED <<temp, synced, dest, past, result>>

\* os.CreateTemp and Chmod in the destination's directory.
CreateTemp(t) ==
    /\ pc[t] = "answered"
    /\ \/ Return(t, "error") /\ UNCHANGED temp
       \/ /\ temp' = [temp EXCEPT ![t] = 0]
          /\ pc' = [pc EXCEPT ![t] = "writing"]
          /\ UNCHANGED result
    /\ UNCHANGED <<body, synced, dest, past>>

\* io.LimitReader(body, maxBytes+1): how much io.Copy will copy.
CopyLimit(t) == Lower(body[t].length, MaxBytes + 1)

CopyMore(t) ==
    /\ pc[t] = "writing"
    /\ temp[t] < CopyLimit(t)
    /\ temp' = [temp EXCEPT ![t] = @ + 1]
    /\ UNCHANGED <<pc, body, synced, dest, past, result>>

\* A read or write error: the connection breaks, the context ends, the disk
\* is full.  An HTTP body that breaks off is an error to io.Copy.
CopyFails(t) ==
    /\ pc[t] = "writing"
    /\ pc' = [pc EXCEPT ![t] = "failed"]
    /\ UNCHANGED <<body, temp, synced, dest, past, result>>

\* Mutant: a body over the limit returns past the deferred removal.
CopyEndsEarlyReturn(t) ==
    /\ pc[t] = "writing"
    /\ temp[t] = CopyLimit(t)
    /\ IF temp[t] > MaxBytes
          THEN Return(t, "error")
          ELSE pc' = [pc EXCEPT ![t] = "copied"] /\ UNCHANGED result
    /\ UNCHANGED <<body, temp, synced, dest, past>>

\* io.Copy returns.
CopyEnds(t) ==
    /\ pc[t] = "writing"
    /\ temp[t] = CopyLimit(t)
    /\ pc' = [pc EXCEPT ![t] = IF temp[t] > MaxBytes THEN "failed" ELSE "copied"]
    /\ UNCHANGED <<body, temp, synced, dest, past, result>>

\* Mutant: no Sync.
FlushUnsynced(t) ==
    /\ pc[t] = "copied"
    /\ pc' = [pc EXCEPT ![t] = "flushed"]
    /\ UNCHANGED <<body, temp, synced, dest, past, result>>

\* Sync and Close.
Flush(t) ==
    /\ pc[t] = "copied"
    /\ \/ /\ pc' = [pc EXCEPT ![t] = "flushed"]
          /\ synced' = [synced EXCEPT ![t] = TRUE]
       \/ /\ pc' = [pc EXCEPT ![t] = "failed"]
          /\ UNCHANGED synced
    /\ UNCHANGED <<body, temp, dest, past, result>>

\* os.Rename.
Publish(t) ==
    /\ pc[t] = "flushed"
    /\ dest' = [of |-> t, bytes |-> temp[t], durable |-> synced[t]]
    /\ past' = past \cup {dest}
    /\ temp' = [temp EXCEPT ![t] = NoFile]
    /\ Return(t, "ok")
    /\ UNCHANGED <<body, synced>>

PublishFails(t) ==
    /\ pc[t] = "flushed"
    /\ pc' = [pc EXCEPT ![t] = "failed"]
    /\ UNCHANGED <<body, temp, synced, dest, past, result>>

\* The deferred function of writeDownload on a failure, and the return.
CleanUp(t) ==
    /\ pc[t] = "failed"
    /\ temp' = [temp EXCEPT ![t] = NoFile]
    /\ Return(t, "error")
    /\ UNCHANGED <<body, synced, dest, past>>

-----------------------------------------------------------------------------
Dead(p) == IF p = "done" THEN "done" ELSE "dead"

\* The process of a transfer is killed: nothing of it runs any more.
Die(t) ==
    /\ pc[t] \notin {"done", "dead"}
    /\ pc' = [pc EXCEPT ![t] = "dead"]
    /\ UNCHANGED <<body, temp, synced, dest, past, result>>

\* The machine stops.  Nothing synchronizes the directory: the last renames
\* may be undone.  A file that was not synchronized may come back empty.
LosePower ==
    /\ pc' = [t \in Transfers |-> Dead(pc[t])]
    /\ \E survivor \in past \cup {dest} :
        \/ dest' = survivor
        \/ ~survivor.durable /\ dest' = [survivor EXCEPT !.bytes = 0]
    /\ past' = {}
    /\ UNCHANGED <<body, temp, synced, result>>

Step(t) ==
    \/ ReturnNoFile(t) \/ Accept(t)
    \/ CreateTemp(t) \/ CopyMore(t) \/ CopyFails(t) \/ CopyEnds(t)
    \/ Flush(t) \/ Publish(t) \/ PublishFails(t) \/ CleanUp(t)
    \/ Die(t)

Next == (\E t \in Transfers : Step(t)) \/ LosePower

Spec == Init /\ [][Next]_vars

-----------------------------------------------------------------------------
(* Properties.                                                             *)

Whole(file) == file.of # Previous => file.bytes = body[file.of].length

\* The destination always holds a whole body, after any failure, kill or
\* power cut: never the first maxBytes of a longer one, never a torn file.
DestinationWhole == Whole(dest) /\ \A file \in past : Whole(file)

\* A transfer that returns has removed its temporary file or renamed it.
NoPartialFileLeft == \A t \in Transfers : pc[t] = "done" => temp[t] = NoFile

\* The destination is replaced by archives only (docs/adr/0005: "It requires
\* a complete HTTP 200 response and a nonempty ZIP directory.").
DestinationIsArchive == dest.of # Previous => body[dest.of].archive

File_ == INSTANCE AtomicFile WITH
    content <- IF Whole(dest) THEN dest.of ELSE NoFile,
    past <- {file.of : file \in past},
    open <- {t \in Transfers : pc[t] \in Pending}

\* Download keeps the promise of AtomicFile.
AtomicFileSpec == File_!Spec

=============================================================================
