-------------------------- MODULE HttpRequestProofs --------------------------
(***************************************************************************)
(* Theorems about what one request of the HTTP client does: the attempts of *)
(* do (HttpRetry), for any budget, delays and headers, and the file that    *)
(* Download makes of an answer (HttpDownload), for any transfers and any    *)
(* byte limit: what is at the destination is always whole, no transfer      *)
(* leaves its temporary file behind, and Download implements AtomicFile.    *)
(***************************************************************************)
EXTENDS HttpDownload, HttpRetry, TLAPS

-----------------------------------------------------------------------------
(* The invariant of the downloads.                                         *)

Places == Pending \cup {"failed", "done", "dead"}

\* A file that a transfer has put at the destination is on the disk and is all
\* of the body it got; the transfer is over, so the body stays as it is.
Landed(file) ==
    /\ file.durable
    /\ file.of # Previous => pc[file.of] = "done" /\ file.bytes = body[file.of].length

\* What a transfer's temporary file holds where the transfer is.
TempSound(t) ==
    /\ pc[t] \in {"start", "answered", "done"} => temp[t] = NoFile
    /\ pc[t] \in {"writing", "copied", "flushed"} => temp[t] \in 0 .. MaxBytes + 1
    /\ pc[t] \in {"copied", "flushed"} => temp[t] = body[t].length
    /\ pc[t] = "flushed" => synced[t]

Types ==
    /\ pc \in [Transfers -> Places] /\ body \in [Transfers -> Body]
    /\ temp \in [Transfers -> (0 .. MaxBytes + 1) \cup {NoFile}]
    /\ synced \in [Transfers -> BOOLEAN]
    /\ dest \in File /\ past \subseteq File
    /\ result \in [Transfers -> Results]

Inv ==
    /\ Types
    /\ \A t \in Transfers : TempSound(t)
    /\ \A file \in past \cup {dest} : Landed(file)

-----------------------------------------------------------------------------
LEMMA InitSound == Init => Inv
<1> SUFFICES ASSUME Init PROVE Inv
  OBVIOUS
<1>1. NoBody \in Body
  BY LimitAssumption DEF NoBody, Body
<1>2. dest \in File /\ past = {} /\ dest.of = Previous /\ dest.durable
  BY DEF Init, File
<1>3. Types
  BY <1>1, <1>2 DEF Init, Types, Places, Pending, Results
<1> QED BY <1>2, <1>3 DEF Init, Inv, TempSound, Landed

\* A step of one transfer that is not over and does not replace the destination.
LEMMA TransferStep ==
  ASSUME Inv, NEW t \in Transfers, pc[t] # "done",
         NEW place \in Places, pc' = [pc EXCEPT ![t] = place],
         Types', TempSound(t)', UNCHANGED <<dest, past>>,
         \A u \in Transfers \ {t} :
            body'[u] = body[u] /\ temp'[u] = temp[u] /\ synced'[u] = synced[u]
  PROVE  Inv'
<1>1. \A u \in Transfers \ {t} : pc'[u] = pc[u]
  BY DEF Inv, Types
<1>2. ASSUME NEW u \in Transfers PROVE TempSound(u)'
  BY <1>1 DEF Inv, TempSound
<1>3. ASSUME NEW file \in past \cup {dest} PROVE Landed(file)'
  <2>1. file.of \in Transfers \cup {Previous} /\ Landed(file)
    BY DEF Inv, Types, File
  <2>2. file.of # t
    BY <2>1, PreviousAssumption DEF Landed
  <2> QED BY <1>1, <2>1, <2>2 DEF Landed
<1> QED BY <1>2, <1>3 DEF Inv

LEMMA ReturnNoFileSound ==
  ASSUME Inv, NEW t \in Transfers, ReturnNoFile(t)
  PROVE  Inv'
<1>1. /\ pc[t] = "start" /\ pc' = [pc EXCEPT ![t] = "done"]
      /\ UNCHANGED <<body, temp, synced, dest, past>>
      /\ result' \in [Transfers -> Results]
  BY DEF ReturnNoFile, Return, Results, Inv, Types
<1>2. Types' /\ TempSound(t)'
  BY <1>1 DEF Inv, Types, TempSound, Places
<1> QED BY <1>1, <1>2, TransferStep DEF Places

LEMMA AcceptSound ==
  ASSUME Inv, NEW t \in Transfers, Accept(t)
  PROVE  Inv'
<1>1. PICK b \in Body : body' = [body EXCEPT ![t] = b]
  BY DEF Accept
<1>2. /\ pc[t] = "start" /\ pc' = [pc EXCEPT ![t] = "answered"]
      /\ UNCHANGED <<temp, synced, dest, past, result>>
  BY DEF Accept
<1>3. Types' /\ TempSound(t)'
  BY <1>1, <1>2 DEF Inv, Types, TempSound, Places, Pending
<1> QED BY <1>1, <1>2, <1>3, TransferStep DEF Places, Pending, Inv, Types

LEMMA CreateTempSound ==
  ASSUME Inv, NEW t \in Transfers, CreateTemp(t)
  PROVE  Inv'
<1>1. CASE Return(t, "error") /\ UNCHANGED temp
  <2>1. /\ pc[t] = "answered" /\ pc' = [pc EXCEPT ![t] = "done"]
        /\ UNCHANGED <<body, temp, synced, dest, past>>
        /\ result' \in [Transfers -> Results]
    BY <1>1 DEF CreateTemp, Return, Results, Inv, Types
  <2>2. Types' /\ TempSound(t)'
    BY <2>1 DEF Inv, Types, TempSound, Places
  <2> QED BY <2>1, <2>2, TransferStep DEF Places
<1>2. CASE temp' = [temp EXCEPT ![t] = 0] /\ pc' = [pc EXCEPT ![t] = "writing"]
  <2>1. pc[t] = "answered" /\ UNCHANGED <<body, synced, dest, past>>
    BY DEF CreateTemp
  <2>2. UNCHANGED result
    BY <1>2, <2>1 DEF CreateTemp, Return, Inv, Types
  <2>3. Types' /\ TempSound(t)'
    BY <1>2, <2>1, <2>2, LimitAssumption DEF Inv, Types, TempSound, Places, Pending
  <2> QED BY <1>2, <2>1, <2>3, TransferStep DEF Places, Pending, Inv, Types
<1> QED BY <1>1, <1>2 DEF CreateTemp

LEMMA CopyMoreSound ==
  ASSUME Inv, NEW t \in Transfers, CopyMore(t)
  PROVE  Inv'
<1>1. /\ pc[t] = "writing" /\ temp[t] < CopyLimit(t) /\ temp' = [temp EXCEPT ![t] = @ + 1]
      /\ UNCHANGED <<pc, body, synced, dest, past, result>>
  BY DEF CopyMore
<1>2. temp[t] + 1 \in 0 .. MaxBytes + 1
  BY <1>1, LimitAssumption DEF CopyLimit, Lower, Inv, Types, TempSound, Body
<1>3. Types' /\ TempSound(t)'
  BY <1>1, <1>2 DEF Inv, Types, TempSound
<1>4. pc' = [pc EXCEPT ![t] = "writing"]
  BY <1>1 DEF Inv, Types
<1> QED BY <1>1, <1>3, <1>4, TransferStep DEF Places, Pending, Inv, Types

\* The steps that move a transfer to the clean-up, or end it.
LEMMA FailureSound ==
  ASSUME Inv, NEW t \in Transfers, pc[t] \notin {"done", "dead"},
         NEW place \in {"failed", "dead"}, pc' = [pc EXCEPT ![t] = place],
         UNCHANGED <<body, temp, synced, dest, past, result>>
  PROVE  Inv'
<1>1. Types' /\ TempSound(t)'
  BY DEF Inv, Types, TempSound, Places
<1> QED BY <1>1, TransferStep DEF Places

LEMMA CopyEndsSound ==
  ASSUME Inv, NEW t \in Transfers, CopyEnds(t)
  PROVE  Inv'
<1>1. pc[t] = "writing" /\ temp[t] = CopyLimit(t)
      /\ UNCHANGED <<body, temp, synced, dest, past, result>>
  BY DEF CopyEnds
<1>2. CASE temp[t] > MaxBytes
  BY <1>1, <1>2, FailureSound DEF CopyEnds
<1>3. CASE ~(temp[t] > MaxBytes)
  <2>1. pc' = [pc EXCEPT ![t] = "copied"]
    BY <1>3 DEF CopyEnds
  <2>2. temp[t] = body[t].length
    BY <1>1, <1>3, LimitAssumption DEF CopyLimit, Lower, Inv, Types, Body
  <2>3. Types' /\ TempSound(t)'
    BY <1>1, <2>1, <2>2 DEF Inv, Types, TempSound, Places, Pending
  <2> QED BY <1>1, <2>1, <2>3, TransferStep DEF Places, Pending
<1> QED BY <1>2, <1>3

LEMMA FlushSound ==
  ASSUME Inv, NEW t \in Transfers, Flush(t)
  PROVE  Inv'
<1>1. pc[t] = "copied" /\ UNCHANGED <<body, temp, dest, past, result>>
  BY DEF Flush
<1>2. CASE pc' = [pc EXCEPT ![t] = "flushed"] /\ synced' = [synced EXCEPT ![t] = TRUE]
  <2>1. Types' /\ TempSound(t)'
    BY <1>1, <1>2 DEF Inv, Types, TempSound, Places, Pending
  <2> QED BY <1>1, <1>2, <2>1, TransferStep DEF Places, Pending, Inv, Types
<1>3. CASE pc' = [pc EXCEPT ![t] = "failed"] /\ UNCHANGED synced
  BY <1>1, <1>3, FailureSound
<1> QED BY <1>2, <1>3 DEF Flush

LEMMA CleanUpSound ==
  ASSUME Inv, NEW t \in Transfers, CleanUp(t)
  PROVE  Inv'
<1>1. /\ pc[t] = "failed" /\ temp' = [temp EXCEPT ![t] = NoFile]
      /\ pc' = [pc EXCEPT ![t] = "done"] /\ result' = [result EXCEPT ![t] = "error"]
      /\ UNCHANGED <<body, synced, dest, past>>
  BY DEF CleanUp, Return
<1>2. Types' /\ TempSound(t)'
  BY <1>1 DEF Inv, Types, TempSound, Places, Results
<1> QED BY <1>1, <1>2, TransferStep DEF Places, Inv, Types

\* What a transfer publishes is on the disk and whole, and from now on its own
\* body does not change.
LEMMA PublishSound ==
  ASSUME Inv, NEW t \in Transfers, Publish(t)
  PROVE  Inv' /\ dest'.of = t
<1>1. /\ pc[t] = "flushed" /\ past' = past \cup {dest}
      /\ dest' = [of |-> t, bytes |-> temp[t], durable |-> synced[t]]
      /\ temp' = [temp EXCEPT ![t] = NoFile]
      /\ pc' = [pc EXCEPT ![t] = "done"] /\ result' = [result EXCEPT ![t] = "ok"]
      /\ UNCHANGED <<body, synced>>
  BY DEF Publish, Return
<1>2. synced[t] /\ temp[t] = body[t].length /\ temp[t] \in Nat
  BY <1>1, LimitAssumption DEF Inv, TempSound
<1>3. dest' \in File /\ dest'.of = t /\ dest'.bytes = body[t].length /\ dest'.durable
  BY <1>1, <1>2 DEF File
<1>4. Types'
  BY <1>1, <1>3 DEF Inv, Types, Places, Results
<1>5. pc'[t] = "done" /\ temp'[t] = NoFile
      /\ \A u \in Transfers \ {t} : pc'[u] = pc[u] /\ temp'[u] = temp[u]
  BY <1>1 DEF Inv, Types
<1>6. ASSUME NEW u \in Transfers PROVE TempSound(u)'
  BY <1>1, <1>5 DEF Inv, TempSound
<1>7. ASSUME NEW file \in past \cup {dest} PROVE Landed(file)'
  <2>1. file.of \in Transfers \cup {Previous} /\ Landed(file)
    BY DEF Inv, Types, File
  <2>2. file.of # t
    BY <1>1, <2>1, PreviousAssumption DEF Landed
  <2> QED BY <1>1, <1>5, <2>1, <2>2 DEF Landed
<1>8. Landed(dest)'
  BY <1>1, <1>3, <1>5 DEF Landed
<1> QED BY <1>1, <1>3, <1>4, <1>6, <1>7, <1>8 DEF Inv

\* Every file that may come back after a power cut had been synchronized.
LEMMA LosePowerSound ==
  ASSUME Inv, LosePower
  PROVE  Inv' /\ dest' \in past \cup {dest}
<1>1. /\ pc' = [t \in Transfers |-> Dead(pc[t])] /\ past' = {}
      /\ UNCHANGED <<body, temp, synced, result>>
  BY DEF LosePower
<1>2. dest' \in past \cup {dest}
  BY DEF LosePower, Inv, Landed
<1>3. \A t \in Transfers : pc'[t] \in {"done", "dead"} /\ (pc'[t] = "done" <=> pc[t] = "done")
  BY <1>1 DEF Dead
<1>4. Types'
  BY <1>1, <1>2, <1>3 DEF Inv, Types, Places
<1>5. \A t \in Transfers : TempSound(t)'
  BY <1>1, <1>3 DEF Inv, TempSound
<1>6. Landed(dest)'
  <2>1. dest'.of \in Transfers \cup {Previous} /\ Landed(dest')
    BY <1>2 DEF Inv, Types, File
  <2> QED BY <1>1, <1>3, <2>1 DEF Landed
<1> QED BY <1>1, <1>2, <1>4, <1>5, <1>6 DEF Inv

LEMMA Inductive == Inv /\ [Next]_vars => Inv'
<1> SUFFICES ASSUME Inv, [Next]_vars PROVE Inv'
  OBVIOUS
<1>1. ASSUME NEW t \in Transfers, Step(t) PROVE Inv'
  <2>1. CopyFails(t) \/ PublishFails(t) \/ Die(t) => Inv'
    BY FailureSound DEF CopyFails, PublishFails, Die
  <2> QED BY <1>1, <2>1, ReturnNoFileSound, AcceptSound, CreateTempSound, CopyMoreSound,
             CopyEndsSound, FlushSound, PublishSound, CleanUpSound DEF Step
<1>2. CASE UNCHANGED vars
  BY <1>2 DEF vars, Inv, Types, TempSound, Landed
<1> QED BY <1>1, <1>2, LosePowerSound DEF Next

LEMMA Invariance == Spec => []Inv
  BY InitSound, Inductive, PTL DEF Spec

-----------------------------------------------------------------------------
(* The theorems about the downloads.                                       *)

\* Types, and a transfer that writes has a temporary file (writeDownload).
THEOREM TypeCorrect == Spec => []TypeOK
<1>1. Inv => TypeOK
  BY NoFileAssumption, LimitAssumption DEF Inv, Types, TypeOK, TempSound, Places
<1> QED BY <1>1, Invariance, PTL

\* Whatever fails, a transfer that returns has removed or renamed its temporary
\* file; only the death of its process leaves one (writeDownload's deferred Remove).
THEOREM NoTempIsLeft == Spec => []NoPartialFileLeft
<1>1. Inv => NoPartialFileLeft
  BY DEF Inv, TempSound, NoPartialFileLeft
<1> QED BY <1>1, Invariance, PTL

\* The destination always holds a whole body, and so does every file that a power
\* cut could bring back (writeDownload's limit, Sync and Rename).
THEOREM AlwaysWhole == Spec => []DestinationWhole
<1>1. Inv => DestinationWhole
  BY DEF Inv, Landed, DestinationWhole, Whole
<1> QED BY <1>1, Invariance, PTL

\* Download implements AtomicFile: one atomic replacement by a whole body, or none.
THEOREM DownloadIsAtomic == Spec => AtomicFileSpec
<1> DEFINE content == IF Whole(dest) THEN dest.of ELSE NoFile
           earlier == {file.of : file \in past}
           open == {t \in Transfers : pc[t] \in Pending}
<1>1. Init => File_!Init
  BY DEF Init, File_!Init, Whole, Pending
<1>2. ASSUME Inv, Inv', [Next]_vars
      PROVE  [File_!Next]_(File_!vars)
  <2>1. content = dest.of /\ content' = dest'.of
    BY <1>2 DEF Inv, Landed, Whole
  <2>2. CASE LosePower
    <3>1. open' = {}
      BY <2>2 DEF LosePower, Dead, Pending
    <3>2. earlier' = {} /\ dest'.of \in earlier \cup {dest.of}
      BY <1>2, <2>2, LosePowerSound DEF LosePower
    <3>3. File_!LosePower
      BY <2>1, <3>1, <3>2 DEF File_!LosePower
    <3> QED BY <3>3 DEF File_!Next
  <2>3. ASSUME NEW t \in Transfers, Publish(t)
        PROVE  File_!Replace(t)
    <3>1. /\ pc[t] = "flushed" /\ pc' = [pc EXCEPT ![t] = "done"]
          /\ past' = past \cup {dest}
      BY <2>3 DEF Publish, Return
    <3>2. dest'.of = t
      BY <1>2, <2>3, PublishSound
    <3>3. t \in open /\ open' = open \ {t}
      BY <1>2, <3>1 DEF Inv, Types, Pending
    <3>4. earlier' = earlier \cup {dest.of}
      BY <3>1
    <3> QED BY <2>1, <3>2, <3>3, <3>4 DEF File_!Replace
  <2>4. ASSUME NEW t \in Transfers, NEW place \in Places, pc' = [pc EXCEPT ![t] = place],
               UNCHANGED <<dest, past>>, pc[t] \in Pending \/ place \notin Pending
        PROVE  File_!Abandon(t) \/ UNCHANGED File_!vars
    <3>1. content' = content /\ earlier' = earlier
      BY <2>1, <2>4
    <3>2. open' = IF place \in Pending THEN open \cup {t} ELSE open \ {t}
      BY <1>2, <2>4 DEF Inv, Types
    <3> QED BY <2>4, <3>1, <3>2 DEF File_!Abandon, File_!vars
  <2>5. ASSUME NEW t \in Transfers, Step(t), ~Publish(t)
        PROVE  File_!Abandon(t) \/ UNCHANGED File_!vars
    <3>1. \E place \in Places : /\ pc' = [pc EXCEPT ![t] = place] /\ UNCHANGED <<dest, past>>
                                /\ pc[t] \in Pending \/ place \notin Pending
      <4>1. CASE CopyMore(t)
        BY <1>2, <4>1 DEF CopyMore, Inv, Types, Places, Pending
      <4>2. CASE ReturnNoFile(t) \/ CreateTemp(t) \/ CleanUp(t)
        BY <4>2 DEF ReturnNoFile, CreateTemp, CleanUp, Return, Places, Pending
      <4>3. CASE Accept(t) \/ CopyFails(t) \/ Flush(t) \/ PublishFails(t) \/ Die(t)
        BY <4>3 DEF Accept, CopyFails, Flush, PublishFails, Die, Places, Pending
      <4>4. CASE CopyEnds(t)
        BY <4>4 DEF CopyEnds, Places, Pending
      <4> QED BY <2>5, <4>1, <4>2, <4>3, <4>4 DEF Step
    <3> QED BY <2>4, <3>1
  <2>6. CASE UNCHANGED vars
    BY <2>1, <2>6 DEF vars, File_!vars
  <2>7. CASE \E t \in Transfers : Step(t)
    BY <2>3, <2>5, <2>7 DEF File_!Next
  <2> QED BY <1>2, <2>2, <2>6, <2>7 DEF Next
<1> QED BY <1>1, <1>2, Invariance, PTL DEF Spec, AtomicFileSpec, File_!Spec

-----------------------------------------------------------------------------
(* Durations and delays.                                                   *)

\* A product of durations never wraps around to more than it is.
LEMMA WrappedBound ==
  ASSUME NEW ticks \in Nat
  PROVE  /\ Wrapped(ticks) \in Int /\ Wrapped(ticks) <= ticks
         /\ ticks < DurationLimit => Wrapped(ticks) = ticks
<1> DEFINE a == ticks + DurationLimit
           b == 2 * DurationLimit
<1>1. a \in Nat /\ b \in Nat \ {0}
  BY TimeAssumption DEF TimeAssumption
<1>2. \A x \in Nat, y \in Nat \ {0} : x % y \in Int /\ x % y <= x /\ (x < y => x % y = x)
  OBVIOUS
<1>3. a % b \in Int /\ a % b <= a /\ (a < b => a % b = a)
  BY <1>1, <1>2
<1>4. Wrapped(ticks) = (a % b) - DurationLimit
  BY DEF Wrapped
<1> HIDE DEF b
<1>5. ticks < DurationLimit => a < b
  BY TimeAssumption DEF TimeAssumption, b
<1> QED BY <1>3, <1>4, <1>5, TimeAssumption DEF TimeAssumption

LEMMA ProductOfNats ==
  ASSUME NEW m \in Nat, NEW n \in Nat
  PROVE  m * n \in Nat
  OBVIOUS

LEMMA PowerOfTwo ==
  ASSUME NEW n \in 1 .. 2
  PROVE  2 ^ (n - 1) \in Nat
<1>1. 2 ^ 0 = 1 /\ 2 ^ 1 = 2
  OBVIOUS
<1>2. n - 1 = 0 \/ n - 1 = 1
  OBVIOUS
<1>3. CASE n - 1 = 0
  <2>1. 2 ^ (n - 1) = 2 ^ 0
    BY <1>3, Zenon
  <2> QED BY <1>1, <2>1
<1>4. CASE n - 1 = 1
  <2>1. 2 ^ (n - 1) = 2 ^ 1
    BY <1>4, Zenon
  <2> QED BY <1>1, <2>1
<1> QED BY <1>2, <1>3, <1>4

\* A Retry-After header asks for a time, and its delay ends then, or earlier if
\* the product wrapped around.
LEMMA HeaderDelay ==
  ASSUME NEW header \in Headers, header.kind # "none", now \in Nat
  PROVE  /\ ParseRetryAfter(header) \in Int /\ Requested(header) \in Int
         /\ now + ParseRetryAfter(header) <= Requested(header)
         /\ (header.kind = "seconds" => header.value * Second < DurationLimit)
               => now + ParseRetryAfter(header) = Requested(header)
<1>1. CASE header.kind = "seconds"
  <2>1. PICK ticks \in Nat : ticks = header.value * Second
    <3>1. header.value \in Nat /\ Second \in Nat
      BY <1>1, TimeAssumption DEF TimeAssumption, Headers
    <3> QED BY <3>1, ProductOfNats
  <2>2. ParseRetryAfter(header) = Wrapped(ticks) /\ Requested(header) = now + ticks
    BY <1>1, <2>1 DEF ParseRetryAfter, Requested
  <2> QED BY <1>1, <2>1, <2>2, WrappedBound
<1>2. CASE header.kind # "seconds"
  <2>1. header.value \in Int
    BY <1>2, TimeAssumption DEF TimeAssumption, Headers
  <2> QED BY <1>2, <2>1 DEF ParseRetryAfter, Requested, Later
<1> QED BY <1>1, <1>2

LEMMA BackoffTypes ==
  ASSUME attempt \in 1 .. 2, NEW delay \in Backoffs
  PROVE  delay \in Nat
<1>1. PICK power \in Nat : power = 2 ^ (attempt - 1)
  BY PowerOfTwo
<1>2. PICK base \in Nat : base = FirstRetryDelay * 2 ^ (attempt - 1)
  BY <1>1, ProductOfNats, TimeAssumption DEF TimeAssumption
<1>3. PICK half \in Nat : half = base \div 2
  BY <1>2
<1>4. PICK jitter \in 0 .. half : delay = half + jitter
  BY <1>2, <1>3 DEF Backoffs
<1> QED BY <1>4

-----------------------------------------------------------------------------
(* The invariant of the attempts.                                          *)

\* The header's values are durations.
Representable == \A s \in DelaySeconds : s * Second < DurationLimit

\* The wait ends no later than asked for, and no earlier if it could be counted.
WaitSound ==
    where = "waiting" => /\ attempt < MaximumAttempts /\ wake <= notBefore
                         /\ Representable => wake = notBefore

AttemptsInv ==
    /\ AttemptsTypeOK /\ BudgetDecides /\ WaitSound
    /\ where = "start" => notBefore = 0
    /\ Representable => RetryAfterHonoured

\* What follows a failed attempt: a wait of delay, when the next attempt may
\* start at the time until, if it is no wait at all.
LEMMA DelaySound ==
  ASSUME AttemptsInv, where = "sending", attempt < MaximumAttempts,
         NEW delay \in Int, WaitRetryDelay(delay), notBefore' \in Int,
         now + delay <= notBefore', Representable => now + delay = notBefore',
         UNCHANGED <<now, ctx>>
  PROVE  AttemptsInv'
<1>1. /\ now \in 0 .. Budget + Slack /\ attempt \in 1 .. MaximumAttempts /\ wake \in Nat
      /\ ctx \in {"live", "cancelled", "expired"} /\ returned = "none"
  BY DEF AttemptsInv, AttemptsTypeOK
<1>2. CASE Budget - now < delay /\ Finish("budget")
  BY <1>1, <1>2, TimeAssumption DEF TimeAssumption,
         Finish, AttemptsInv, AttemptsTypeOK, BudgetDecides, WaitsWithinBudget,
         BudgetErrorJustified, WaitSound, RetryAfterHonoured, Errors
<1>3. CASE /\ Budget - now >= delay /\ delay <= 0
           /\ where' = "sending" /\ attempt' = attempt + 1 /\ UNCHANGED <<wake, returned>>
  BY <1>1, <1>3, TimeAssumption DEF TimeAssumption,
         AttemptsInv, AttemptsTypeOK, BudgetDecides, WaitsWithinBudget,
         BudgetErrorJustified, WaitSound, RetryAfterHonoured, MaximumAttempts
<1>4. CASE /\ Budget - now >= delay /\ delay > 0
           /\ where' = "waiting" /\ wake' = now + delay /\ UNCHANGED <<attempt, returned>>
  BY <1>1, <1>4, TimeAssumption DEF TimeAssumption,
         AttemptsInv, AttemptsTypeOK, BudgetDecides, WaitsWithinBudget,
         BudgetErrorJustified, WaitSound, RetryAfterHonoured
<1> QED BY <1>2, <1>3, <1>4 DEF WaitRetryDelay

LEMMA BackOffSound ==
  ASSUME AttemptsInv, where = "sending", attempt < MaximumAttempts,
         BackOff, UNCHANGED <<now, ctx>>
  PROVE  AttemptsInv'
<1>1. attempt \in 1 .. 2 /\ now \in Nat
  BY TimeAssumption DEF TimeAssumption, AttemptsInv, AttemptsTypeOK, MaximumAttempts
<1>2. PICK delay \in Backoffs : WaitRetryDelay(delay) /\ notBefore' = now + delay
  BY DEF BackOff
<1> QED BY <1>1, <1>2, BackoffTypes, DelaySound

LEMMA AnswerRetriedSound ==
  ASSUME AttemptsInv, NEW header \in Headers, AnswerRetried(header)
  PROVE  AttemptsInv'
<1>1. CASE header.kind = "none"
  BY <1>1, BackOffSound DEF AnswerRetried
<1>2. CASE header.kind # "none"
  <2>1. now \in Nat
    BY TimeAssumption DEF TimeAssumption, AttemptsInv, AttemptsTypeOK
  <2>2. header.kind = "seconds" => header.value \in DelaySeconds
    BY DEF Headers
  <2>3. /\ where = "sending" /\ attempt < MaximumAttempts
        /\ WaitRetryDelay(ParseRetryAfter(header))
        /\ notBefore' = Requested(header) /\ UNCHANGED <<now, ctx>>
    BY <1>2 DEF AnswerRetried
  <2> QED BY <1>2, <2>1, <2>2, <2>3, HeaderDelay, DelaySound DEF Representable
<1> QED BY <1>1, <1>2

LEMMA AttemptsInductive ==
  ASSUME AttemptsInv, [AttemptsNext]_attemptVars
  PROVE  AttemptsInv'
<1> USE DEF AttemptsTypeOK, BudgetDecides, WaitsWithinBudget, BudgetErrorJustified, WaitSound,
            RetryAfterHonoured
<1>1. CASE UNCHANGED attemptVars
  BY <1>1 DEF attemptVars, AttemptsInv
<1>2. CASE Refuse
  BY <1>2 DEF Refuse, Finish, AttemptsInv, Errors
<1>3. CASE Begin
  BY <1>3 DEF Begin, AttemptsInv
<1>4. CASE AnswerReturned
  BY <1>4 DEF AnswerReturned, Finish, AttemptsInv, Responses
<1>5. ASSUME NEW header \in Headers, AnswerRetried(header) PROVE AttemptsInv'
  BY <1>5, AnswerRetriedSound
<1>6. CASE SendStopped
  BY <1>6 DEF SendStopped, Finish, AttemptsInv, Errors
<1>7. CASE RedirectRefused
  BY <1>7 DEF RedirectRefused, Finish, AttemptsInv, Errors
<1>8. CASE SendFailed
  <2>1. CASE attempt = MaximumAttempts
    BY <1>8, <2>1 DEF SendFailed, Finish, AttemptsInv, Errors
  <2>2. CASE attempt # MaximumAttempts
    BY <1>8, <2>2, BackOffSound DEF SendFailed, AttemptsInv, MaximumAttempts
  <2> QED BY <2>1, <2>2
<1>9. CASE Retry
  BY <1>9, TimeAssumption DEF TimeAssumption, Retry, AttemptsInv, MaximumAttempts
<1>10. CASE WaitStopped
  BY <1>10 DEF WaitStopped, Finish, AttemptsInv, Errors
<1>11. CASE Cancel \/ Expire
  BY <1>11 DEF Cancel, Expire, AttemptsInv
<1>12. CASE Tick
  BY <1>12, TimeAssumption DEF TimeAssumption, Tick, AttemptsInv
<1> QED BY <1>1, <1>2, <1>3, <1>4, <1>5, <1>6, <1>7, <1>8, <1>9, <1>10, <1>11, <1>12
    DEF AttemptsNext

LEMMA AttemptsInitSound ==
  ASSUME AttemptsInit
  PROVE  AttemptsInv
  BY TimeAssumption DEF TimeAssumption,
         AttemptsInit, AttemptsInv, AttemptsTypeOK, BudgetDecides, WaitsWithinBudget,
         BudgetErrorJustified, WaitSound, RetryAfterHonoured, MaximumAttempts

LEMMA AttemptsInvariance == AttemptsSpec => []AttemptsInv
<1>1. AttemptsInit => AttemptsInv
  BY AttemptsInitSound
<1>2. AttemptsInv /\ [AttemptsNext]_attemptVars => AttemptsInv'
  BY AttemptsInductive
<1> QED BY <1>1, <1>2, PTL DEF AttemptsSpec

-----------------------------------------------------------------------------
(* The theorems about the attempts.                                        *)

\* Clock, timers and results keep their types, and do has a result exactly when
\* it has returned.
THEOREM AttemptsTyped == AttemptsSpec => []AttemptsTypeOK
<1>1. AttemptsInv => AttemptsTypeOK
  BY DEF AttemptsInv
<1>2. AttemptsSpec => []AttemptsInv
  BY AttemptsInvariance
<1> QED BY <1>1, <1>2, PTL

\* The budget alone decides whether a retry is waited for: no wait crosses the
\* deadline, and a retry that fits is never given up, even when the product of
\* the header's seconds wraps around (waitRetryDelay).
THEOREM BudgetIsDecisive == AttemptsSpec => []BudgetDecides
<1>1. AttemptsInv => BudgetDecides
  BY DEF AttemptsInv
<1>2. AttemptsSpec => []AttemptsInv
  BY AttemptsInvariance
<1> QED BY <1>1, <1>2, PTL

\* Where the headers' seconds fit a duration, no attempt starts before the time
\* that the upstream asked for or before the backoff is over (waitForRetry).
THEOREM RetryAfterIsHonoured ==
  ASSUME Representable
  PROVE  AttemptsSpec => []RetryAfterHonoured
<1>1. AttemptsInv => RetryAfterHonoured
  BY DEF AttemptsInv
<1>2. AttemptsSpec => []AttemptsInv
  BY AttemptsInvariance
<1> QED BY <1>1, <1>2, PTL

=============================================================================
