----------------------------- MODULE LiveCaches ------------------------------
(***************************************************************************)
(* The two memory caches of the live provider (internal/providers/live.go): *)
(* the Velo'v stations (allVelov) and the availability of the public car    *)
(* parks (parkingAvailability).  Each is refreshed by the caller that finds *)
(* it expired, under a mutex that this caller holds across all its network  *)
(* reads; car parks fall back from OGC features to WFS and to tables.       *)
(*                                                                         *)
(* The two share nothing: a behaviour is one of the one or of the other.  A *)
(* paged read is one step, with what its rows and its error tell apart.     *)
(* Time is counted in ticks; a local statement takes none.                  *)
(***************************************************************************)
EXTENDS Integers

CONSTANTS
    Callers,        \* concurrent tool calls
    Nobody,         \* holds a free mutex
    RegistryTtl,    \* ttl_seconds of the source
    FallbackTtl,    \* sourceTTL's third argument
    MaxTime         \* bound: ticks

ASSUME TimeAssumption ==
    /\ RegistryTtl \in Nat
    /\ FallbackTtl \in Nat \ {0}
    /\ MaxTime \in Nat
    /\ Nobody \notin Callers

Kinds == {"velov", "parking"}
Errors == {"none", "truncated", "failed"}
Never == -1
Times == 0 .. MaxTime

\* Where the entries of an answer come from, if it has any: the features of
\* OGC and WFS carry coordinates, the rows of a table do not.
Origins == {"nowhere", "features", "table"}

VARIABLES
    kind,       \* which of the two it is
    now,
    cache,      \* what its fields hold
    mutex,      \* velovMu or parkingMu: who has it
    call        \* the callers' frames

vars == <<kind, now, cache, mutex, call>>

\* An answer: its entries, when they were retrieved, and its error.
Answer == [origin : Origins, retrieved : Times \cup {Never}, error : Errors]
NoAnswer == [origin |-> "nowhere", retrieved |-> Never, error |-> "none"]

Frame == [
    pc : {"idle", "locking", "reading", "storing", "listing", "returning"},
    ended : BOOLEAN,                \* its context has ended
    rung : 1 .. 4,                  \* OGC, WFS, and one or two tables
    read : SUBSET {"none", "truncated"},    \* sourceSucceeded; truncationError
    origin : Origins,
    answer : Answer,
    stamps : SUBSET (Times \cup {Never})  \* RetrievedAt of its car parks
]

NoFrame == [pc |-> "idle", ended |-> FALSE, rung |-> 1,
            read |-> {}, origin |-> "nowhere", answer |-> NoAnswer, stamps |-> {}]

NoCache == [expires |-> 0, answer |-> NoAnswer]

TypeOK ==
    /\ kind \in Kinds
    /\ now \in Times
    /\ cache \in [expires : 0 .. MaxTime + RegistryTtl + FallbackTtl, answer : Answer]
    /\ mutex \in Callers \cup {Nobody}
    /\ call \in [Callers -> Frame]
    /\ \A c \in Callers : mutex = c <=> call[c].pc \in {"reading", "storing"}

Init ==
    /\ kind \in Kinds
    /\ now = 0
    /\ cache = NoCache
    /\ mutex = Nobody
    /\ call = [c \in Callers |-> NoFrame]

Goto(c, p, frame) == call' = [call EXCEPT ![c] = [frame EXCEPT !.pc = p]]

\* A caller has the answer of a cache, and the mutex no more.  Parkings maps the
\* features to car parks retrieved now.
Answered(c, answer) ==
    Goto(c, IF kind = "velov" THEN "returning" ELSE "listing",
         [NoFrame EXCEPT !.ended = call[c].ended, !.answer = answer,
                         !.stamps = IF answer.origin = "features" THEN {now} ELSE {}])

\* Mutant: the mutex is not released on the way out.
ReleaseForgotten == UNCHANGED mutex

\* The deferred Unlock.
Unlocked == mutex' = Nobody

-----------------------------------------------------------------------------
(* A tool call.                                                            *)

\* Stations, or Parkings with public car parks among the types.
Enter(c) ==
    /\ call[c].pc = "idle"
    /\ Goto(c, "locking", NoFrame)
    /\ UNCHANGED <<kind, now, cache, mutex>>

\* The client gives up, or the tool's time limit is reached.
EndContext(c) ==
    /\ call[c].pc \in {"locking", "reading", "storing", "listing"}
    /\ ~call[c].ended
    /\ call' = [call EXCEPT ![c].ended = TRUE]
    /\ UNCHANGED <<kind, now, cache, mutex>>

\* Lock; time.Now().Before(expires): the cached answer, error included.
Hit(c) ==
    /\ call[c].pc = "locking"
    /\ mutex = Nobody
    /\ now < cache.expires
    /\ Answered(c, cache.answer)
    /\ UNCHANGED <<kind, now, cache, mutex>>

\* Lock; resolveSource finds the source.
Refresh(c) ==
    /\ call[c].pc = "locking"
    /\ mutex = Nobody
    /\ now >= cache.expires
    /\ mutex' = c
    /\ Goto(c, "reading", call[c])
    /\ UNCHANGED <<kind, now, cache>>

\* Lock; resolveSource returns an error: the source is disabled or invalid, or
\* the context has ended.
Refuse(c) ==
    /\ call[c].pc = "locking"
    /\ mutex = Nobody
    /\ now >= cache.expires
    /\ Answered(c, [NoAnswer EXCEPT !.error = "failed"])
    /\ UNCHANGED <<kind, now, cache, mutex>>

-----------------------------------------------------------------------------
(* A refresh, by the caller that holds the mutex.                          *)

\* What a paged read may return: with an error it may have rows nevertheless.
\* A read whose context ended fails, or reports the rows it has as truncated.
Result(c) ==
    {r \in [error : Errors, useful : BOOLEAN] : call[c].ended => r.error # "none"}

\* Mutant: after a failed read the last stations are kept for another period.
ReadStationsStale(c) ==
    /\ call[c].pc = "reading"
    /\ kind = "velov"
    /\ \E r \in Result(c) :
          IF r.error = "none"
             THEN /\ Goto(c, "storing", [call[c] EXCEPT !.read = {"none"},
                              !.origin = IF r.useful THEN "table" ELSE "nowhere"])
                  /\ UNCHANGED <<cache, mutex>>
             ELSE /\ Answered(c, [cache.answer EXCEPT !.error = r.error])
                  /\ cache' = [cache EXCEPT !.expires = now + RegistryTtl]
                  /\ Unlocked
    /\ UNCHANGED <<kind, now>>

\* allVelov: an error ends it, with the rows or without, and nothing is kept.
\* Stations drops the rows.
ReadStations(c) ==
    /\ call[c].pc = "reading"
    /\ kind = "velov"
    /\ \E r \in Result(c) :
          IF r.error = "none"
             THEN /\ Goto(c, "storing", [call[c] EXCEPT !.read = {"none"},
                              !.origin = IF r.useful THEN "table" ELSE "nowhere"])
                  /\ UNCHANGED mutex
             ELSE /\ Answered(c, [NoAnswer EXCEPT !.error = r.error])
                  /\ Unlocked
    /\ UNCHANGED <<kind, now, cache>>

\* parkingAvailability: the next source, until one has an availability.  A
\* table of the registry's own is the only table asked.
ReadAvailability(c) ==
    /\ call[c].pc = "reading"
    /\ kind = "parking"
    /\ \E r \in Result(c) :
          LET frame == [call[c] EXCEPT
                  !.read = @ \cup ({r.error} \ {"failed"}),
                  !.origin = IF ~r.useful THEN "nowhere"
                             ELSE IF call[c].rung < 3 THEN "features" ELSE "table"]
          IN \/ /\ r.useful \/ call[c].rung >= 3
                /\ Goto(c, "storing", frame)
             \/ /\ ~r.useful /\ call[c].rung < 4
                /\ Goto(c, "reading", [frame EXCEPT !.rung = @ + 1])
    /\ UNCHANGED <<kind, now, cache, mutex>>

\* The error that a refresh leaves: that of every source, if none succeeded;
\* else truncation, whichever source it concerns.
ErrorOf(frame) ==
    IF "none" \notin frame.read THEN "failed"
    ELSE IF "truncated" \in frame.read THEN "truncated" ELSE "none"

\* Mutant: the answer is kept, but its expiry is not set.
StoreUndated(c) ==
    LET answer == [origin |-> call[c].origin, retrieved |-> now, error |-> ErrorOf(call[c])]
    IN
    /\ call[c].pc = "storing"
    /\ cache' = [cache EXCEPT !.answer = answer]
    /\ Answered(c, answer)
    /\ Unlocked
    /\ UNCHANGED <<kind, now>>

\* The cache's fields are set; sourceTTL reads the registry, and falls back
\* when it cannot, as with a context that has ended.
Store(c) ==
    LET answer == [origin |-> call[c].origin, retrieved |-> now, error |-> ErrorOf(call[c])]
    IN
    /\ call[c].pc = "storing"
    /\ \E ttl \in IF call[c].ended THEN {FallbackTtl} ELSE {RegistryTtl, FallbackTtl} :
          cache' = [expires |-> now + ttl, answer |-> answer]
    /\ Answered(c, answer)
    /\ Unlocked
    /\ UNCHANGED <<kind, now>>

-----------------------------------------------------------------------------
(* The rest of Parkings, without the mutex.                                *)

\* The table of public car parks: those that the answer has an availability for
\* get it, and the retrieval time that parkingRetrieved holds by now.  The
\* table may fail, or have none of them.
ListTable(c) ==
    /\ call[c].pc = "listing"
    /\ \E stamps \in {{}} \cup
             (IF call[c].answer.origin = "nowhere" \/ call[c].ended THEN {}
              ELSE {{cache.answer.retrieved}}) :
          Goto(c, "returning", [call[c] EXCEPT !.stamps = @ \cup stamps])
    /\ UNCHANGED <<kind, now, cache, mutex>>

Return(c) ==
    /\ call[c].pc = "returning"
    /\ call' = [call EXCEPT ![c] = NoFrame]
    /\ UNCHANGED <<kind, now, cache, mutex>>

Tick ==
    /\ now < MaxTime
    /\ now' = now + 1
    /\ UNCHANGED <<kind, cache, mutex, call>>

Step(c) ==
    \/ Hit(c) \/ Refresh(c) \/ Refuse(c)
    \/ ReadStations(c) \/ ReadAvailability(c) \/ Store(c)
    \/ ListTable(c) \/ Return(c)

Next ==
    \/ \E c \in Callers : Step(c) \/ EndContext(c) \/ Enter(c)
    \/ Tick

Spec == Init /\ [][Next]_vars

\* Goroutines run on, and every paged read ends by its budget.  A Go mutex does
\* not starve a waiter (sync.Mutex, starvation mode), hence strong fairness
\* on what follows Lock.
Fairness ==
    \A c \in Callers :
        /\ SF_vars(Hit(c) \/ Refresh(c) \/ Refuse(c))
        /\ WF_vars(ReadStations(c) \/ ReadAvailability(c))
        /\ WF_vars(Store(c))
        /\ WF_vars(ListTable(c) \/ Return(c))

FairSpec == Spec /\ Fairness

-----------------------------------------------------------------------------
(* Properties.                                                             *)

Longest == IF RegistryTtl > FallbackTtl THEN RegistryTtl ELSE FallbackTtl
Shortest == IF RegistryTtl < FallbackTtl THEN RegistryTtl ELSE FallbackTtl

\* "The application does not guarantee stale recovery" (docs/data-sources.md:84):
\* whatever fails, entries are served only for a period after their retrieval.
AnswersAreRecent ==
    [][\A c \in Callers :
          call[c].answer = NoAnswer /\ call'[c].answer.origin # "nowhere"
          => \/ now = call'[c].answer.retrieved
             \/ now - call'[c].answer.retrieved < Longest]_vars

\* Callers that find a cache expired together make one refresh: nobody begins
\* one within a period of the last one that was kept.
OneRefreshPerPeriod ==
    [][\A c \in Callers :
          LET last == cache.answer.retrieved IN
          call[c].pc = "locking" /\ call'[c].pc = "reading" /\ last # Never
          => now - last >= Shortest]_vars

\* A refresh that is kept without error had a source that succeeded, and none
\* that was cut short; stations are kept from complete reads only.
FailuresSurface ==
    [][\A c \in Callers :
          call[c].pc = "storing" /\ call'[c].pc # "storing" /\ call'[c].answer.error = "none"
          => IF kind = "velov" THEN call[c].read = {"none"}
             ELSE "none" \in call[c].read /\ "truncated" \notin call[c].read]_vars

\* Every call returns, although its context cannot take it off the mutex.
EveryCallReturns == \A c \in Callers : call[c].pc # "idle" ~> call[c].pc = "idle"

\* "`retrieved_at` is the fetch (cache reuse keeps the original fetch time)"
\* (docs/tools.md:70): the car parks of an answer with an availability say when
\* that availability was retrieved.
RetrievedAtIsFetch ==
    \A c \in Callers :
        call[c].answer.error = "none" => call[c].stamps \subseteq {call[c].answer.retrieved}

=============================================================================
