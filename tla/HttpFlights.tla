----------------------------- MODULE HttpFlights -----------------------------
(***************************************************************************)
(* internal/httpclient/client.go: the shared client's concurrency.          *)
(*                                                                         *)
(* Client.Get coalesces reads.  Under flightsMu a caller joins the flight   *)
(* registered for its key or registers a new one and spawns its runner;     *)
(* it then waits for the flight's done channel or for its own context, and  *)
(* a deferred leaveFlight takes it off the flight.  The runner takes a      *)
(* permit, sends the request, gives the permit back, and publishes the      *)
(* outcome under flightsMu.  Client.Download takes permits from the same    *)
(* pool.  One action stands for one critical section or one blocking point. *)
(*                                                                         *)
(* A *flight that is published and has no waiter is garbage: its identity   *)
(* and its fields are free again, so that callers may call for ever.        *)
(***************************************************************************)
EXTENDS Integers, FiniteSets

CONSTANTS
    Callers,        \* goroutines that call Get, one call at a time each
    Keys,           \* results of flightKey: URL, auth, byte limit, identity
    Flights,        \* identities of *flight values
    Downloads,      \* goroutines that call Download
    MaxParallel,    \* config.Config.MaxParallel
    NoFlight,       \* nil: a key without an entry, a caller outside Get
    NoKey           \* the key of a flight that does not exist

ASSUME ParallelAssumption == MaxParallel \in Int
ASSUME NilAssumption == NoFlight \notin Flights /\ NoKey \notin Keys
ASSUME FiniteAssumption ==
    IsFiniteSet(Callers) /\ IsFiniteSet(Flights) /\ IsFiniteSet(Downloads)

VARIABLES
    flights,    \* client.flights: [Keys -> Flights \cup {NoFlight}]
    heap,       \* the *flight values: [Flights -> Flight]
    permits,    \* len(client.permits): permits taken
    get,        \* the callers' frames of Get: [Callers -> Call]
    transfer    \* where a download is

vars == <<flights, heap, permits, get, transfer>>

-----------------------------------------------------------------------------
Contexts == {"live", "cancelled", "expired"}
Outcomes == {"none", "ok", "failed", "cancelled", "expired"}

Flight == [
    phase : {"free", "queued", "fetching", "returned", "closed"},
    key : Keys \cup {NoKey},
    waiters : Int,      \* exact value: WaitersExact
    ctx : Contexts,     \* flight.context.Err()
    outcome : Outcomes  \* flight.response and flight.err
]

Call == [
    pc : {"idle", "waiting", "leaving"},
    flight : Flights \cup {NoFlight},   \* the local `current`
    key : Keys \cup {NoKey},
    alive : BOOLEAN,    \* the caller's own context has not ended
    answer : Outcomes \cup {"gaveUp"}
]

FreeFlight == [phase |-> "free", key |-> NoKey, waiters |-> 0,
               ctx |-> "cancelled", outcome |-> "none"]
NoCall == [pc |-> "idle", flight |-> NoFlight, key |-> NoKey,
           alive |-> TRUE, answer |-> "none"]

\* NewWithTransport raises a MaxParallel below one to one.
PermitCapacity == IF MaxParallel < 1 THEN 1 ELSE MaxParallel

TypeOK ==
    /\ flights \in [Keys -> Flights \cup {NoFlight}]
    /\ heap \in [Flights -> Flight]
    /\ permits \in Int      \* exact value: PermitsAccounted
    /\ get \in [Callers -> Call]
    /\ \A c \in Callers : get[c].pc = "idle" <=> get[c].flight = NoFlight
    /\ transfer \in [Downloads -> {"idle", "queued", "transferring"}]

Init ==
    /\ flights = [k \in Keys |-> NoFlight]
    /\ heap = [f \in Flights |-> FreeFlight]
    /\ permits = 0
    /\ get = [c \in Callers |-> NoCall]
    /\ transfer = [d \in Downloads |-> "idle"]

\* A flight once nothing refers to it is garbage.
Collected(flight) ==
    IF flight.phase = "closed" /\ flight.waiters <= 0 THEN FreeFlight ELSE flight

\* context.CancelFunc: the first reason to end a context is the one it keeps.
Cancelled(flight) ==
    IF flight.ctx = "live" THEN [flight EXCEPT !.ctx = "cancelled"] ELSE flight

-----------------------------------------------------------------------------
(* A caller of Get.                                                        *)

\* Get may be entered with a context that has ended: nothing looks at it
\* before the select.
EnterCall(c, k, f) ==
    \E live \in BOOLEAN :
        get' = [get EXCEPT ![c] = [pc |-> "waiting", flight |-> f, key |-> k,
                                   alive |-> live, answer |-> "none"]]

\* joinFlight finds an entry.
Join(c, k) ==
    /\ get[c].pc = "idle"
    /\ flights[k] # NoFlight
    /\ EnterCall(c, k, flights[k])
    /\ heap' = [heap EXCEPT ![flights[k]].waiters = @ + 1]
    /\ UNCHANGED <<flights, permits, transfer>>

\* The address of a new flight.  Which free one it is makes no difference.
Fresh(f) == f = CHOOSE g \in Flights : heap[g].phase = "free"

\* joinFlight registers a new flight, and Get spawns its runner.
Lead(c, k, f) ==
    /\ get[c].pc = "idle"
    /\ flights[k] = NoFlight
    /\ heap[f].phase = "free" /\ Fresh(f)
    /\ EnterCall(c, k, f)
    /\ heap' = [heap EXCEPT ![f] = [phase |-> "queued", key |-> k, waiters |-> 1,
                                    ctx |-> "live", outcome |-> "none"]]
    /\ flights' = [flights EXCEPT ![k] = f]
    /\ UNCHANGED <<permits, transfer>>

\* The caller's own context ends: cancelled, or its deadline passes.
EndContext(c) ==
    /\ get[c].pc = "waiting"
    /\ get[c].alive
    /\ get' = [get EXCEPT ![c].alive = FALSE]
    /\ UNCHANGED <<flights, heap, permits, transfer>>

\* The select in Get takes the done branch.  It may, even if the caller's
\* own context has ended as well.
Receive(c) ==
    /\ get[c].pc = "waiting"
    /\ heap[get[c].flight].phase = "closed"
    /\ get' = [get EXCEPT ![c].pc = "leaving",
                          ![c].answer = heap[get[c].flight].outcome]
    /\ UNCHANGED <<flights, heap, permits, transfer>>

\* The select in Get takes the ctx.Done branch.
GiveUp(c) ==
    /\ get[c].pc = "waiting"
    /\ ~get[c].alive
    /\ get' = [get EXCEPT ![c].pc = "leaving", ![c].answer = "gaveUp"]
    /\ UNCHANGED <<flights, heap, permits, transfer>>

\* Mutant: the first caller to leave cancels the flight.
LeaveCancels(c) ==
    LET f == get[c].flight
        k == get[c].key
        left == [heap[f] EXCEPT !.waiters = @ - 1]
    IN
    /\ get[c].pc = "leaving"
    /\ get' = [get EXCEPT ![c] = NoCall]
    /\ heap' = [heap EXCEPT ![f] = Collected(Cancelled(left))]
    /\ IF left.waiters <= 0
          THEN flights' = [flights EXCEPT ![k] = IF @ = f THEN NoFlight ELSE @]
          ELSE UNCHANGED flights
    /\ UNCHANGED <<permits, transfer>>

\* Mutant: an abandoned flight is cancelled but stays registered.
LeaveRegistered(c) ==
    LET f == get[c].flight
        left == [heap[f] EXCEPT !.waiters = @ - 1]
    IN
    /\ get[c].pc = "leaving"
    /\ get' = [get EXCEPT ![c] = NoCall]
    /\ heap' = [heap EXCEPT ![f] =
                  IF left.waiters <= 0 THEN Collected(Cancelled(left)) ELSE left]
    /\ UNCHANGED <<flights, permits, transfer>>

\* The deferred leaveFlight: the last waiter cancels the flight and removes
\* its entry, if the entry is still this flight's.  Get then returns.
Leave(c) ==
    LET f == get[c].flight
        k == get[c].key
        left == [heap[f] EXCEPT !.waiters = @ - 1]
    IN
    /\ get[c].pc = "leaving"
    /\ get' = [get EXCEPT ![c] = NoCall]
    /\ IF left.waiters <= 0
          THEN /\ heap' = [heap EXCEPT ![f] = Collected(Cancelled(left))]
               /\ flights' = [flights EXCEPT ![k] = IF @ = f THEN NoFlight ELSE @]
          ELSE /\ heap' = [heap EXCEPT ![f] = left]
               /\ UNCHANGED flights
    /\ UNCHANGED <<permits, transfer>>

-----------------------------------------------------------------------------
(* A flight's runner: runFlight and getDirect.                             *)

Running(f) == heap[f].phase \in {"queued", "fetching", "returned"}

\* The total timeout of the flight's own context passes.
Expire(f) ==
    /\ Running(f)
    /\ heap[f].ctx = "live"
    /\ heap' = [heap EXCEPT ![f].ctx = "expired"]
    /\ UNCHANGED <<flights, permits, get, transfer>>

\* acquire sends on the permits channel.  Its select may do so with a
\* context that has ended.
Acquire(f) ==
    /\ heap[f].phase = "queued"
    /\ permits < PermitCapacity
    /\ permits' = permits + 1
    /\ heap' = [heap EXCEPT ![f].phase = "fetching"]
    /\ UNCHANGED <<flights, get, transfer>>

\* Mutant: a permit wait that does not watch the context.
AcquireNeverFails(f) == FALSE /\ UNCHANGED vars

\* acquire finds the context ended: getDirect returns without a permit.
AcquireFails(f) ==
    /\ heap[f].phase = "queued"
    /\ heap[f].ctx # "live"
    /\ heap' = [heap EXCEPT ![f].phase = "returned", ![f].outcome = heap[f].ctx]
    /\ UNCHANGED <<flights, permits, get, transfer>>

\* Mutant: a failed request returns past the deferred release.
FetchReturnsNoRelease(f, result) ==
    /\ heap[f].phase = "fetching"
    /\ heap' = [heap EXCEPT ![f].phase = "returned", ![f].outcome = result]
    /\ permits' = IF result = "failed" THEN permits ELSE permits - 1
    /\ UNCHANGED <<flights, get, transfer>>

\* do and readResponse return, and the deferred release gives the permit back.
FetchReturns(f, result) ==
    /\ heap[f].phase = "fetching"
    /\ heap' = [heap EXCEPT ![f].phase = "returned", ![f].outcome = result]
    /\ permits' = permits - 1
    /\ UNCHANGED <<flights, get, transfer>>

\* The upstream answers, or the attempts are exhausted.
FetchAnswered(f) == \E result \in {"ok", "failed"} : FetchReturns(f, result)

\* The request stops because the flight's context has ended.
FetchStopped(f) == heap[f].ctx # "live" /\ FetchReturns(f, heap[f].ctx)

\* Mutant: done is closed, and the entry stays.
PublishKeepsEntry(f) ==
    /\ heap[f].phase = "returned"
    /\ heap' = [heap EXCEPT ![f] = Collected(Cancelled([@ EXCEPT !.phase = "closed"]))]
    /\ UNCHANGED <<flights, permits, get, transfer>>

\* runFlight publishes: it closes done and deletes the entry of its key,
\* whichever flight that entry holds, then cancels the flight's context.
Publish(f) ==
    /\ heap[f].phase = "returned"
    /\ flights' = [flights EXCEPT ![heap[f].key] = NoFlight]
    /\ heap' = [heap EXCEPT ![f] = Collected(Cancelled([@ EXCEPT !.phase = "closed"]))]
    /\ UNCHANGED <<permits, get, transfer>>

-----------------------------------------------------------------------------
(* Download, as far as it competes for permits.                            *)

QueueDownload(d) ==
    /\ transfer[d] = "idle"
    /\ transfer' = [transfer EXCEPT ![d] = "queued"]
    /\ UNCHANGED <<flights, heap, permits, get>>

AcquireForDownload(d) ==
    /\ transfer[d] = "queued"
    /\ permits < PermitCapacity
    /\ permits' = permits + 1
    /\ transfer' = [transfer EXCEPT ![d] = "transferring"]
    /\ UNCHANGED <<flights, heap, get>>

\* The download's context ends while it waits for a permit.
AbandonDownload(d) ==
    /\ transfer[d] = "queued"
    /\ transfer' = [transfer EXCEPT ![d] = "idle"]
    /\ UNCHANGED <<flights, heap, permits, get>>

\* The download ends, in any way, at the latest at its deadline.
EndDownload(d) ==
    /\ transfer[d] = "transferring"
    /\ permits' = permits - 1
    /\ transfer' = [transfer EXCEPT ![d] = "idle"]
    /\ UNCHANGED <<flights, heap, get>>

-----------------------------------------------------------------------------
CallStep(c) ==
    \/ \E k \in Keys : Join(c, k)
    \/ \E k \in Keys, f \in Flights : Lead(c, k, f)
    \/ EndContext(c)
    \/ Receive(c)
    \/ GiveUp(c)
    \/ Leave(c)

FlightStep(f) ==
    \/ Expire(f)
    \/ Acquire(f)
    \/ AcquireFails(f)
    \/ FetchAnswered(f)
    \/ FetchStopped(f)
    \/ Publish(f)

DownloadStep(d) ==
    \/ QueueDownload(d)
    \/ AcquireForDownload(d)
    \/ AbandonDownload(d)
    \/ EndDownload(d)

Next ==
    \/ \E c \in Callers : CallStep(c)
    \/ \E f \in Flights : FlightStep(f)
    \/ \E d \in Downloads : DownloadStep(d)

Spec == Init /\ [][Next]_vars

\* Goroutines are scheduled and timers fire.  Nothing makes an upstream
\* answer, a caller call, or a caller's own context end.
Fairness ==
    /\ \A c \in Callers : WF_vars(Receive(c) \/ GiveUp(c)) /\ WF_vars(Leave(c))
    /\ \A f \in Flights :
        /\ WF_vars(Expire(f))
        /\ WF_vars(Acquire(f) \/ AcquireFails(f))
        /\ WF_vars(FetchStopped(f))
        /\ WF_vars(Publish(f))
    /\ \A d \in Downloads :
        /\ WF_vars(AcquireForDownload(d) \/ AbandonDownload(d))
        /\ WF_vars(EndDownload(d))

FairSpec == Spec /\ Fairness

-----------------------------------------------------------------------------
(* Properties.                                                             *)

\* The callers that hold flight f: they have joined it and not left it.
Holders(f) == {c \in Callers : get[c].flight = f}

\* A caller in Get holds a flight of the key it asked for, and has no answer
\* before its select.
CallsSound ==
    \A c \in Callers :
        /\ get[c].flight # NoFlight =>
              /\ get[c].key \in Keys
              /\ heap[get[c].flight].key = get[c].key
        /\ get[c].pc # "leaving" => get[c].answer = "none"

\* A flight that exists has a key.
HeapSound ==
    \A f \in Flights :
        /\ heap[f].phase # "free" => heap[f].key \in Keys
        /\ heap[f].phase = "free" => heap[f] = FreeFlight

\* A flight ends as cancelled only when nobody is left to be told.
OutcomesPrivate ==
    \A f \in Flights : heap[f].outcome = "cancelled" => heap[f].waiters = 0

\* flight.waiters is the number of callers that will still call leaveFlight
\* on it: a count too low cancels a read under its readers, one too high
\* leaves a read running for nobody.
WaitersExact == \A f \in Flights : heap[f].waiters = Cardinality(Holders(f))

\* Whatever joinFlight finds under a key can be shared: a flight of that key,
\* not yet published, not cancelled, with somebody on it.  An entry that
\* outlived its flight would hand every later reader a dead result.
JoinableEntries ==
    \A k \in Keys : flights[k] # NoFlight =>
        LET flight == heap[flights[k]] IN
        /\ flight.key = k
        /\ flight.phase \in {"queued", "fetching", "returned"}
        /\ flight.ctx # "cancelled"
        /\ flight.waiters > 0

\* A request that nobody waits for any more has been told to stop: callers
\* that give up do not leave requests running behind them.
NoStrayFetch ==
    \A f \in Flights : Running(f) /\ heap[f].waiters = 0 => heap[f].ctx # "live"

\* One caller's cancellation does not cancel other waiters: a running flight
\* is cancelled only when nobody waits for it, no caller is answered with a
\* cancellation of the flight, and a caller gives up only because its own
\* context ended (docs/operations.md:80).
CancellationIsPrivate ==
    /\ \A f \in Flights :
        Running(f) /\ heap[f].ctx = "cancelled" => heap[f].waiters = 0
    /\ \A c \in Callers :
        /\ get[c].answer # "cancelled"
        /\ get[c].answer = "gaveUp" => ~get[c].alive

Fetching == {f \in Flights : heap[f].phase = "fetching"}
Transferring == {d \in Downloads : transfer[d] = "transferring"}

\* The pool counts exactly the requests and downloads in progress, so at
\* most PermitCapacity run at once and no path out of one loses a permit.
PermitsAccounted ==
    /\ permits = Cardinality(Fetching) + Cardinality(Transferring)
    /\ permits <= PermitCapacity

\* Identical reads in flight are coalesced: two callers with live contexts
\* that wait for the same key wait on one flight, unless one of the flights
\* is already published or told to stop (docs/operations.md:80).
IdenticalReadsCoalesce ==
    \A c, d \in Callers :
        /\ get[c].pc = "waiting" /\ get[d].pc = "waiting"
        /\ get[c].key = get[d].key
        /\ \A e \in {c, d} :
            /\ get[e].alive
            /\ Running(get[e].flight)
            /\ heap[get[e].flight].ctx = "live"
        => get[c].flight = get[d].flight

\* Every call of Get returns: by an answer, by its own context, or at the
\* latest by the flight's total timeout, whatever the upstream does.
EveryGetReturns == \A c \in Callers : get[c].pc = "waiting" ~> get[c].pc = "idle"

\* The flights seen as the fetches of SharedFetch.
StageOf(f) ==
    CASE heap[f].phase = "free" -> "over"
      [] heap[f].phase = "closed" -> heap[f].outcome
      [] Running(f) /\ heap[f].waiters = 0 -> "called_off"
      [] OTHER -> "running"

Shared == INSTANCE SharedFetch WITH
    Fetches <- Flights,
    NoFetch <- NoFlight,
    stage <- [f \in Flights |-> StageOf(f)],
    subject <- [f \in Flights |-> heap[f].key],
    attached <- [c \in Callers |-> get[c].flight],
    got <- [c \in Callers |-> get[c].answer]

\* Get keeps the promise of SharedFetch: callers share a fetch of what they
\* asked for, get its one outcome, and end it only by all leaving it.
SharedFetchSpec == Shared!Spec

=============================================================================
