-------------------------- MODULE HttpFlightsProofs --------------------------
(***************************************************************************)
(* Theorems about HttpFlights, for any finite sets of callers, flights and  *)
(* downloads, any keys and any value of max_parallel_requests.              *)
(***************************************************************************)
EXTENDS HttpFlights, FiniteSetTheorems, TLAPS

-----------------------------------------------------------------------------
(* Type correctness.                                                       *)

LEMMA CapacityPositive == PermitCapacity \in Nat \ {0}
  BY ParallelAssumption DEF PermitCapacity

\* Leaving, cancelling and publishing keep a flight a flight.
LEMMA FlightClosure ==
  ASSUME NEW r \in Flight
  PROVE  /\ Collected(r) \in Flight
         /\ Cancelled(r) \in Flight
         /\ [r EXCEPT !.phase = "closed"] \in Flight
         /\ [r EXCEPT !.waiters = @ - 1] \in Flight
  BY DEF Collected, Cancelled, Flight, FreeFlight, Contexts, Outcomes

\* What the runner writes into a flight keeps it a flight.
LEMMA FlightUpdate ==
  ASSUME NEW r \in Flight, NEW o \in Outcomes
  PROVE  [r EXCEPT !.phase = "returned", !.outcome = o] \in Flight
<1>1. [r EXCEPT !.phase = "returned"] \in Flight
  BY DEF Flight
<1>2. \A q \in Flight : [q EXCEPT !.outcome = o] \in Flight
  BY DEF Flight
<1> QED  BY <1>1, <1>2

\* A step that rewrites one caller's frame keeps the frames well formed.
LEMMA FrameUpdate ==
  ASSUME TypeOK, NEW c \in Callers, NEW r \in Call,
         r.pc = "idle" <=> r.flight = NoFlight,
         get' = [get EXCEPT ![c] = r]
  PROVE  /\ get' \in [Callers -> Call]
         /\ \A b \in Callers : get'[b].pc = "idle" <=> get'[b].flight = NoFlight
BY DEF TypeOK

\* A step that rewrites one flight keeps the heap well formed.
LEMMA HeapUpdate ==
  ASSUME TypeOK, NEW f \in Flights, NEW r \in Flight,
         heap' = [heap EXCEPT ![f] = r]
  PROVE  heap' \in [Flights -> Flight]
BY DEF TypeOK

\* The variables keep their types: every step writes well-formed values.
THEOREM TypeCorrect == Spec => []TypeOK
<1>1. Init => TypeOK
  BY DEF Init, TypeOK, Flight, FreeFlight, Call, NoCall, Contexts, Outcomes
<1>2. TypeOK /\ [Next]_vars => TypeOK'
  <2> SUFFICES ASSUME TypeOK, [Next]_vars PROVE TypeOK'
    OBVIOUS
  <2> USE DEF TypeOK
  <2>1. ASSUME NEW c \in Callers, NEW k \in Keys, Join(c, k) PROVE TypeOK'
    <3>1. flights[k] \in Flights
      BY <2>1 DEF Join
    <3>2. heap' \in [Flights -> Flight]
      BY <2>1, <3>1 DEF Join, Flight
    <3>3. PICK r \in Call : /\ r.pc = "waiting" /\ r.flight = flights[k]
                            /\ get' = [get EXCEPT ![c] = r]
      BY <2>1, <3>1 DEF Join, EnterCall, Call, Outcomes
    <3>4. r.pc = "idle" <=> r.flight = NoFlight
      BY <3>1, <3>3, NilAssumption
    <3> QED  BY <2>1, <3>2, <3>3, <3>4, FrameUpdate DEF Join
  <2>2. ASSUME NEW c \in Callers, NEW k \in Keys, NEW f \in Flights, Lead(c, k, f)
        PROVE  TypeOK'
    <3>1. heap' \in [Flights -> Flight]
      BY <2>2 DEF Lead, Flight, Contexts, Outcomes
    <3>2. PICK r \in Call : /\ r.pc = "waiting" /\ r.flight = f
                            /\ get' = [get EXCEPT ![c] = r]
      BY <2>2 DEF Lead, EnterCall, Call, Outcomes
    <3>3. r.pc = "idle" <=> r.flight = NoFlight
      BY <3>2, NilAssumption
    <3> QED  BY <2>2, <3>1, <3>2, <3>3, FrameUpdate DEF Lead
  <2>3. ASSUME NEW c \in Callers, EndContext(c) PROVE TypeOK'
    BY <2>3 DEF EndContext, Call
  <2>4. ASSUME NEW c \in Callers, Receive(c) PROVE TypeOK'
    <3>1. get[c].flight \in Flights
      BY <2>4 DEF Receive, Call
    <3> DEFINE r == [get[c] EXCEPT !.pc = "leaving", !.answer = heap[get[c].flight].outcome]
    <3>2. heap[get[c].flight].outcome \in Outcomes
      BY <3>1 DEF Flight
    <3>3. r \in Call /\ r.pc = "leaving" /\ r.flight = get[c].flight
      BY <3>2 DEF Call
    <3>4. get' = [get EXCEPT ![c] = r]
      BY <2>4 DEF Receive
    <3>5. r.pc = "idle" <=> r.flight = NoFlight
      BY <3>1, <3>3, NilAssumption
    <3> HIDE DEF r
    <3> QED  BY <2>4, <3>3, <3>4, <3>5, FrameUpdate DEF Receive
  <2>5. ASSUME NEW c \in Callers, GiveUp(c) PROVE TypeOK'
    <3> DEFINE r == [get[c] EXCEPT !.pc = "leaving", !.answer = "gaveUp"]
    <3>1. r \in Call /\ r.pc = "leaving" /\ r.flight = get[c].flight
      BY DEF Call
    <3>2. get' = [get EXCEPT ![c] = r]
      BY <2>5 DEF GiveUp
    <3>3. r.pc = "idle" <=> r.flight = NoFlight
      BY <2>5, <3>1 DEF GiveUp
    <3> HIDE DEF r
    <3> QED  BY <2>5, <3>1, <3>2, <3>3, FrameUpdate DEF GiveUp
  <2>6. ASSUME NEW c \in Callers, Leave(c) PROVE TypeOK'
    <3> DEFINE f == get[c].flight
               left == [heap[f] EXCEPT !.waiters = @ - 1]
    <3>1. /\ get' \in [Callers -> Call]
          /\ \A b \in Callers : get'[b].pc = "idle" <=> get'[b].flight = NoFlight
      <4>1. NoCall \in Call /\ NoCall.pc = "idle" /\ NoCall.flight = NoFlight
        BY DEF NoCall, Call, Outcomes
      <4> QED  BY <2>6, <4>1, FrameUpdate DEF Leave
    <3>2. flights' \in [Keys -> Flights \cup {NoFlight}]
      BY <2>6 DEF Leave
    <3>3. heap' \in [Flights -> Flight]
      <4>1. CASE f \in Flights
        <5>1. left \in Flight /\ Collected(Cancelled(left)) \in Flight
          BY <4>1, FlightClosure
        <5> HIDE DEF left
        <5> QED  BY <2>6, <4>1, <5>1 DEF Leave, left
      <4>2. CASE f \notin Flights
        BY <2>6, <4>2 DEF Leave
      <4> QED  BY <4>1, <4>2
    <3> QED  BY <2>6, <3>1, <3>2, <3>3 DEF Leave
  <2>7. ASSUME NEW f \in Flights, Expire(f) PROVE TypeOK'
    BY <2>7 DEF Expire, Flight, Contexts
  <2>8. ASSUME NEW f \in Flights, Acquire(f) PROVE TypeOK'
    BY <2>8 DEF Acquire, Flight
  <2>9. ASSUME NEW f \in Flights, AcquireFails(f) PROVE TypeOK'
    <3>1. heap[f].ctx \in Outcomes
      BY <2>9 DEF AcquireFails, Flight, Contexts, Outcomes
    <3>2. [heap[f] EXCEPT !.phase = "returned", !.outcome = heap[f].ctx] \in Flight
      BY <3>1, FlightUpdate
    <3>3. heap' \in [Flights -> Flight]
      BY <2>9, <3>2, HeapUpdate DEF AcquireFails
    <3> QED  BY <2>9, <3>3 DEF AcquireFails
  <2>10. ASSUME NEW f \in Flights, NEW r \in Outcomes, FetchReturns(f, r) PROVE TypeOK'
    <3>1. [heap[f] EXCEPT !.phase = "returned", !.outcome = r] \in Flight
      BY FlightUpdate
    <3>2. heap' \in [Flights -> Flight]
      BY <2>10, <3>1, HeapUpdate DEF FetchReturns
    <3> QED  BY <2>10, <3>2 DEF FetchReturns
  <2>11. ASSUME NEW f \in Flights, Publish(f) PROVE TypeOK'
    <3> DEFINE closed == [heap[f] EXCEPT !.phase = "closed"]
    <3>1. Collected(Cancelled(closed)) \in Flight
      BY FlightClosure
    <3> HIDE DEF closed
    <3> QED  BY <2>11, <3>1 DEF Publish, closed
  <2>12. ASSUME NEW d \in Downloads, DownloadStep(d) PROVE TypeOK'
    BY <2>12 DEF DownloadStep, QueueDownload, AcquireForDownload, AbandonDownload, EndDownload
  <2>13. ASSUME NEW f \in Flights, FlightStep(f) PROVE TypeOK'
    <3>1. ASSUME FetchAnswered(f) PROVE TypeOK'
      BY <2>10, <3>1 DEF FetchAnswered, Outcomes
    <3>2. ASSUME FetchStopped(f) PROVE TypeOK'
      BY <2>10, <3>2 DEF FetchStopped, Flight, Contexts, Outcomes
    <3> QED  BY <2>7, <2>8, <2>9, <2>11, <2>13, <3>1, <3>2 DEF FlightStep
  <2>14. ASSUME NEW c \in Callers, CallStep(c) PROVE TypeOK'
    BY <2>1, <2>2, <2>3, <2>4, <2>5, <2>6, <2>14 DEF CallStep
  <2>15. CASE UNCHANGED vars
    BY <2>15 DEF vars
  <2> QED  BY <2>12, <2>13, <2>14, <2>15 DEF Next
<1> QED  BY <1>1, <1>2, PTL DEF Spec

-----------------------------------------------------------------------------
(* Reference counting.  The number of holders of a flight is what its       *)
(* waiters field says, which is why freeing a flight, or calling it off,    *)
(* happens behind nobody's back.                                            *)

Bookkeeping == CallsSound /\ HeapSound /\ WaitersExact

LEMMA HoldersFinite ==
  ASSUME NEW f
  PROVE  /\ IsFiniteSet(Holders(f))
         /\ Cardinality(Holders(f)) \in Nat
         /\ Cardinality(Holders(f)) = 0 <=> Holders(f) = {}
<1>1. Holders(f) \in SUBSET Callers
  BY DEF Holders
<1>2. IsFiniteSet(Holders(f))
  BY <1>1, FS_Subset, FiniteAssumption
<1> QED  BY <1>2, FS_CardinalityType, FS_EmptySet

\* A caller that enters Get adds itself to the holders of one flight.
LEMMA HoldersJoin ==
  ASSUME TypeOK, NEW c \in Callers, NEW f \in Flights,
         get[c].flight = NoFlight, get'[c].flight = f,
         \A b \in Callers : b # c => get'[b] = get[b]
  PROVE  \A g \in Flights : Cardinality(Holders(g)') =
            IF g = f THEN Cardinality(Holders(g)) + 1 ELSE Cardinality(Holders(g))
<1>1. Holders(f)' = Holders(f) \cup {c} /\ c \notin Holders(f)
  BY NilAssumption DEF Holders, TypeOK
<1>2. Cardinality(Holders(f) \cup {c}) = Cardinality(Holders(f)) + 1
  BY <1>1, HoldersFinite, FS_AddElement
<1>3. \A g \in Flights : g # f => Holders(g)' = Holders(g)
  BY NilAssumption DEF Holders, TypeOK
<1> QED  BY <1>1, <1>2, <1>3

\* A caller that leaves takes itself off the holders of its flight.
LEMMA HoldersLeave ==
  ASSUME TypeOK, NEW c \in Callers, NEW f \in Flights,
         get[c].flight = f, get'[c].flight = NoFlight,
         \A b \in Callers : b # c => get'[b] = get[b]
  PROVE  /\ Holders(f)' = Holders(f) \ {c}
         /\ \A g \in Flights : Cardinality(Holders(g)') =
              IF g = f THEN Cardinality(Holders(g)) - 1 ELSE Cardinality(Holders(g))
<1>1. Holders(f)' = Holders(f) \ {c} /\ c \in Holders(f)
  BY NilAssumption DEF Holders, TypeOK
<1>2. Cardinality(Holders(f) \ {c}) = Cardinality(Holders(f)) - 1
  BY <1>1, HoldersFinite, FS_RemoveElement
<1>3. \A g \in Flights : g # f => Holders(g)' = Holders(g)
  BY NilAssumption DEF Holders, TypeOK
<1> QED  BY <1>1, <1>2, <1>3

\* A flight that has holders exists, and its key is theirs.
LEMMA HeldFlight ==
  ASSUME TypeOK, Bookkeeping, NEW c \in Callers, get[c].flight # NoFlight
  PROVE  /\ get[c].flight \in Flights
         /\ get[c].key \in Keys
         /\ heap[get[c].flight].key = get[c].key
         /\ heap[get[c].flight].phase # "free"
         /\ heap[get[c].flight].waiters > 0
<1>1. /\ get[c].flight \in Flights
      /\ get[c].key \in Keys
      /\ heap[get[c].flight].key = get[c].key
  BY DEF TypeOK, Call, Bookkeeping, CallsSound
<1>2. heap[get[c].flight].phase # "free"
  BY <1>1, NilAssumption DEF Bookkeeping, HeapSound, FreeFlight
<1>3. Holders(get[c].flight) # {}
  BY DEF Holders
<1>4. heap[get[c].flight].waiters > 0
  BY <1>1, <1>3, HoldersFinite DEF Bookkeeping, WaitersExact
<1> QED  BY <1>1, <1>2, <1>4

\* What leaveFlight does to the flight, field by field, and to its entry.
LEMMA LeaveEffect ==
  ASSUME TypeOK, Bookkeeping, NEW c \in Callers, NEW f, f = get[c].flight, Leave(c)
  PROVE  /\ f \in Flights /\ heap[f].key = get[c].key /\ get[c].key \in Keys
         /\ heap[f].waiters \in Nat \ {0}
         /\ \A g \in Flights : g # f => heap'[g] = heap[g]
         /\ heap'[f].waiters = heap[f].waiters - 1
         /\ heap[f].phase # "closed" => heap'[f].phase = heap[f].phase
         /\ heap[f].phase = "closed" => heap'[f].phase \in {"closed", "free"}
         /\ heap[f].waiters > 1 =>
              /\ heap'[f].key = heap[f].key /\ heap'[f].phase = heap[f].phase
              /\ heap'[f].ctx = heap[f].ctx /\ heap'[f].outcome = heap[f].outcome
              /\ flights' = flights
         /\ heap[f].waiters = 1 =>
              /\ heap'[f].ctx # "live"
              /\ \A k \in Keys : flights'[k] =
                   IF k = heap[f].key /\ flights[k] = f THEN NoFlight ELSE flights[k]
              /\ \/ heap'[f] = FreeFlight
                 \/ heap'[f].key = heap[f].key /\ heap'[f].phase = heap[f].phase
<1>1. get[c].flight # NoFlight
  BY DEF Leave, TypeOK
<1>2. /\ f \in Flights /\ heap[f].key = get[c].key /\ get[c].key \in Keys
      /\ heap[f].waiters \in Nat \ {0}
  BY <1>1, HeldFlight DEF TypeOK, Flight
<1>3. heap[f] \in Flight
  BY <1>2 DEF TypeOK
<1> DEFINE left == [heap[f] EXCEPT !.waiters = heap[f].waiters - 1]
<1>4. /\ left \in Flight /\ left.waiters = heap[f].waiters - 1
      /\ left.phase = heap[f].phase /\ left.key = heap[f].key
      /\ left.ctx = heap[f].ctx /\ left.outcome = heap[f].outcome
  BY <1>3 DEF Flight
<1>5. \A g \in Flights : g # f => heap'[g] = heap[g]
  BY <1>2 DEF Leave, TypeOK
<1>6. CASE heap[f].waiters > 1
  <2>1. heap'[f] = left /\ flights' = flights
    BY <1>2, <1>6 DEF Leave, TypeOK
  <2> HIDE DEF left
  <2> QED  BY <1>2, <1>4, <1>5, <1>6, <2>1
<1>7. CASE heap[f].waiters = 1
  <2>1. /\ flights' = [flights EXCEPT ![heap[f].key] = IF @ = f THEN NoFlight ELSE @]
        /\ heap'[f] = Collected(Cancelled(left))
    BY <1>2, <1>7 DEF Leave, TypeOK
  <2>2. \A k \in Keys : flights'[k] =
           IF k = heap[f].key /\ flights[k] = f THEN NoFlight ELSE flights[k]
    BY <1>2, <2>1 DEF TypeOK
  <2> HIDE DEF left
  <2>3. left.waiters = 0
    BY <1>4, <1>7
  <2>4. Cancelled(left).ctx # "live" /\ Cancelled(left).waiters = 0
        /\ Cancelled(left).phase = left.phase /\ Cancelled(left).key = left.key
    BY <1>4, <2>3 DEF Cancelled, Flight
  <2>5. Collected(Cancelled(left)) \in {FreeFlight, Cancelled(left)}
    BY DEF Collected
  <2>6. /\ heap'[f].ctx # "live" /\ heap'[f].waiters = 0
        /\ \/ heap'[f] = FreeFlight
           \/ /\ heap'[f].key = heap[f].key
              /\ heap'[f].phase = heap[f].phase
    <3>1. FreeFlight.ctx # "live" /\ FreeFlight.waiters = 0
      BY DEF FreeFlight
    <3>2. CASE heap'[f] = FreeFlight
      BY <3>1, <3>2
    <3>3. CASE heap'[f] = Cancelled(left)
      BY <1>4, <2>4, <3>3
    <3> QED  BY <2>1, <2>5, <3>2, <3>3
  <2>7. /\ heap[f].phase # "closed" => heap'[f].phase = heap[f].phase
        /\ heap[f].phase = "closed" => heap'[f].phase \in {"closed", "free"}
    <3>1. left.phase # "closed" => Collected(Cancelled(left)) = Cancelled(left)
      BY <2>4 DEF Collected
    <3> QED  BY <1>4, <2>1, <2>4, <2>5, <3>1 DEF FreeFlight
  <2> QED  BY <1>2, <1>5, <1>7, <2>2, <2>6, <2>7
<1> QED  BY <1>2, <1>6, <1>7

\* What the end of runFlight does to the flight, and to the entry of its key.
LEMMA PublishEffect ==
  ASSUME TypeOK, Bookkeeping, NEW f \in Flights, Publish(f)
  PROVE  /\ get' = get
         /\ heap[f].phase = "returned" /\ heap[f].key \in Keys
         /\ \A g \in Flights : g # f => heap'[g] = heap[g]
         /\ \A k \in Keys : flights'[k] = IF k = heap[f].key THEN NoFlight ELSE flights[k]
         /\ heap[f].waiters <= 0 => heap'[f] = FreeFlight
         /\ heap[f].waiters > 0 =>
              /\ heap'[f].key = heap[f].key /\ heap'[f].waiters = heap[f].waiters
              /\ heap'[f].phase = "closed" /\ heap'[f].outcome = heap[f].outcome
<1>1. heap[f] \in Flight
  BY DEF TypeOK
<1> DEFINE done == [heap[f] EXCEPT !.phase = "closed"]
<1>2. /\ done \in Flight /\ done.waiters = heap[f].waiters
      /\ done.phase = "closed" /\ done.key = heap[f].key /\ done.outcome = heap[f].outcome
  BY <1>1 DEF Flight
<1>3. heap'[f] = Collected(Cancelled(done))
  BY DEF Publish, TypeOK
<1>4. /\ get' = get
      /\ heap[f].phase = "returned" /\ heap[f].key \in Keys
      /\ \A g \in Flights : g # f => heap'[g] = heap[g]
      /\ \A k \in Keys : flights'[k] = IF k = heap[f].key THEN NoFlight ELSE flights[k]
  BY DEF Publish, TypeOK, Bookkeeping, HeapSound
<1> HIDE DEF done
<1>5. /\ Cancelled(done).waiters = done.waiters /\ Cancelled(done).phase = done.phase
      /\ Cancelled(done).key = done.key /\ Cancelled(done).outcome = done.outcome
  BY <1>2 DEF Cancelled, Flight
<1>6. done.waiters <= 0 => Collected(Cancelled(done)) = FreeFlight
  BY <1>2, <1>5 DEF Collected
<1>7. done.waiters > 0 => Collected(Cancelled(done)) = Cancelled(done)
  BY <1>2, <1>5 DEF Collected, Flight
<1> QED  BY <1>2, <1>3, <1>4, <1>5, <1>6, <1>7

\* What a runner's step before the last does to its flight.
LEMMA RunnerEffect ==
  ASSUME TypeOK, NEW f \in Flights, FlightStep(f), ~Publish(f)
  PROVE  /\ flights' = flights /\ get' = get
         /\ \A g \in Flights : g # f => heap'[g] = heap[g]
         /\ heap'[f].key = heap[f].key
         /\ heap'[f].waiters = heap[f].waiters
         /\ Running(f) /\ heap'[f].phase \in {"queued", "fetching", "returned"}
         /\ heap'[f].ctx \in {heap[f].ctx, "expired"}
         /\ heap'[f].outcome \in {heap[f].outcome, heap[f].ctx, "ok", "failed"}
<1> USE DEF TypeOK, Flight
<1>1. ASSUME NEW r, FetchReturns(f, r)
      PROVE  /\ flights' = flights /\ get' = get
             /\ \A g \in Flights : g # f => heap'[g] = heap[g]
             /\ heap'[f].key = heap[f].key
             /\ heap'[f].waiters = heap[f].waiters
             /\ Running(f) /\ heap'[f].phase = "returned"
             /\ heap'[f].ctx = heap[f].ctx
             /\ heap'[f].outcome = r
  BY <1>1 DEF FetchReturns, Running
<1>2. CASE FetchAnswered(f)
  BY <1>1, <1>2 DEF FetchAnswered
<1>3. CASE FetchStopped(f)
  BY <1>1, <1>3 DEF FetchStopped
<1>4. CASE Expire(f)
  BY <1>4 DEF Expire, Running
<1>5. CASE Acquire(f)
  BY <1>5 DEF Acquire, Running
<1>6. CASE AcquireFails(f)
  BY <1>6 DEF AcquireFails, Running
<1> QED  BY <1>2, <1>3, <1>4, <1>5, <1>6 DEF FlightStep

-----------------------------------------------------------------------------
(* Sharing.  The books alone are not inductive: joining a flight needs to   *)
(* know that an entry leads to a running flight of its key, leaving one     *)
(* that the others' count keeps it, and both rest on the books.             *)

Sharing == JoinableEntries /\ NoStrayFetch /\ CancellationIsPrivate /\ OutcomesPrivate

Inv == TypeOK /\ Bookkeeping /\ Sharing

\* The frame a call of Get starts with.
LEMMA EnterEffect ==
  ASSUME TypeOK, NEW c \in Callers, NEW k, NEW f, EnterCall(c, k, f)
  PROVE  /\ get'[c].flight = f /\ get'[c].key = k
         /\ get'[c].pc = "waiting" /\ get'[c].answer = "none"
         /\ \A b \in Callers : b # c => get'[b] = get[b]
BY DEF EnterCall, TypeOK

\* Get finds an entry: the flight it holds gains a waiter.
LEMMA JoinKeeps ==
  ASSUME Inv, NEW c \in Callers, NEW k \in Keys, Join(c, k)
  PROVE  Bookkeeping' /\ Sharing'
<1> USE DEF Inv
<1>0. PICK f \in Flights : f = flights[k]
  BY DEF Join, TypeOK
<1>1. /\ f \in Flights
      /\ heap[f].key = k /\ Running(f) /\ heap[f].ctx # "cancelled"
      /\ heap[f].waiters > 0 /\ heap[f].waiters \in Int
      /\ heap[f].phase # "free"
  BY <1>0, NilAssumption DEF TypeOK, Flight, Sharing, JoinableEntries, Running
<1>2. /\ get'[c].flight = f /\ get'[c].key = k
      /\ get'[c].pc = "waiting" /\ get'[c].answer = "none"
      /\ \A b \in Callers : b # c => get'[b] = get[b]
  <2>1. EnterCall(c, k, f)
    BY <1>0 DEF Join
  <2> QED  BY <2>1, EnterEffect
<1>3. get[c].flight = NoFlight
  BY DEF Join, TypeOK
<1>4. /\ heap'[f].waiters = heap[f].waiters + 1
      /\ heap'[f].key = heap[f].key /\ heap'[f].phase = heap[f].phase
      /\ heap'[f].ctx = heap[f].ctx /\ heap'[f].outcome = heap[f].outcome
      /\ \A g \in Flights : g # f => heap'[g] = heap[g]
      /\ flights' = flights
  BY <1>0, <1>1 DEF Join, TypeOK, Flight
<1>6. WaitersExact'
  <2>1. \A g \in Flights : Cardinality(Holders(g)') =
            IF g = f THEN Cardinality(Holders(g)) + 1 ELSE Cardinality(Holders(g))
    BY <1>1, <1>2, <1>3, HoldersJoin
  <2> QED  BY <1>1, <1>4, <2>1 DEF Bookkeeping, WaitersExact
<1>7. CallsSound'
  BY <1>1, <1>2, <1>4, HeldFlight DEF Bookkeeping, CallsSound
<1>8. HeapSound'
  BY <1>1, <1>4 DEF Bookkeeping, HeapSound
<1>9. JoinableEntries'
  BY <1>1, <1>4 DEF Sharing, JoinableEntries, TypeOK
<1>10. NoStrayFetch' /\ OutcomesPrivate'
  BY <1>1, <1>4 DEF Sharing, NoStrayFetch, OutcomesPrivate, Running
<1>11. CancellationIsPrivate'
  BY <1>1, <1>2, <1>4 DEF Sharing, CancellationIsPrivate, Running
<1> QED  BY <1>6, <1>7, <1>8, <1>9, <1>10, <1>11 DEF Bookkeeping, Sharing

\* Get registers a flight: nobody held it before, and its leader does.
LEMMA LeadKeeps ==
  ASSUME Inv, NEW c \in Callers, NEW k \in Keys, NEW f \in Flights, Lead(c, k, f)
  PROVE  Bookkeeping' /\ Sharing'
<1> USE DEF Inv
<1>1. /\ get'[c].flight = f /\ get'[c].key = k
      /\ get'[c].pc = "waiting" /\ get'[c].answer = "none"
      /\ \A b \in Callers : b # c => get'[b] = get[b]
  <2>1. EnterCall(c, k, f)
    BY DEF Lead
  <2> QED  BY <2>1, EnterEffect
<1>2. get[c].flight = NoFlight
  BY DEF Lead, TypeOK
<1>3. /\ heap'[f].waiters = 1 /\ heap'[f].key = k /\ heap'[f].phase = "queued"
      /\ heap'[f].ctx = "live" /\ heap'[f].outcome = "none"
      /\ \A g \in Flights : g # f => heap'[g] = heap[g]
      /\ flights'[k] = f /\ \A j \in Keys : j # k => flights'[j] = flights[j]
  BY DEF Lead, TypeOK
<1>5. heap[f].phase = "free" /\ heap[f].waiters = 0
  BY DEF Lead, Bookkeeping, HeapSound, FreeFlight
<1>6. \A b \in Callers : get[b].flight # f
  BY <1>5, HeldFlight, NilAssumption
<1>7. \A j \in Keys : flights[j] # f
  BY <1>5, NilAssumption DEF Sharing, JoinableEntries
<1>8. WaitersExact'
  <2>1. \A g \in Flights : Cardinality(Holders(g)') =
            IF g = f THEN Cardinality(Holders(g)) + 1 ELSE Cardinality(Holders(g))
    BY <1>1, <1>2, HoldersJoin
  <2> QED  BY <1>3, <1>5, <2>1 DEF Bookkeeping, WaitersExact
<1>9. CallsSound'
  BY <1>1, <1>3, <1>6, HeldFlight DEF Bookkeeping, CallsSound
<1>10. HeapSound'
  BY <1>3 DEF Bookkeeping, HeapSound
<1>11. JoinableEntries'
  BY <1>3, <1>7 DEF Sharing, JoinableEntries, TypeOK
<1>12. NoStrayFetch' /\ OutcomesPrivate'
  BY <1>3 DEF Sharing, NoStrayFetch, OutcomesPrivate, Running
<1>13. CancellationIsPrivate'
  BY <1>1, <1>3 DEF Sharing, CancellationIsPrivate, Running
<1> QED  BY <1>8, <1>9, <1>10, <1>11, <1>12, <1>13 DEF Bookkeeping, Sharing

\* A step inside Get changes the caller's frame only.
LEMMA InsideKeeps ==
  ASSUME Inv, NEW c \in Callers, EndContext(c) \/ Receive(c) \/ GiveUp(c)
  PROVE  Bookkeeping' /\ Sharing'
<1> USE DEF Inv
<1>1. /\ heap' = heap /\ flights' = flights
      /\ get[c].flight \in Flights
      /\ get[c].pc = "waiting" /\ get[c].answer = "none"
  BY NilAssumption
  DEF EndContext, Receive, GiveUp, TypeOK, Call, Bookkeeping, CallsSound
<1>2. heap[get[c].flight].outcome # "cancelled"
  BY <1>1, HeldFlight, NilAssumption DEF Sharing, OutcomesPrivate
<1>3. /\ get'[c].flight = get[c].flight /\ get'[c].key = get[c].key
      /\ get'[c].pc # "leaving" => get'[c].answer = "none"
      /\ get'[c].answer # "cancelled"
      /\ get'[c].answer = "gaveUp" => ~get'[c].alive
      /\ \A b \in Callers : b # c => get'[b] = get[b]
  <2> USE DEF TypeOK, Call
  <2>1. CASE EndContext(c)
    BY <1>1, <2>1 DEF EndContext
  <2>2. CASE Receive(c)
    <3> DEFINE o == heap[get[c].flight].outcome
    <3>1. get' = [get EXCEPT ![c] = [get[c] EXCEPT !.pc = "leaving", !.answer = o]]
      BY <2>2 DEF Receive
    <3>2. o # "gaveUp" /\ o # "cancelled"
      BY <1>1, <1>2 DEF Flight, Outcomes
    <3> HIDE DEF o
    <3> QED  BY <3>1, <3>2
  <2>3. CASE GiveUp(c)
    BY <2>3 DEF GiveUp
  <2> QED  BY <2>1, <2>2, <2>3
<1>5. WaitersExact'
  <2>1. \A g \in Flights : Holders(g)' = Holders(g)
    BY <1>3 DEF Holders
  <2> QED  BY <1>1, <2>1 DEF Bookkeeping, WaitersExact
<1>6. CallsSound'
  BY <1>1, <1>3, HeldFlight DEF Bookkeeping, CallsSound
<1>7. HeapSound' /\ JoinableEntries' /\ NoStrayFetch' /\ OutcomesPrivate'
  BY <1>1
  DEF Bookkeeping, HeapSound, Sharing, JoinableEntries, NoStrayFetch, OutcomesPrivate, Running
<1>8. CancellationIsPrivate'
  BY <1>1, <1>3 DEF Sharing, CancellationIsPrivate, Running
<1> QED  BY <1>5, <1>6, <1>7, <1>8 DEF Bookkeeping, Sharing

\* Get leaves its flight: the others keep it, the last one calls it off.
LEMMA LeaveKeeps ==
  ASSUME Inv, NEW c \in Callers, Leave(c)
  PROVE  Bookkeeping' /\ Sharing'
<1> USE DEF Inv
<1>0. PICK f \in Flights : f = get[c].flight
  BY LeaveEffect
<1>1. /\ f \in Flights /\ heap[f].key = get[c].key /\ get[c].key \in Keys
      /\ heap[f].waiters \in Nat \ {0}
      /\ \A g \in Flights : g # f => heap'[g] = heap[g]
  BY <1>0, LeaveEffect
<1>2. heap[f] \in Flight /\ heap[f].phase # "free"
  BY <1>0, <1>1, HeldFlight, NilAssumption DEF TypeOK
<1>3. get'[c] = NoCall /\ NoCall.flight = NoFlight
      /\ \A b \in Callers : b # c => get'[b] = get[b]
  BY DEF Leave, NoCall, TypeOK
<1>5. /\ Holders(f)' = Holders(f) \ {c}
      /\ \A g \in Flights : Cardinality(Holders(g)') =
           IF g = f THEN Cardinality(Holders(g)) - 1 ELSE Cardinality(Holders(g))
  BY <1>0, <1>3, HoldersLeave
<1>6. /\ heap'[f].waiters = heap[f].waiters - 1
      /\ heap[f].waiters > 1 =>
           /\ heap'[f].key = heap[f].key /\ heap'[f].phase = heap[f].phase
           /\ heap'[f].ctx = heap[f].ctx /\ heap'[f].outcome = heap[f].outcome
           /\ flights' = flights
      /\ heap[f].waiters = 1 =>
           /\ heap'[f].ctx # "live"
           /\ \A k \in Keys : flights'[k] =
                IF k = heap[f].key /\ flights[k] = f THEN NoFlight ELSE flights[k]
           /\ \/ heap'[f] = FreeFlight
              \/ heap'[f].key = heap[f].key /\ heap'[f].phase = heap[f].phase
  BY <1>0, LeaveEffect
<1>7. heap[f].waiters = 1 => heap'[f].phase \in {heap[f].phase, "free"}
  BY <1>6 DEF FreeFlight
<1>8. WaitersExact'
  BY <1>1, <1>5, <1>6 DEF Bookkeeping, WaitersExact
<1>9. CallsSound'
  <2> SUFFICES ASSUME NEW b \in Callers
               PROVE  /\ get'[b].flight # NoFlight =>
                           /\ get'[b].key \in Keys
                           /\ heap'[get'[b].flight].key = get'[b].key
                      /\ get'[b].pc # "leaving" => get'[b].answer = "none"
    BY DEF CallsSound
  <2>1. CASE b = c
    BY <1>3, <2>1 DEF NoCall
  <2>2. CASE b # c /\ get[b].flight # f
    BY <1>1, <1>3, <2>2 DEF TypeOK, Call, Bookkeeping, CallsSound
  <2>3. CASE b # c /\ get[b].flight = f
    <3>1. b \in Holders(f)'
      BY <1>5, <2>3 DEF Holders
    <3>2. Cardinality(Holders(f)') # 0
      BY <1>5, <3>1, HoldersFinite, FS_RemoveElement, FS_EmptySet, FS_Subset
    <3>3. /\ heap[f].waiters \in Nat \ {0}
          /\ heap[f].waiters = Cardinality(Holders(f))
          /\ Cardinality(Holders(f)') = Cardinality(Holders(f)) - 1
      BY <1>1, <1>5 DEF Bookkeeping, WaitersExact
    <3>4. heap[f].waiters > 1
      BY <3>2, <3>3
    <3> QED  BY <1>3, <1>6, <2>3, <3>4 DEF Bookkeeping, CallsSound
  <2> QED  BY <2>1, <2>2, <2>3
<1>10. HeapSound'
  <2>1. heap[f].key \in Keys
    BY <1>1
  <2> QED  BY <1>1, <1>2, <1>6, <2>1 DEF Bookkeeping, HeapSound, FreeFlight
<1>11. JoinableEntries'
  <2> SUFFICES ASSUME NEW k \in Keys, flights'[k] # NoFlight
               PROVE  /\ heap'[flights'[k]].key = k
                      /\ heap'[flights'[k]].phase \in {"queued", "fetching", "returned"}
                      /\ heap'[flights'[k]].ctx # "cancelled"
                      /\ heap'[flights'[k]].waiters > 0
    BY DEF JoinableEntries
  <2>1. flights'[k] = flights[k] /\ flights[k] \in Flights
    BY <1>1, <1>6 DEF TypeOK
  <2>2. /\ heap[flights[k]].key = k
        /\ heap[flights[k]].phase \in {"queued", "fetching", "returned"}
        /\ heap[flights[k]].ctx # "cancelled"
        /\ heap[flights[k]].waiters > 0
    BY <2>1, NilAssumption DEF Sharing, JoinableEntries
  <2>3. CASE flights[k] # f
    BY <1>1, <2>1, <2>2, <2>3
  <2>4. CASE flights[k] = f
    <3>1. heap[f].waiters > 1
      BY <1>1, <1>6, <2>1, <2>2, <2>4, NilAssumption
    <3> QED  BY <1>1, <1>6, <2>1, <2>2, <2>4, <3>1
  <2> QED  BY <2>3, <2>4
<1>12. NoStrayFetch'
  BY <1>1, <1>6 DEF Sharing, NoStrayFetch, Running
<1>13. OutcomesPrivate'
  BY <1>1, <1>6 DEF Sharing, OutcomesPrivate
<1>14. CancellationIsPrivate'
  <2>1. ASSUME NEW g \in Flights, heap'[g].phase \in {"queued", "fetching", "returned"},
               heap'[g].ctx = "cancelled"
        PROVE  heap'[g].waiters = 0
    BY <1>1, <1>6, <2>1 DEF Sharing, CancellationIsPrivate, Running
  <2>2. ASSUME NEW b \in Callers
        PROVE  /\ get'[b].answer # "cancelled"
               /\ get'[b].answer = "gaveUp" => ~get'[b].alive
    BY <1>3, <2>2 DEF Sharing, CancellationIsPrivate, NoCall
  <2> QED  BY <2>1, <2>2 DEF CancellationIsPrivate, Running
<1> QED
  BY <1>8, <1>9, <1>10, <1>11, <1>12, <1>13, <1>14 DEF Bookkeeping, Sharing

\* A runner on its way touches nobody's count and no entry.
LEMMA RunnerKeeps ==
  ASSUME Inv, NEW f \in Flights, FlightStep(f), ~Publish(f)
  PROVE  Bookkeeping' /\ Sharing'
<1> USE DEF Inv
<1>1. /\ flights' = flights /\ get' = get
      /\ \A g \in Flights : g # f => heap'[g] = heap[g]
      /\ heap'[f].key = heap[f].key
      /\ heap'[f].waiters = heap[f].waiters
      /\ Running(f) /\ heap'[f].phase \in {"queued", "fetching", "returned"}
      /\ heap'[f].ctx \in {heap[f].ctx, "expired"}
      /\ heap'[f].outcome \in {heap[f].outcome, heap[f].ctx, "ok", "failed"}
  BY RunnerEffect
<1>2. WaitersExact'
  BY <1>1 DEF Bookkeeping, WaitersExact, Holders
<1>3. CallsSound'
  BY <1>1 DEF Bookkeeping, CallsSound, TypeOK, Call
<1>4. HeapSound'
  BY <1>1 DEF Bookkeeping, HeapSound, Running
<1>5. JoinableEntries'
  BY <1>1, NilAssumption DEF Sharing, JoinableEntries, TypeOK
<1>6. NoStrayFetch'
  BY <1>1 DEF Sharing, NoStrayFetch, Running
<1>7. OutcomesPrivate' /\ CancellationIsPrivate'
  BY <1>1 DEF Sharing, OutcomesPrivate, CancellationIsPrivate, Running
<1> QED  BY <1>2, <1>3, <1>4, <1>5, <1>6, <1>7 DEF Bookkeeping, Sharing

\* A runner publishes: its entry is gone, and those that wait keep the flight.
LEMMA PublishKeeps ==
  ASSUME Inv, NEW f \in Flights, Publish(f)
  PROVE  Bookkeeping' /\ Sharing'
<1> USE DEF Inv
<1>1. /\ get' = get
      /\ heap[f].phase = "returned" /\ heap[f].key \in Keys
      /\ \A g \in Flights : g # f => heap'[g] = heap[g]
      /\ \A k \in Keys : flights'[k] = IF k = heap[f].key THEN NoFlight ELSE flights[k]
  BY PublishEffect
<1>2. /\ heap[f].waiters <= 0 => heap'[f] = FreeFlight
      /\ heap[f].waiters > 0 =>
           /\ heap'[f].key = heap[f].key /\ heap'[f].waiters = heap[f].waiters
           /\ heap'[f].phase = "closed" /\ heap'[f].outcome = heap[f].outcome
  BY PublishEffect
<1>3. heap[f].waiters = Cardinality(Holders(f)) /\ heap[f].waiters \in Nat
  BY HoldersFinite DEF Bookkeeping, WaitersExact
<1>4. heap'[f].waiters = heap[f].waiters
      /\ heap'[f].phase \notin {"queued", "fetching", "returned"}
  BY <1>2, <1>3 DEF FreeFlight
<1>5. WaitersExact'
  BY <1>1, <1>4 DEF Bookkeeping, WaitersExact, Holders
<1>6. CallsSound'
  <2> SUFFICES ASSUME NEW b \in Callers, get[b].flight # NoFlight
               PROVE  heap'[get[b].flight].key = heap[get[b].flight].key
    BY <1>1 DEF Bookkeeping, CallsSound
  <2>1. get[b].flight \in Flights /\ heap[get[b].flight].waiters > 0
    BY HeldFlight
  <2> QED  BY <1>1, <1>2, <2>1
<1>7. HeapSound'
  BY <1>1, <1>2, <1>3 DEF Bookkeeping, HeapSound, FreeFlight
<1>8. JoinableEntries'
  BY <1>1, NilAssumption DEF Sharing, JoinableEntries, TypeOK
<1>9. NoStrayFetch' /\ CancellationIsPrivate'
  BY <1>1, <1>4 DEF Sharing, NoStrayFetch, CancellationIsPrivate, Running
<1>10. OutcomesPrivate'
  BY <1>1, <1>2, <1>3 DEF Sharing, OutcomesPrivate, FreeFlight
<1> QED  BY <1>5, <1>6, <1>7, <1>8, <1>9, <1>10 DEF Bookkeeping, Sharing

\* The whole invariant: what any step leaves true of flights, entries and calls.
LEMMA Invariance == Spec => []Inv
<1>1. Init => Bookkeeping /\ Sharing
  <2> SUFFICES ASSUME Init PROVE Bookkeeping /\ Sharing
    OBVIOUS
  <2>1. \A f \in Flights : Holders(f) = {}
    BY NilAssumption DEF Init, Holders, NoCall
  <2>2. WaitersExact
    BY <2>1, FS_EmptySet DEF Init, WaitersExact, FreeFlight
  <2>3. CallsSound /\ HeapSound
    BY DEF Init, CallsSound, HeapSound, NoCall, FreeFlight
  <2>4. Sharing
    BY DEF Init, Sharing, JoinableEntries, NoStrayFetch, CancellationIsPrivate,
           OutcomesPrivate, Running, NoCall, FreeFlight
  <2> QED  BY <2>2, <2>3, <2>4 DEF Bookkeeping
<1>2. TypeOK /\ Bookkeeping /\ Sharing /\ [Next]_vars => Bookkeeping' /\ Sharing'
  <2> SUFFICES ASSUME Inv, [Next]_vars PROVE Bookkeeping' /\ Sharing'
    BY DEF Inv
  <2>1. ASSUME NEW c \in Callers, CallStep(c) PROVE Bookkeeping' /\ Sharing'
    BY <2>1, JoinKeeps, LeadKeeps, InsideKeeps, LeaveKeeps DEF CallStep
  <2>2. ASSUME NEW f \in Flights, FlightStep(f) PROVE Bookkeeping' /\ Sharing'
    BY <2>2, RunnerKeeps, PublishKeeps
  <2>3. CASE UNCHANGED <<flights, heap, get>>
    <3>1. Bookkeeping'
      BY <2>3 DEF Inv, Bookkeeping, CallsSound, HeapSound, WaitersExact, Holders
    <3>2. Sharing'
      BY <2>3 DEF Inv, Sharing, JoinableEntries, NoStrayFetch, CancellationIsPrivate,
                  OutcomesPrivate, Running
    <3> QED  BY <3>1, <3>2
  <2>4. ASSUME NEW d \in Downloads, DownloadStep(d) PROVE UNCHANGED <<flights, heap, get>>
    BY <2>4 DEF DownloadStep, QueueDownload, AcquireForDownload, AbandonDownload, EndDownload
  <2> QED  BY <2>1, <2>2, <2>3, <2>4 DEF Next, vars
<1>3. Inv <=> TypeOK /\ Bookkeeping /\ Sharing
  BY DEF Inv
<1> QED  BY <1>1, <1>2, <1>3, TypeCorrect, PTL DEF Spec

\* Every flight counts its waiters exactly (joinFlight, leaveFlight).
THEOREM BooksBalance == Spec => []WaitersExact
<1>1. Inv => WaitersExact
  BY DEF Inv, Bookkeeping
<1> QED  BY <1>1, Invariance, PTL

\* Whatever joinFlight finds can be shared.
THEOREM EntriesJoinable == Spec => []JoinableEntries
<1>1. Inv => JoinableEntries
  BY DEF Inv, Sharing
<1> QED  BY <1>1, Invariance, PTL

\* A request nobody waits for has been told to stop.
THEOREM NoFetchIsStray == Spec => []NoStrayFetch
<1>1. Inv => NoStrayFetch
  BY DEF Inv, Sharing
<1> QED  BY <1>1, Invariance, PTL

\* One caller's cancellation never reaches another.
THEOREM CancellationPrivate == Spec => []CancellationIsPrivate
<1>1. Inv => CancellationIsPrivate
  BY DEF Inv, Sharing
<1> QED  BY <1>1, Invariance, PTL

-----------------------------------------------------------------------------
(* The pool of permits.                                                    *)

LEMMA PoolFinite ==
  /\ IsFiniteSet(Fetching) /\ Cardinality(Fetching) \in Nat
  /\ IsFiniteSet(Transferring) /\ Cardinality(Transferring) \in Nat
<1>1. Fetching \in SUBSET Flights /\ Transferring \in SUBSET Downloads
  BY DEF Fetching, Transferring
<1> QED  BY <1>1, FS_Subset, FS_CardinalityType, FiniteAssumption

\* Callers never enter or leave the set of requests in progress.
LEMMA CallerLeavesFetching ==
  ASSUME TypeOK, Bookkeeping, NEW c \in Callers, CallStep(c)
  PROVE  Fetching' = Fetching /\ UNCHANGED <<permits, transfer>>
<1>1. CASE \E k \in Keys : Join(c, k)
  BY <1>1 DEF Join, Fetching, TypeOK, Flight
<1>2. CASE \E k \in Keys, f \in Flights : Lead(c, k, f)
  BY <1>2 DEF Lead, Fetching, TypeOK
<1>3. CASE EndContext(c) \/ Receive(c) \/ GiveUp(c)
  BY <1>3 DEF EndContext, Receive, GiveUp, Fetching
<1>4. CASE Leave(c)
  <2>1. PICK f : f = get[c].flight
    OBVIOUS
  <2>2. /\ f \in Flights
        /\ \A g \in Flights : g # f => heap'[g] = heap[g]
        /\ heap[f].phase # "closed" => heap'[f].phase = heap[f].phase
        /\ heap[f].phase = "closed" => heap'[f].phase \in {"closed", "free"}
    BY <1>4, <2>1, LeaveEffect
  <2> QED  BY <1>4, <2>2 DEF Leave, Fetching
<1> QED  BY <1>1, <1>2, <1>3, <1>4 DEF CallStep

\* The pool counts the requests and downloads in progress, and is never
\* overdrawn (acquire, release, and every return between them).
THEOREM PoolAccounted == Spec => []PermitsAccounted
<1>1. Init => PermitsAccounted
  <2> SUFFICES ASSUME Init PROVE PermitsAccounted
    OBVIOUS
  <2>1. Fetching = {} /\ Transferring = {}
    BY DEF Init, Fetching, Transferring, FreeFlight
  <2>2. Cardinality(Fetching) = 0 /\ Cardinality(Transferring) = 0
    BY <2>1, FS_EmptySet
  <2> QED  BY <2>2, CapacityPositive DEF Init, PermitsAccounted
<1>2. TypeOK /\ Bookkeeping /\ PermitsAccounted /\ [Next]_vars => PermitsAccounted'
  <2> SUFFICES ASSUME TypeOK, Bookkeeping, PermitsAccounted, [Next]_vars
               PROVE  PermitsAccounted'
    OBVIOUS
  <2>1. permits \in Nat /\ PermitCapacity \in Nat
    BY PoolFinite, CapacityPositive DEF PermitsAccounted
  <2>2. ASSUME Fetching' = Fetching, Transferring' = Transferring, permits' = permits
        PROVE  PermitsAccounted'
    BY <2>2 DEF PermitsAccounted, PermitCapacity
  <2>3. ASSUME NEW f \in Flights, Acquire(f) PROVE PermitsAccounted'
    <3>1. /\ f \notin Fetching /\ Fetching' = Fetching \cup {f}
          /\ Transferring' = Transferring
      BY <2>3 DEF Acquire, Fetching, Transferring, TypeOK, Flight
    <3>2. Cardinality(Fetching') = Cardinality(Fetching) + 1
      BY <3>1, PoolFinite, FS_AddElement
    <3>3. permits < PermitCapacity /\ permits' = permits + 1
      BY <2>3 DEF Acquire
    <3> QED
      BY <2>1, <3>1, <3>2, <3>3, PoolFinite DEF PermitsAccounted, PermitCapacity
  <2>4. ASSUME NEW f \in Flights, NEW r, FetchReturns(f, r) PROVE PermitsAccounted'
    <3>1. /\ f \in Fetching /\ Fetching' = Fetching \ {f}
          /\ Transferring' = Transferring
      BY <2>4 DEF FetchReturns, Fetching, Transferring, TypeOK, Flight
    <3>2. Cardinality(Fetching') = Cardinality(Fetching) - 1
      BY <3>1, PoolFinite, FS_RemoveElement
    <3>3. permits' = permits - 1
      BY <2>4 DEF FetchReturns
    <3> QED
      BY <2>1, <3>1, <3>2, <3>3, PoolFinite DEF PermitsAccounted, PermitCapacity
  <2>5. ASSUME NEW f \in Flights, Expire(f) \/ AcquireFails(f) PROVE PermitsAccounted'
    <3>1. Fetching' = Fetching /\ Transferring' = Transferring /\ permits' = permits
      BY <2>5 DEF Expire, AcquireFails, Fetching, Transferring, TypeOK, Flight
    <3> QED  BY <2>2, <3>1
  <2>6. ASSUME NEW f \in Flights, Publish(f) PROVE PermitsAccounted'
    <3>1. /\ heap[f].phase = "returned" /\ heap'[f].phase # "fetching"
          /\ \A g \in Flights : g # f => heap'[g] = heap[g]
          /\ UNCHANGED <<permits, transfer>>
      <4>1. heap[f].waiters > 0 \/ heap[f].waiters <= 0
        BY DEF TypeOK, Flight
      <4>2. UNCHANGED <<permits, transfer>>
        BY <2>6 DEF Publish
      <4>3. FreeFlight.phase # "fetching"
        BY DEF FreeFlight
      <4>4. heap'[f].phase # "fetching"
        BY <2>6, <4>1, <4>3, PublishEffect
      <4> QED  BY <2>6, <4>2, <4>4, PublishEffect
    <3>2. Fetching' = Fetching /\ Transferring' = Transferring
      BY <3>1 DEF Fetching, Transferring
    <3> QED  BY <2>2, <3>1, <3>2
  <2>7. ASSUME NEW f \in Flights, FlightStep(f) PROVE PermitsAccounted'
    BY <2>3, <2>4, <2>5, <2>6, <2>7 DEF FlightStep, FetchAnswered, FetchStopped
  <2>8. ASSUME NEW c \in Callers, CallStep(c) PROVE PermitsAccounted'
    <3>1. Fetching' = Fetching /\ UNCHANGED <<permits, transfer>>
      BY <2>8, CallerLeavesFetching
    <3> QED  BY <2>2, <3>1 DEF Transferring
  <2>9. ASSUME NEW d \in Downloads, QueueDownload(d) \/ AbandonDownload(d)
        PROVE  PermitsAccounted'
    <3>1. Fetching' = Fetching /\ Transferring' = Transferring /\ permits' = permits
      BY <2>9 DEF QueueDownload, AbandonDownload, Fetching, Transferring, TypeOK
    <3> QED  BY <2>2, <3>1
  <2>10. ASSUME NEW d \in Downloads, AcquireForDownload(d) PROVE PermitsAccounted'
    <3>1. /\ d \notin Transferring /\ Transferring' = Transferring \cup {d}
          /\ Fetching' = Fetching
      BY <2>10 DEF AcquireForDownload, Fetching, Transferring, TypeOK
    <3>2. Cardinality(Transferring') = Cardinality(Transferring) + 1
      BY <3>1, PoolFinite, FS_AddElement
    <3>3. permits < PermitCapacity /\ permits' = permits + 1
      BY <2>10 DEF AcquireForDownload
    <3> QED
      BY <2>1, <3>1, <3>2, <3>3, PoolFinite DEF PermitsAccounted, PermitCapacity
  <2>11. ASSUME NEW d \in Downloads, EndDownload(d) PROVE PermitsAccounted'
    <3>1. /\ d \in Transferring /\ Transferring' = Transferring \ {d}
          /\ Fetching' = Fetching
      BY <2>11 DEF EndDownload, Fetching, Transferring, TypeOK
    <3>2. Cardinality(Transferring') = Cardinality(Transferring) - 1
      BY <3>1, PoolFinite, FS_RemoveElement
    <3>3. permits' = permits - 1
      BY <2>11 DEF EndDownload
    <3> QED
      BY <2>1, <3>1, <3>2, <3>3, PoolFinite DEF PermitsAccounted, PermitCapacity
  <2>12. CASE UNCHANGED vars
    <3>1. Fetching' = Fetching /\ Transferring' = Transferring /\ permits' = permits
      BY <2>12 DEF vars, Fetching, Transferring
    <3> QED  BY <2>2, <3>1
  <2> QED
    BY <2>7, <2>8, <2>9, <2>10, <2>11, <2>12 DEF Next, DownloadStep
<1>3. Inv => TypeOK /\ Bookkeeping
  BY DEF Inv
<1> QED  BY <1>1, <1>2, <1>3, Invariance, PTL DEF Spec

-----------------------------------------------------------------------------
(* Get implements SharedFetch.  Beyond the invariant, a step to the abstract *)
(* outcome of a fetch needs that there is one.                              *)

Settled ==
    /\ \A f \in Flights :
        /\ heap[f].phase \in {"returned", "closed"} => heap[f].outcome # "none"
        /\ heap[f].phase = "closed" => heap[f].waiters > 0
    /\ \A c \in Callers : get[c].pc = "leaving" => get[c].answer # "none"

\* The last one out of a flight: a published one is garbage, any other stays.
LEMMA LastLeaves ==
  ASSUME TypeOK, Bookkeeping, NEW c \in Callers, NEW f, f = get[c].flight, Leave(c),
         heap[f].waiters = 1
  PROVE  /\ heap[f].phase = "closed" => heap'[f] = FreeFlight
         /\ heap[f].phase # "closed" =>
              /\ heap'[f].phase = heap[f].phase /\ heap'[f].key = heap[f].key
              /\ heap'[f].outcome = heap[f].outcome /\ heap'[f].waiters = 0
<1>1. f \in Flights /\ heap[f] \in Flight
  BY LeaveEffect DEF TypeOK
<1>2. PICK left : left = [heap[f] EXCEPT !.waiters = heap[f].waiters - 1]
  OBVIOUS
<1>3. /\ left \in Flight /\ left.waiters = 0 /\ left.phase = heap[f].phase
      /\ left.key = heap[f].key /\ left.outcome = heap[f].outcome
  BY <1>1, <1>2 DEF Flight
<1>4. heap'[f] = Collected(Cancelled(left))
  BY <1>1, <1>2, <1>3 DEF Leave, TypeOK
<1>5. PICK last : last = Cancelled(left)
  OBVIOUS
<1>6. /\ last.waiters = 0 /\ last.phase = heap[f].phase
      /\ last.key = heap[f].key /\ last.outcome = heap[f].outcome
  BY <1>3, <1>5 DEF Cancelled, Flight
<1> QED  BY <1>4, <1>5, <1>6 DEF Collected

\* A runner that has returned has an outcome.
LEMMA RunnerSettles ==
  ASSUME TypeOK, NEW f \in Flights, FlightStep(f), ~Publish(f), heap'[f].phase = "returned"
  PROVE  heap'[f].outcome # "none" \/ (heap[f].phase = "returned" /\ heap'[f].outcome = heap[f].outcome)
<1> USE DEF TypeOK, Flight
<1>1. ASSUME NEW r, FetchReturns(f, r), r # "none"
      PROVE  heap'[f].outcome # "none"
  BY <1>1 DEF FetchReturns
<1>2. CASE FetchAnswered(f)
  BY <1>1, <1>2 DEF FetchAnswered
<1>3. CASE FetchStopped(f)
  BY <1>1, <1>3 DEF FetchStopped, Contexts
<1>4. CASE Expire(f)
  BY <1>4 DEF Expire
<1>5. CASE Acquire(f)
  BY <1>5 DEF Acquire
<1>6. CASE AcquireFails(f)
  BY <1>6 DEF AcquireFails, Contexts
<1> QED  BY <1>2, <1>3, <1>4, <1>5, <1>6 DEF FlightStep

LEMMA SettledKept == Inv /\ Settled /\ [Next]_vars => Settled'
<1> SUFFICES ASSUME Inv, Settled, [Next]_vars PROVE Settled'
  OBVIOUS
<1> USE DEF Inv
<1>1. ASSUME NEW c \in Callers, NEW k \in Keys, Join(c, k) PROVE Settled'
  <2>1. PICK f \in Flights : f = flights[k]
    BY <1>1 DEF Join, TypeOK
  <2>2. EnterCall(c, k, f) /\ heap' = [heap EXCEPT ![f].waiters = @ + 1]
    BY <1>1, <2>1 DEF Join
  <2>3. /\ heap'[f].phase = heap[f].phase /\ heap'[f].outcome = heap[f].outcome
        /\ heap'[f].waiters = heap[f].waiters + 1
        /\ \A g \in Flights : g # f => heap'[g] = heap[g]
    BY <2>2 DEF TypeOK, Flight
  <2> QED  BY <2>2, <2>3, EnterEffect DEF Settled, TypeOK, Flight
<1>2. ASSUME NEW c \in Callers, NEW k \in Keys, NEW f \in Flights, Lead(c, k, f)
      PROVE  Settled'
  <2>1. /\ heap'[f].phase = "queued" /\ \A g \in Flights : g # f => heap'[g] = heap[g]
    BY <1>2 DEF Lead, TypeOK
  <2>2. EnterCall(c, k, f)
    BY <1>2 DEF Lead
  <2> QED  BY <2>1, <2>2, EnterEffect DEF Settled
<1>3. ASSUME NEW c \in Callers, EndContext(c) \/ Receive(c) \/ GiveUp(c) PROVE Settled'
  <2>1. heap' = heap
    BY <1>3 DEF EndContext, Receive, GiveUp
  <2>2. CASE EndContext(c)
    BY <2>1, <2>2 DEF EndContext, Settled, TypeOK, Call
  <2>3. CASE Receive(c)
    <3>1. PICK o : o = heap[get[c].flight].outcome
      OBVIOUS
    <3>2. get[c].flight \in Flights /\ o # "none"
      BY <2>3, <3>1 DEF Receive, TypeOK, Call, Settled
    <3>3. get' = [get EXCEPT ![c] = [get[c] EXCEPT !.pc = "leaving", !.answer = o]]
      BY <2>3, <3>1 DEF Receive
    <3> QED  BY <2>1, <3>2, <3>3 DEF Settled, TypeOK, Call
  <2>4. CASE GiveUp(c)
    BY <2>1, <2>4 DEF GiveUp, Settled, TypeOK, Call
  <2> QED  BY <1>3, <2>2, <2>3, <2>4
<1>4. ASSUME NEW c \in Callers, Leave(c) PROVE Settled'
  <2>1. PICK f \in Flights : f = get[c].flight
    BY <1>4, LeaveEffect
  <2>2. /\ heap[f].waiters \in Nat \ {0} /\ heap'[f].waiters = heap[f].waiters - 1
        /\ \A g \in Flights : g # f => heap'[g] = heap[g]
        /\ heap[f].waiters > 1 =>
             heap'[f].phase = heap[f].phase /\ heap'[f].outcome = heap[f].outcome
    BY <1>4, <2>1, LeaveEffect
  <2>3. heap[f].waiters = 1 =>
          \/ heap'[f].phase = "free"
          \/ /\ heap'[f].phase = heap[f].phase /\ heap'[f].phase # "closed"
             /\ heap'[f].outcome = heap[f].outcome
    BY <1>4, <2>1, LastLeaves DEF FreeFlight
  <2>4. get'[c].pc = "idle" /\ \A b \in Callers : b # c => get'[b] = get[b]
    BY <1>4 DEF Leave, NoCall, TypeOK
  <2> QED  BY <2>2, <2>3, <2>4 DEF Settled
<1>5. ASSUME NEW f \in Flights, FlightStep(f), ~Publish(f) PROVE Settled'
  <2>1. /\ get' = get /\ \A g \in Flights : g # f => heap'[g] = heap[g]
        /\ heap'[f].phase \in {"queued", "fetching", "returned"}
    BY <1>5, RunnerEffect
  <2>2. heap'[f].phase = "returned" => heap'[f].outcome # "none"
    BY <1>5, RunnerSettles DEF Settled
  <2> QED  BY <2>1, <2>2 DEF Settled
<1>6. ASSUME NEW f \in Flights, Publish(f) PROVE Settled'
  <2>1. /\ get' = get /\ heap[f].phase = "returned"
        /\ \A g \in Flights : g # f => heap'[g] = heap[g]
        /\ heap[f].waiters <= 0 => heap'[f] = FreeFlight
        /\ heap[f].waiters > 0 =>
              heap'[f].waiters = heap[f].waiters /\ heap'[f].outcome = heap[f].outcome
    BY <1>6, PublishEffect
  <2>2. heap[f].waiters > 0 \/ heap[f].waiters <= 0
    BY DEF TypeOK, Flight
  <2> QED  BY <2>1, <2>2 DEF Settled, FreeFlight
<1>7. CASE UNCHANGED <<heap, get>>
  BY <1>7 DEF Settled
<1>8. ASSUME NEW d \in Downloads, DownloadStep(d) PROVE UNCHANGED <<heap, get>>
  BY <1>8 DEF DownloadStep, QueueDownload, AcquireForDownload, AbandonDownload, EndDownload
<1> QED  BY <1>1, <1>2, <1>3, <1>4, <1>5, <1>6, <1>7, <1>8 DEF Next, CallStep, vars

LEMMA AlwaysSettled == Spec => []Settled
<1>1. Init => Settled
  BY DEF Init, Settled, FreeFlight, NoCall
<1> QED  BY <1>1, SettledKept, Invariance, PTL DEF Spec

\* Where a fetch is, seen from the flight.
LEMMA StageValues ==
  ASSUME NEW f \in Flights, TypeOK, Bookkeeping
  PROVE  /\ heap[f].phase = "free" => StageOf(f) = "over"
         /\ heap[f].phase = "closed" => StageOf(f) = heap[f].outcome
         /\ Running(f) /\ heap[f].waiters = 0 => StageOf(f) = "called_off"
         /\ Running(f) /\ heap[f].waiters # 0 => StageOf(f) = "running"
         /\ heap[f].phase = "free" \/ heap[f].phase = "closed" \/ Running(f)
  BY DEF StageOf, Running, TypeOK, Flight

\* The same after a step.
LEMMA NextStageValues ==
  ASSUME NEW f \in Flights, TypeOK'
  PROVE  /\ heap'[f].phase = "free" => StageOf(f)' = "over"
         /\ heap'[f].phase = "closed" => StageOf(f)' = heap'[f].outcome
         /\ Running(f)' /\ heap'[f].waiters = 0 => StageOf(f)' = "called_off"
         /\ Running(f)' /\ heap'[f].waiters # 0 => StageOf(f)' = "running"
  BY DEF StageOf, Running, TypeOK, Flight

\* A flight that a step leaves alone, or only counts, is where it was.
LEMMA StageKept ==
  ASSUME NEW f \in Flights, TypeOK, TypeOK',
         heap'[f].phase = heap[f].phase, heap'[f].outcome = heap[f].outcome,
         heap'[f].waiters = 0 <=> heap[f].waiters = 0
  PROVE  StageOf(f)' = StageOf(f)
  BY DEF StageOf, Running, TypeOK, Flight

\* The state that SharedFetch sees.
StageMap == [f \in Flights |-> StageOf(f)]
SubjectMap == [f \in Flights |-> heap[f].key]
AttachedMap == [c \in Callers |-> get[c].flight]
GotMap == [c \in Callers |-> get[c].answer]

\* A caller that finds an entry attaches to a fetch that runs for others.
LEMMA JoinShares ==
  ASSUME Inv, Inv', NEW c \in Callers, NEW k \in Keys, Join(c, k)
  PROVE  \E f \in Flights : Shared!Attach(c, k, f)
<1> USE DEF Inv
<1>1. PICK f \in Flights : f = flights[k]
  BY DEF Join, TypeOK
<1>2. /\ heap[f].key = k /\ Running(f) /\ heap[f].waiters > 0 /\ heap[f].waiters \in Int
  BY <1>1, NilAssumption DEF TypeOK, Flight, Sharing, JoinableEntries, Running, Join
<1>3. EnterCall(c, k, f) /\ heap' = [heap EXCEPT ![f].waiters = @ + 1]
  BY <1>1 DEF Join
<1>4. /\ get'[c].flight = f /\ get'[c].answer = "none"
      /\ \A b \in Callers : b # c => get'[b] = get[b]
  BY <1>3, EnterEffect
<1>5. get[c].flight = NoFlight /\ get[c].answer = "none"
  BY DEF Join, TypeOK, Bookkeeping, CallsSound
<1>6. /\ heap'[f].waiters = heap[f].waiters + 1
      /\ heap'[f].key = heap[f].key /\ heap'[f].phase = heap[f].phase
      /\ heap'[f].outcome = heap[f].outcome
      /\ \A g \in Flights : g # f => heap'[g] = heap[g]
  BY <1>2, <1>3 DEF TypeOK, Flight
<1>7. StageMap' = StageMap /\ SubjectMap' = SubjectMap
  <2>1. \A g \in Flights : StageOf(g)' = StageOf(g)
    BY <1>2, <1>6, StageKept
  <2> QED  BY <1>6, <2>1 DEF StageMap, SubjectMap
<1>8. AttachedMap' = [AttachedMap EXCEPT ![c] = f] /\ GotMap' = GotMap
  BY <1>4, <1>5 DEF AttachedMap, GotMap
<1>9. StageMap[f] = "running" /\ SubjectMap[f] = k /\ AttachedMap[c] = NoFlight
  BY <1>2, <1>5, StageValues DEF StageMap, SubjectMap, AttachedMap
<1>10. {b \in Callers : AttachedMap[b] = f} # {}
  <2>1. Holders(f) # {}
    BY <1>2, HoldersFinite DEF Bookkeeping, WaitersExact
  <2> QED  BY <2>1 DEF Holders, AttachedMap
<1> QED
  BY <1>7, <1>8, <1>9, <1>10
  DEF Shared!Attach, Shared!Audience, StageMap, SubjectMap, AttachedMap, GotMap

\* A caller that finds none begins a fetch of what it asked for.
LEMMA LeadShares ==
  ASSUME Inv, Inv', NEW c \in Callers, NEW k \in Keys, NEW f \in Flights, Lead(c, k, f)
  PROVE  Shared!Begin(c, k, f)
<1> USE DEF Inv
<1>1. EnterCall(c, k, f) /\ heap[f].phase = "free"
  BY DEF Lead
<1>2. /\ get'[c].flight = f /\ get'[c].answer = "none"
      /\ \A b \in Callers : b # c => get'[b] = get[b]
  BY <1>1, EnterEffect
<1>3. get[c].flight = NoFlight /\ get[c].answer = "none"
  BY DEF Lead, TypeOK, Bookkeeping, CallsSound
<1>4. /\ heap'[f].waiters = 1 /\ heap'[f].key = k /\ heap'[f].phase = "queued"
      /\ \A g \in Flights : g # f => heap'[g] = heap[g]
  BY DEF Lead, TypeOK
<1>5. /\ StageMap' = [StageMap EXCEPT ![f] = "running"]
      /\ SubjectMap' = [SubjectMap EXCEPT ![f] = k]
  <2>1. \A g \in Flights : g # f => StageOf(g)' = StageOf(g)
    BY <1>4, StageKept
  <2>2. StageOf(f)' = "running"
    BY <1>4, NextStageValues DEF Running
  <2> QED  BY <1>4, <2>1, <2>2 DEF StageMap, SubjectMap
<1>6. AttachedMap' = [AttachedMap EXCEPT ![c] = f] /\ GotMap' = GotMap
  BY <1>2, <1>3 DEF AttachedMap, GotMap
<1>7. StageMap[f] = "over" /\ AttachedMap[c] = NoFlight
  BY <1>1, <1>3, StageValues DEF StageMap, AttachedMap
<1> QED
  BY <1>5, <1>6, <1>7 DEF Shared!Begin, StageMap, SubjectMap, AttachedMap, GotMap

\* The select in Get takes the fetch's outcome, or gives up.
LEMMA SelectShares ==
  ASSUME Inv, Inv', Settled, NEW c \in Callers, Receive(c) \/ GiveUp(c)
  PROVE  Shared!Take(c)
<1> USE DEF Inv
<1>1. PICK f : f = get[c].flight
  OBVIOUS
<1>2. /\ f \in Flights /\ heap' = heap
      /\ get[c].pc = "waiting" /\ get[c].answer = "none"
  BY <1>1, NilAssumption
  DEF Receive, GiveUp, TypeOK, Call, Bookkeeping, CallsSound
<1>3. PICK a : a = get'[c].answer
  OBVIOUS
<1>4. /\ get'[c].flight = f
      /\ \A b \in Callers : b # c => get'[b] = get[b]
      /\ a = "gaveUp" \/ (heap[f].phase = "closed" /\ a = heap[f].outcome)
  <2>1. CASE Receive(c)
    BY <1>1, <1>3, <2>1 DEF Receive, TypeOK, Call
  <2>2. CASE GiveUp(c)
    BY <1>1, <1>3, <2>2 DEF GiveUp, TypeOK, Call
  <2> QED  BY <2>1, <2>2
<1>5. StageMap' = StageMap /\ SubjectMap' = SubjectMap /\ AttachedMap' = AttachedMap
  <2>1. \A g \in Flights : StageOf(g)' = StageOf(g)
    BY <1>2, StageKept
  <2> QED  BY <1>1, <1>2, <1>4, <2>1 DEF StageMap, SubjectMap, AttachedMap
<1>6. GotMap' = [GotMap EXCEPT ![c] = a]
  BY <1>3, <1>4 DEF GotMap
<1>7. AttachedMap[c] = f /\ GotMap[c] = "none" /\ f # NoFlight
  BY <1>1, <1>2, NilAssumption DEF AttachedMap, GotMap
<1>8. a # "gaveUp" => StageMap[f] = a /\ a \in Shared!Results
  <2> SUFFICES ASSUME heap[f].phase = "closed", a = heap[f].outcome
               PROVE  StageMap[f] = a /\ a \in Shared!Results
    BY <1>4
  <2>1. StageMap[f] = a
    BY <1>2, StageValues DEF StageMap
  <2>2. a \in Outcomes /\ a # "none" /\ a # "cancelled"
    BY <1>2 DEF TypeOK, Flight, Settled, Sharing, OutcomesPrivate
  <2> QED  BY <2>1, <2>2 DEF Outcomes, Shared!Results
<1> QED
  BY <1>5, <1>6, <1>7, <1>8
  DEF Shared!Take, Shared!Results, StageMap, SubjectMap, AttachedMap, GotMap

\* leaveFlight detaches, and the last one out calls a running fetch off.
LEMMA LeaveShares ==
  ASSUME Inv, Inv', Settled, NEW c \in Callers, Leave(c)
  PROVE  \E f \in Flights : Shared!Detach(c, f)
<1> USE DEF Inv
<1>1. PICK f \in Flights : f = get[c].flight
  BY LeaveEffect
<1>2. /\ get[c].pc = "leaving" /\ get[c].answer # "none"
      /\ get'[c].flight = NoFlight /\ get'[c].answer = "none"
      /\ \A b \in Callers : b # c => get'[b] = get[b]
  BY DEF Leave, NoCall, Settled, TypeOK
<1>3. /\ heap[f].waiters \in Nat \ {0} /\ heap'[f].waiters = heap[f].waiters - 1
      /\ \A g \in Flights : g # f => heap'[g] = heap[g]
      /\ heap[f].waiters > 1 =>
           /\ heap'[f].key = heap[f].key /\ heap'[f].phase = heap[f].phase
           /\ heap'[f].outcome = heap[f].outcome
  BY <1>1, LeaveEffect
<1>4. /\ AttachedMap[c] = f /\ GotMap[c] # "none"
      /\ AttachedMap' = [AttachedMap EXCEPT ![c] = NoFlight]
      /\ GotMap' = [GotMap EXCEPT ![c] = "none"]
  BY <1>1, <1>2 DEF AttachedMap, GotMap
<1>5. \A g \in Flights : g # f => StageOf(g)' = StageOf(g) /\ heap'[g].key = heap[g].key
  BY <1>3, StageKept
<1>6. {b \in Callers : AttachedMap[b] = f} = Holders(f)
  BY DEF AttachedMap, Holders
<1>7. c \in Holders(f) /\ Cardinality(Holders(f)) = heap[f].waiters
  BY <1>1 DEF Holders, Bookkeeping, WaitersExact
<1>8. CASE heap[f].waiters > 1
  <2>1. Holders(f) # {c}
    BY <1>8, <1>7, FS_Singleton
  <2>2. StageOf(f)' = StageOf(f) /\ heap'[f].key = heap[f].key
    BY <1>3, <1>8, StageKept
  <2>3. StageMap' = StageMap /\ SubjectMap' = SubjectMap
    BY <1>5, <2>2 DEF StageMap, SubjectMap
  <2> QED
    BY <1>4, <1>6, <2>1, <2>3
    DEF Shared!Detach, Shared!Audience, StageMap, SubjectMap, AttachedMap, GotMap
<1>9. CASE heap[f].waiters = 1
  <2>1. Holders(f) = {c}
    <3>1. \E x : Holders(f) = {x}
      BY <1>7, <1>9, HoldersFinite, FS_Singleton
    <3> QED  BY <1>7, <3>1
  <2>2. /\ heap[f].phase = "closed" => heap'[f] = FreeFlight
        /\ heap[f].phase # "closed" =>
             /\ heap'[f].phase = heap[f].phase /\ heap'[f].key = heap[f].key
             /\ heap'[f].outcome = heap[f].outcome /\ heap'[f].waiters = 0
    BY <1>1, <1>9, LastLeaves
  <2>3. heap[f].phase # "free"
    BY <1>3, <1>9 DEF Bookkeeping, HeapSound, FreeFlight
  <2>4. CASE heap[f].phase = "closed"
    <3>1. /\ heap[f].outcome \in Outcomes /\ heap[f].outcome # "none"
          /\ heap[f].outcome # "cancelled"
      BY <1>9, <2>4 DEF TypeOK, Flight, Settled, Sharing, OutcomesPrivate
    <3>2. StageOf(f) \in Shared!Results
      BY <2>4, <3>1, StageValues DEF Outcomes, Shared!Results
    <3>3. StageOf(f)' = "over" /\ heap'[f].key = NoKey
      BY <2>2, <2>4, NextStageValues DEF FreeFlight
    <3>4. /\ StageMap' = [StageMap EXCEPT ![f] = "over"]
          /\ SubjectMap' = [SubjectMap EXCEPT ![f] = NoKey]
          /\ StageMap[f] \in Shared!Results
      BY <1>5, <3>2, <3>3 DEF StageMap, SubjectMap
    <3>5. Shared!Detach(c, f)
      BY <1>4, <1>6, <2>1, <3>4
      DEF Shared!Detach, Shared!Audience, Shared!Results,
          StageMap, SubjectMap, AttachedMap, GotMap
    <3> QED  BY <3>5
  <2>5. CASE heap[f].phase # "closed"
    <3>1. StageOf(f) = "running"
      BY <1>9, <2>3, <2>5, StageValues
    <3>2. StageOf(f)' = "called_off" /\ heap'[f].key = heap[f].key
      <4>1. Running(f)'
        BY <2>2, <2>3, <2>5 DEF Running, TypeOK, Flight
      <4> QED  BY <2>2, <2>5, <4>1, NextStageValues
    <3>3. /\ StageMap' = [StageMap EXCEPT ![f] = "called_off"]
          /\ SubjectMap' = SubjectMap /\ StageMap[f] = "running"
      BY <1>5, <3>1, <3>2 DEF StageMap, SubjectMap
    <3>4. Shared!Detach(c, f)
      BY <1>4, <1>6, <2>1, <3>3
      DEF Shared!Detach, Shared!Audience, StageMap, SubjectMap, AttachedMap, GotMap
    <3> QED  BY <3>4
  <2> QED  BY <2>4, <2>5
<1> QED  BY <1>3, <1>8, <1>9

\* A runner that publishes finishes its fetch, or stops one called off.
LEMMA PublishShares ==
  ASSUME Inv, Inv', Settled, NEW f \in Flights, Publish(f)
  PROVE  Shared!Finish(f) \/ Shared!Stop(f)
<1> USE DEF Inv
<1>1. /\ get' = get /\ heap[f].phase = "returned"
      /\ \A g \in Flights : g # f => heap'[g] = heap[g]
      /\ heap[f].waiters <= 0 => heap'[f] = FreeFlight
      /\ heap[f].waiters > 0 =>
           /\ heap'[f].key = heap[f].key /\ heap'[f].phase = "closed"
           /\ heap'[f].outcome = heap[f].outcome
  BY PublishEffect
<1>2. AttachedMap' = AttachedMap /\ GotMap' = GotMap
  BY <1>1 DEF AttachedMap, GotMap
<1>3. \A g \in Flights : g # f => StageOf(g)' = StageOf(g) /\ heap'[g].key = heap[g].key
  BY <1>1, StageKept
<1>4. heap[f].waiters \in Nat /\ Running(f)
  BY <1>1, HoldersFinite DEF Bookkeeping, WaitersExact, Running
<1>5. CASE heap[f].waiters = 0
  <2>1. StageOf(f) = "called_off" /\ StageOf(f)' = "over" /\ heap'[f].key = NoKey
    BY <1>1, <1>4, <1>5, StageValues, NextStageValues DEF FreeFlight
  <2>2. /\ StageMap[f] = "called_off" /\ StageMap' = [StageMap EXCEPT ![f] = "over"]
        /\ SubjectMap' = [SubjectMap EXCEPT ![f] = NoKey]
    BY <1>3, <2>1 DEF StageMap, SubjectMap
  <2> QED
    BY <1>2, <2>2 DEF Shared!Stop, StageMap, SubjectMap, AttachedMap, GotMap
<1>6. CASE heap[f].waiters > 0
  <2>1. PICK r : r = heap[f].outcome
    OBVIOUS
  <2>2. r \in Shared!Results
    BY <1>1, <1>6, <2>1
    DEF TypeOK, Flight, Outcomes, Settled, Sharing, OutcomesPrivate, Shared!Results
  <2>3. StageOf(f) = "running" /\ StageOf(f)' = r /\ heap'[f].key = heap[f].key
    BY <1>1, <1>4, <1>6, <2>1, StageValues, NextStageValues
  <2>4. /\ StageMap[f] = "running" /\ StageMap' = [StageMap EXCEPT ![f] = r]
        /\ SubjectMap' = SubjectMap
    BY <1>3, <2>3 DEF StageMap, SubjectMap
  <2> QED
    BY <1>2, <2>2, <2>4
    DEF Shared!Finish, Shared!Results, StageMap, SubjectMap, AttachedMap, GotMap
<1> QED  BY <1>4, <1>5, <1>6

\* Client.Get keeps the promise of SharedFetch: callers of one key share a
\* fetch of it, take its one outcome or give up, and a fetch is called off
\* only by the last of them to leave.
THEOREM GetIsShared == Spec => SharedFetchSpec
<1>1. Init /\ Inv => Shared!Init
  <2> SUFFICES ASSUME Init, Inv PROVE Shared!Init
    OBVIOUS
  <2>1. \A f \in Flights : StageOf(f) = "over" /\ heap[f].key = NoKey
    BY StageValues DEF Init, Inv, FreeFlight
  <2>2. \A c \in Callers : get[c].flight = NoFlight /\ get[c].answer = "none"
    BY DEF Init, NoCall
  <2> QED  BY <2>1, <2>2 DEF Shared!Init
<1>2. ASSUME Inv, Inv', Settled, [Next]_vars
      PROVE  [Shared!Next]_(Shared!vars)
  <2> DEFINE Unseen == /\ StageMap' = StageMap /\ SubjectMap' = SubjectMap
                       /\ AttachedMap' = AttachedMap /\ GotMap' = GotMap
  <2>0. TypeOK /\ TypeOK' /\ Bookkeeping
    BY <1>2 DEF Inv
  <2>1. Unseen => UNCHANGED Shared!vars
    BY DEF Shared!vars, StageMap, SubjectMap, AttachedMap, GotMap
  <2>2. ASSUME UNCHANGED <<heap, get>> PROVE Unseen
    <3>1. \A f \in Flights : StageOf(f)' = StageOf(f)
      BY <2>0, <2>2, StageKept
    <3> QED  BY <2>2, <3>1 DEF StageMap, SubjectMap, AttachedMap, GotMap
  <2>3. ASSUME NEW c \in Callers, EndContext(c) PROVE Unseen
    <3>1. /\ heap' = heap
          /\ \A b \in Callers : get'[b].flight = get[b].flight /\ get'[b].answer = get[b].answer
      BY <2>0, <2>3 DEF EndContext, TypeOK, Call
    <3>2. \A f \in Flights : StageOf(f)' = StageOf(f)
      BY <2>0, <3>1, StageKept
    <3> QED  BY <3>1, <3>2 DEF StageMap, SubjectMap, AttachedMap, GotMap
  <2>4. ASSUME NEW f \in Flights, FlightStep(f), ~Publish(f) PROVE Unseen
    <3>1. /\ get' = get /\ \A g \in Flights : g # f => heap'[g] = heap[g]
          /\ heap'[f].key = heap[f].key /\ heap'[f].waiters = heap[f].waiters
          /\ Running(f) /\ heap'[f].phase \in {"queued", "fetching", "returned"}
      BY <2>0, <2>4, RunnerEffect
    <3>2. StageOf(f)' = StageOf(f)
      <4>1. Running(f)'
        BY <3>1 DEF Running
      <4> QED  BY <2>0, <3>1, <4>1, StageValues, NextStageValues
    <3>3. \A g \in Flights : StageOf(g)' = StageOf(g) /\ heap'[g].key = heap[g].key
      BY <2>0, <3>1, <3>2, StageKept
    <3> QED  BY <3>1, <3>3 DEF StageMap, SubjectMap, AttachedMap, GotMap
  <2>5. ASSUME NEW d \in Downloads, DownloadStep(d) PROVE UNCHANGED <<heap, get>>
    BY <2>5 DEF DownloadStep, QueueDownload, AcquireForDownload, AbandonDownload, EndDownload
  <2> HIDE DEF Unseen
  <2>6. ASSUME NEW c \in Callers, CallStep(c) PROVE Shared!Next \/ Unseen
    <3>1. CASE \E k \in Keys : Join(c, k)
      BY <1>2, <3>1, JoinShares DEF Shared!Next
    <3>2. CASE \E k \in Keys, f \in Flights : Lead(c, k, f)
      BY <1>2, <3>2, LeadShares DEF Shared!Next
    <3>3. CASE Receive(c) \/ GiveUp(c)
      BY <1>2, <3>3, SelectShares DEF Shared!Next
    <3>4. CASE Leave(c)
      BY <1>2, <3>4, LeaveShares DEF Shared!Next
    <3> QED  BY <2>3, <2>6, <3>1, <3>2, <3>3, <3>4 DEF CallStep
  <2>7. ASSUME NEW f \in Flights, FlightStep(f) PROVE Shared!Next \/ Unseen
    BY <1>2, <2>4, <2>7, PublishShares DEF Shared!Next
  <2>8. UNCHANGED vars => Unseen
    BY <2>2 DEF vars
  <2> QED  BY <1>2, <2>1, <2>2, <2>5, <2>6, <2>7, <2>8 DEF Next
<1> QED
  BY <1>1, <1>2, Invariance, AlwaysSettled, PTL DEF Spec, SharedFetchSpec, Shared!Spec

=============================================================================
