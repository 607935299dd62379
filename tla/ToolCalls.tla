------------------------------ MODULE ToolCalls ------------------------------
(***************************************************************************)
(* Tool calls (internal/service/dispatch.go): a call is refused or handed   *)
(* to the handler of its tool, which returns whatever its sources and its   *)
(* deadline do.  The tools are those of the modules below and               *)
(* lyon_resolve_place (place.go); calls follow each other for ever.         *)
(***************************************************************************)
EXTENDS MobilityStatus, TripOptions, NextDepartures, AccessibilityCheck, PlaceTools

CONSTANTS
    Tools,          \* the tools that are called
    Candidates      \* the places that a search may find

VARIABLE
    places          \* the handler of lyon_resolve_place

\* stored are the identities in the entity and stop tables.
NoPlaces == [pc |-> "idle", stored |-> {}, remote |-> {}, candidates |-> {}]

vars == <<call, envelope, mobility, trip, departures, places, access, offer>>

Init ==
    /\ InitContext /\ InitMobility /\ InitTrip /\ InitDepartures
    /\ places = NoPlaces /\ InitAccess /\ InitOffer

-----------------------------------------------------------------------------
(* ResolvePlace and searchPlaces                                            *)

BeginPlaces(offline) ==
    /\ Enter("places", offline)
    /\ \E stored \in SUBSET Candidates :
          places' = [NoPlaces EXCEPT !.pc = "entities", !.stored = stored]

\* SearchEntities and SearchStops: a failure leaves the other's candidates.
SearchLocal(pc, next, source) ==
    /\ Running("places") /\ places.pc = pc
    /\ \E fails \in StoreFails :
          IF fails
          THEN /\ places' = [places EXCEPT !.pc = next]
               /\ envelope' = Warn(envelope, "SOURCE_UNAVAILABLE", source)
               /\ call' = Failing({source})
          ELSE /\ \E found \in SUBSET places.stored :
                     places' = [places EXCEPT !.pc = next, !.candidates = @ \cup found]
               /\ UNCHANGED context

\* The geocoder, when there are fewer candidates than asked for.
SearchRemote ==
    /\ Running("places") /\ places.pc = "remote"
    /\ \/ /\ places' = [places EXCEPT !.pc = "answer"]
          /\ UNCHANGED context
       \/ /\ places' = [places EXCEPT !.pc = "answer"]
          /\ envelope' = Warn(envelope, "SOURCE_UNAVAILABLE", "photon")
          /\ call' = Failing({"photon"})
       \/ /\ \E found \in (SUBSET Candidates) \ {{}} :
                places' = [places EXCEPT !.pc = "save", !.remote = found]
          /\ UNCHANGED context

\* Mutant: a place that cannot be stored is a candidate all the same.
SavedAnyway(p, candidate, fails) ==
    [p EXCEPT !.remote = @ \ {candidate}, !.candidates = @ \cup {candidate},
              !.stored = IF fails THEN @ ELSE @ \cup {candidate}]

Saved(p, candidate, fails) ==
    IF fails THEN [p EXCEPT !.remote = @ \ {candidate}]
    ELSE [p EXCEPT !.remote = @ \ {candidate}, !.stored = @ \cup {candidate},
                   !.candidates = @ \cup {candidate}]

\* SaveResolvedPlace, one candidate after the other.
SaveResolvedPlace ==
    /\ Running("places") /\ places.pc = "save"
    /\ \E candidate \in places.remote, fails \in StoreFails :
          LET saved == Saved(places, candidate, fails) IN
          /\ places' = [saved EXCEPT !.pc = IF saved.remote = {} THEN "answer" ELSE "save"]
          /\ envelope' = WarnIf(fails, envelope, "SOURCE_UNAVAILABLE", "places")
          /\ call' = Failing(IF fails THEN {"places"} ELSE {})

\* The types asked for leave some candidates, or none; the order by likeness
\* decides what is cut and whether the first is ambiguous.  The warnings of the
\* search leave the status as it is.  Without a reference nearby it is as if one
\* had been found.
ReturnPlaces ==
    /\ Running("places") /\ places.pc = "answer"
    /\ \E ambiguous \in BOOLEAN, near \in Outcomes, kept \in SUBSET places.candidates :
          LET several == Cardinality(kept) > 1 /\ ambiguous
              status == IF kept = {} THEN "not_found" ELSE IF several THEN "ambiguous" ELSE "ok"
              e == [envelope EXCEPT !.status = status]
          IN /\ places' = [places EXCEPT !.pc = "done", !.candidates = kept]
             /\ Handled(WarnIf(~near.found, WarnIf(several, e, "AMBIGUOUS_PLACE", "places"),
                               "PLACE_NOT_FOUND", "places"), near.failed)

PlacesStep ==
    \/ SearchLocal("entities", "stops", "entities") \/ SearchLocal("stops", "remote", "gtfs")
    \/ SearchRemote \/ SaveResolvedPlace \/ ReturnPlaces

-----------------------------------------------------------------------------

handlers == <<mobility, trip, departures, places, access, offer>>

\* The answer is sent; nothing of the call stays.
Reply ==
    /\ call.stage = "answered"
    /\ call' = NoCall /\ envelope' = NewEnvelope("ok")
    /\ mobility' = NoMobility /\ trip' = NoTrip /\ departures' = NoDepartures
    /\ places' = NoPlaces /\ access' = NoAccess /\ offer' = NoOffer

Begin ==
    \E offline \in BOOLEAN :
        \/ /\ "mobility" \in Tools
           /\ \/ \E include \in SUBSET Branches, areas \in 0..MaxAreas :
                    BeginMobility(include, areas, offline)
              \/ Refuse("mobility", offline) /\ UNCHANGED mobility
           /\ UNCHANGED <<trip, departures, places, access, offer>>
        \/ /\ "trip" \in Tools
           /\ \E request \in Requests, routing \in BOOLEAN : BeginTrip(request, routing, offline)
           /\ UNCHANGED <<mobility, departures, places, access, offer>>
        \/ /\ "departures" \in Tools
           /\ \E at \in Instants, current \in BOOLEAN, change \in Changes, stored \in Timetables :
                BeginDepartures(at, current, change, stored, offline)
           /\ UNCHANGED <<mobility, trip, places, access, offer>>
        \/ /\ "places" \in Tools
           /\ BeginPlaces(offline)
           /\ UNCHANGED <<mobility, trip, departures, access, offer>>
        \/ /\ "access" \in Tools
           /\ \E stops \in 0..MaxStops, stepFree \in BOOLEAN : BeginAccess(stops, stepFree, offline)
           /\ UNCHANGED <<mobility, trip, departures, places, offer>>
        \/ /\ \E tool \in PlaceToolNames \cap Tools, filter \in BOOLEAN, asked \in (SUBSET Indicators) \ {{}} :
                BeginPlaceTool(tool, filter, asked, offline)
           /\ UNCHANGED <<mobility, trip, departures, places, access>>

Handle ==
    \/ MobilityStep /\ UNCHANGED <<trip, departures, places, access, offer>>
    \/ TripStep /\ UNCHANGED <<mobility, departures, places, access, offer>>
    \/ DeparturesStep /\ UNCHANGED <<mobility, trip, places, access, offer>>
    \/ PlacesStep /\ UNCHANGED <<mobility, trip, departures, access, offer>>
    \/ AccessStep /\ UNCHANGED <<mobility, trip, departures, places, offer>>
    \/ PlaceToolsStep /\ UNCHANGED <<mobility, trip, departures, places, access>>

Context == (Expire \/ Complete) /\ UNCHANGED handlers

Import == ImportMeanwhile /\ UNCHANGED <<mobility, trip, places, access, offer>>

Next == Begin \/ Handle \/ Context \/ Import \/ Reply

\* Handlers and goroutines run, reads of providers and of the store return
\* (SharedFetch: every read ends with its context), answers are sent.
Fairness ==
    /\ WF_vars(Handle)
    /\ WF_vars(Complete /\ UNCHANGED handlers)
    /\ WF_vars(Reply)

Spec == Init /\ [][Next]_vars /\ Fairness

-----------------------------------------------------------------------------

(***************************************************************************)
(* Property.  A source whose read failed is told, if it is one that is read *)
(* about a place: the answer is degraded, names the source in a warning,    *)
(* and is neither ok nor not_found; the search for places keeps its status, *)
(* as its candidates of other sources are good (Warn, and the statuses that *)
(* the handlers set after it).                                              *)
(*   That a read failed while a place of the request was resolved is not    *)
(* told: the place counts as one that does not exist, and most tools answer *)
(* not_found without a warning (journey.go 48, transit.go 25).  A failure   *)
(* that the store itself hides is not told either: see                      *)
(* UnreadTimetableIsTold, and ReadTimes of NextDepartures.                  *)
(***************************************************************************)
FailuresAreTold ==
    LET failed == call.failed \ {"place"} IN
    call.stage = "answered" /\ failed # {} =>
        /\ envelope.degraded
        /\ \A source \in failed : \E warning \in envelope.warnings : warning[2] = source
        /\ call.tool # "places" => envelope.status \notin {"ok", "not_found"}

(***************************************************************************)
(* Property.  A candidate of an answer is stored, so that its identity can  *)
(* be used in later calls, whatever failed while places were stored         *)
(* (tools.md 95 to 101; searchPlaces 118 to 137).                           *)
(***************************************************************************)
CandidatesAreReusable == Answered("places") => places.candidates \subseteq places.stored

(***************************************************************************)
(* Property.  Every call returns: no branch of mobility keeps the others    *)
(* from the semaphore for ever (mobility.go 55 to 88), no handler stops.    *)
(***************************************************************************)
EveryCallReturns == call.stage \in {"running", "handled"} ~> call.stage = "answered"
=============================================================================
