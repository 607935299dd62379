----------------------------- MODULE TripOptions -----------------------------
(***************************************************************************)
(* The tool lyon_trip_options (internal/service/journey.go): the options    *)
(* for a trip by the modes asked for, each from what its sources return,    *)
(* and which of them satisfy the request.                                   *)
(*                                                                         *)
(* Places are points on a line, in metres; times are in seconds from the    *)
(* requested departure; the numbers of an instance are small.  The scores   *)
(* depend on configured weights: any option that is eligible may have the   *)
(* best one.  An option says what it is made of, as its legs do in the code.*)
(***************************************************************************)
EXTENDS ToolContext, FiniteSetsExt

CONSTANTS
    Destination,    \* the destination; the origin is 0
    Requests,       \* requests: modes, walking, deadline, bikes, docks, avoid, wheelchair
    Stations,       \* what the stations may be: sets of [at, bikes, docks, open, fresh]
    CarParks,       \* what the park-and-rides may be: sets of [at, known, fresh]
    Itineraries,    \* what a plan may be: sequences of
                    \*   [departs, arrives, walking, alerts, accessible, legs]
    Transfer,       \* from the car to the transit stop (120 s)
    Never,          \* no deadline, or no arrival time
    Unknown         \* a walking distance that is not known

Modes == {"walk", "car", "velov", "park_and_ride", "tcl"}

(***************************************************************************)
(* What the input schema and the providers make sure of: counts are not     *)
(* negative, and an itinerary and each of its legs end after they start     *)
(* (transitous.go 83, 131).  That the legs follow each other, or begin and   *)
(* end with the itinerary, is nowhere looked at.                            *)
(***************************************************************************)
ASSUME TripAssumption ==
    /\ Destination \in Nat /\ Never \notin Int /\ Unknown \notin Int
    /\ \A r \in Requests :
          /\ r.modes \subseteq Modes /\ r.bikes \in Nat /\ r.docks \in Nat
          /\ r.walking \in Nat /\ r.deadline \in Int \cup {Never}
          /\ r.avoid \in BOOLEAN /\ r.wheelchair \in BOOLEAN
    /\ \A stations \in Stations : \A s \in stations :
          /\ s.at \in Int /\ s.bikes \in Nat /\ s.docks \in Nat
          /\ s.open \in BOOLEAN /\ s.fresh \in BOOLEAN
    /\ \A parks \in CarParks : \A p \in parks : p.at \in Nat /\ p.known \in BOOLEAN /\ p.fresh \in BOOLEAN
    /\ \A plan \in Itineraries :
          plan \in Seq([departs : Int, arrives : Int, walking : Int \cup {Unknown},
                        alerts : BOOLEAN, accessible : BOOLEAN, legs : Seq(Int \X Int)])
    /\ \A plan \in Itineraries : \A i \in DOMAIN plan :
          /\ plan[i].departs < plan[i].arrives
          /\ \A j \in DOMAIN plan[i].legs : plan[i].legs[j][1] < plan[i].legs[j][2]

VARIABLE trip

NoTrip == [pc |-> "idle", request |-> Never, routing |-> FALSE, near |-> {}, far |-> {},
           parks |-> {}, plan |-> <<>>, options |-> {}, recommended |-> {}]

InitTrip == trip = NoTrip

Distance(a, b) == IF a > b THEN a - b ELSE b - a

Request == trip.request

\* A TripOption.  A leg is its start and its end; parts are the station pair,
\* the car park and the itinerary.
Option(mode, evidence, walking, departs, arrives) ==
    [mode |-> mode, evidence |-> evidence, walking |-> walking, departs |-> departs,
     arrives |-> arrives, alerts |-> FALSE, accessible |-> FALSE, known |-> FALSE, stale |-> FALSE,
     legs |-> <<>>, parts |-> <<>>]

-----------------------------------------------------------------------------
(* The steps of TripOptions, in order; those of other modes are left out.   *)

After(pc, modes) ==
    LET order == <<"origin", "destination", "velov", "velov-to", "park_and_ride", "tcl", "evaluate">>
        place == CHOOSE i \in DOMAIN order : order[i] = pc
        wanted(i) == order[i] \in modes \cup {"evaluate"}
    IN order[Min({i \in DOMAIN order : i > place /\ wanted(i)})]

\* The default of modes is all of them; an arrival_before that is no later
\* than the departure is refused.
BeginTrip(request, routing, offline) ==
    IF request.deadline # Never /\ request.deadline <= 0
    THEN /\ Refuse("trip", offline)
         /\ UNCHANGED trip
    ELSE /\ Enter("trip", offline)
         /\ trip' = [NoTrip EXCEPT !.pc = "origin", !.request = request, !.routing = routing]

\* The options that need no source.
Estimated ==
    LET distance == Destination IN
    {o \in {Option("walk", "estimated", distance, 0, (distance * 5) \div 7),
            Option("car", "estimated", 0, 0, distance \div 8)} : o.mode \in Request.modes}

\* ResolvePoint, of the origin and then of the destination.
ResolveEnd(ref) ==
    /\ Running("trip") /\ trip.pc \in {"origin", "destination"}
    /\ \E outcome \in Resolutions(ref) :
          IF ~outcome.found
          THEN /\ trip' = [trip EXCEPT !.pc = "unplaced"]
               /\ Handled(NewEnvelope("not_found"), outcome.failed)
          ELSE /\ trip' = IF trip.pc = "origin" THEN [trip EXCEPT !.pc = "destination"]
                          ELSE [trip EXCEPT !.pc = After("destination", Request.modes),
                                            !.options = Estimated]
               /\ call' = Failing(outcome.failed) /\ UNCHANGED envelope

Proceed(options) == [trip EXCEPT !.pc = After(trip.pc, Request.modes), !.options = @ \cup options]

-----------------------------------------------------------------------------
(* appendVelovOption                                                        *)

\* The stations near the origin; the other read follows, whatever came of it.
ReadNear ==
    /\ Running("trip") /\ trip.pc = "velov"
    /\ \/ /\ \E stations \in Stations :
                trip' = [trip EXCEPT !.pc = "velov-to",
                            !.near = {s \in stations : Distance(s.at, 0) <= Request.walking}]
          /\ UNCHANGED call
       \/ /\ trip' = [trip EXCEPT !.pc = "velov-to"]
          /\ call' = Failing({"velov_realtime"})
    /\ UNCHANGED envelope

\* filterStations and filterFreshStations
Usable(s, bikes, docks) ==
    /\ s.open /\ s.bikes >= bikes /\ s.docks >= docks
    /\ call.offline \/ s.fresh

PairWalking(pair) == Distance(pair[1].at, 0) + Distance(pair[2].at, Destination)
PairDuration(pair) == Distance(pair[1].at, pair[2].at) \div 4 + PairWalking(pair)

\* The pairs of usable stations within the walking limit.
Pairs(near, far) ==
    {pair \in {s \in near : Usable(s, Request.bikes, 0)} \X {s \in far : Usable(s, 0, Request.docks)} :
        PairWalking(pair) <= Request.walking}

\* Mutant: the pair with the shortest walk.
ShortestWalk(pairs) == {p \in pairs : \A q \in pairs : PairWalking(p) <= PairWalking(q)}

\* The fastest pairs; the first of them is taken.
Fastest(pairs) == {p \in pairs : \A q \in pairs : PairDuration(p) <= PairDuration(q)}

VelovOption(pair) ==
    [Option("velov", "estimated", PairWalking(pair), 0, PairDuration(pair)) EXCEPT !.parts = pair]

\* The stations near the destination, and the choice of a pair.
ReadFar ==
    /\ Running("trip") /\ trip.pc = "velov-to"
    /\ \/ /\ "velov_realtime" \notin call.failed
          /\ \E stations \in Stations :
                LET far == {s \in stations : Distance(s.at, Destination) <= Request.walking}
                    pairs == Pairs(trip.near, far)
                    options == {VelovOption(pair) : pair \in Fastest(pairs)}
                IN /\ \E chosen \in IF pairs = {} THEN {{}} ELSE {{o} : o \in options} :
                         trip' = [Proceed(chosen) EXCEPT !.far = far]
                   /\ envelope' = WarnIf(pairs = {}, envelope, "PARTIAL_RESULT", "velov_realtime")
          /\ UNCHANGED call
       \/ /\ trip' = Proceed({})
          /\ call' = Failing({"velov_realtime"})
          /\ envelope' = Warn(envelope, "SOURCE_UNAVAILABLE", "velov_realtime")

-----------------------------------------------------------------------------
(* appendParkAndRideOption and appendTransitOptions                         *)

\* Parkings returns car parks, an error, or some beside an error.
ReadCarParks ==
    /\ Running("trip") /\ trip.pc = "park_and_ride"
    /\ \E parks \in CarParks, err \in BOOLEAN :
          /\ trip' = IF parks = {} THEN Proceed({}) ELSE [trip EXCEPT !.pc = "connections", !.parks = parks]
          /\ envelope' = WarnIf(err, envelope, IF parks = {} THEN "SOURCE_UNAVAILABLE" ELSE "PARTIAL_RESULT",
                                "parking")
          /\ call' = Failing(IF err THEN {"parking"} ELSE {})

\* The car parks are taken from the destination outwards.
NextPark == CHOOSE p \in trip.parks :
                \A q \in trip.parks : Distance(p.at, Destination) <= Distance(q.at, Destination)

CarArrival(park) == park.at \div 8

\* The option as long as nothing connects the car park with the destination.
ParkOption(park) ==
    [Option("park_and_ride", "unavailable", Distance(park.at, Destination), Never, Never) EXCEPT
        !.known = park.known, !.stale = park.known /\ ~call.offline /\ ~park.fresh, !.parts = <<park>>]

\* The first itinerary that leaves after the transfer, or else the first.
Connection(park, planned) ==
    LET later == {i \in DOMAIN planned : planned[i].departs >= CarArrival(park) + Transfer}
    IN planned[IF later = {} THEN 1 ELSE Min(later)]

\* Mutant: a connection that leaves before the car arrives is taken.
MissedNever(park, transit) == FALSE

Missed(park, transit) == transit.departs < CarArrival(park)

\* The legs of the itinerary are those of its provider, as they are.
ParkLegs(park, transit) ==
    LET car == <<0, CarArrival(park)>>
        wait == <<CarArrival(park), transit.departs>>
    IN (IF transit.departs > CarArrival(park) THEN <<car, wait>> ELSE <<car>>) \o transit.legs

ParkAndTransit(park, transit) ==
    [ParkOption(park) EXCEPT
        !.evidence = "mixed", !.departs = 0, !.arrives = transit.arrives, !.walking = transit.walking,
        !.alerts = transit.alerts, !.accessible = transit.accessible,
        !.legs = ParkLegs(park, transit), !.parts = <<park, transit>>]

\* One turn of the loop, with what Plan returned; an error returns nothing.
WithConnection(park, planned) ==
    IF planned = <<>> \/ Missed(park, Connection(park, planned)) THEN ParkOption(park)
    ELSE ParkAndTransit(park, Connection(park, planned))

Plans == IF trip.routing THEN {<<p, FALSE>> : p \in Itineraries} \cup {<< <<>>, TRUE>>} ELSE {<< <<>>, FALSE>>}

Connect ==
    /\ Running("trip") /\ trip.pc = "connections"
    /\ \E plan \in Plans :
          LET option == WithConnection(NextPark, plan[1])
              left == trip.parks \ {NextPark}
              unknown == WarnIf(~NextPark.known, envelope, "PARTIAL_RESULT", "parking_availability")
          IN /\ trip' = IF left # {} THEN [trip EXCEPT !.parks = left, !.options = @ \cup {option}]
                        ELSE [trip EXCEPT !.parks = {}, !.options = @ \cup {option},
                                          !.pc = After("park_and_ride", Request.modes)]
             /\ envelope' = WarnIf(plan[1] = <<>>, unknown, "ROUTING_UNAVAILABLE", "park_and_ride")
             /\ call' = Failing(IF plan[2] THEN {"park_and_ride"} ELSE {})

TransitOption(transit) ==
    [Option("tcl", "calculated", transit.walking, transit.departs, transit.arrives) EXCEPT
        !.alerts = transit.alerts, !.accessible = transit.accessible, !.legs = transit.legs,
        !.parts = <<transit>>]

\* appendTransitFallback
NoItinerary == Option("tcl", "unavailable", Unknown, Never, Never)

PlanTransit ==
    /\ Running("trip") /\ trip.pc = "tcl"
    /\ \E plan \in Plans :
          LET options == IF plan[1] = <<>> THEN {NoItinerary}
                         ELSE {TransitOption(plan[1][i]) : i \in DOMAIN plan[1]}
          IN /\ trip' = [Proceed(options) EXCEPT !.plan = plan[1]]
             /\ envelope' = WarnIf(plan[1] = <<>>, envelope, "ROUTING_UNAVAILABLE", "journey_planner")
             /\ call' = Failing(IF plan[2] THEN {"journey_planner"} ELSE {})

-----------------------------------------------------------------------------
(* applyTripTiming, evaluateTripOptions and what follows                    *)

\* Mutant: an occupancy that is known is enough.
EligibleStale(o) ==
    /\ o.evidence # "unavailable"
    /\ o.walking # Unknown /\ o.walking <= Request.walking
    /\ Request.deadline = Never \/ (o.arrives # Never /\ o.arrives <= Request.deadline)
    /\ Request.avoid => ~o.alerts
    /\ Request.wheelchair => o.accessible
    /\ o.mode = "park_and_ride" => o.known

Eligible(o) ==
    /\ o.evidence # "unavailable"
    /\ o.walking # Unknown /\ o.walking <= Request.walking
    /\ Request.deadline = Never \/ (o.arrives # Never /\ o.arrives <= Request.deadline)
    /\ Request.avoid => ~o.alerts
    /\ Request.wheelchair => o.accessible
    /\ o.mode = "park_and_ride" => o.known /\ ~o.stale

\* The status when nothing is eligible.
NothingStatus ==
    IF Request.wheelchair \/ envelope.warnings # {} \/ \E o \in trip.options : o.evidence = "unavailable"
    THEN "unavailable" ELSE "not_found"

Recommend ==
    /\ Running("trip") /\ trip.pc = "evaluate"
    /\ LET eligible == {o \in trip.options : Eligible(o)} IN
       \/ /\ eligible = {}
          /\ trip' = [trip EXCEPT !.pc = "done"]
          /\ Handled([envelope EXCEPT !.status = NothingStatus], {})
       \/ \E o \in eligible :
             /\ trip' = [trip EXCEPT !.pc = "done", !.recommended = {o}]
             /\ Handled(envelope, {})

TripStep ==
    \/ \E ref \in {"coordinates", "query"} : ResolveEnd(ref)
    \/ ReadNear \/ ReadFar \/ ReadCarParks \/ Connect \/ PlanTransit \/ Recommend

-----------------------------------------------------------------------------

InTime(time) == Request.deadline = Never \/ time <= Request.deadline

\* The facts about an itinerary, as its provider gave them.
ItinerarySuits(transit) ==
    /\ transit.walking # Unknown /\ transit.walking <= Request.walking
    /\ InTime(transit.arrives)
    /\ Request.avoid => ~transit.alerts
    /\ Request.wheelchair => transit.accessible

PairSuits(pair) ==
    /\ pair[1].open /\ pair[1].bikes >= Request.bikes /\ pair[2].open /\ pair[2].docks >= Request.docks
    /\ call.offline \/ (pair[1].fresh /\ pair[2].fresh)
    /\ PairWalking(pair) <= Request.walking
    /\ InTime(PairDuration(pair)) /\ ~Request.wheelchair

WalkSuits == Destination <= Request.walking /\ InTime((Destination * 5) \div 7) /\ ~Request.wheelchair
CarSuits == InTime(Destination \div 8) /\ ~Request.wheelchair

(***************************************************************************)
(* Property.  What is recommended can be done as was asked: its stations,   *)
(* car park and itinerary, as their sources described them, keep the        *)
(* walking limit, the deadline, the minimum of bikes and docks, disruptions *)
(* and accessibility, the occupancy of the car park is known and fresh, and *)
(* the connection leaves when the car is there (tools.md "only eligible     *)
(* options can be recommended"; appendVelovOption to evaluateTripOptions).  *)
(***************************************************************************)
RecommendationMeetsRequest ==
    \A r \in trip.recommended :
        CASE r.mode = "walk" -> WalkSuits
          [] r.mode = "car" -> CarSuits
          [] r.mode = "velov" -> PairSuits(r.parts)
          [] r.mode = "tcl" -> ItinerarySuits(r.parts[1])
          [] r.mode = "park_and_ride" ->
                /\ r.parts[1].known /\ (call.offline \/ r.parts[1].fresh)
                /\ r.parts[2].departs >= CarArrival(r.parts[1]) /\ ItinerarySuits(r.parts[2])

(***************************************************************************)
(* Property.  If a trip on foot, by car, by a pair of the stations returned *)
(* or by an itinerary returned is possible as asked, then something is      *)
(* recommended: choosing the fastest pair before the deadline is looked at  *)
(* loses no trip (appendVelovOption 254-292, TripOptions 105-118).          *)
(***************************************************************************)
FeasibleTripIsRecommended ==
    Answered("trip") /\ trip.pc = "done" /\ trip.recommended = {} =>
        /\ "walk" \in Request.modes => ~WalkSuits
        /\ "car" \in Request.modes => ~CarSuits
        /\ \A pair \in trip.near \X trip.far : ~PairSuits(pair)
        /\ \A i \in DOMAIN trip.plan : ~ItinerarySuits(trip.plan[i])

\* Legs that lead from one time to another, without a gap or a step back.
Chain(legs, from, to) ==
    LET n == Len(legs) IN
    /\ n > 0 /\ legs[1][1] = from /\ legs[n][2] = to
    /\ \A i \in 1..n : legs[i][1] <= legs[i][2]
    /\ \A i \in 1..(n - 1) : legs[i][2] = legs[i + 1][1]

(***************************************************************************)
(* Property.  What a park-and-ride option puts before its itinerary, the    *)
(* car and the transfer, connects with it: if the legs that the provider    *)
(* gave lead from the itinerary's departure to its arrival, then all of the *)
(* option's lead from the requested departure to that arrival.  Legs of the *)
(* provider that do not are passed on as they are                           *)
(* (appendParkAndRideOption 389-436).                                       *)
(***************************************************************************)
LegsConnect ==
    \A o \in trip.options :
        /\ o.mode = "park_and_ride" /\ o.evidence # "unavailable"
        /\ Chain(o.parts[2].legs, o.parts[2].departs, o.parts[2].arrives)
        => Chain(o.legs, 0, o.arrives)
=============================================================================
