----------------------------- MODULE MCToolCalls -----------------------------
(***************************************************************************)
(* A small instance of ToolCalls: 24 metres between the ends of a trip, a   *)
(* week of service days around a change of the clock.                       *)
(***************************************************************************)
EXTENDS ToolCalls

MCDestination == 24

Wishes == {w \in [walking : {12, 24}, deadline : {Never, 13}, avoid : BOOLEAN, wheelchair : BOOLEAN] :
              ~(w.avoid /\ w.wheelchair)}

MCRequests ==
    {[modes |-> m, walking |-> w.walking, deadline |-> w.deadline, bikes |-> 2, docks |-> 2,
      avoid |-> w.avoid, wheelchair |-> w.wheelchair] :
        m \in {{"walk", "velov"}, {"car", "park_and_ride", "tcl"}},
        w \in Wishes}
    \cup {[modes |-> {"walk"}, walking |-> 12, deadline |-> 0, bikes |-> 2, docks |-> 2,
           avoid |-> FALSE, wheelchair |-> FALSE]}

Station(at, bikes, docks, open, fresh) ==
    [at |-> at, bikes |-> bikes, docks |-> docks, open |-> open, fresh |-> fresh]

MCStations ==
    {{}, {Station(-4, 3, 0, TRUE, TRUE), Station(5, 3, 3, TRUE, TRUE), Station(20, 0, 3, TRUE, TRUE)},
     {Station(2, 3, 3, TRUE, FALSE), Station(8, 3, 3, TRUE, TRUE), Station(16, 3, 3, TRUE, TRUE),
      Station(23, 3, 3, FALSE, TRUE)}}

MCCarParks == {{}, {[at |-> 16, known |-> TRUE, fresh |-> TRUE]},
               {[at |-> 8, known |-> TRUE, fresh |-> FALSE], [at |-> 20, known |-> FALSE, fresh |-> TRUE]}}

Itinerary(departs, arrives, walking, alerts, accessible, legs) ==
    [departs |-> departs, arrives |-> arrives, walking |-> walking, alerts |-> alerts,
     accessible |-> accessible, legs |-> legs]

\* The legs of the first two connect; those of the others leave a gap, overlap,
\* or begin after the itinerary does.
MCItineraries ==
    {<<>>, <<Itinerary(0, 8, 6, FALSE, FALSE, <<<<0, 3>>, <<3, 8>>>>)>>,
     <<Itinerary(2, 10, 6, TRUE, FALSE, <<<<2, 10>>>>),
       Itinerary(6, 14, 14, FALSE, TRUE, <<<<6, 9>>, <<11, 14>>>>)>>,
     <<Itinerary(1, 12, Unknown, FALSE, FALSE, <<<<1, 8>>, <<6, 12>>>>),
       Itinerary(5, 20, 6, FALSE, TRUE, <<<<7, 20>>>>)>>}

MCTimetables ==
    {[times |-> {47, 199},
      calendar |-> [first |-> 0, last |-> 9, weekdays |-> 0..6],
      exceptions |-> [added |-> {}, removed |-> {}]],
     [times |-> {48, 100},
      calendar |-> [first |-> 3, last |-> 9, weekdays |-> {0, 1, 3, 4}],
      exceptions |-> [added |-> {5}, removed |-> {4}]]}

\* Half past eleven at night, half past three in the morning.
MCInstants == {5 * HalfHours + 47, 6 * HalfHours + 7}

MCDays == 0..9

MCChanges == [day : {5, 6}, shift : {-2, 2}]
=============================================================================
