-------------------------- MODULE AccessibilityCheck -------------------------
(***************************************************************************)
(* The tool lyon_accessibility_check (internal/service/accessibility.go):   *)
(* the incidents of the network once, then for each stop its identity, a    *)
(* check by the provider and what the timetable declares of it.  The stops  *)
(* of a request are numbered; a source's word is a verdict.                 *)
(***************************************************************************)
EXTENDS ToolContext

CONSTANT MaxStops   \* the largest number of stops, origin and destination in a request

VARIABLE access     \* the handler of lyon_accessibility_check

Verdicts == {"inaccessible", "partially_accessible", "unknown"}

\* A segment has a status and its evidence: pairs of a source and its verdict.
Unresolved == [status |-> "unknown", resolved |-> FALSE, evidence |-> {}, unread |-> FALSE]

\* returned are the stops with an incident in a list that the source has sent,
\* incidents those in the list that the handler has.
NoAccess == [pc |-> "idle", stops |-> 0, segments |-> <<>>, returned |-> {}, incidents |-> {},
             overall |-> "unknown"]

InitAccess == access = NoAccess

At == Len(access.segments)

-----------------------------------------------------------------------------

\* Without a stop the handler itself refuses the request.
BeginAccess(stops, stepFree, offline) ==
    /\ call.stage = "idle"
    /\ call' = [NoCall EXCEPT !.stage = IF stops = 0 THEN "handled" ELSE "running",
                              !.tool = "access", !.offline = offline]
    /\ envelope' = IF stops = 0 THEN NewEnvelope("invalid_request")
                   ELSE WarnIf(stepFree, NewEnvelope("ok"), "PARTIAL_RESULT", "accessibility")
    /\ access' = [NoAccess EXCEPT !.pc = "incidents", !.stops = stops]

\* A list with a page that failed comes with an error; the handler drops it.
ReadIncidents ==
    /\ Running("access") /\ access.pc = "incidents"
    /\ \E listed \in SUBSET (1..access.stops), err \in BOOLEAN :
          /\ access' = [access EXCEPT !.pc = "resolve", !.returned = listed,
                                      !.incidents = IF err THEN {} ELSE listed]
          /\ call' = Failing(IF err THEN {"accessibility_incidents"} ELSE {})
          /\ envelope' = WarnIf(err, envelope, "SOURCE_UNAVAILABLE", "accessibility_incidents")

\* matchingIncidents: with an incident the provider is not asked again.
ResolveStop ==
    /\ Running("access") /\ access.pc = "resolve" /\ At < access.stops
    /\ \E outcome \in Resolutions("place") \cup Resolutions("coordinates") :
          LET matched == At + 1 \in access.incidents
              segment == IF matched
                         THEN [Unresolved EXCEPT !.resolved = TRUE, !.status = "inaccessible",
                                                 !.evidence = {<<"incident", "inaccessible">>}]
                         ELSE [Unresolved EXCEPT !.resolved = TRUE]
          IN /\ IF outcome.found
                THEN /\ access' = [access EXCEPT !.pc = IF matched THEN "boarding" ELSE "check",
                                                 !.segments = Append(@, segment)]
                     /\ UNCHANGED envelope
                ELSE /\ access' = [access EXCEPT !.segments = Append(@, Unresolved)]
                     /\ envelope' = Warn(envelope, "PLACE_NOT_FOUND", "place")
             /\ call' = Failing(outcome.failed)

\* CheckStop; no provider calls a stop accessible.
CheckStop ==
    /\ Running("access") /\ access.pc = "check"
    /\ \/ /\ access' = [access EXCEPT !.pc = "boarding"]
          /\ call' = Failing({"accessibility_check"})
          /\ envelope' = Warn(envelope, "SOURCE_UNAVAILABLE", "accessibility_check")
       \/ /\ \E verdict \in Verdicts :
                access' = [access EXCEPT !.pc = "boarding", !.segments[At].status = verdict,
                               !.segments[At].evidence =
                                   IF verdict = "unknown" THEN @ ELSE @ \cup {<<"check_stop", verdict>>}]
          /\ UNCHANGED context

\* Mutant: what the timetable declares replaces what is known so far.
DeclaredLast(status, boarding) ==
    CASE boarding = 2 -> "inaccessible" [] boarding = 1 -> "partially_accessible" [] OTHER -> status

\* wheelchair_boarding 2 denies access; 1 helps a stop of which nothing else is known.
Declared(status, boarding) ==
    CASE boarding = 2 -> "inaccessible"
      [] boarding = 1 /\ status = "unknown" -> "partially_accessible"
      [] OTHER -> status

DeclaredVerdict(boarding) ==
    CASE boarding = 2 -> "inaccessible" [] boarding = 1 -> "partially_accessible" [] OTHER -> "unknown"

\* WheelchairBoarding takes a query that failed for a stop without a value,
\* so that the handler's warning about it is never given.
ReadBoarding ==
    /\ Running("access") /\ access.pc = "boarding"
    /\ \/ access' = [access EXCEPT !.pc = "resolve"]                        \* no such value
       \/ /\ TRUE \in StoreFails
          /\ access' = [access EXCEPT !.pc = "resolve", !.segments[At].unread = TRUE]
       \/ /\ FALSE \in StoreFails
          /\ \E boarding \in 0..2 :
                access' = [access EXCEPT !.pc = "resolve",
                               !.segments[At].status = Declared(@, boarding),
                               !.segments[At].evidence = @ \cup {<<"boarding", DeclaredVerdict(boarding)>>}]
    /\ UNCHANGED context

\* aggregateAccessibility
Aggregated(statuses) ==
    CASE "inaccessible" \in statuses -> "inaccessible"
      [] statuses \subseteq {"unknown"} -> "unknown"
      [] OTHER -> "partially_accessible"

ReturnAccess ==
    /\ Running("access") /\ access.pc = "resolve" /\ At = access.stops
    /\ LET overall == Aggregated({access.segments[i].status : i \in 1..access.stops})
       IN /\ access' = [access EXCEPT !.pc = "done", !.overall = overall]
          /\ Handled(IF overall = "unknown"
                     THEN [envelope EXCEPT !.status = "partial", !.degraded = TRUE]
                     ELSE envelope, {})

AccessStep == ReadIncidents \/ ResolveStop \/ CheckStop \/ ReadBoarding \/ ReturnAccess

-----------------------------------------------------------------------------

Told(segment) == {evidence[2] : evidence \in segment.evidence}

(***************************************************************************)
(* Property.  The worst evidence decides, in whatever order it came: a stop *)
(* with evidence of a barrier is inaccessible, and so is the whole request; *)
(* what has no evidence is unknown, and an answer that knows nothing says   *)
(* that it is partial (tools.md 224 and 238, accessibilitySegment,          *)
(* aggregateAccessibility).                                                 *)
(***************************************************************************)
WorstEvidenceDecides ==
    Answered("access") =>
        LET told == UNION {Told(access.segments[i]) : i \in 1..access.stops}
            worst(verdicts) == IF "inaccessible" \in verdicts THEN "inaccessible"
                               ELSE IF "partially_accessible" \in verdicts THEN "partially_accessible"
                               ELSE "unknown"
        IN /\ \A i \in 1..access.stops :
                 access.segments[i].status = worst(Told(access.segments[i]))
           /\ access.overall = worst(told)
           /\ access.overall = "unknown" => envelope.degraded /\ envelope.status = "partial"

(***************************************************************************)
(* What the contract of providers demands (provider.go 8 to 10): an         *)
(* incident that the source has returned, even beside an error, is retained *)
(* and its stop not called better than inaccessible.                        *)
(***************************************************************************)
IncidentsRetained ==
    Answered("access") =>
        \A i \in access.returned \cap (1..access.stops) :
            access.segments[i].resolved => access.segments[i].status = "inaccessible"

(***************************************************************************)
(* What the handler means to do (accessibility.go 150): when the timetable  *)
(* could not be read for a stop, the answer says so.                        *)
(***************************************************************************)
UnreadTimetableIsTold ==
    Answered("access") /\ (\E i \in 1..access.stops : access.segments[i].unread) =>
        <<"SOURCE_UNAVAILABLE", "gtfs_wheelchair">> \in envelope.warnings
=============================================================================
