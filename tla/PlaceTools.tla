----------------------------- MODULE PlaceTools ------------------------------
(***************************************************************************)
(* The tools that look around a place: lyon_parking_options,                *)
(* lyon_nearby_facilities, lyon_waste_dropoff and lyon_environment_brief    *)
(* (internal/service/parking.go, facilities.go, waste.go, environment.go).  *)
(* Each resolves its place, reads one source, and tells what it leaves out  *)
(* or cannot vouch for.  An item is what the tools tell apart of it.        *)
(***************************************************************************)
EXTENDS ToolContext

VARIABLE offer      \* the handler of the tool that runs

\* filter: the request asks for what is open at a time.
\* rows are the source's, kept are the answer's.
NoOffer == [pc |-> "idle", filter |-> FALSE, class |-> "none", asked |-> {}, rows |-> {}, kept |-> {}]

InitOffer == offer = NoOffer

PlaceToolNames == {"parking", "facilities", "waste", "environment"}

SourceOf(tool) ==
    CASE tool = "parking" -> "parking" [] tool = "facilities" -> "facilities"
      [] tool = "waste" -> "waste_facilities" [] OTHER -> "environment"

\* Rows inside the radius, of the types asked for.
Occupancies == {"fresh", "stale", "undated", "unknown"}
Hours == {"open", "closed", "unverified"}
DropOffs == {<<"accepts", "open">>, <<"accepts", "unverified">>, <<"unverified", "open">>,
             <<"unverified", "closed">>, <<"refuses", "open">>}
Indicators == {"pollen", "heat"}
Values == {"value", "missing", "unsupported"}

Rows(tool) ==
    CASE tool = "parking" -> SUBSET Occupancies [] tool = "facilities" -> SUBSET Hours
      [] tool = "waste" -> SUBSET DropOffs
      [] OTHER -> {{<<i, answers[i]>> : i \in given} :
                      given \in SUBSET Indicators, answers \in [Indicators -> Values]}

-----------------------------------------------------------------------------

\* Two tools have the filter, one has indicators.
BeginPlaceTool(tool, filter, asked, offline) ==
    /\ tool \in {"parking", "environment"} => ~filter
    /\ tool # "environment" => asked = Indicators
    /\ Enter(tool, offline)
    /\ offer' = [NoOffer EXCEPT !.pc = IF tool = "waste" THEN "taxonomy" ELSE "resolve",
                                !.filter = filter, !.asked = asked]

FinishOffer(e, sources) == Handled(e, sources) /\ offer' = [offer EXCEPT !.pc = "done"]

\* loadWasteTaxonomy and classifyWaste: an override that cannot be used ends
\* the call; an item that is not classified needs no place, nor does a request
\* without one.
Classify ==
    /\ Running("waste") /\ offer.pc = "taxonomy"
    /\ \/ FinishOffer(Warn(NewEnvelope("unavailable"), "SOURCE_UNAVAILABLE", "waste_taxonomy"), {"waste_taxonomy"})
       \/ FinishOffer(NewEnvelope("not_found"), {})
       \/ \E class \in {"ok", "ambiguous"}, located \in BOOLEAN :
             IF located
             THEN /\ offer' = [offer EXCEPT !.pc = "resolve", !.class = class]
                  /\ envelope' = NewEnvelope(class)
                  /\ UNCHANGED call
             ELSE FinishOffer(NewEnvelope(class), {})

ResolveCentre(tool) ==
    /\ Running(tool) /\ offer.pc = "resolve"
    /\ \E outcome \in Resolutions("place") \cup Resolutions("coordinates") :
          IF outcome.found
          THEN /\ offer' = [offer EXCEPT !.pc = "read"]
               /\ call' = Failing(outcome.failed) /\ UNCHANGED envelope
          ELSE FinishOffer(NewEnvelope("not_found"), outcome.failed)

-----------------------------------------------------------------------------
(* From the rows to the answer.                                             *)

\* Mutant: that some occupancies are known hides that others are not.
UnknownOccupancyLive(kept) == kept # {} /\ kept \subseteq {"unknown"}

\* normalizeParkingOptions: availability is missing or incomplete.
UnknownOccupancy(kept) == "unknown" \in kept

ParkingEnvelope(kept, err) ==
    LET e == WarnIf(err, NewEnvelope(IF kept = {} THEN "not_found" ELSE "ok"), "PARTIAL_RESULT", "parking")
        partial == UnknownOccupancy(kept) \/ "undated" \in kept
    IN WarnIf("stale" \in kept, WarnIf(partial, e, "PARTIAL_RESULT", "parking_realtime"),
              "STALE_DATA", "parking_realtime")

\* openingStatusAt: what is closed is left out, and what has no verified hours.
IsOpen(hours) == offer.filter => hours = "open"

FacilitiesEnvelope(rows, err) ==
    WarnIf(offer.filter /\ "unverified" \in rows,
           WarnIf(err, NewEnvelope("ok"), "PARTIAL_RESULT", "facilities"),
           "PARTIAL_RESULT", "facility_opening_hours")

\* Hours are looked at of the facilities that may accept the item.
WasteEnvelope(rows, err) ==
    LET possible == {row \in rows : row[1] # "refuses"}
        e == WarnIf(err, envelope, IF rows = {} THEN "SOURCE_UNAVAILABLE" ELSE "PARTIAL_RESULT",
                    "waste_facilities")
        acceptance == WarnIf(\E row \in possible : row[1] = "unverified", e,
                             "PARTIAL_RESULT", "waste_acceptance")
    IN WarnIf(offer.filter /\ \E row \in possible : row[2] = "unverified", acceptance,
              "PARTIAL_RESULT", "waste_opening_hours")

Supported(rows) == {row[1] : row \in {r \in rows : r[1] \in offer.asked /\ r[2] = "value"}}

\* Warnings, and unavailable when nothing is left.
EnvironmentEnvelope(rows) ==
    LET lost == offer.asked \ Supported(rows)
        missing == {i \in lost : <<i, "missing">> \in rows}
        warned == [NewEnvelope("ok") EXCEPT
                      !.warnings = {<<"SOURCE_UNAVAILABLE", i>> : i \in missing}
                                   \cup {<<"UNSUPPORTED_INDICATOR", i>> : i \in lost \ missing},
                      !.degraded = lost # {},
                      !.status = IF lost # {} THEN "partial" ELSE @]
    IN IF Supported(rows) = {} THEN [warned EXCEPT !.status = "unavailable"] ELSE warned

Unreadable(tool) == Warn(NewEnvelope("unavailable"), "SOURCE_UNAVAILABLE", SourceOf(tool))

Reading(tool) == Running(tool) /\ offer.pc = "read"

\* The read has returned rows, an error, or rows beside an error.
ReturnOffer(tool, rows, err, kept, e) ==
    /\ Handled(e, IF err THEN {SourceOf(tool)} ELSE {})
    /\ offer' = [offer EXCEPT !.pc = "done", !.rows = rows, !.kept = kept]

\* The limit is half of what is asked of the source, so that some are cut.
ParkingOptions ==
    /\ Reading("parking")
    /\ \E rows \in Rows("parking"), err \in BOOLEAN : \E kept \in SUBSET rows :
          /\ rows # {} => kept # {}
          /\ ReturnOffer("parking", rows, err, kept,
                         IF err /\ rows = {} THEN Unreadable("parking") ELSE ParkingEnvelope(kept, err))

NearbyFacilities ==
    /\ Reading("facilities")
    /\ \E rows \in Rows("facilities"), err \in BOOLEAN :
          ReturnOffer("facilities", rows, err, {row \in rows : IsOpen(row)},
                      IF err /\ rows = {} THEN Unreadable("facilities") ELSE FacilitiesEnvelope(rows, err))

WasteDropoff ==
    /\ Reading("waste")
    /\ \E rows \in Rows("waste"), err \in BOOLEAN :
          ReturnOffer("waste", rows, err, {row \in rows : row[1] # "refuses" /\ IsOpen(row[2])},
                      WasteEnvelope(rows, err))

EnvironmentBrief ==
    /\ Reading("environment")
    /\ \/ ReturnOffer("environment", {}, TRUE, {}, Unreadable("environment"))
       \/ \E rows \in Rows("environment") :
             ReturnOffer("environment", rows, FALSE, Supported(rows), EnvironmentEnvelope(rows))

PlaceToolsStep ==
    \/ Classify \/ ParkingOptions \/ NearbyFacilities \/ WasteDropoff \/ EnvironmentBrief
    \/ \E tool \in PlaceToolNames : ResolveCentre(tool)

-----------------------------------------------------------------------------

(***************************************************************************)
(* Property.  An answer that is ok and complete has only what its source    *)
(* vouches for: no occupancy that is unknown, undated or stale, no facility *)
(* whose acceptance is unverified, none left out because its hours are, and *)
(* every indicator that was asked for (tools.md 217, 256, 272 and 291).     *)
(***************************************************************************)
OkIsVouchedFor ==
    call.stage = "answered" /\ envelope.status = "ok" =>
        CASE call.tool = "parking" -> offer.kept \subseteq {"fresh"}
          [] call.tool = "facilities" -> ~(offer.filter /\ "unverified" \in offer.rows)
          [] call.tool = "waste" ->
                \A row \in offer.rows : \/ row[1] = "refuses"
                                        \/ row[1] = "accepts" /\ (offer.filter => row[2] # "unverified")
          [] call.tool = "environment" -> offer.asked = offer.kept
          [] OTHER -> TRUE
=============================================================================
