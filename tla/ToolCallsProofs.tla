--------------------------- MODULE ToolCallsProofs ---------------------------
(***************************************************************************)
(* Theorems about ToolCalls, for any requests, stations, car parks,         *)
(* itineraries, timetables, candidates and limits.                          *)
(***************************************************************************)
EXTENDS ToolCalls, SequenceTheorems, WellFoundedInduction, TLAPS

-----------------------------------------------------------------------------
(* Envelopes.                                                              *)

IsEnvelope(e) ==
    /\ e = [status |-> e.status, warnings |-> e.warnings, degraded |-> e.degraded, error |-> e.error]
    /\ e.degraded \in BOOLEAN

LEMMA NewIsEnvelope ==
  ASSUME NEW s
  PROVE  /\ IsEnvelope(NewEnvelope(s)) /\ NewEnvelope(s).status = s
         /\ NewEnvelope(s).warnings = {} /\ NewEnvelope(s).degraded = FALSE
  BY DEF NewEnvelope, IsEnvelope

LEMMA SameEnvelope ==
  IsEnvelope(envelope) /\ envelope' = envelope => IsEnvelope(envelope')
  BY DEF IsEnvelope

\* A warning is kept, degrades the answer, and makes ok partial.
LEMMA WarnEffect ==
  ASSUME NEW e, IsEnvelope(e), NEW code, NEW source
  PROVE  /\ IsEnvelope(Warn(e, code, source))
         /\ Warn(e, code, source).warnings = e.warnings \cup {<<code, source>>}
         /\ Warn(e, code, source).degraded = TRUE
         /\ Warn(e, code, source).status = IF e.status = "ok" THEN "partial" ELSE e.status
<1>1. PICK s : s = IF e.status = "ok" THEN "partial" ELSE e.status
  OBVIOUS
<1>2. PICK w : w = e.warnings \cup {<<code, source>>}
  OBVIOUS
<1>3. Warn(e, code, source) = [e EXCEPT !.warnings = w, !.degraded = TRUE, !.status = s]
  BY <1>1, <1>2 DEF Warn, IsEnvelope
<1>4. Warn(e, code, source) = [status |-> s, warnings |-> w, degraded |-> TRUE, error |-> e.error]
  BY <1>3 DEF IsEnvelope
<1> QED  BY <1>1, <1>2, <1>4 DEF IsEnvelope

LEMMA WarnIfEffect ==
  ASSUME NEW e, IsEnvelope(e), NEW code, NEW source, NEW cond \in BOOLEAN
  PROVE  /\ IsEnvelope(WarnIf(cond, e, code, source))
         /\ e.warnings \subseteq WarnIf(cond, e, code, source).warnings
         /\ e.degraded = TRUE => WarnIf(cond, e, code, source).degraded = TRUE
         /\ cond => /\ <<code, source>> \in WarnIf(cond, e, code, source).warnings
                    /\ WarnIf(cond, e, code, source).degraded = TRUE
         /\ WarnIf(cond, e, code, source).status \in {e.status, "partial"}
         /\ e.status # "ok" => WarnIf(cond, e, code, source).status = e.status
         /\ WarnIf(cond, e, code, source).status = "ok" => ~cond /\ e.status = "ok"
<1>1. PICK w : w = WarnIf(cond, e, code, source)
  OBVIOUS
<1>2. CASE cond
  <2>1. w = Warn(e, code, source)
    BY <1>1, <1>2 DEF WarnIf
  <2>2. IsEnvelope(w) /\ w.warnings = e.warnings \cup {<<code, source>>} /\ w.degraded = TRUE
    BY <2>1, WarnEffect
  <2>3. w.status = IF e.status = "ok" THEN "partial" ELSE e.status
    BY <2>1, WarnEffect
  <2> QED  BY <1>1, <1>2, <2>2, <2>3
<1>3. CASE ~cond
  <2>1. w = e
    BY <1>1, <1>3 DEF WarnIf
  <2> QED  BY <1>1, <1>3, <2>1
<1> QED  BY <1>2, <1>3

LEMMA WarnAllEffect ==
  ASSUME NEW e, IsEnvelope(e), NEW ws
  PROVE  /\ IsEnvelope(WarnAll(e, ws))
         /\ WarnAll(e, ws).warnings = e.warnings \cup ws
         /\ ws # {} => WarnAll(e, ws).degraded = TRUE
         /\ e.degraded = TRUE => WarnAll(e, ws).degraded = TRUE
         /\ WarnAll(e, ws).status = IF ws # {} /\ e.status = "ok" THEN "partial" ELSE e.status
<1>1. PICK s : s = IF ws # {} /\ e.status = "ok" THEN "partial" ELSE e.status
  OBVIOUS
<1>2. PICK w : w = e.warnings \cup ws
  OBVIOUS
<1>3. PICK d \in BOOLEAN : d <=> (e.degraded \/ ws # {})
  OBVIOUS
<1>4. WarnAll(e, ws) = [e EXCEPT !.warnings = w, !.degraded = d, !.status = s]
  BY <1>1, <1>2, <1>3 DEF WarnAll, IsEnvelope
<1>5. WarnAll(e, ws) = [status |-> s, warnings |-> w, degraded |-> d, error |-> e.error]
  BY <1>4 DEF IsEnvelope
<1> QED  BY <1>1, <1>2, <1>3, <1>5 DEF IsEnvelope

LEMMA StatusEffect ==
  ASSUME NEW e, IsEnvelope(e), NEW s
  PROVE  /\ IsEnvelope([e EXCEPT !.status = s])
         /\ [e EXCEPT !.status = s].status = s
         /\ [e EXCEPT !.status = s].warnings = e.warnings
         /\ [e EXCEPT !.status = s].degraded = e.degraded
  BY DEF IsEnvelope

-----------------------------------------------------------------------------
(* The context of a call.                                                  *)

Stages == {"idle", "running", "handled", "answered"}

\* The call and the envelope are records of their fields; failed and warnings
\* are sets of names, of which nothing else is needed.
ContextOK ==
    /\ call = [stage |-> call.stage, tool |-> call.tool, offline |-> call.offline,
               expired |-> call.expired, failed |-> call.failed]
    /\ call.stage \in Stages /\ call.offline \in BOOLEAN /\ call.expired \in BOOLEAN
    /\ IsEnvelope(envelope)

\* What a step inside a handler may do to the call.
Inside ==
    /\ call.stage = "running" /\ call'.stage \in {"running", "handled"}
    /\ call'.tool = call.tool /\ call'.offline = call.offline /\ call'.expired = call.expired

LEMMA FailingEffect ==
  ASSUME ContextOK, NEW sources, call' = Failing(sources), call.stage = "running", IsEnvelope(envelope')
  PROVE  Inside /\ ContextOK' /\ call'.stage = "running" /\ call'.failed = call.failed \cup sources
  BY DEF ContextOK, Failing, Inside, Stages

LEMMA HandledEffect ==
  ASSUME ContextOK, NEW e, NEW sources, Handled(e, sources), call.stage = "running", IsEnvelope(e)
  PROVE  /\ Inside /\ ContextOK' /\ call'.stage = "handled"
         /\ call'.failed = call.failed \cup sources /\ envelope' = e
<1>1. PICK c : c = Failing(sources)
  OBVIOUS
<1>2. /\ c = [stage |-> c.stage, tool |-> c.tool, offline |-> c.offline,
              expired |-> c.expired, failed |-> c.failed]
      /\ c.failed = call.failed \cup sources /\ c.tool = call.tool
      /\ c.offline = call.offline /\ c.expired = call.expired
  BY <1>1 DEF ContextOK, Failing
<1>3. call' = [c EXCEPT !.stage = "handled"] /\ envelope' = e
  BY <1>1 DEF Handled
<1> QED  BY <1>2, <1>3 DEF ContextOK, Inside, Stages

\* The steps that belong to no handler.
LEMMA CompleteEffect ==
  ASSUME ContextOK, Complete
  PROVE  /\ call.stage = "handled" /\ call'.stage = "answered" /\ ContextOK'
         /\ call'.tool = call.tool /\ call'.offline = call.offline
         /\ call'.failed = call.failed
         /\ envelope.warnings \subseteq envelope'.warnings
         /\ envelope.degraded = TRUE => envelope'.degraded = TRUE
         /\ envelope'.status \in {envelope.status, "partial"}
         /\ envelope.status # "ok" => envelope'.status = envelope.status
<1>1. /\ call.stage = "handled" /\ call' = [call EXCEPT !.stage = "answered"]
      /\ envelope' = Completed(envelope)
  BY DEF Complete
<1>2. PICK d : d = AttachErrorDetail(envelope)
  OBVIOUS
<1>3. /\ IsEnvelope(d) /\ d.status = envelope.status
      /\ d.warnings = envelope.warnings /\ d.degraded = envelope.degraded
  BY <1>2 DEF AttachErrorDetail, ContextOK, IsEnvelope
<1>4. PICK t : t = WarnIf(call.expired, d, "TOOL_TIMEOUT", "tool_execution")
  OBVIOUS
<1>5. /\ IsEnvelope(t) /\ d.warnings \subseteq t.warnings
      /\ d.degraded = TRUE => t.degraded = TRUE
      /\ t.status \in {d.status, "partial"} /\ (d.status # "ok" => t.status = d.status)
  BY <1>3, <1>4, WarnIfEffect DEF ContextOK
<1>6. PICK o : o = WarnIf(call.offline, t, "OFFLINE_FIXTURE", "offline_fixtures")
  OBVIOUS
<1>7. /\ IsEnvelope(o) /\ t.warnings \subseteq o.warnings
      /\ t.degraded = TRUE => o.degraded = TRUE
      /\ o.status \in {t.status, "partial"} /\ (t.status # "ok" => o.status = t.status)
  BY <1>5, <1>6, WarnIfEffect DEF ContextOK
<1>8. envelope' = d \/ envelope' = o
  BY <1>1, <1>2, <1>4, <1>6 DEF Completed
<1>9. ContextOK' /\ call'.stage = "answered" /\ call'.tool = call.tool
      /\ call'.offline = call.offline /\ call'.failed = call.failed
  BY <1>1, <1>3, <1>7, <1>8 DEF ContextOK, Stages
<1> QED  BY <1>1, <1>3, <1>5, <1>7, <1>8, <1>9

LEMMA ExpireEffect ==
  ASSUME ContextOK, Expire
  PROVE  /\ call.stage \in {"running", "handled"} /\ call'.stage = call.stage /\ ContextOK'
         /\ call'.tool = call.tool /\ call'.offline = call.offline
         /\ call'.failed = call.failed /\ envelope' = envelope
  BY DEF ContextOK, Expire, Stages, IsEnvelope

LEMMA EnterEffect ==
  ASSUME NEW tool, NEW offline \in BOOLEAN, Enter(tool, offline)
  PROVE  /\ call.stage = "idle" /\ call'.stage = "running" /\ ContextOK'
         /\ call'.tool = tool /\ call'.offline = offline
         /\ call'.failed = {} /\ envelope' = NewEnvelope("ok")
  BY DEF ContextOK, Enter, Stages, IsEnvelope, NoCall, NewEnvelope

LEMMA RefuseEffect ==
  ASSUME NEW tool, NEW offline \in BOOLEAN, Refuse(tool, offline)
  PROVE  /\ call.stage = "idle" /\ call'.stage = "handled" /\ ContextOK'
         /\ call'.tool = tool /\ call'.failed = {}
         /\ envelope'.status = "invalid_request"
<1>0. PICK n : n = NewEnvelope("invalid_request")
  OBVIOUS
<1>1. PICK w : w = Warn(n, "INVALID_REQUEST", "request_validation")
  OBVIOUS
<1>2. IsEnvelope(w) /\ w.status = "invalid_request"
  <2>1. IsEnvelope(n) /\ n.status = "invalid_request"
    BY <1>0, NewIsEnvelope
  <2> QED  BY <1>1, <2>1, WarnEffect
<1>3. envelope' = [w EXCEPT !.error = TRUE]
  BY <1>0, <1>1 DEF Refuse, InvalidRequest
<1>4. IsEnvelope(envelope') /\ envelope'.status = "invalid_request"
  BY <1>2, <1>3 DEF IsEnvelope
<1>5. /\ call' = [stage |-> "handled", tool |-> tool, offline |-> offline,
                  expired |-> FALSE, failed |-> {}]
      /\ call.stage = "idle"
  BY DEF Refuse, NoCall
<1> QED  BY <1>4, <1>5 DEF ContextOK, Stages

LEMMA ReplyEffect ==
  ASSUME Reply
  PROVE  /\ call.stage = "answered" /\ call'.stage = "idle" /\ ContextOK'
         /\ call'.failed = {} /\ call'.tool = "none"
  BY DEF ContextOK, Reply, Stages, IsEnvelope, NoCall, NewEnvelope

-----------------------------------------------------------------------------
(* Every step of a handler belongs to a call of its tool that runs, and     *)
(* keeps the call's tool and what it was asked.                             *)

LEMMA HandlerSteps ==
  ASSUME ContextOK, call.stage = "running", IsEnvelope(envelope'),
         \/ call' = call
         \/ \E sources : call' = Failing(sources)
         \/ \E e, sources : Handled(e, sources)
  PROVE  Inside /\ ContextOK'
<1>1. CASE call' = call
  BY <1>1 DEF ContextOK, Inside, Stages
<1>2. CASE \E sources : call' = Failing(sources)
  BY <1>2, FailingEffect
<1>3. CASE \E e, sources : Handled(e, sources)
  <2>1. PICK e, sources : Handled(e, sources)
    BY <1>3
  <2>2. IsEnvelope(e)
    BY <2>1 DEF Handled
  <2> QED  BY <2>1, <2>2, HandledEffect
<1> QED  BY <1>1, <1>2, <1>3

LEMMA MobilityContext ==
  ASSUME ContextOK, MobilityStep
  PROVE  Inside /\ ContextOK' /\ call.tool = "mobility"
<1> USE DEF Running
<1>0. IsEnvelope(envelope)
  BY DEF ContextOK
<1>1. CASE ResolveAreas
  <2>0. PICK points : envelope' = WarnIf(points < mobility.areas, envelope, "PLACE_NOT_FOUND", "areas")
    BY <1>1 DEF ResolveAreas
  <2>1. PICK unplaced \in BOOLEAN : envelope' = WarnIf(unplaced, envelope, "PLACE_NOT_FOUND", "areas")
    BY <2>0 DEF WarnIf
  <2>2. IsEnvelope(envelope')
    BY <1>0, <2>1, WarnIfEffect
  <2>3. /\ \E sources : call' = Failing(sources)
        /\ call.stage = "running" /\ call.tool = "mobility"
    BY <1>1 DEF ResolveAreas
  <2> QED  BY <2>2, <2>3, HandlerSteps
<1>2. CASE ReturnTraffic
  <2>1. (\E sources : call' = Failing(sources)) /\ envelope' = envelope
        /\ call.stage = "running" /\ call.tool = "mobility"
    BY <1>2 DEF ReturnTraffic
  <2> QED  BY <1>0, <2>1, HandlerSteps, SameEnvelope
<1>3. CASE AssembleMobility
  <2>1. PICK ws : Handled(WarnAll(envelope, ws), {})
    BY <1>3 DEF AssembleMobility
  <2>2. PICK e : e = WarnAll(envelope, ws)
    OBVIOUS
  <2>3. IsEnvelope(e) /\ Handled(e, {})
    BY <1>0, <2>1, <2>2, WarnAllEffect
  <2>4. call.stage = "running" /\ call.tool = "mobility" /\ envelope' = e
    BY <1>3, <2>3 DEF AssembleMobility, Handled
  <2> QED  BY <2>3, <2>4, HandlerSteps
<1>4. CASE \E b \in Branches : AcquireBranch(b) \/ ReturnBranch(b)
  <2>1. PICK b \in Branches : AcquireBranch(b) \/ ReturnBranch(b)
    BY <1>4
  <2>2. /\ call' = call \/ \E sources : call' = Failing(sources)
        /\ envelope' = envelope /\ call.stage = "running" /\ call.tool = "mobility"
    BY <2>1 DEF AcquireBranch, ReturnBranch, context
  <2> QED  BY <1>0, <2>2, HandlerSteps, SameEnvelope
<1> QED  BY <1>1, <1>2, <1>3, <1>4 DEF MobilityStep

LEMMA PlacesContext ==
  ASSUME ContextOK, PlacesStep
  PROVE  Inside /\ ContextOK' /\ call.tool = "places"
<1> USE DEF Running
<1>0. IsEnvelope(envelope)
  BY DEF ContextOK
<1>1. ASSUME NEW pc, NEW next, NEW source, SearchLocal(pc, next, source)
      PROVE  Inside /\ ContextOK' /\ call.tool = "places"
  <2>1. /\ call' = call \/ \E sources : call' = Failing(sources)
        /\ envelope' = envelope \/ envelope' = Warn(envelope, "SOURCE_UNAVAILABLE", source)
        /\ call.stage = "running" /\ call.tool = "places"
    BY <1>1 DEF SearchLocal, context
  <2>2. IsEnvelope(envelope')
    <3>1. PICK w : w = Warn(envelope, "SOURCE_UNAVAILABLE", source)
      OBVIOUS
    <3>2. IsEnvelope(w)
      BY <1>0, <3>1, WarnEffect
    <3> QED  BY <1>0, <2>1, <3>1, <3>2, SameEnvelope
  <2> QED  BY <2>1, <2>2, HandlerSteps
<1>2. CASE SearchRemote
  <2>1. /\ call' = call \/ \E sources : call' = Failing(sources)
        /\ envelope' = envelope \/ envelope' = Warn(envelope, "SOURCE_UNAVAILABLE", "photon")
        /\ call.stage = "running" /\ call.tool = "places"
    BY <1>2 DEF SearchRemote, context
  <2>2. IsEnvelope(envelope')
    <3>1. PICK w : w = Warn(envelope, "SOURCE_UNAVAILABLE", "photon")
      OBVIOUS
    <3>2. IsEnvelope(w)
      BY <1>0, <3>1, WarnEffect
    <3> QED  BY <1>0, <2>1, <3>1, <3>2, SameEnvelope
  <2> QED  BY <2>1, <2>2, HandlerSteps
<1>3. CASE SaveResolvedPlace
  <2>1. PICK fails \in BOOLEAN :
          /\ envelope' = WarnIf(fails, envelope, "SOURCE_UNAVAILABLE", "places")
          /\ \E sources : call' = Failing(sources)
          /\ call.stage = "running" /\ call.tool = "places"
    BY <1>3 DEF SaveResolvedPlace, StoreFails
  <2>2. IsEnvelope(envelope')
    BY <1>0, <2>1, WarnIfEffect
  <2> QED  BY <2>1, <2>2, HandlerSteps
<1>4. CASE ReturnPlaces
  <2>1. PICK ambiguous \in BOOLEAN, near \in Outcomes, kept \in SUBSET places.candidates :
          LET several == Cardinality(kept) > 1 /\ ambiguous
              status == IF kept = {} THEN "not_found" ELSE IF several THEN "ambiguous" ELSE "ok"
              e == [envelope EXCEPT !.status = status]
          IN Handled(WarnIf(~near.found, WarnIf(several, e, "AMBIGUOUS_PLACE", "places"),
                            "PLACE_NOT_FOUND", "places"), near.failed)
    BY <1>4 DEF ReturnPlaces
  <2>2. PICK several \in BOOLEAN : several <=> Cardinality(kept) > 1 /\ ambiguous
    OBVIOUS
  <2>3. PICK status : status = IF kept = {} THEN "not_found" ELSE IF several THEN "ambiguous" ELSE "ok"
    OBVIOUS
  <2>4. PICK lost \in BOOLEAN : lost <=> ~near.found
    OBVIOUS
  <2>5. PICK e : e = [envelope EXCEPT !.status = status]
    OBVIOUS
  <2>6. PICK w : w = WarnIf(several, e, "AMBIGUOUS_PLACE", "places")
    OBVIOUS
  <2>7. PICK v : v = WarnIf(lost, w, "PLACE_NOT_FOUND", "places")
    OBVIOUS
  <2>8. IsEnvelope(e)
    BY <1>0, <2>5, StatusEffect
  <2>9. IsEnvelope(w)
    BY <2>6, <2>8, WarnIfEffect
  <2>10. IsEnvelope(v)
    BY <2>7, <2>9, WarnIfEffect
  <2>11. Handled(v, near.failed)
    BY <2>1, <2>2, <2>3, <2>4, <2>5, <2>6, <2>7 DEF WarnIf
  <2>12. call.stage = "running" /\ call.tool = "places" /\ envelope' = v
    BY <1>4, <2>11 DEF ReturnPlaces, Handled
  <2> QED  BY <2>10, <2>11, <2>12, HandlerSteps
<1> QED  BY <1>1, <1>2, <1>3, <1>4 DEF PlacesStep

LEMMA TripContext ==
  ASSUME ContextOK, TripStep
  PROVE  Inside /\ ContextOK' /\ call.tool = "trip"
<1> USE DEF Running
<1>0. IsEnvelope(envelope)
  BY DEF ContextOK
<1>1. ASSUME NEW ref, ResolveEnd(ref) PROVE Inside /\ ContextOK' /\ call.tool = "trip"
  <2>1. PICK n : n = NewEnvelope("not_found")
    OBVIOUS
  <2>2. IsEnvelope(n)
    BY <2>1, NewIsEnvelope
  <2>3. /\ call.stage = "running" /\ call.tool = "trip"
        /\ \E sources : Handled(n, sources) \/ (call' = Failing(sources) /\ envelope' = envelope)
    BY <1>1, <2>1 DEF ResolveEnd
  <2>4. IsEnvelope(envelope')
    BY <1>0, <2>2, <2>3, SameEnvelope DEF Handled
  <2> QED  BY <2>3, <2>4, HandlerSteps
<1>2. CASE ReadNear
  <2>1. /\ call' = call \/ \E sources : call' = Failing(sources)
        /\ envelope' = envelope /\ call.stage = "running" /\ call.tool = "trip"
    BY <1>2 DEF ReadNear
  <2> QED  BY <1>0, <2>1, HandlerSteps, SameEnvelope
<1>3. CASE ReadFar
  <2>1. PICK w : w = Warn(envelope, "SOURCE_UNAVAILABLE", "velov_realtime")
    OBVIOUS
  <2>2. /\ call' = call \/ \E sources : call' = Failing(sources)
        /\ call.stage = "running" /\ call.tool = "trip"
        /\ \/ envelope' = w
           \/ \E none \in BOOLEAN : envelope' = WarnIf(none, envelope, "PARTIAL_RESULT", "velov_realtime")
    BY <1>3, <2>1 DEF ReadFar
  <2>3. IsEnvelope(w)
    BY <1>0, <2>1, WarnEffect
  <2>4. IsEnvelope(envelope')
    BY <1>0, <2>2, <2>3, WarnIfEffect
  <2> QED  BY <2>2, <2>4, HandlerSteps
<1>4. CASE ReadCarParks
  <2>1. /\ \E sources : call' = Failing(sources)
        /\ call.stage = "running" /\ call.tool = "trip"
        /\ \E err \in BOOLEAN : \E code : envelope' = WarnIf(err, envelope, code, "parking")
    BY <1>4 DEF ReadCarParks
  <2>2. IsEnvelope(envelope')
    BY <1>0, <2>1, WarnIfEffect
  <2> QED  BY <2>1, <2>2, HandlerSteps
<1>5. CASE Connect
  <2>1. PICK unknown \in BOOLEAN : unknown <=> ~NextPark.known
    OBVIOUS
  <2>2. PICK w : w = WarnIf(unknown, envelope, "PARTIAL_RESULT", "parking_availability")
    OBVIOUS
  <2>3. IsEnvelope(w)
    BY <1>0, <2>2, WarnIfEffect
  <2>4. /\ \E sources : call' = Failing(sources)
        /\ call.stage = "running" /\ call.tool = "trip"
        /\ \E none \in BOOLEAN : envelope' = WarnIf(none, w, "ROUTING_UNAVAILABLE", "park_and_ride")
    BY <1>5, <2>1, <2>2 DEF Connect, WarnIf
  <2>5. IsEnvelope(envelope')
    BY <2>3, <2>4, WarnIfEffect
  <2> QED  BY <2>4, <2>5, HandlerSteps
<1>6. CASE PlanTransit
  <2>1. /\ \E sources : call' = Failing(sources)
        /\ call.stage = "running" /\ call.tool = "trip"
        /\ \E none \in BOOLEAN : envelope' = WarnIf(none, envelope, "ROUTING_UNAVAILABLE", "journey_planner")
    BY <1>6 DEF PlanTransit
  <2>2. IsEnvelope(envelope')
    BY <1>0, <2>1, WarnIfEffect
  <2> QED  BY <2>1, <2>2, HandlerSteps
<1>7. CASE Recommend
  <2>1. PICK n : n = [envelope EXCEPT !.status = NothingStatus]
    OBVIOUS
  <2>2. IsEnvelope(n)
    BY <1>0, <2>1, StatusEffect
  <2>3. /\ call.stage = "running" /\ call.tool = "trip"
        /\ Handled(n, {}) \/ Handled(envelope, {})
    BY <1>7, <2>1 DEF Recommend
  <2>4. IsEnvelope(envelope')
    BY <1>0, <2>2, <2>3, SameEnvelope DEF Handled
  <2> QED  BY <2>3, <2>4, HandlerSteps
<1> QED  BY <1>1, <1>2, <1>3, <1>4, <1>5, <1>6, <1>7 DEF TripStep

LEMMA EmptyStatusEffect ==
  ASSUME NEW e, IsEnvelope(e)
  PROVE  /\ IsEnvelope(EmptyStatus(e)) /\ EmptyStatus(e).warnings = e.warnings
         /\ EmptyStatus(e).degraded = TRUE
         /\ EmptyStatus(e).status = IF e.warnings # {} THEN "unavailable" ELSE "not_found"
<1>1. PICK s : s = IF e.warnings # {} THEN "unavailable" ELSE "not_found"
  OBVIOUS
<1>2. EmptyStatus(e) = [e EXCEPT !.status = s, !.degraded = TRUE]
  BY <1>1 DEF EmptyStatus
<1>3. EmptyStatus(e) = [status |-> s, warnings |-> e.warnings, degraded |-> TRUE, error |-> e.error]
  BY <1>2 DEF IsEnvelope
<1> QED  BY <1>1, <1>3 DEF IsEnvelope

LEMMA UnavailableEffect ==
  ASSUME NEW e, IsEnvelope(e)
  PROVE  /\ IsEnvelope(Unavailable(e)) /\ Unavailable(e).status = "unavailable"
         /\ Unavailable(e).warnings = e.warnings /\ Unavailable(e).degraded = e.degraded
<1>1. PICK u : u = [e EXCEPT !.status = "unavailable"]
  OBVIOUS
<1>2. u = [status |-> "unavailable", warnings |-> e.warnings, degraded |-> e.degraded, error |-> e.error]
  BY <1>1 DEF IsEnvelope
<1>3. Unavailable(e) = u
  BY <1>1 DEF Unavailable
<1> QED  BY <1>2, <1>3 DEF IsEnvelope

LEMMA DeparturesContext ==
  ASSUME ContextOK, DeparturesStep
  PROVE  Inside /\ ContextOK' /\ call.tool = "departures"
<1> USE DEF Running
<1>0. IsEnvelope(envelope)
  BY DEF ContextOK
<1> DEFINE Goal == Inside /\ ContextOK' /\ call.tool = "departures"
<1>1. ASSUME NEW ref, FindStop(ref) PROVE Goal
  <2>1. PICK n : n = NewEnvelope("not_found")
    OBVIOUS
  <2>2. IsEnvelope(n)
    BY <2>1, NewIsEnvelope
  <2>3. /\ call.stage = "running" /\ call.tool = "departures"
        /\ \E sources :
              \/ Handled(n, sources)
              \/ /\ call' = Failing(sources)
                 /\ \E several \in BOOLEAN :
                       envelope' = WarnIf(several, envelope, "AMBIGUOUS_PLACE", "places")
    BY <1>1, <2>1 DEF FindStop, Conclude
  <2>4. IsEnvelope(envelope')
    BY <1>0, <2>2, <2>3, SameEnvelope, WarnIfEffect DEF Handled
  <2> QED  BY <2>3, <2>4, HandlerSteps
<1>2. CASE FindNear
  <2>1. PICK w : w = Warn(envelope, "SOURCE_UNAVAILABLE", "entities")
    OBVIOUS
  <2>2. PICK u : u = Unavailable(w)
    OBVIOUS
  <2>3. IsEnvelope(w)
    BY <1>0, <2>1, WarnEffect
  <2>4. IsEnvelope(u)
    BY <2>2, <2>3, UnavailableEffect
  <2>5. /\ call.stage = "running" /\ call.tool = "departures"
        /\ \/ Handled(u, {"entities"})
           \/ /\ call' = call
              /\ \E stops : envelope' = WarnIf(stops > 1, envelope, "AMBIGUOUS_PLACE", "places")
    BY <1>2, <2>1, <2>2 DEF FindNear, Conclude
  <2>6. CASE Handled(u, {"entities"})
    BY <2>4, <2>5, <2>6, HandlerSteps DEF Handled
  <2>7. ASSUME NEW stops, call' = call,
               envelope' = WarnIf(stops > 1, envelope, "AMBIGUOUS_PLACE", "places")
        PROVE  Goal
    <3>1. PICK several \in BOOLEAN : envelope' = WarnIf(several, envelope, "AMBIGUOUS_PLACE", "places")
      BY <2>7 DEF WarnIf
    <3>2. IsEnvelope(envelope')
      BY <1>0, <3>1, WarnIfEffect
    <3> QED  BY <2>5, <2>7, <3>2, HandlerSteps
  <2> QED  BY <2>5, <2>6, <2>7
<1>3. CASE CheckIndex
  <2>1. PICK w : w = Warn(envelope, "SOURCE_UNAVAILABLE", "gtfs_tcl")
    OBVIOUS
  <2>2. PICK u : u = Unavailable(w)
    OBVIOUS
  <2>3. PICK n : n = [envelope EXCEPT !.status = "not_found"]
    OBVIOUS
  <2>4. IsEnvelope(w)
    BY <1>0, <2>1, WarnEffect
  <2>5. IsEnvelope(u) /\ IsEnvelope(n)
    BY <1>0, <2>2, <2>3, <2>4, UnavailableEffect, StatusEffect
  <2>6. /\ call.stage = "running" /\ call.tool = "departures"
        /\ (\E sources : Handled(u, sources)) \/ Handled(n, {})
    BY <1>3, <2>1, <2>2, <2>3 DEF CheckIndex, Conclude
  <2>7. IsEnvelope(envelope')
    BY <2>5, <2>6 DEF Handled
  <2> QED  BY <2>6, <2>7, HandlerSteps
<1>4. CASE ReadLive
  <2>1. PICK rows \in SUBSET {"elsewhen", "fresh", "stale", "undated"}, err \in BOOLEAN :
          LET live == rows \ {"elsewhen"}
              code == IF rows = {} THEN "SOURCE_UNAVAILABLE" ELSE "PARTIAL_RESULT"
              read == WarnIf(err, envelope, code, "tcl_departures")
              dated == WarnIf("undated" \in live, read, "PARTIAL_RESULT", "tcl_departures")
              sources == IF err THEN {"tcl_departures"} ELSE {}
          IN IF live = {}
             THEN GoTo("times") /\ envelope' = read /\ call' = Failing(sources)
             ELSE /\ departures' = [departures EXCEPT !.pc = "done", !.live = live]
                  /\ Handled(WarnIf("stale" \in live, dated, "STALE_DATA", "tcl_departures"), sources)
    BY <1>4 DEF ReadLive
  <2>2. PICK code : code = IF rows = {} THEN "SOURCE_UNAVAILABLE" ELSE "PARTIAL_RESULT"
    OBVIOUS
  <2>3. PICK undated \in BOOLEAN, stale \in BOOLEAN :
          /\ undated <=> "undated" \in rows \ {"elsewhen"}
          /\ stale <=> "stale" \in rows \ {"elsewhen"}
    OBVIOUS
  <2>4. PICK read : read = WarnIf(err, envelope, code, "tcl_departures")
    OBVIOUS
  <2>5. PICK dated : dated = WarnIf(undated, read, "PARTIAL_RESULT", "tcl_departures")
    OBVIOUS
  <2>6. PICK w : w = WarnIf(stale, dated, "STALE_DATA", "tcl_departures")
    OBVIOUS
  <2>7. IsEnvelope(read)
    BY <1>0, <2>4, WarnIfEffect
  <2>8. IsEnvelope(dated)
    BY <2>5, <2>7, WarnIfEffect
  <2>9. IsEnvelope(w)
    BY <2>6, <2>8, WarnIfEffect
  <2>10. \E sources : (envelope' = read /\ call' = Failing(sources)) \/ Handled(w, sources)
    BY <2>1, <2>2, <2>3, <2>4, <2>5, <2>6 DEF WarnIf
  <2>11. call.stage = "running" /\ call.tool = "departures"
    BY <1>4 DEF ReadLive
  <2>12. IsEnvelope(envelope')
    BY <2>7, <2>9, <2>10 DEF Handled
  <2> QED  BY <2>10, <2>11, <2>12, HandlerSteps
<1>5. ASSUME NEW pc, NEW next, NEW table, ReadSchedule(pc, next, table) \/ ReadTimes PROVE Goal
  <2>1. PICK w : w = Warn(envelope, "SOURCE_UNAVAILABLE", "gtfs")
    OBVIOUS
  <2>2. PICK u : u = EmptyStatus(w)
    OBVIOUS
  <2>3. IsEnvelope(w)
    BY <1>0, <2>1, WarnEffect
  <2>4. IsEnvelope(u)
    BY <2>2, <2>3, EmptyStatusEffect
  <2>5. /\ call.stage = "running" /\ call.tool = "departures"
        /\ Handled(u, {"gtfs"}) \/ (call' = call /\ envelope' = envelope)
    BY <1>5, <2>1, <2>2 DEF ReadSchedule, ReadTimes, Conclude, context
  <2>6. IsEnvelope(envelope')
    BY <1>0, <2>4, <2>5, SameEnvelope DEF Handled
  <2> QED  BY <2>5, <2>6, HandlerSteps
<1>6. CASE Schedule
  <2>1. PICK u, w : u = EmptyStatus(envelope) /\ w = Warn(envelope, "STALE_DATA", "gtfs_tcl")
    OBVIOUS
  <2>2. IsEnvelope(u) /\ IsEnvelope(w)
    BY <1>0, <2>1, EmptyStatusEffect, WarnEffect
  <2>3. /\ call.stage = "running" /\ call.tool = "departures"
        /\ Handled(u, {}) \/ Handled(w, {})
    BY <1>6, <2>1 DEF Schedule
  <2>4. IsEnvelope(envelope')
    BY <2>2, <2>3 DEF Handled
  <2> QED  BY <2>3, <2>4, HandlerSteps
<1>7. CASE \E ref \in {"coordinates", "query"} : FindStop(ref)
  BY <1>1, <1>7
<1>8. CASE ReadTimes
  BY <1>5, <1>8
<1>9. CASE ReadSchedule("calendar", "exceptions", "calendar")
  BY <1>5, <1>9
<1>10. CASE ReadSchedule("exceptions", "schedule", "exceptions")
  BY <1>5, <1>10
<1> HIDE DEF Goal
<1>11. Goal
  BY <1>2, <1>3, <1>4, <1>6, <1>7, <1>8, <1>9, <1>10 DEF DeparturesStep, Goal
<1> QED  BY <1>11 DEF Goal

LEMMA AccessContext ==
  ASSUME ContextOK, AccessStep
  PROVE  Inside /\ ContextOK' /\ call.tool = "access"
<1> USE DEF Running
<1>0. IsEnvelope(envelope)
  BY DEF ContextOK
<1>1. CASE ReadIncidents
  <2>1. /\ call.stage = "running" /\ call.tool = "access"
        /\ \E sources : call' = Failing(sources)
        /\ \E err \in BOOLEAN :
              envelope' = WarnIf(err, envelope, "SOURCE_UNAVAILABLE", "accessibility_incidents")
    BY <1>1 DEF ReadIncidents
  <2>2. IsEnvelope(envelope')
    BY <1>0, <2>1, WarnIfEffect
  <2> QED  BY <2>1, <2>2, HandlerSteps
<1>2. CASE ResolveStop
  <2>1. PICK w : w = Warn(envelope, "PLACE_NOT_FOUND", "place")
    OBVIOUS
  <2>2. IsEnvelope(w)
    BY <1>0, <2>1, WarnEffect
  <2>3. /\ call.stage = "running" /\ call.tool = "access"
        /\ \E sources : call' = Failing(sources)
        /\ envelope' \in {envelope, w}
    BY <1>2, <2>1 DEF ResolveStop
  <2>4. IsEnvelope(envelope')
    BY <1>0, <2>2, <2>3, SameEnvelope
  <2> QED  BY <2>3, <2>4, HandlerSteps
<1>3. CASE CheckStop
  <2>1. PICK w : w = Warn(envelope, "SOURCE_UNAVAILABLE", "accessibility_check")
    OBVIOUS
  <2>2. IsEnvelope(w)
    BY <1>0, <2>1, WarnEffect
  <2>3. /\ call.stage = "running" /\ call.tool = "access"
        /\ call' = call \/ \E sources : call' = Failing(sources)
        /\ envelope' \in {envelope, w}
    BY <1>3, <2>1 DEF CheckStop, context
  <2>4. IsEnvelope(envelope')
    BY <1>0, <2>2, <2>3, SameEnvelope
  <2> QED  BY <2>3, <2>4, HandlerSteps
<1>4. CASE ReadBoarding
  <2>1. call.stage = "running" /\ call.tool = "access" /\ call' = call /\ envelope' = envelope
    BY <1>4 DEF ReadBoarding, context
  <2> QED  BY <1>0, <2>1, HandlerSteps, SameEnvelope
<1>5. CASE ReturnAccess
  <2>1. PICK n : n = [envelope EXCEPT !.status = "partial", !.degraded = TRUE]
    OBVIOUS
  <2>2. n = [status |-> "partial", warnings |-> envelope.warnings, degraded |-> TRUE, error |-> envelope.error]
    BY <1>0, <2>1 DEF IsEnvelope
  <2>3. /\ call.stage = "running" /\ call.tool = "access"
        /\ Handled(n, {}) \/ Handled(envelope, {})
    BY <1>5, <2>1 DEF ReturnAccess
  <2>4. IsEnvelope(n)
    BY <2>2 DEF IsEnvelope
  <2>5. IsEnvelope(envelope')
    BY <1>0, <2>3, <2>4, SameEnvelope DEF Handled
  <2> QED  BY <2>3, <2>5, HandlerSteps
<1> QED  BY <1>1, <1>2, <1>3, <1>4, <1>5 DEF AccessStep

\* What an offer's handler returns is an envelope, whatever was read.
LEMMA ParkingEnvelopeEffect ==
  ASSUME NEW kept, NEW err \in BOOLEAN, NEW p, p = ParkingEnvelope(kept, err)
  PROVE  /\ IsEnvelope(p)
         /\ p.status = "ok" => kept \cap {"unknown", "undated", "stale"} = {} /\ ~err
         /\ err => /\ <<"PARTIAL_RESULT", "parking">> \in p.warnings /\ p.degraded = TRUE
                   /\ kept # {} => p.status # "not_found"
<1>1. PICK s : s = IF kept = {} THEN "not_found" ELSE "ok"
  OBVIOUS
<1>2. PICK n : n = NewEnvelope(s)
  OBVIOUS
<1>3. PICK e : e = WarnIf(err, n, "PARTIAL_RESULT", "parking")
  OBVIOUS
<1>4. PICK partial \in BOOLEAN, stale \in BOOLEAN :
        /\ partial <=> "unknown" \in kept \/ "undated" \in kept
        /\ stale <=> "stale" \in kept
  OBVIOUS
<1>5. PICK w : w = WarnIf(partial, e, "PARTIAL_RESULT", "parking_realtime")
  OBVIOUS
<1>6. p = WarnIf(stale, w, "STALE_DATA", "parking_realtime")
  BY <1>1, <1>2, <1>3, <1>4, <1>5 DEF ParkingEnvelope, UnknownOccupancy, WarnIf
<1>7. IsEnvelope(n) /\ n.status = s
  BY <1>2, NewIsEnvelope
<1>8. /\ IsEnvelope(e) /\ e.status \in {s, "partial"}
      /\ e.status = "ok" => ~err
      /\ err => <<"PARTIAL_RESULT", "parking">> \in e.warnings /\ e.degraded = TRUE
  BY <1>3, <1>7, WarnIfEffect
<1>9. /\ IsEnvelope(w) /\ w.status \in {e.status, "partial"}
      /\ w.status = "ok" => ~partial /\ e.status = "ok"
      /\ e.warnings \subseteq w.warnings /\ (e.degraded = TRUE => w.degraded = TRUE)
  BY <1>4, <1>5, <1>8, WarnIfEffect
<1>10. /\ IsEnvelope(p) /\ p.status \in {w.status, "partial"}
       /\ p.status = "ok" => ~stale /\ w.status = "ok"
       /\ w.warnings \subseteq p.warnings /\ (w.degraded = TRUE => p.degraded = TRUE)
  <2>1. IsEnvelope(w)
    BY <1>9
  <2>2. PICK q : q = WarnIf(stale, w, "STALE_DATA", "parking_realtime")
    OBVIOUS
  <2>3. /\ IsEnvelope(q) /\ q.status \in {w.status, "partial"}
        /\ q.status = "ok" => ~stale /\ w.status = "ok"
        /\ w.warnings \subseteq q.warnings /\ (w.degraded = TRUE => q.degraded = TRUE)
    BY <1>4, <2>1, <2>2, WarnIfEffect
  <2>4. p = q
    BY <1>6, <2>2
  <2> QED  BY <2>3, <2>4
<1> QED  BY <1>1, <1>4, <1>8, <1>9, <1>10

LEMMA FacilitiesEnvelopeEffect ==
  ASSUME NEW rows, NEW err \in BOOLEAN, NEW p, p = FacilitiesEnvelope(rows, err)
  PROVE  /\ IsEnvelope(p)
         /\ p.status = "ok" => ~(offer.filter /\ "unverified" \in rows) /\ ~err
         /\ err => <<"PARTIAL_RESULT", "facilities">> \in p.warnings /\ p.degraded = TRUE
         /\ p.status \in {"ok", "partial"}
<1>1. PICK n : n = NewEnvelope("ok")
  OBVIOUS
<1>2. PICK e : e = WarnIf(err, n, "PARTIAL_RESULT", "facilities")
  OBVIOUS
<1>3. PICK hidden \in BOOLEAN : hidden <=> offer.filter /\ "unverified" \in rows
  OBVIOUS
<1>4. p = WarnIf(hidden, e, "PARTIAL_RESULT", "facility_opening_hours")
  BY <1>1, <1>2, <1>3 DEF FacilitiesEnvelope, WarnIf
<1>5. IsEnvelope(n) /\ n.status = "ok"
  BY <1>1, NewIsEnvelope
<1>6. /\ IsEnvelope(e) /\ e.status \in {"ok", "partial"}
      /\ e.status = "ok" => ~err
      /\ err => <<"PARTIAL_RESULT", "facilities">> \in e.warnings /\ e.degraded = TRUE
  BY <1>2, <1>5, WarnIfEffect
<1>7. /\ IsEnvelope(p) /\ p.status \in {e.status, "partial"}
      /\ p.status = "ok" => ~hidden /\ e.status = "ok"
      /\ e.warnings \subseteq p.warnings /\ (e.degraded = TRUE => p.degraded = TRUE)
  <2>1. IsEnvelope(e)
    BY <1>6
  <2>2. PICK q : q = WarnIf(hidden, e, "PARTIAL_RESULT", "facility_opening_hours")
    OBVIOUS
  <2>3. /\ IsEnvelope(q) /\ q.status \in {e.status, "partial"}
        /\ q.status = "ok" => ~hidden /\ e.status = "ok"
        /\ e.warnings \subseteq q.warnings /\ (e.degraded = TRUE => q.degraded = TRUE)
    BY <1>3, <2>1, <2>2, WarnIfEffect
  <2>4. p = q
    BY <1>4, <2>2
  <2> QED  BY <2>3, <2>4
<1> QED  BY <1>3, <1>6, <1>7

LEMMA WasteEnvelopeEffect ==
  ASSUME IsEnvelope(envelope), NEW rows, NEW err \in BOOLEAN, NEW p, p = WasteEnvelope(rows, err)
  PROVE  /\ IsEnvelope(p)
         /\ p.status = "ok" =>
              /\ ~err
              /\ \A row \in rows : row[1] # "refuses" =>
                    row[1] # "unverified" /\ (offer.filter => row[2] # "unverified")
         /\ err => p.degraded = TRUE /\ \E w \in p.warnings : w[2] = "waste_facilities"
         /\ p.status \in {envelope.status, "partial"}
<1>1. PICK code : code = IF rows = {} THEN "SOURCE_UNAVAILABLE" ELSE "PARTIAL_RESULT"
  OBVIOUS
<1>2. PICK e : e = WarnIf(err, envelope, code, "waste_facilities")
  OBVIOUS
<1>3. PICK accept \in BOOLEAN : accept <=> \E row \in rows : row[1] # "refuses" /\ row[1] = "unverified"
  OBVIOUS
<1>4. PICK hidden \in BOOLEAN :
        hidden <=> offer.filter /\ \E row \in rows : row[1] # "refuses" /\ row[2] = "unverified"
  OBVIOUS
<1>5. PICK a : a = WarnIf(accept, e, "PARTIAL_RESULT", "waste_acceptance")
  OBVIOUS
<1>6. p = WarnIf(hidden, a, "PARTIAL_RESULT", "waste_opening_hours")
  BY <1>1, <1>2, <1>3, <1>4, <1>5 DEF WasteEnvelope, WarnIf
<1>7. /\ IsEnvelope(e) /\ e.status \in {envelope.status, "partial"}
      /\ e.status = "ok" => ~err
      /\ err => <<code, "waste_facilities">> \in e.warnings /\ e.degraded = TRUE
  BY <1>2, WarnIfEffect
<1>8. /\ IsEnvelope(a) /\ a.status \in {e.status, "partial"}
      /\ a.status = "ok" => ~accept /\ e.status = "ok"
      /\ e.warnings \subseteq a.warnings /\ (e.degraded = TRUE => a.degraded = TRUE)
  BY <1>3, <1>5, <1>7, WarnIfEffect
<1>9. /\ IsEnvelope(p) /\ p.status \in {a.status, "partial"}
      /\ p.status = "ok" => ~hidden /\ a.status = "ok"
      /\ a.warnings \subseteq p.warnings /\ (a.degraded = TRUE => p.degraded = TRUE)
  <2>1. IsEnvelope(a)
    BY <1>8
  <2>2. PICK q : q = WarnIf(hidden, a, "PARTIAL_RESULT", "waste_opening_hours")
    OBVIOUS
  <2>3. /\ IsEnvelope(q) /\ q.status \in {a.status, "partial"}
        /\ q.status = "ok" => ~hidden /\ a.status = "ok"
        /\ a.warnings \subseteq q.warnings /\ (a.degraded = TRUE => q.degraded = TRUE)
    BY <1>4, <2>1, <2>2, WarnIfEffect
  <2>4. p = q
    BY <1>6, <2>2
  <2> QED  BY <2>3, <2>4
<1>10. err => \E w \in p.warnings : w[2] = "waste_facilities"
  BY <1>7, <1>8, <1>9
<1> QED  BY <1>3, <1>4, <1>7, <1>8, <1>9, <1>10

LEMMA EnvironmentEnvelopeEffect ==
  ASSUME NEW rows, NEW p, p = EnvironmentEnvelope(rows)
  PROVE  /\ IsEnvelope(p)
         /\ p.status = "ok" => offer.asked = Supported(rows)
<1>1. PICK lost : lost = offer.asked \ Supported(rows)
  OBVIOUS
<1>2. PICK ws : ws = {<<"SOURCE_UNAVAILABLE", i>> : i \in {j \in lost : <<j, "missing">> \in rows}}
                     \cup {<<"UNSUPPORTED_INDICATOR", i>> : i \in lost \ {j \in lost : <<j, "missing">> \in rows}}
  OBVIOUS
<1>3. PICK d \in BOOLEAN : d <=> lost # {}
  OBVIOUS
<1>4. PICK s : s = IF lost # {} THEN "partial" ELSE "ok"
  OBVIOUS
<1>5. PICK n : n = NewEnvelope("ok")
  OBVIOUS
<1>6. PICK u : u = [n EXCEPT !.warnings = ws, !.degraded = d, !.status = s]
  OBVIOUS
<1>7. IsEnvelope(n) /\ n.status = "ok"
  BY <1>5, NewIsEnvelope
<1>8. IsEnvelope(u) /\ u.status = s
  <2>1. u = [status |-> s, warnings |-> ws, degraded |-> d, error |-> n.error]
    BY <1>6, <1>7 DEF IsEnvelope
  <2> QED  BY <1>3, <2>1 DEF IsEnvelope
<1>9. PICK v : v = [u EXCEPT !.status = "unavailable"]
  OBVIOUS
<1>10. IsEnvelope(v) /\ v.status = "unavailable"
  BY <1>8, <1>9, StatusEffect
<1>11. p = IF Supported(rows) = {} THEN v ELSE u
  <2>1. [n EXCEPT !.warnings = ws, !.degraded = (lost # {}),
                  !.status = IF lost # {} THEN "partial" ELSE @] = u
    BY <1>3, <1>4, <1>6, <1>7 DEF IsEnvelope
  <2> QED  BY <1>1, <1>2, <1>5, <1>9, <2>1 DEF EnvironmentEnvelope
<1>12. Supported(rows) \subseteq offer.asked
  BY DEF Supported
<1> QED  BY <1>1, <1>4, <1>8, <1>10, <1>11, <1>12

LEMMA OfferContext ==
  ASSUME ContextOK, PlaceToolsStep
  PROVE  Inside /\ ContextOK' /\ call.tool \in PlaceToolNames
<1> USE DEF Running, Reading, FinishOffer, ReturnOffer, PlaceToolNames
<1>0. IsEnvelope(envelope)
  BY DEF ContextOK
<1>1. CASE Classify
  <2>1. PICK n : n = NewEnvelope("unavailable")
    OBVIOUS
  <2>2. PICK w : w = Warn(n, "SOURCE_UNAVAILABLE", "waste_taxonomy")
    OBVIOUS
  <2>3. IsEnvelope(n)
    BY <2>1, NewIsEnvelope
  <2>4. IsEnvelope(w)
    BY <2>2, <2>3, WarnEffect
  <2>5. /\ call.stage = "running" /\ call.tool = "waste"
        /\ \/ Handled(w, {"waste_taxonomy"})
           \/ \E s : Handled(NewEnvelope(s), {}) \/ (call' = call /\ envelope' = NewEnvelope(s))
    BY <1>1, <2>1, <2>2 DEF Classify
  <2>6. envelope' = w \/ \E s : envelope' = NewEnvelope(s)
    BY <2>5 DEF Handled
  <2>7. IsEnvelope(envelope')
    BY <2>4, <2>6, NewIsEnvelope
  <2> QED  BY <2>5, <2>7, HandlerSteps
<1>2. CASE \E tool \in PlaceToolNames : ResolveCentre(tool)
  <2>1. PICK tool \in PlaceToolNames : ResolveCentre(tool)
    BY <1>2
  <2>2. /\ call.stage = "running" /\ call.tool = tool
        /\ \E sources : \/ Handled(NewEnvelope("not_found"), sources)
                        \/ call' = Failing(sources) /\ envelope' = envelope
    BY <2>1 DEF ResolveCentre
  <2>3. envelope' = NewEnvelope("not_found") \/ envelope' = envelope
    BY <2>2 DEF Handled
  <2>4. IsEnvelope(envelope')
    BY <1>0, <2>3, NewIsEnvelope, SameEnvelope
  <2> QED  BY <2>1, <2>2, <2>4, HandlerSteps
<1>3. \A tool : IsEnvelope(Unreadable(tool))
  <2> SUFFICES ASSUME NEW tool PROVE IsEnvelope(Unreadable(tool))
    OBVIOUS
  <2>1. PICK n : n = NewEnvelope("unavailable")
    OBVIOUS
  <2>2. IsEnvelope(n)
    BY <2>1, NewIsEnvelope
  <2>3. PICK w : w = Warn(n, "SOURCE_UNAVAILABLE", SourceOf(tool))
    OBVIOUS
  <2>4. IsEnvelope(w)
    BY <2>2, <2>3, WarnEffect
  <2> QED  BY <2>1, <2>3, <2>4 DEF Unreadable
<1>4. CASE ParkingOptions
  <2>1. PICK rows, kept, err :
          /\ err \in BOOLEAN /\ call.stage = "running" /\ call.tool = "parking"
          /\ \E sources : \/ Handled(Unreadable("parking"), sources)
                          \/ Handled(ParkingEnvelope(kept, err), sources)
    BY <1>4 DEF ParkingOptions
  <2>2. PICK p : p = ParkingEnvelope(kept, err)
    OBVIOUS
  <2>3. IsEnvelope(p)
    BY <2>1, <2>2, ParkingEnvelopeEffect
  <2>4. IsEnvelope(envelope')
    BY <1>3, <2>1, <2>2, <2>3 DEF Handled
  <2> QED  BY <2>1, <2>4, HandlerSteps
<1>5. CASE NearbyFacilities
  <2>1. PICK rows, err :
          /\ err \in BOOLEAN /\ call.stage = "running" /\ call.tool = "facilities"
          /\ \E sources : \/ Handled(Unreadable("facilities"), sources)
                          \/ Handled(FacilitiesEnvelope(rows, err), sources)
    BY <1>5 DEF NearbyFacilities
  <2>2. PICK p : p = FacilitiesEnvelope(rows, err)
    OBVIOUS
  <2>3. IsEnvelope(p)
    BY <2>1, <2>2, FacilitiesEnvelopeEffect
  <2>4. IsEnvelope(envelope')
    BY <1>3, <2>1, <2>2, <2>3 DEF Handled
  <2> QED  BY <2>1, <2>4, HandlerSteps
<1>6. CASE WasteDropoff
  <2>1. PICK rows, err :
          /\ err \in BOOLEAN /\ call.stage = "running" /\ call.tool = "waste"
          /\ \E sources : Handled(WasteEnvelope(rows, err), sources)
    BY <1>6 DEF WasteDropoff
  <2>2. PICK p : p = WasteEnvelope(rows, err)
    OBVIOUS
  <2>3. IsEnvelope(p)
    BY <1>0, <2>1, <2>2, WasteEnvelopeEffect
  <2>4. IsEnvelope(envelope')
    BY <2>1, <2>2, <2>3 DEF Handled
  <2> QED  BY <2>1, <2>4, HandlerSteps
<1>7. CASE EnvironmentBrief
  <2>1. PICK rows :
          /\ call.stage = "running" /\ call.tool = "environment"
          /\ \E sources : \/ Handled(Unreadable("environment"), sources)
                          \/ Handled(EnvironmentEnvelope(rows), sources)
    BY <1>7 DEF EnvironmentBrief
  <2>2. PICK p : p = EnvironmentEnvelope(rows)
    OBVIOUS
  <2>3. IsEnvelope(p)
    BY <2>2, EnvironmentEnvelopeEffect
  <2>4. IsEnvelope(envelope')
    BY <1>3, <2>1, <2>2, <2>3 DEF Handled
  <2> QED  BY <2>1, <2>4, HandlerSteps
<1> QED  BY <1>1, <1>2, <1>4, <1>5, <1>6, <1>7 DEF PlaceToolsStep

-----------------------------------------------------------------------------
(* The steps that belong to no handler, and what every step keeps.          *)

\* The envelope after a step that belongs to no handler.
Sent ==
    /\ envelope.warnings \subseteq envelope'.warnings
    /\ envelope.degraded = TRUE => envelope'.degraded = TRUE
    /\ envelope'.status \in {envelope.status, "partial"}
    /\ envelope.status # "ok" => envelope'.status = envelope.status

\* A call that is not answered stays what it is, or is answered.
Outside ==
    /\ call.stage \in {"running", "handled"}
    /\ call'.tool = call.tool /\ call'.offline = call.offline /\ call'.failed = call.failed
    /\ \/ call'.stage = call.stage /\ envelope' = envelope
       \/ call.stage = "handled" /\ call'.stage = "answered" /\ Sent

LEMMA BeginContext ==
  ASSUME Begin
  PROVE  /\ call.stage = "idle" /\ call'.stage \in {"running", "handled"}
         /\ ContextOK' /\ call'.failed = {}
<1>1. ASSUME NEW tool, NEW offline \in BOOLEAN, Enter(tool, offline) \/ Refuse(tool, offline)
      PROVE  /\ call.stage = "idle" /\ call'.stage \in {"running", "handled"}
             /\ ContextOK' /\ call'.failed = {}
  BY <1>1, EnterEffect, RefuseEffect
<1>2. ASSUME NEW offline \in BOOLEAN, NEW stops, NEW stepFree \in BOOLEAN, BeginAccess(stops, stepFree, offline)
      PROVE  /\ call.stage = "idle" /\ call'.stage \in {"running", "handled"}
             /\ ContextOK' /\ call'.failed = {}
  <2>1. PICK n, o : n = NewEnvelope("invalid_request") /\ o = NewEnvelope("ok")
    OBVIOUS
  <2>2. PICK w : w = WarnIf(stepFree, o, "PARTIAL_RESULT", "accessibility")
    OBVIOUS
  <2>3. IsEnvelope(n) /\ IsEnvelope(o)
    BY <2>1, NewIsEnvelope
  <2>4. IsEnvelope(w)
    BY <2>2, <2>3, WarnIfEffect
  <2>5. PICK s : s = IF stops = 0 THEN "handled" ELSE "running"
    OBVIOUS
  <2>6. /\ call' = [stage |-> s, tool |-> "access", offline |-> offline, expired |-> FALSE, failed |-> {}]
        /\ envelope' \in {n, w} /\ call.stage = "idle"
    BY <1>2, <2>1, <2>2, <2>5 DEF BeginAccess, NoCall
  <2> QED  BY <2>3, <2>4, <2>5, <2>6 DEF ContextOK, Stages
<1>3. PICK offline \in BOOLEAN :
        \/ \E tool : Enter(tool, offline) \/ Refuse(tool, offline)
        \/ \E stops, stepFree : stepFree \in BOOLEAN /\ BeginAccess(stops, stepFree, offline)
  BY DEF Begin, BeginMobility, BeginTrip, BeginDepartures, BeginPlaces, BeginPlaceTool
<1> QED  BY <1>1, <1>2, <1>3

\* Every step is one of the five kinds.
LEMMA NextContext ==
  ASSUME ContextOK, Next
  PROVE  /\ ContextOK'
         /\ \/ /\ Begin /\ call.stage = "idle" /\ call'.stage \in {"running", "handled"}
               /\ call'.failed = {}
            \/ Handle /\ Inside
            \/ Outside /\ UNCHANGED handlers
            \/ Outside /\ Import /\ call' = call /\ envelope' = envelope
            \/ Reply /\ call'.stage = "idle" /\ call'.tool = "none" /\ call'.failed = {}
<1>1. CASE Begin
  BY <1>1, BeginContext
<1>2. CASE Handle
  BY <1>2, MobilityContext, TripContext, DeparturesContext, PlacesContext, AccessContext, OfferContext
  DEF Handle
<1>3. CASE Context
  BY <1>3, ExpireEffect, CompleteEffect DEF Context, Outside, Sent
<1>4. CASE Import
  <2>1. call.stage = "running" /\ call' = call /\ envelope' = envelope
    BY <1>4 DEF Import, ImportMeanwhile, Running, context
  <2> QED  BY <1>4, <2>1, SameEnvelope DEF ContextOK, Outside
<1>5. CASE Reply
  BY <1>5, ReplyEffect
<1> QED  BY <1>1, <1>2, <1>3, <1>4, <1>5 DEF Next

LEMMA InitialContext ==
  Init => ContextOK
BY DEF Init, InitContext, NoCall, NewEnvelope, ContextOK, Stages, IsEnvelope

LEMMA SameCall ==
  ContextOK /\ UNCHANGED vars => ContextOK'
BY SameEnvelope DEF ContextOK, vars

-----------------------------------------------------------------------------
(* The steps that matter to a handler: its own, and those that leave it as  *)
(* it is.                                                                  *)

\* The calls that Begin starts, by their tool.
LEMMA BeginKinds ==
  ASSUME Begin
  PROVE  \E offline \in BOOLEAN :
           \/ /\ call'.tool = "mobility" /\ UNCHANGED trip
              /\ \/ \E include \in SUBSET Branches, areas \in 0..MaxAreas :
                       BeginMobility(include, areas, offline)
                 \/ /\ envelope'.status = "invalid_request" /\ call'.stage = "handled"
                    /\ UNCHANGED mobility
           \/ /\ call'.tool = "trip"
              /\ \E request \in Requests, routing \in BOOLEAN : BeginTrip(request, routing, offline)
           \/ /\ call'.tool = "departures" /\ UNCHANGED trip
              /\ \E at \in Instants, current \in BOOLEAN, change \in Changes, stored \in Timetables :
                    BeginDepartures(at, current, change, stored, offline)
           \/ call'.tool = "places" /\ UNCHANGED trip /\ BeginPlaces(offline)
           \/ /\ call'.tool = "access" /\ UNCHANGED trip
              /\ \E stops \in 0..MaxStops, stepFree \in BOOLEAN : BeginAccess(stops, stepFree, offline)
           \/ /\ call'.tool \in PlaceToolNames /\ UNCHANGED trip
              /\ \E filter \in BOOLEAN, asked \in (SUBSET Indicators) \ {{}} :
                    BeginPlaceTool(call'.tool, filter, asked, offline)
<1>1. ASSUME NEW tool, NEW offline \in BOOLEAN, Enter(tool, offline) \/ Refuse(tool, offline)
      PROVE  /\ call'.tool = tool
             /\ Refuse(tool, offline) => envelope'.status = "invalid_request" /\ call'.stage = "handled"
  BY <1>1, EnterEffect, RefuseEffect
<1>2. ASSUME NEW offline \in BOOLEAN, NEW stops, NEW stepFree, BeginAccess(stops, stepFree, offline)
      PROVE  call'.tool = "access"
  BY <1>2 DEF BeginAccess, NoCall
<1>3. PICK offline \in BOOLEAN :
        \/ /\ \/ \E include \in SUBSET Branches, areas \in 0..MaxAreas :
                    BeginMobility(include, areas, offline)
              \/ Refuse("mobility", offline) /\ UNCHANGED mobility
           /\ UNCHANGED trip
        \/ \E request \in Requests, routing \in BOOLEAN : BeginTrip(request, routing, offline)
        \/ /\ \E at \in Instants, current \in BOOLEAN, change \in Changes, stored \in Timetables :
                BeginDepartures(at, current, change, stored, offline)
           /\ UNCHANGED trip
        \/ BeginPlaces(offline) /\ UNCHANGED trip
        \/ /\ \E stops \in 0..MaxStops, stepFree \in BOOLEAN : BeginAccess(stops, stepFree, offline)
           /\ UNCHANGED trip
        \/ /\ \E tool \in PlaceToolNames, filter \in BOOLEAN, asked \in (SUBSET Indicators) \ {{}} :
                BeginPlaceTool(tool, filter, asked, offline)
           /\ UNCHANGED trip
  BY DEF Begin
<1>4. CASE /\ \/ \E include \in SUBSET Branches, areas \in 0..MaxAreas :
                    BeginMobility(include, areas, offline)
              \/ Refuse("mobility", offline) /\ UNCHANGED mobility
           /\ UNCHANGED trip
  <2>1. Enter("mobility", offline) \/ Refuse("mobility", offline)
    BY <1>4 DEF BeginMobility
  <2> QED  BY <1>1, <1>4, <2>1
<1>5. CASE \E request \in Requests, routing \in BOOLEAN : BeginTrip(request, routing, offline)
  <2>1. Enter("trip", offline) \/ Refuse("trip", offline)
    BY <1>5 DEF BeginTrip
  <2>2. call'.tool = "trip"
    BY <1>1, <2>1
  <2> QED  BY <1>5, <2>2
<1>6. CASE /\ \E at \in Instants, current \in BOOLEAN, change \in Changes, stored \in Timetables :
                BeginDepartures(at, current, change, stored, offline)
           /\ UNCHANGED trip
  <2>1. Enter("departures", offline)
    BY <1>6 DEF BeginDepartures
  <2> QED  BY <1>1, <1>6, <2>1
<1>7. CASE BeginPlaces(offline) /\ UNCHANGED trip
  <2>1. Enter("places", offline)
    BY <1>7 DEF BeginPlaces
  <2> QED  BY <1>1, <1>7, <2>1
<1>8. CASE /\ \E stops \in 0..MaxStops, stepFree \in BOOLEAN : BeginAccess(stops, stepFree, offline)
           /\ UNCHANGED trip
  BY <1>2, <1>8
<1>9. CASE /\ \E tool \in PlaceToolNames, filter \in BOOLEAN, asked \in (SUBSET Indicators) \ {{}} :
                BeginPlaceTool(tool, filter, asked, offline)
           /\ UNCHANGED trip
  <2>1. PICK tool \in PlaceToolNames : \E filter \in BOOLEAN, asked \in (SUBSET Indicators) \ {{}} :
             BeginPlaceTool(tool, filter, asked, offline)
    BY <1>9
  <2>2. Enter(tool, offline)
    BY <2>1 DEF BeginPlaceTool
  <2>3. call'.tool = tool
    BY <1>1, <2>2
  <2> QED  BY <1>9, <2>1, <2>3
<1> QED  BY <1>3, <1>4, <1>5, <1>6, <1>7, <1>8, <1>9

\* The call goes on, but not by a step of its handler.
Still ==
    /\ call.stage # "idle"
    /\ Outside \/ (call' = call /\ envelope' = envelope)

\* The steps of a call of one of the tools.
LEMMA ToolSteps ==
  ASSUME ContextOK, [Next]_vars, call'.stage # "idle"
  PROVE  /\ ContextOK'
         /\ \/ Begin /\ call.stage = "idle" /\ call'.failed = {}
            \/ /\ Inside
               /\ \/ MobilityStep /\ call.tool = "mobility"
                  \/ TripStep /\ call.tool = "trip"
                  \/ DeparturesStep /\ call.tool = "departures"
                  \/ PlacesStep /\ call.tool = "places"
                  \/ AccessStep /\ call.tool = "access"
                  \/ PlaceToolsStep /\ call.tool \in PlaceToolNames
               /\ call.tool # "trip" => trip' = trip
            \/ /\ Still /\ UNCHANGED <<mobility, trip, places, access, offer>>
               /\ departures' = departures \/ ImportMeanwhile
<1>1. CASE UNCHANGED vars
  BY <1>1, SameCall DEF Still, vars
<1>2. CASE Next
  <2>1. CASE Handle /\ Inside
    <3>1. \/ MobilityStep /\ trip' = trip
          \/ TripStep
          \/ DeparturesStep /\ trip' = trip
          \/ PlacesStep /\ trip' = trip
          \/ AccessStep /\ trip' = trip
          \/ PlaceToolsStep /\ trip' = trip
      BY <2>1 DEF Handle
    <3>2. ContextOK'
      BY <1>2, NextContext
    <3> QED  BY <2>1, <3>1, <3>2, MobilityContext, TripContext, DeparturesContext, PlacesContext,
                AccessContext, OfferContext
  <2>2. CASE Outside /\ UNCHANGED handlers
    <3>1. ContextOK'
      BY <1>2, NextContext
    <3> QED  BY <2>2, <3>1 DEF Still, Outside, handlers
  <2>3. CASE Outside /\ Import /\ call' = call /\ envelope' = envelope
    <3>1. ContextOK'
      BY <1>2, NextContext
    <3> QED  BY <2>3, <3>1 DEF Still, Outside, Import
  <2> QED  BY <1>2, <2>1, <2>2, <2>3, NextContext
<1> QED  BY <1>1, <1>2

LEMMA StillKeeps ==
  ASSUME Still
  PROVE  /\ call'.tool = call.tool /\ call'.offline = call.offline /\ call'.failed = call.failed
         /\ Sent
         /\ \/ call'.stage = call.stage /\ envelope' = envelope
            \/ call.stage = "handled" /\ call'.stage = "answered"
BY DEF Still, Outside, Sent

-----------------------------------------------------------------------------
(* lyon_resolve_place.                                                     *)

PlacesRecord ==
    places = [pc |-> places.pc, stored |-> places.stored, remote |-> places.remote,
              candidates |-> places.candidates]

\* While a call searches, too, its candidates are places that are stored.
ReusableInv ==
    call.stage # "idle" /\ call.tool = "places" =>
        PlacesRecord /\ places.candidates \subseteq places.stored

LEMMA ReusableStep ==
  ASSUME PlacesRecord, places.candidates \subseteq places.stored, PlacesStep
  PROVE  PlacesRecord' /\ places'.candidates \subseteq places'.stored
<1> USE DEF PlacesRecord
<1>1. ASSUME NEW pc, NEW next, NEW source, SearchLocal(pc, next, source)
      PROVE  PlacesRecord' /\ places'.candidates \subseteq places'.stored
  BY <1>1 DEF SearchLocal
<1>2. CASE SearchRemote
  BY <1>2 DEF SearchRemote
<1>3. CASE SaveResolvedPlace
  <2>1. PICK candidate, fails :
          LET saved == Saved(places, candidate, fails) IN
          places' = [saved EXCEPT !.pc = IF saved.remote = {} THEN "answer" ELSE "save"]
    BY <1>3 DEF SaveResolvedPlace, StoreFails
  <2>2. PICK saved : saved = Saved(places, candidate, fails)
    OBVIOUS
  <2>3. /\ saved = [pc |-> saved.pc, stored |-> saved.stored, remote |-> saved.remote,
                    candidates |-> saved.candidates]
        /\ saved.candidates \subseteq saved.stored
    BY <2>2 DEF Saved
  <2>4. PICK pc : pc = IF saved.remote = {} THEN "answer" ELSE "save"
    OBVIOUS
  <2>5. places' = [saved EXCEPT !.pc = pc]
    BY <2>1, <2>2, <2>4
  <2> QED  BY <2>3, <2>5
<1>4. CASE ReturnPlaces
  BY <1>4 DEF ReturnPlaces
<1> QED  BY <1>1, <1>2, <1>3, <1>4 DEF PlacesStep

(***************************************************************************)
(* The candidates of lyon_resolve_place are stored, whatever the searches,  *)
(* the geocoder and the writes of the store did and however many candidates *)
(* there are.                                                              *)
(***************************************************************************)
THEOREM PlacesAreReusable == Spec => []CandidatesAreReusable
<1>1. Init => ContextOK /\ ReusableInv
  BY InitialContext DEF Init, InitContext, NoCall, ReusableInv
<1>2. ContextOK /\ ReusableInv /\ [Next]_vars => (ContextOK /\ ReusableInv)'
  <2> SUFFICES ASSUME ContextOK, ReusableInv, [Next]_vars
               PROVE  (ContextOK /\ ReusableInv)'
    OBVIOUS
  <2>1. CASE call'.stage = "idle"
    <3>1. ContextOK'
      BY SameCall, NextContext
    <3> QED  BY <2>1, <3>1 DEF ReusableInv
  <2>2. CASE call'.stage # "idle" /\ call'.tool = "places"
    <3>1. CASE Begin /\ call.stage = "idle"
      <4>1. PICK offline : BeginPlaces(offline)
        BY <2>2, <3>1, BeginKinds DEF PlaceToolNames
      <4> QED  BY <2>2, <4>1, ToolSteps DEF BeginPlaces, NoPlaces, ReusableInv, PlacesRecord
    <3>2. CASE PlacesStep /\ call.tool = "places" /\ call.stage = "running"
      BY <2>2, <3>2, ToolSteps, ReusableStep DEF ReusableInv, PlacesRecord
    <3>3. CASE Still /\ UNCHANGED places
      BY <2>2, <3>3, ToolSteps, StillKeeps DEF ReusableInv, PlacesRecord, Still
    <3> QED  BY <2>2, <3>1, <3>2, <3>3, ToolSteps DEF Inside, PlaceToolNames
  <2>3. CASE call'.tool # "places"
    <3>1. ContextOK'
      BY SameCall, NextContext
    <3> QED  BY <2>3, <3>1 DEF ReusableInv
  <2> QED  BY <2>1, <2>2, <2>3
<1>3. ReusableInv => CandidatesAreReusable
  BY DEF ReusableInv, CandidatesAreReusable, Answered
<1> QED  BY <1>1, <1>2, <1>3, PTL DEF Spec

-----------------------------------------------------------------------------
(* lyon_mobility_status.                                                   *)

MobilityRecord ==
    /\ mobility = [pc |-> mobility.pc, include |-> mobility.include, areas |-> mobility.areas,
                   labels |-> mobility.labels, points |-> mobility.points, state |-> mobility.state,
                   asked |-> mobility.asked, held |-> mobility.held, rows |-> mobility.rows,
                   err |-> mobility.err, data |-> mobility.data]
    /\ mobility.include \subseteq Branches /\ mobility.areas \in Nat /\ mobility.points \in Nat
    /\ mobility.state \in [Branches -> {"off", "waiting", "running", "done"}]
    /\ DOMAIN mobility.rows = Branches /\ DOMAIN mobility.err = Branches

\* Every branch that was asked for has a goroutine, unless no area has a place.
BranchesStarted ==
    mobility.pc # "areas" =>
        \A b \in mobility.include :
            (b = "roadworks" /\ Blocked(mobility.areas, mobility.points)) \/ mobility.state[b] # "off"

\* The answer is what the branches that have returned read.
BranchesJoined ==
    mobility.pc = "done" =>
        \A b \in Branches : /\ mobility.state[b] \in {"off", "done"}
                            /\ mobility.state[b] = "done" => mobility.data[b] = Data(b)

\* A call that Begin refused, before any handler.
Refused == call.stage # "running" /\ envelope.status = "invalid_request"

RetainedInv ==
    call.stage # "idle" /\ call.tool = "mobility" =>
        \/ Refused
        \/ /\ MobilityRecord /\ BranchesStarted /\ BranchesJoined
           /\ call.stage = "running" <=> mobility.pc # "done"

LEMMA FinishEffect ==
  ASSUME MobilityRecord, NEW b \in Branches, NEW rows, NEW err, mobility' = Finish(mobility, b, rows, err)
  PROVE  /\ MobilityRecord'
         /\ mobility'.pc = mobility.pc /\ mobility'.include = mobility.include
         /\ mobility'.areas = mobility.areas /\ mobility'.points = mobility.points
         /\ mobility'.state = [mobility.state EXCEPT ![b] = "done"]
         /\ mobility'.err = [mobility.err EXCEPT ![b] = @ \/ err]
<1>1. PICK r : r = [mobility.rows EXCEPT ![b] = @ \cup rows]
  OBVIOUS
<1>2. PICK x : x = [mobility.err EXCEPT ![b] = @ \/ err]
  OBVIOUS
<1>3. PICK s : s = [mobility.state EXCEPT ![b] = "done"]
  OBVIOUS
<1>4. PICK h : h = mobility.held - 1
  OBVIOUS
<1>5. mobility' = [mobility EXCEPT !.rows = r, !.err = x, !.state = s, !.held = h]
  BY <1>1, <1>2, <1>3, <1>4 DEF Finish, MobilityRecord
<1>6. mobility' = [pc |-> mobility.pc, include |-> mobility.include, areas |-> mobility.areas,
                   labels |-> mobility.labels, points |-> mobility.points, state |-> s,
                   asked |-> mobility.asked, held |-> h, rows |-> r,
                   err |-> x, data |-> mobility.data]
  BY <1>5 DEF MobilityRecord
<1>7. DOMAIN r = Branches /\ DOMAIN x = Branches /\ s \in [Branches -> {"off", "waiting", "running", "done"}]
  BY <1>1, <1>2, <1>3 DEF MobilityRecord
<1> QED  BY <1>2, <1>3, <1>6, <1>7 DEF MobilityRecord

\* A round of the loop over the areas, the last one or not.
LEMMA TrafficEffect ==
  ASSUME MobilityRecord, ReturnTraffic
  PROVE  /\ MobilityRecord' /\ mobility.state["traffic"] = "running" /\ envelope' = envelope
         /\ mobility'.pc = mobility.pc /\ mobility'.include = mobility.include
         /\ mobility'.areas = mobility.areas /\ mobility'.points = mobility.points
         /\ \E m \in {"running", "done"} : mobility'.state = [mobility.state EXCEPT !["traffic"] = m]
         /\ \A b \in Branches : mobility.err[b] = TRUE => mobility'.err[b] = TRUE
         /\ \E err : /\ call' = Failing(IF err THEN {"traffic"} ELSE {})
                     /\ err \in BOOLEAN /\ (err => mobility'.err["traffic"] = TRUE)
<1>1. PICK err \in BOOLEAN :
        LET label == Min(mobility.asked)
            rows == IF err THEN {} ELSE {label}
            next == [mobility EXCEPT !.asked = @ \ {label}, !.err["traffic"] = @ \/ err,
                                     !.rows["traffic"] = @ \cup rows]
        IN /\ mobility' = IF next.asked = {} THEN Finish(next, "traffic", {}, next.err["traffic"]) ELSE next
           /\ call' = Failing(IF err THEN {"traffic"} ELSE {})
  BY DEF ReturnTraffic
<1> DEFINE Same == /\ MobilityRecord'
                   /\ mobility'.pc = mobility.pc /\ mobility'.include = mobility.include
                   /\ mobility'.areas = mobility.areas /\ mobility'.points = mobility.points
                   /\ \/ mobility'.state = [mobility.state EXCEPT !["traffic"] = "running"]
                      \/ mobility'.state = [mobility.state EXCEPT !["traffic"] = "done"]
                   /\ err => mobility'.err["traffic"] = TRUE
                   /\ \A b \in Branches : mobility.err[b] = TRUE => mobility'.err[b] = TRUE
<1>2. PICK a : a = mobility.asked \ {Min(mobility.asked)}
  OBVIOUS
<1>3. PICK x : x = [mobility.err EXCEPT !["traffic"] = @ \/ err]
  OBVIOUS
<1>4. PICK r : r = [mobility.rows EXCEPT !["traffic"] = @ \cup IF err THEN {} ELSE {Min(mobility.asked)}]
  OBVIOUS
<1>5. PICK next : next = [mobility EXCEPT !.asked = a, !.err = x, !.rows = r]
  OBVIOUS
<1>6. next = [mobility EXCEPT !.asked = @ \ {Min(mobility.asked)}, !.err["traffic"] = @ \/ err,
                              !.rows["traffic"] = @ \cup IF err THEN {} ELSE {Min(mobility.asked)}]
  BY <1>2, <1>3, <1>4, <1>5 DEF MobilityRecord
<1>7. mobility' = IF next.asked = {} THEN Finish(next, "traffic", {}, next.err["traffic"]) ELSE next
  BY <1>1, <1>6
<1>8. next = [pc |-> mobility.pc, include |-> mobility.include, areas |-> mobility.areas,
              labels |-> mobility.labels, points |-> mobility.points, state |-> mobility.state,
              asked |-> a, held |-> mobility.held, rows |-> r,
              err |-> x, data |-> mobility.data]
  BY <1>5 DEF MobilityRecord
<1>9. /\ DOMAIN r = Branches /\ DOMAIN x = Branches /\ "traffic" \in Branches
      /\ err => x["traffic"] = TRUE
      /\ \A b \in Branches : mobility.err[b] = TRUE => x[b] = TRUE
  BY <1>3, <1>4 DEF MobilityRecord, Branches
<1>10. mobility.state["traffic"] = "running" /\ envelope' = envelope
  BY DEF ReturnTraffic, In
<1>11. ASSUME next.asked # {}
       PROVE  Same
  <2>1. mobility' = next
    BY <1>7, <1>11
  <2>2. MobilityRecord'
    BY <1>8, <1>9, <2>1 DEF MobilityRecord
  <2>3. mobility'.state = [mobility.state EXCEPT !["traffic"] = "running"]
    BY <1>8, <1>10, <2>1 DEF MobilityRecord
  <2>4. /\ mobility'.pc = mobility.pc /\ mobility'.include = mobility.include
        /\ mobility'.areas = mobility.areas /\ mobility'.points = mobility.points
        /\ mobility'.err = x
    BY <1>8, <2>1
  <2> QED  BY <1>9, <2>2, <2>3, <2>4 DEF Same
<1>12. ASSUME next.asked = {}
       PROVE  Same
  <2>1. mobility' = Finish(next, "traffic", {}, next.err["traffic"])
    BY <1>7, <1>12
  <2>2. PICK s : s = [mobility.state EXCEPT !["traffic"] = "done"]
    OBVIOUS
  <2>3. PICK y : y = [x EXCEPT !["traffic"] = @ \/ x["traffic"]]
    OBVIOUS
  <2>4. PICK q : q = [r EXCEPT !["traffic"] = @ \cup {}]
    OBVIOUS
  <2>5. PICK h : h = mobility.held - 1
    OBVIOUS
  <2>6. mobility' = [next EXCEPT !.rows = q, !.err = y, !.state = s, !.held = h]
    BY <1>8, <2>1, <2>2, <2>3, <2>4, <2>5 DEF Finish
  <2>7. mobility' = [pc |-> mobility.pc, include |-> mobility.include, areas |-> mobility.areas,
                     labels |-> mobility.labels, points |-> mobility.points, state |-> s,
                     asked |-> a, held |-> h, rows |-> q, err |-> y, data |-> mobility.data]
    BY <1>8, <2>6
  <2>8. DOMAIN q = Branches /\ DOMAIN y = Branches /\ s \in [Branches -> {"off", "waiting", "running", "done"}]
    BY <1>9, <2>2, <2>3, <2>4 DEF MobilityRecord
  <2>9. MobilityRecord'
    BY <2>7, <2>8 DEF MobilityRecord
  <2>10. /\ err => y["traffic"] = TRUE
         /\ \A b \in Branches : mobility.err[b] = TRUE => y[b] = TRUE
    BY <1>9, <2>3
  <2>11. /\ mobility'.pc = mobility.pc /\ mobility'.include = mobility.include
         /\ mobility'.areas = mobility.areas /\ mobility'.points = mobility.points
         /\ mobility'.err = y /\ mobility'.state = [mobility.state EXCEPT !["traffic"] = "done"]
    BY <2>2, <2>7
  <2> QED  BY <2>9, <2>10, <2>11 DEF Same
<1>13. call' = Failing(IF err THEN {"traffic"} ELSE {})
  BY <1>1
<1>14. Same
  BY <1>11, <1>12
<1> HIDE DEF Same
<1>15. \E m \in {"running", "done"} : mobility'.state = [mobility.state EXCEPT !["traffic"] = m]
  BY <1>14 DEF Same
<1>16. \E e : /\ call' = Failing(IF e THEN {"traffic"} ELSE {})
              /\ e \in BOOLEAN /\ (e => mobility'.err["traffic"] = TRUE)
  BY <1>1, <1>13, <1>14 DEF Same
<1> QED  BY <1>10, <1>14, <1>15, <1>16 DEF Same

LEMMA RetainedStep ==
  ASSUME ContextOK, MobilityRecord, BranchesStarted, MobilityStep, Inside, mobility.pc # "done"
  PROVE  /\ MobilityRecord' /\ BranchesStarted' /\ BranchesJoined'
         /\ call'.stage = "running" <=> mobility'.pc # "done"
<1> DEFINE Goal == /\ MobilityRecord' /\ BranchesStarted' /\ BranchesJoined'
                   /\ call'.stage = "running" <=> mobility'.pc # "done"
<1>0. ASSUME NEW b \in Branches, NEW m, MobilityRecord', mobility'.pc = mobility.pc,
             mobility'.include = mobility.include, mobility'.areas = mobility.areas,
             mobility'.points = mobility.points, call'.stage = "running", m \in {"running", "done"},
             mobility.pc = "branches" \/ mobility.state[b] # "off",
             mobility'.state = [mobility.state EXCEPT ![b] = m]
      PROVE  Goal
  BY <1>0 DEF MobilityRecord, BranchesStarted, BranchesJoined, Blocked
<1>1. CASE ResolveAreas
  <2>1. PICK labels \in 0..mobility.areas, points \in 0..mobility.areas :
          mobility' = [mobility EXCEPT !.pc = "branches", !.labels = 1..labels, !.points = points,
                !.asked = IF labels = 0 THEN {0} ELSE 1..labels,
                !.state = [b \in Branches |->
                    IF b \in mobility.include /\ ~(b = "roadworks" /\ Blocked(mobility.areas, points))
                    THEN "waiting" ELSE "off"]]
    BY <1>1 DEF ResolveAreas
  <2>2. PICK s : s = [b \in Branches |->
                    IF b \in mobility.include /\ ~(b = "roadworks" /\ Blocked(mobility.areas, points))
                    THEN "waiting" ELSE "off"]
    OBVIOUS
  <2>3. PICK a, l : a = (IF labels = 0 THEN {0} ELSE 1..labels) /\ l = 1..labels
    OBVIOUS
  <2>4. mobility' = [mobility EXCEPT !.pc = "branches", !.labels = l, !.points = points,
                                     !.asked = a, !.state = s]
    BY <2>1, <2>2, <2>3
  <2>5. mobility' = [pc |-> "branches", include |-> mobility.include, areas |-> mobility.areas,
                     labels |-> l, points |-> points, state |-> s,
                     asked |-> a, held |-> mobility.held, rows |-> mobility.rows,
                     err |-> mobility.err, data |-> mobility.data]
    BY <2>4 DEF MobilityRecord
  <2>6. s \in [Branches -> {"off", "waiting", "running", "done"}] /\ points \in Nat
    BY <2>2 DEF MobilityRecord
  <2>7. MobilityRecord' /\ BranchesJoined'
    BY <2>5, <2>6 DEF MobilityRecord, BranchesJoined
  <2>8. BranchesStarted'
    BY <2>2, <2>5 DEF BranchesStarted, MobilityRecord, Blocked
  <2>9. call'.stage = "running"
    BY <1>1 DEF ResolveAreas, Running, Failing, ContextOK
  <2> QED  BY <2>5, <2>7, <2>8, <2>9
<1>2. CASE \E b \in Branches : AcquireBranch(b)
  <2>1. PICK b \in Branches : AcquireBranch(b)
    BY <1>2
  <2>2. /\ mobility' = [mobility EXCEPT !.state[b] = "running", !.held = @ + 1]
        /\ mobility.state[b] = "waiting" /\ call'.stage = "running"
    BY <2>1 DEF AcquireBranch, context, Running, In
  <2>3. PICK s : s = [mobility.state EXCEPT ![b] = "running"]
    OBVIOUS
  <2>4. PICK h : h = mobility.held + 1
    OBVIOUS
  <2>5. mobility' = [mobility EXCEPT !.state = s, !.held = h]
    BY <2>2, <2>3, <2>4 DEF MobilityRecord
  <2>6. mobility' = [pc |-> mobility.pc, include |-> mobility.include, areas |-> mobility.areas,
                     labels |-> mobility.labels, points |-> mobility.points, state |-> s,
                     asked |-> mobility.asked, held |-> h, rows |-> mobility.rows,
                     err |-> mobility.err, data |-> mobility.data]
    BY <2>5 DEF MobilityRecord
  <2>7. s \in [Branches -> {"off", "waiting", "running", "done"}]
    BY <2>3 DEF MobilityRecord
  <2>8. MobilityRecord'
    BY <2>6, <2>7 DEF MobilityRecord
  <2> QED  BY <1>0, <2>2, <2>3, <2>6, <2>8
<1>3. CASE \E b \in Branches : ReturnBranch(b)
  <2>0. PICK b \in Branches : ReturnBranch(b)
    BY <1>3
  <2>1. PICK rows, err :
          /\ mobility' = Finish(mobility, b, rows, err) /\ mobility.state[b] = "running"
          /\ \E sources : call' = Failing(sources)
    BY <2>0 DEF ReturnBranch, In
  <2>2. call'.stage = "running"
    BY <2>1, <1>3, FailingEffect, MobilityContext DEF Inside, ReturnBranch, SameEnvelope, ContextOK, Failing
  <2> QED  BY <1>0, <2>1, <2>2, FinishEffect
<1>4. CASE ReturnTraffic
  <2>1. call'.stage = "running" /\ "traffic" \in Branches
    BY <1>4 DEF ReturnTraffic, Running, Failing, ContextOK, Branches
  <2> QED  BY <1>0, <1>4, <2>1, TrafficEffect
<1>5. CASE AssembleMobility
  <2>1. PICK d : d = [b \in Branches |-> IF b \in In("done") THEN Data(b) ELSE {}]
    OBVIOUS
  <2>2. /\ mobility' = [mobility EXCEPT !.pc = "done", !.data = d]
        /\ AllJoined /\ mobility.pc = "branches" /\ call'.stage = "handled"
    BY <1>5, <2>1, HandledEffect DEF AssembleMobility, Handled, Failing, ContextOK, Running
  <2>3. mobility' = [pc |-> "done", include |-> mobility.include, areas |-> mobility.areas,
                     labels |-> mobility.labels, points |-> mobility.points, state |-> mobility.state,
                     asked |-> mobility.asked, held |-> mobility.held, rows |-> mobility.rows,
                     err |-> mobility.err, data |-> d]
    BY <2>2 DEF MobilityRecord
  <2>4. MobilityRecord' /\ BranchesStarted'
    BY <2>2, <2>3 DEF MobilityRecord, BranchesStarted
  <2>5. ASSUME NEW b \in Branches
        PROVE  /\ mobility'.state[b] \in {"off", "done"}
               /\ mobility'.state[b] = "done" => mobility'.data[b] = Data(b)'
    <3>1. mobility.state[b] \in {"off", "done"}
      BY <2>2 DEF AllJoined, In, MobilityRecord
    <3>2. mobility.state[b] = "done" => mobility'.data[b] = Data(b)
      BY <2>1, <2>3 DEF In
    <3>3. Data(b)' = Data(b)
      BY <2>3 DEF Data, InAreas
    <3> QED  BY <2>3, <3>1, <3>2, <3>3
  <2> QED  BY <2>2, <2>3, <2>4, <2>5 DEF BranchesJoined
<1> HIDE DEF Goal
<1>6. Goal
  BY <1>1, <1>2, <1>3, <1>4, <1>5 DEF MobilityStep, Goal
<1> QED  BY <1>6 DEF Goal

LEMMA RetainedIsKept ==
  Spec => []RetainedInv
<1>1. Init => ContextOK /\ RetainedInv
  BY InitialContext DEF Init, InitContext, NoCall, RetainedInv
<1>2. ContextOK /\ RetainedInv /\ [Next]_vars => (ContextOK /\ RetainedInv)'
  <2> SUFFICES ASSUME ContextOK, RetainedInv, [Next]_vars
               PROVE  (ContextOK /\ RetainedInv)'
    OBVIOUS
  <2>0. ContextOK'
    BY SameCall, NextContext
  <2>1. CASE ~(call'.stage # "idle" /\ call'.tool = "mobility")
    BY <2>0, <2>1 DEF RetainedInv
  <2>2. CASE call'.stage # "idle" /\ call'.tool = "mobility"
    <3>1. CASE Begin /\ call.stage = "idle"
      <4>1. PICK offline \in BOOLEAN :
              \/ \E include \in SUBSET Branches, areas \in 0..MaxAreas :
                    BeginMobility(include, areas, offline)
              \/ /\ envelope'.status = "invalid_request" /\ call'.stage = "handled"
                 /\ UNCHANGED mobility
        BY <2>2, <3>1, BeginKinds DEF PlaceToolNames
      <4>2. CASE \E include \in SUBSET Branches, areas \in 0..MaxAreas :
                    BeginMobility(include, areas, offline)
        <5>1. PICK include \in SUBSET Branches, areas \in 0..MaxAreas :
                BeginMobility(include, areas, offline)
          BY <4>2
        <5>2. PICK i : i = IF include = {} THEN Branches ELSE include
          OBVIOUS
        <5>3. PICK o, d : o = [b \in Branches |-> "off"] /\ d = [b \in Branches |-> {}]
          OBVIOUS
        <5>4. PICK x : x = [b \in Branches |-> FALSE]
          OBVIOUS
        <5>5. mobility' = [pc |-> "areas", include |-> i, areas |-> areas, labels |-> {},
                           points |-> 0, state |-> o, asked |-> {}, held |-> 0,
                           rows |-> d, err |-> x, data |-> d]
          BY <5>1, <5>2, <5>3, <5>4 DEF BeginMobility, NoMobility
        <5>6. /\ i \subseteq Branches /\ areas \in Nat /\ o \in [Branches -> {"off", "waiting", "running", "done"}]
              /\ DOMAIN d = Branches /\ DOMAIN x = Branches
          BY <5>2, <5>3, <5>4
        <5>7. MobilityRecord' /\ BranchesStarted' /\ BranchesJoined'
          BY <5>5, <5>6 DEF MobilityRecord, BranchesStarted, BranchesJoined
        <5>8. call'.stage = "running"
          BY <5>1, EnterEffect DEF BeginMobility
        <5> QED  BY <2>0, <5>5, <5>7, <5>8 DEF RetainedInv
      <4>3. CASE envelope'.status = "invalid_request" /\ call'.stage = "handled"
        BY <2>0, <4>3 DEF RetainedInv, Refused
      <4> QED  BY <4>1, <4>2, <4>3
    <3>2. CASE MobilityStep /\ Inside
      <4>1. /\ MobilityRecord /\ BranchesStarted /\ mobility.pc # "done"
        BY <2>2, <3>2, MobilityContext DEF RetainedInv, Refused, Inside
      <4> QED  BY <2>0, <3>2, <4>1, RetainedStep DEF RetainedInv
    <3>3. CASE Still /\ UNCHANGED mobility
      <4>1. CASE Refused
        BY <2>0, <3>3, <4>1, StillKeeps DEF RetainedInv, Refused, Sent
      <4>2. CASE ~Refused
        <5>1. /\ MobilityRecord /\ BranchesStarted /\ BranchesJoined
              /\ call.stage = "running" <=> mobility.pc # "done"
          BY <2>2, <3>3, <4>2, StillKeeps DEF RetainedInv, Still
        <5>2. MobilityRecord' /\ BranchesStarted' /\ BranchesJoined'
          BY <3>3, <5>1 DEF MobilityRecord, BranchesStarted, BranchesJoined, Data, InAreas
        <5> QED  BY <2>0, <3>3, <5>1, <5>2, StillKeeps DEF RetainedInv
      <4> QED  BY <4>1, <4>2
    <3> QED  BY <2>2, <3>1, <3>2, <3>3, ToolSteps DEF Inside, PlaceToolNames
  <2> QED  BY <2>1, <2>2
<1> QED  BY <1>1, <1>2, PTL DEF Spec

(***************************************************************************)
(* Whatever the order in which the goroutines of lyon_mobility_status get   *)
(* the semaphore and return, and whatever fails or expires meanwhile, the   *)
(* answer has every branch that was asked for with all the rows it read;    *)
(* for any size of the semaphore and any number of areas.                   *)
(***************************************************************************)
THEOREM BranchesAreRetained == Spec => []BranchesRetained
<1>1. RetainedInv => BranchesRetained
  BY DEF RetainedInv, BranchesRetained, Answered, Refused, MobilityRecord, BranchesStarted,
         BranchesJoined, Data, InAreas
<1> QED  BY <1>1, RetainedIsKept, PTL

-----------------------------------------------------------------------------
(* lyon_accessibility_check.                                               *)

Evidence == {"incident", "check_stop", "boarding"} \X Verdicts

Segments == [status : Verdicts, resolved : BOOLEAN, evidence : SUBSET Evidence, unread : BOOLEAN]

\* The worst of some verdicts, as the property has it.
Worst(verdicts) == IF "inaccessible" \in verdicts THEN "inaccessible"
                   ELSE IF "partially_accessible" \in verdicts THEN "partially_accessible"
                   ELSE "unknown"

AccessRecord ==
    /\ access = [pc |-> access.pc, stops |-> access.stops, segments |-> access.segments,
                 returned |-> access.returned, incidents |-> access.incidents, overall |-> access.overall]
    /\ access.pc \in {"incidents", "resolve", "check", "boarding", "done"}
    /\ access.stops \in Nat /\ access.segments \in Seq(Segments)

\* The status of every segment so far is the worst of its evidence; one that
\* is about to be checked has none.
SegmentsDecided ==
    /\ \A i \in 1..At : access.segments[i].status = Worst(Told(access.segments[i]))
    /\ access.pc \in {"check", "boarding"} => At > 0
    /\ access.pc = "check" => access.segments[At].evidence = {}

AnswerDecided ==
    access.pc = "done" =>
        /\ At = access.stops
        /\ access.overall = Aggregated({access.segments[i].status : i \in 1..access.stops})
        /\ access.overall = "unknown" => envelope.degraded = TRUE /\ envelope.status = "partial"

WorstInv ==
    call.stage # "idle" /\ call.tool = "access" =>
        \/ Refused
        \/ /\ AccessRecord /\ SegmentsDecided /\ AnswerDecided
           /\ call.stage = "running" <=> access.pc # "done"

\* A segment that follows the others, or takes the place of the last.
LEMMA AppendDecides ==
  ASSUME AccessRecord, SegmentsDecided, NEW segment \in Segments, segment.status = Worst(Told(segment)),
         access'.segments = Append(access.segments, segment)
  PROVE  /\ access'.segments \in Seq(Segments) /\ At' = At + 1 /\ access'.segments[At'] = segment
         /\ \A i \in 1..At' : access'.segments[i].status = Worst(Told(access'.segments[i]))
<1>1. PICK old : old = access.segments
  OBVIOUS
<1>2. PICK new : new = access'.segments
  OBVIOUS
<1>3. /\ old \in Seq(Segments) /\ new = Append(old, segment)
      /\ \A i \in 1..Len(old) : old[i].status = Worst(Told(old[i]))
  BY <1>1, <1>2 DEF AccessRecord, SegmentsDecided, At
<1>4. /\ new \in Seq(Segments) /\ Len(new) = Len(old) + 1 /\ new[Len(new)] = segment
      /\ Len(old) \in Nat /\ \A i \in 1..Len(old) : new[i] = old[i]
  BY <1>3
<1>5. \A i \in 1..Len(new) : new[i].status = Worst(Told(new[i]))
  <2> SUFFICES ASSUME NEW i \in 1..Len(new) PROVE new[i].status = Worst(Told(new[i]))
    OBVIOUS
  <2>1. CASE i \in 1..Len(old)
    BY <1>3, <1>4, <2>1
  <2>2. CASE i \notin 1..Len(old)
    <3>1. i = Len(new)
      BY <1>4, <2>2
    <3> QED  BY <1>4, <3>1
  <2> QED  BY <2>1, <2>2
<1> QED  BY <1>1, <1>2, <1>4, <1>5 DEF At

LEMMA ReplaceDecides ==
  ASSUME AccessRecord, SegmentsDecided, At > 0, NEW segment \in Segments,
         segment.status = Worst(Told(segment)),
         access'.segments = [access.segments EXCEPT ![At] = segment]
  PROVE  /\ access'.segments \in Seq(Segments) /\ At' = At
         /\ \A i \in 1..At' : access'.segments[i].status = Worst(Told(access'.segments[i]))
<1>1. PICK old, n : old = access.segments /\ n = Len(old)
  OBVIOUS
<1>2. PICK new : new = access'.segments
  OBVIOUS
<1>3. /\ old \in Seq(Segments) /\ n \in Nat /\ n > 0 /\ new = [old EXCEPT ![n] = segment]
      /\ \A i \in 1..n : old[i].status = Worst(Told(old[i]))
  BY <1>1, <1>2 DEF AccessRecord, SegmentsDecided, At
<1>4. new \in Seq(Segments) /\ Len(new) = n
  BY <1>1, <1>3
<1>5. \A i \in 1..n : new[i] = IF i = n THEN segment ELSE old[i]
  BY <1>1, <1>3
<1>6. \A i \in 1..Len(new) : new[i].status = Worst(Told(new[i]))
  <2> SUFFICES ASSUME NEW i \in 1..Len(new) PROVE new[i].status = Worst(Told(new[i]))
    OBVIOUS
  <2>1. CASE i = n
    BY <1>4, <1>5, <2>1
  <2>2. CASE i # n
    BY <1>3, <1>4, <1>5, <2>2
  <2> QED  BY <2>1, <2>2
<1> QED  BY <1>1, <1>2, <1>3, <1>4, <1>6 DEF At

\* What the handler of a stop does to its status keeps it the worst of its evidence.
LEMMA VerdictDecides ==
  ASSUME NEW s \in Segments, s.evidence = {}, s.status = Worst(Told(s)), NEW verdict \in Verdicts,
         NEW t \in Segments, t.status = verdict,
         t.evidence = IF verdict = "unknown" THEN {} ELSE {<<"check_stop", verdict>>}
  PROVE  t.status = Worst(Told(t))
<1>1. CASE verdict = "unknown"
  BY <1>1 DEF Told, Worst
<1>2. CASE verdict # "unknown"
  <2>1. Told(t) = {verdict}
    BY <1>2 DEF Told
  <2> QED  BY <1>2, <2>1 DEF Worst, Verdicts
<1> QED  BY <1>1, <1>2

LEMMA DeclaredDecides ==
  ASSUME NEW s \in Segments, s.status = Worst(Told(s)), NEW boarding \in 0..2,
         NEW t \in Segments, t.status = Declared(s.status, boarding),
         t.evidence = s.evidence \cup {<<"boarding", DeclaredVerdict(boarding)>>}
  PROVE  t.status = Worst(Told(t))
<1>0. PICK d : d = DeclaredVerdict(boarding)
  OBVIOUS
<1>1. Told(t) = Told(s) \cup {DeclaredVerdict(boarding)}
  <2>1. t.evidence = s.evidence \cup {<<"boarding", d>>}
    BY <1>0
  <2>2. PICK x : x = <<"boarding", d>>
    OBVIOUS
  <2>3. x[2] = d /\ t.evidence = s.evidence \cup {x}
    BY <2>1, <2>2
  <2>4. Told(t) = Told(s) \cup {d}
    BY <2>3 DEF Told
  <2> QED  BY <1>0, <2>4
<1>2. boarding \in {0, 1, 2}
  OBVIOUS
<1>3. CASE boarding = 2
  <2>1. DeclaredVerdict(boarding) = "inaccessible" /\ Declared(s.status, boarding) = "inaccessible"
    BY <1>3 DEF DeclaredVerdict, Declared
  <2> QED  BY <1>1, <2>1 DEF Worst
<1>4. CASE boarding = 1
  <2>1. /\ DeclaredVerdict(boarding) = "partially_accessible"
        /\ Declared(s.status, boarding) = IF s.status = "unknown" THEN "partially_accessible" ELSE s.status
    BY <1>4 DEF DeclaredVerdict, Declared
  <2> QED  BY <1>1, <2>1 DEF Worst
<1>5. CASE boarding = 0
  <2>1. DeclaredVerdict(boarding) = "unknown" /\ Declared(s.status, boarding) = s.status
    BY <1>5 DEF DeclaredVerdict, Declared
  <2> QED  BY <1>1, <2>1 DEF Worst
<1> QED  BY <1>2, <1>3, <1>4, <1>5

LEMMA WorstStep ==
  ASSUME ContextOK, AccessRecord, SegmentsDecided, AccessStep, access.pc # "done"
  PROVE  /\ AccessRecord' /\ SegmentsDecided' /\ AnswerDecided'
         /\ call'.stage = "running" <=> access'.pc # "done"
<1> DEFINE Goal == /\ AccessRecord' /\ SegmentsDecided' /\ AnswerDecided'
                   /\ call'.stage = "running" <=> access'.pc # "done"
<1>a. call.stage = "running"
  BY DEF AccessStep, ReadIncidents, ResolveStop, CheckStop, ReadBoarding, ReturnAccess, Running
<1>b. \A sources : call' \in {call, Failing(sources)} => call'.stage = "running"
  BY <1>a DEF Failing, ContextOK
<1>c. At \in Nat /\ At = Len(access.segments)
  BY DEF AccessRecord, At
<1>1. CASE ReadIncidents
  <2>1. PICK r, i : /\ access' = [access EXCEPT !.pc = "resolve", !.returned = r, !.incidents = i]
                    /\ \E sources : call' = Failing(sources)
    BY <1>1 DEF ReadIncidents
  <2>2. access' = [pc |-> "resolve", stops |-> access.stops, segments |-> access.segments,
                   returned |-> r, incidents |-> i, overall |-> access.overall]
    BY <2>1 DEF AccessRecord
  <2>3. At' = At /\ access'.segments = access.segments /\ call'.stage = "running"
    BY <1>b, <2>1, <2>2 DEF At
  <2>4. AccessRecord'
    BY <2>2 DEF AccessRecord
  <2>5. SegmentsDecided' /\ AnswerDecided'
    BY <2>2, <2>3 DEF SegmentsDecided, AnswerDecided
  <2> QED  BY <2>2, <2>3, <2>4, <2>5
<1>2. CASE ResolveStop
  <2>1. PICK segment, pc :
          /\ access' = [access EXCEPT !.pc = pc, !.segments = Append(@, segment)]
          /\ (\E sources : call' = Failing(sources)) /\ access.pc = "resolve"
          /\ \/ pc \in {"check", "resolve"} /\ segment \in {Unresolved, [Unresolved EXCEPT !.resolved = TRUE]}
             \/ /\ pc = "boarding"
                /\ segment = [Unresolved EXCEPT !.resolved = TRUE, !.status = "inaccessible",
                                                !.evidence = {<<"incident", "inaccessible">>}]
    <3>1. PICK found, matched :
          LET segment == IF matched
                         THEN [Unresolved EXCEPT !.resolved = TRUE, !.status = "inaccessible",
                                                 !.evidence = {<<"incident", "inaccessible">>}]
                         ELSE [Unresolved EXCEPT !.resolved = TRUE]
          IN IF found
             THEN access' = [access EXCEPT !.pc = IF matched THEN "boarding" ELSE "check",
                                           !.segments = Append(@, segment)]
             ELSE access' = [access EXCEPT !.segments = Append(@, Unresolved)]
      BY <1>2 DEF ResolveStop
    <3>2. (\E sources : call' = Failing(sources)) /\ access.pc = "resolve"
      BY <1>2 DEF ResolveStop
    <3>3. CASE found /\ matched
      BY <3>1, <3>2, <3>3
    <3>4. CASE found /\ ~matched
      BY <3>1, <3>2, <3>4
    <3>5. CASE ~found
      <4>1. access' = [access EXCEPT !.pc = "resolve", !.segments = Append(@, Unresolved)]
        BY <3>1, <3>2, <3>5 DEF AccessRecord
      <4> QED  BY <3>2, <4>1
    <3> QED  BY <3>3, <3>4, <3>5
  <2>2. PICK q : q = Append(access.segments, segment)
    OBVIOUS
  <2>3. access' = [access EXCEPT !.pc = pc, !.segments = q]
    BY <2>1, <2>2 DEF AccessRecord
  <2>4. access' = [pc |-> pc, stops |-> access.stops, segments |-> q,
                   returned |-> access.returned, incidents |-> access.incidents, overall |-> access.overall]
    BY <2>3 DEF AccessRecord
  <2>5. segment \in Segments /\ segment.status = Worst(Told(segment)) /\ (pc = "check" => segment.evidence = {})
    <3>1. CASE pc \in {"check", "resolve"} /\ segment \in {Unresolved, [Unresolved EXCEPT !.resolved = TRUE]}
      <4>1. segment \in Segments /\ segment.status = "unknown" /\ segment.evidence = {}
        <5>1. CASE segment = Unresolved
          BY <5>1 DEF Unresolved, Segments, Verdicts
        <5>2. CASE segment = [Unresolved EXCEPT !.resolved = TRUE]
          <6>1. segment = [status |-> "unknown", resolved |-> TRUE, evidence |-> {}, unread |-> FALSE]
            BY <5>2 DEF Unresolved
          <6> QED  BY <6>1 DEF Segments, Verdicts
        <5> QED  BY <3>1, <5>1, <5>2
      <4> QED  BY <4>1 DEF Worst, Told
    <3>2. CASE /\ pc = "boarding"
               /\ segment = [Unresolved EXCEPT !.resolved = TRUE, !.status = "inaccessible",
                                               !.evidence = {<<"incident", "inaccessible">>}]
      <4>1. PICK e : e = {<<"incident", "inaccessible">>}
        OBVIOUS
      <4>2. segment = [status |-> "inaccessible", resolved |-> TRUE, evidence |-> e, unread |-> FALSE]
        BY <3>2, <4>1 DEF Unresolved
      <4>3. e \in SUBSET Evidence
        BY <4>1 DEF Evidence, Verdicts
      <4>4. "inaccessible" \in Told(segment)
        BY <4>1, <4>2 DEF Told
      <4>5. Worst(Told(segment)) = "inaccessible"
        BY <4>4 DEF Worst
      <4>6. segment \in Segments
        BY <4>2, <4>3 DEF Segments, Verdicts
      <4> QED  BY <3>2, <4>2, <4>5, <4>6
    <3> QED  BY <2>1, <3>1, <3>2
  <2>6. /\ access'.segments \in Seq(Segments) /\ At' = At + 1 /\ access'.segments[At'] = segment
        /\ \A i \in 1..At' : access'.segments[i].status = Worst(Told(access'.segments[i]))
    BY <2>2, <2>4, <2>5, AppendDecides
  <2>7. call'.stage = "running" /\ pc \in {"check", "resolve", "boarding"}
    BY <1>b, <2>1
  <2>8. AccessRecord' /\ AnswerDecided'
    BY <2>4, <2>6, <2>7 DEF AccessRecord, AnswerDecided
  <2>9. SegmentsDecided'
    BY <1>c, <2>4, <2>5, <2>6 DEF SegmentsDecided
  <2> QED  BY <2>4, <2>7, <2>8, <2>9
<1>3. ASSUME NEW pc \in {"boarding", "resolve"}, NEW segment \in Segments, At > 0,
             segment.status = Worst(Told(segment)), call'.stage = "running",
             access' = [access EXCEPT !.pc = pc, !.segments = [access.segments EXCEPT ![At] = segment]]
      PROVE  Goal
  <2>1. PICK q : q = [access.segments EXCEPT ![At] = segment]
    OBVIOUS
  <2>2. access' = [access EXCEPT !.pc = pc, !.segments = q]
    BY <1>3, <2>1
  <2>3. access' = [pc |-> pc, stops |-> access.stops, segments |-> q,
                   returned |-> access.returned, incidents |-> access.incidents, overall |-> access.overall]
    BY <2>2 DEF AccessRecord
  <2>4. /\ access'.segments \in Seq(Segments) /\ At' = At
        /\ \A i \in 1..At' : access'.segments[i].status = Worst(Told(access'.segments[i]))
    BY <1>3, <2>1, <2>3, ReplaceDecides
  <2>5. AccessRecord' /\ AnswerDecided'
    BY <2>3, <2>4 DEF AccessRecord, AnswerDecided
  <2>6. SegmentsDecided'
    BY <1>3, <2>3, <2>4 DEF SegmentsDecided
  <2> QED  BY <1>3, <2>3, <2>5, <2>6
<1>4. ASSUME NEW pc \in {"boarding", "resolve"}, call' \in {call} \cup {Failing({"accessibility_check"})},
             access.pc \in {"check", "boarding"}, access' = [access EXCEPT !.pc = pc]
      PROVE  Goal
  <2>1. access' = [pc |-> pc, stops |-> access.stops, segments |-> access.segments,
                   returned |-> access.returned, incidents |-> access.incidents, overall |-> access.overall]
    BY <1>4 DEF AccessRecord
  <2>2. AccessRecord' /\ AnswerDecided' /\ SegmentsDecided'
    BY <1>4, <2>1 DEF AccessRecord, AnswerDecided, SegmentsDecided, At
  <2> QED  BY <1>b, <1>4, <2>1, <2>2
<1>5. CASE CheckStop
  <2>1. CASE access' = [access EXCEPT !.pc = "boarding"] /\ call' = Failing({"accessibility_check"})
    BY <1>4, <1>5, <2>1 DEF CheckStop
  <2>2. CASE /\ \E verdict \in Verdicts :
                  access' = [access EXCEPT !.pc = "boarding", !.segments[At].status = verdict,
                               !.segments[At].evidence =
                                   IF verdict = "unknown" THEN @ ELSE @ \cup {<<"check_stop", verdict>>}]
             /\ UNCHANGED context
    <3>1. PICK verdict \in Verdicts :
            access' = [access EXCEPT !.pc = "boarding", !.segments[At].status = verdict,
                         !.segments[At].evidence =
                             IF verdict = "unknown" THEN @ ELSE @ \cup {<<"check_stop", verdict>>}]
      BY <2>2
    <3>2. access.pc = "check" /\ At > 0 /\ access.segments[At].evidence = {} /\ call'.stage = "running"
      BY <1>a, <1>5, <2>2 DEF CheckStop, SegmentsDecided, context
    <3>3. PICK s : s = access.segments[At]
      OBVIOUS
    <3>4. s \in Segments /\ s.evidence = {} /\ s.status = Worst(Told(s))
      BY <1>c, <3>2, <3>3 DEF AccessRecord, SegmentsDecided
    <3>5. PICK e : e = IF verdict = "unknown" THEN {} ELSE {<<"check_stop", verdict>>}
      OBVIOUS
    <3>6. PICK t : t = [s EXCEPT !.status = verdict, !.evidence = e]
      OBVIOUS
    <3>7. t = [status |-> verdict, resolved |-> s.resolved, evidence |-> e, unread |-> s.unread]
      BY <3>4, <3>6 DEF Segments
    <3>8. t \in Segments /\ t.status = verdict /\ t.evidence = e
      BY <3>4, <3>5, <3>7 DEF Segments, Evidence
    <3>9. t.status = Worst(Told(t))
      BY <3>4, <3>5, <3>8, VerdictDecides
    <3>10. access' = [access EXCEPT !.pc = "boarding", !.segments = [access.segments EXCEPT ![At] = t]]
      <4>1. t = [s EXCEPT !.status = verdict,
                          !.evidence = IF verdict = "unknown" THEN @ ELSE @ \cup {<<"check_stop", verdict>>}]
        BY <3>4, <3>5, <3>6
      <4> QED  BY <1>c, <3>1, <3>2, <3>3, <4>1 DEF AccessRecord
    <3> QED  BY <1>3, <3>2, <3>8, <3>9, <3>10
  <2> QED  BY <1>5, <2>1, <2>2 DEF CheckStop
<1>6. CASE ReadBoarding
  <2>1. call' = call /\ access.pc = "boarding" /\ At > 0 /\ call'.stage = "running"
    BY <1>a, <1>6 DEF ReadBoarding, context, SegmentsDecided
  <2>2. PICK s : s = access.segments[At]
    OBVIOUS
  <2>3. s \in Segments /\ s.status = Worst(Told(s))
    BY <1>c, <2>1, <2>2 DEF AccessRecord, SegmentsDecided
  <2>4. CASE access' = [access EXCEPT !.pc = "resolve"]
    BY <1>4, <2>1, <2>4
  <2>5. CASE access' = [access EXCEPT !.pc = "resolve", !.segments[At].unread = TRUE]
    <3>1. PICK t : t = [s EXCEPT !.unread = TRUE]
      OBVIOUS
    <3>2. t \in Segments /\ t.status = s.status /\ t.evidence = s.evidence
      BY <2>3, <3>1 DEF Segments
    <3>3. t.status = Worst(Told(t))
      BY <2>3, <3>2 DEF Told
    <3>4. access' = [access EXCEPT !.pc = "resolve", !.segments = [access.segments EXCEPT ![At] = t]]
      BY <1>c, <2>1, <2>2, <2>5, <3>1 DEF AccessRecord
    <3> QED  BY <1>3, <2>1, <3>2, <3>3, <3>4
  <2>6. CASE \E boarding \in 0..2 :
                access' = [access EXCEPT !.pc = "resolve",
                               !.segments[At].status = Declared(@, boarding),
                               !.segments[At].evidence = @ \cup {<<"boarding", DeclaredVerdict(boarding)>>}]
    <3>1. PICK boarding \in 0..2 :
                access' = [access EXCEPT !.pc = "resolve",
                               !.segments[At].status = Declared(@, boarding),
                               !.segments[At].evidence = @ \cup {<<"boarding", DeclaredVerdict(boarding)>>}]
      BY <2>6
    <3>2. PICK v, e : v = Declared(s.status, boarding) /\ e = s.evidence \cup {<<"boarding", DeclaredVerdict(boarding)>>}
      OBVIOUS
    <3>3. PICK t : t = [s EXCEPT !.status = v, !.evidence = e]
      OBVIOUS
    <3>4. t = [status |-> v, resolved |-> s.resolved, evidence |-> e, unread |-> s.unread]
      BY <2>3, <3>3 DEF Segments
    <3>5. v \in Verdicts /\ DeclaredVerdict(boarding) \in Verdicts
      BY <2>3, <3>2 DEF Declared, DeclaredVerdict, Verdicts, Segments
    <3>6. e \in SUBSET Evidence
      BY <2>3, <3>2, <3>5 DEF Segments, Evidence
    <3>7. t \in Segments /\ t.status = v /\ t.evidence = e
      BY <2>3, <3>4, <3>5, <3>6 DEF Segments
    <3>8. t.status = Worst(Told(t))
      BY <2>3, <3>2, <3>7, DeclaredDecides
    <3>9. access' = [access EXCEPT !.pc = "resolve", !.segments = [access.segments EXCEPT ![At] = t]]
      <4>1. access' = [access EXCEPT !.pc = "resolve", !.segments[At].status = v,
                                     !.segments[At].evidence = e]
        BY <2>2, <3>1, <3>2
      <4> QED  BY <1>c, <2>1, <2>2, <3>3, <4>1 DEF AccessRecord
    <3> QED  BY <1>3, <2>1, <3>7, <3>8, <3>9
  <2> QED  BY <1>6, <2>4, <2>5, <2>6 DEF ReadBoarding
<1>7. CASE ReturnAccess
  <2>1. PICK overall : overall = Aggregated({access.segments[i].status : i \in 1..access.stops})
    OBVIOUS
  <2>2. PICK n : n = [envelope EXCEPT !.status = "partial", !.degraded = TRUE]
    OBVIOUS
  <2>3. n.status = "partial" /\ n.degraded = TRUE /\ IsEnvelope(n)
    BY <2>2 DEF ContextOK, IsEnvelope
  <2>4. /\ access' = [access EXCEPT !.pc = "done", !.overall = overall] /\ At = access.stops
        /\ Handled(IF overall = "unknown" THEN n ELSE envelope, {})
    BY <1>7, <2>1, <2>2 DEF ReturnAccess
  <2>5. access' = [pc |-> "done", stops |-> access.stops, segments |-> access.segments,
                   returned |-> access.returned, incidents |-> access.incidents, overall |-> overall]
    BY <2>4 DEF AccessRecord
  <2>6. call'.stage = "handled" /\ (overall = "unknown" => envelope' = n)
    BY <1>a, <2>4 DEF Handled, Failing, ContextOK
  <2>7. At' = At /\ access'.segments = access.segments /\ access'.stops = access.stops
    BY <2>5 DEF At
  <2>8. AccessRecord'
    BY <2>5 DEF AccessRecord
  <2>9. SegmentsDecided'
    BY <2>5, <2>7 DEF SegmentsDecided
  <2>10. AnswerDecided'
    BY <2>1, <2>3, <2>4, <2>5, <2>6, <2>7 DEF AnswerDecided
  <2> QED  BY <2>5, <2>6, <2>8, <2>9, <2>10
<1> HIDE DEF Goal
<1>8. Goal
  BY <1>1, <1>2, <1>5, <1>6, <1>7 DEF AccessStep, Goal
<1> QED  BY <1>8 DEF Goal

(***************************************************************************)
(* The worst evidence of lyon_accessibility_check decides over each stop    *)
(* and over the request, in whatever order incidents, checks and timetables *)
(* tell it, for any number of stops; an answer that knows nothing is        *)
(* partial and degraded.                                                   *)
(***************************************************************************)
THEOREM EvidenceDecides == Spec => []WorstEvidenceDecides
<1>1. Init => ContextOK /\ WorstInv
  BY InitialContext DEF Init, InitContext, NoCall, WorstInv
<1>2. ContextOK /\ WorstInv /\ [Next]_vars => (ContextOK /\ WorstInv)'
  <2> SUFFICES ASSUME ContextOK, WorstInv, [Next]_vars
               PROVE  (ContextOK /\ WorstInv)'
    OBVIOUS
  <2>0. ContextOK'
    BY SameCall, NextContext
  <2>1. CASE ~(call'.stage # "idle" /\ call'.tool = "access")
    BY <2>0, <2>1 DEF WorstInv
  <2>2. CASE call'.stage # "idle" /\ call'.tool = "access"
    <3>1. CASE Begin /\ call.stage = "idle"
      <4>1. PICK offline \in BOOLEAN, stops \in 0..MaxStops, stepFree \in BOOLEAN :
              BeginAccess(stops, stepFree, offline)
        BY <2>2, <3>1, BeginKinds DEF PlaceToolNames
      <4>2. CASE stops = 0
        <5>1. envelope' = NewEnvelope("invalid_request")
          BY <4>1, <4>2 DEF BeginAccess
        <5>2. call'.stage = "handled"
          BY <4>1, <4>2 DEF BeginAccess, NoCall
        <5> QED  BY <2>0, <5>1, <5>2, NewIsEnvelope DEF WorstInv, Refused
      <4>3. CASE stops # 0
        <5>1. call'.stage = "running"
          BY <4>1, <4>3 DEF BeginAccess, NoCall
        <5>2. access' = [pc |-> "incidents", stops |-> stops, segments |-> <<>>, returned |-> {},
                         incidents |-> {}, overall |-> "unknown"]
          BY <4>1 DEF BeginAccess, NoAccess
        <5>3. AccessRecord'
          BY <5>2 DEF AccessRecord
        <5>4. At' = 0
          BY <5>2 DEF At
        <5>5. SegmentsDecided' /\ AnswerDecided'
          BY <5>2, <5>4 DEF SegmentsDecided, AnswerDecided
        <5> QED  BY <2>0, <5>1, <5>2, <5>3, <5>5 DEF WorstInv
      <4> QED  BY <4>2, <4>3
    <3>2. CASE AccessStep /\ Inside
      <4>1. AccessRecord /\ SegmentsDecided /\ access.pc # "done"
        BY <2>2, <3>2, AccessContext DEF WorstInv, Refused, Inside
      <4> QED  BY <2>0, <3>2, <4>1, WorstStep DEF WorstInv
    <3>3. CASE Still /\ UNCHANGED access
      <4>1. CASE Refused
        BY <2>0, <3>3, <4>1, StillKeeps DEF WorstInv, Refused, Sent
      <4>2. CASE ~Refused
        <5>1. /\ AccessRecord /\ SegmentsDecided /\ AnswerDecided
              /\ call.stage = "running" <=> access.pc # "done"
          BY <2>2, <3>3, <4>2, StillKeeps DEF WorstInv, Still
        <5>2. AccessRecord' /\ SegmentsDecided'
          BY <3>3, <5>1 DEF AccessRecord, SegmentsDecided, At
        <5>3. AnswerDecided'
          BY <3>3, <5>1, StillKeeps DEF AnswerDecided, At, Sent
        <5> QED  BY <2>0, <3>3, <5>1, <5>2, <5>3, StillKeeps DEF WorstInv
      <4> QED  BY <4>1, <4>2
    <3> QED  BY <2>2, <3>1, <3>2, <3>3, ToolSteps DEF Inside, PlaceToolNames
  <2> QED  BY <2>1, <2>2
<1>3. WorstInv => WorstEvidenceDecides
  <2> SUFFICES ASSUME WorstInv, Answered("access") PROVE WorstEvidenceDecides
    BY DEF WorstEvidenceDecides
  <2>1. /\ AccessRecord /\ SegmentsDecided /\ AnswerDecided /\ access.pc = "done"
    BY DEF WorstInv, Answered, Refused, AccessRecord
  <2>2. PICK n : n = access.stops
    OBVIOUS
  <2>3. /\ \A i \in 1..n : access.segments[i].status = Worst(Told(access.segments[i]))
        /\ access.overall = Aggregated({access.segments[i].status : i \in 1..n})
        /\ access.overall = "unknown" => envelope.degraded = TRUE /\ envelope.status = "partial"
    BY <2>1, <2>2 DEF SegmentsDecided, AnswerDecided
  <2>4. PICK told : told = UNION {Told(access.segments[i]) : i \in 1..n}
    OBVIOUS
  <2>5. access.overall = Worst(told)
    <3>1. PICK statuses : statuses = {access.segments[i].status : i \in 1..n}
      OBVIOUS
    <3>2. "inaccessible" \in statuses <=> "inaccessible" \in told
      BY <2>3, <2>4, <3>1 DEF Worst
    <3>3. CASE "inaccessible" \in told
      BY <2>3, <3>1, <3>2, <3>3 DEF Aggregated, Worst
    <3>4. CASE "inaccessible" \notin told
      <4>1. statuses \subseteq {"unknown"} <=> "partially_accessible" \notin told
        BY <2>3, <2>4, <3>1, <3>4 DEF Worst
      <4>2. CASE statuses \subseteq {"unknown"}
        <5>1. Aggregated(statuses) = "unknown"
          BY <3>2, <3>4, <4>2 DEF Aggregated
        <5> QED  BY <2>3, <3>1, <3>4, <4>1, <4>2, <5>1 DEF Worst
      <4>3. CASE ~(statuses \subseteq {"unknown"})
        <5>1. Aggregated(statuses) = "partially_accessible"
          BY <3>2, <3>4, <4>3 DEF Aggregated
        <5> QED  BY <2>3, <3>1, <3>4, <4>1, <4>3, <5>1 DEF Worst
      <4> QED  BY <4>2, <4>3
    <3> QED  BY <3>3, <3>4
  <2> QED  BY <2>2, <2>3, <2>4, <2>5 DEF WorstEvidenceDecides, Worst
<1> QED  BY <1>1, <1>2, <1>3, PTL DEF Spec

-----------------------------------------------------------------------------
(* The tools that look around a place.                                     *)

OfferRecord ==
    /\ offer = [pc |-> offer.pc, filter |-> offer.filter, class |-> offer.class, asked |-> offer.asked,
                rows |-> offer.rows, kept |-> offer.kept]
    /\ offer.filter \in BOOLEAN

\* What OkIsVouchedFor asks of the answer of a tool.
Vouched(tool) ==
    /\ tool = "parking" => offer.kept \subseteq {"fresh"}
    /\ tool = "facilities" => ~(offer.filter /\ "unverified" \in offer.rows)
    /\ tool = "waste" =>
          \A row \in offer.rows : \/ row[1] = "refuses"
                                  \/ row[1] = "accepts" /\ (offer.filter => row[2] # "unverified")
    /\ tool = "environment" => offer.asked = offer.kept

\* Nothing is kept before the read; an answer that is ok is vouched for.
VouchedInv ==
    call.stage # "idle" /\ call.tool \in PlaceToolNames =>
        /\ OfferRecord
        /\ call.stage = "running" => offer.rows = {} /\ offer.kept = {}
        /\ call.stage # "running" /\ envelope.status = "ok" => Vouched(call.tool)

LEMMA UnreadableEffect ==
  ASSUME NEW tool
  PROVE  /\ Unreadable(tool).status = "unavailable" /\ Unreadable(tool).degraded = TRUE
         /\ <<"SOURCE_UNAVAILABLE", SourceOf(tool)>> \in Unreadable(tool).warnings
<1>1. PICK n : n = NewEnvelope("unavailable")
  OBVIOUS
<1>2. IsEnvelope(n) /\ n.status = "unavailable"
  BY <1>1, NewIsEnvelope
<1>3. PICK s : s = SourceOf(tool)
  OBVIOUS
<1>4. PICK w : w = Warn(n, "SOURCE_UNAVAILABLE", s)
  OBVIOUS
<1>5. w.status = "unavailable" /\ w.degraded = TRUE /\ <<"SOURCE_UNAVAILABLE", s>> \in w.warnings
  BY <1>2, <1>4, WarnEffect
<1>6. Unreadable(tool) = w
  BY <1>1, <1>3, <1>4 DEF Unreadable
<1> QED  BY <1>3, <1>5, <1>6

\* The read of an offer is over.
LEMMA ReturnEffect ==
  ASSUME ContextOK, OfferRecord, call.stage = "running", NEW tool, NEW rows, NEW err, NEW kept, NEW e,
         ReturnOffer(tool, rows, err, kept, e)
  PROVE  /\ OfferRecord' /\ offer'.rows = rows /\ offer'.kept = kept
         /\ offer'.filter = offer.filter /\ offer'.asked = offer.asked
         /\ envelope' = e /\ call'.stage = "handled"
<1>1. PICK sources : Handled(e, sources)
  BY DEF ReturnOffer
<1>2. offer' = [pc |-> "done", filter |-> offer.filter, class |-> offer.class, asked |-> offer.asked,
                rows |-> rows, kept |-> kept]
  BY DEF ReturnOffer, OfferRecord
<1>3. envelope' = e /\ call'.stage = "handled"
  BY <1>1 DEF Handled, Failing, ContextOK
<1> QED  BY <1>2, <1>3 DEF OfferRecord

LEMMA VouchedStep ==
  ASSUME ContextOK, OfferRecord, offer.rows = {}, offer.kept = {}, call.stage = "running",
         call.tool \in PlaceToolNames, PlaceToolsStep
  PROVE  /\ OfferRecord'
         /\ call'.stage = "running" => offer'.rows = {} /\ offer'.kept = {}
         /\ call'.stage # "running" /\ envelope'.status = "ok" => Vouched(call.tool)'
<1> DEFINE Goal == /\ OfferRecord'
                   /\ call'.stage = "running" => offer'.rows = {} /\ offer'.kept = {}
                   /\ call'.stage # "running" /\ envelope'.status = "ok" => Vouched(call.tool)'
<1>0. IsEnvelope(envelope) /\ call'.tool = call.tool
  BY OfferContext DEF ContextOK, Inside
<1>1. ASSUME NEW e, NEW sources, FinishOffer(e, sources), call.tool = "waste" \/ e.status = "not_found"
      PROVE  Goal
  <2>1. offer' = [pc |-> "done", filter |-> offer.filter, class |-> offer.class, asked |-> offer.asked,
                  rows |-> {}, kept |-> {}]
    BY <1>1 DEF FinishOffer, OfferRecord
  <2>2. envelope' = e /\ call'.stage = "handled"
    BY <1>1 DEF FinishOffer, Handled, Failing, ContextOK
  <2>3. OfferRecord'
    BY <2>1 DEF OfferRecord
  <2>4. call.tool = "waste" => Vouched(call.tool)'
    BY <1>0, <2>1 DEF Vouched
  <2> QED  BY <1>1, <2>1, <2>2, <2>3, <2>4
<1>2. CASE Classify
  <2>1. CASE \E e, sources : FinishOffer(e, sources)
    <3>1. PICK e, sources : FinishOffer(e, sources)
      BY <2>1
    <3>2. call.tool = "waste"
      BY <1>2 DEF Classify, Running
    <3> QED  BY <1>1, <3>1, <3>2
  <2>2. CASE ~\E e, sources : FinishOffer(e, sources)
    <3>1. PICK class : offer' = [offer EXCEPT !.pc = "resolve", !.class = class] /\ call' = call
      BY <1>2, <2>2 DEF Classify
    <3>2. offer' = [pc |-> "resolve", filter |-> offer.filter, class |-> class, asked |-> offer.asked,
                    rows |-> {}, kept |-> {}]
      BY <3>1 DEF OfferRecord
    <3> QED  BY <3>1, <3>2 DEF OfferRecord
  <2> QED  BY <2>1, <2>2
<1>3. CASE \E tool \in PlaceToolNames : ResolveCentre(tool)
  <2>1. \/ offer' = [offer EXCEPT !.pc = "read"] /\ \E sources : call' = Failing(sources)
        \/ \E sources : FinishOffer(NewEnvelope("not_found"), sources)
    BY <1>3 DEF ResolveCentre
  <2>2. CASE offer' = [offer EXCEPT !.pc = "read"] /\ \E sources : call' = Failing(sources)
    <3>1. offer' = [pc |-> "read", filter |-> offer.filter, class |-> offer.class, asked |-> offer.asked,
                    rows |-> {}, kept |-> {}]
      BY <2>2 DEF OfferRecord
    <3>2. call'.stage = "running"
      BY <2>2 DEF Failing, ContextOK
    <3> QED  BY <3>1, <3>2 DEF OfferRecord
  <2>3. CASE \E sources : FinishOffer(NewEnvelope("not_found"), sources)
    BY <1>1, <2>3, NewIsEnvelope
  <2> QED  BY <2>1, <2>2, <2>3
<1>4. CASE ParkingOptions
  <2>1. PICK rows \in Rows("parking"), err \in BOOLEAN : \E k \in SUBSET rows :
          ReturnOffer("parking", rows, err, k,
                      IF err /\ rows = {} THEN Unreadable("parking") ELSE ParkingEnvelope(k, err))
    BY <1>4 DEF ParkingOptions
  <2>2. PICK kept \in SUBSET rows :
          ReturnOffer("parking", rows, err, kept,
                      IF err /\ rows = {} THEN Unreadable("parking") ELSE ParkingEnvelope(kept, err))
    BY <2>1
  <2>3. PICK u, p : u = Unreadable("parking") /\ p = ParkingEnvelope(kept, err)
    OBVIOUS
  <2>4. PICK e : e = IF err /\ rows = {} THEN u ELSE p
    OBVIOUS
  <2>5. ReturnOffer("parking", rows, err, kept, e)
    BY <2>2, <2>3, <2>4
  <2>6. u.status = "unavailable" /\ (p.status = "ok" => kept \cap {"unknown", "undated", "stale"} = {})
    BY <2>3, UnreadableEffect, ParkingEnvelopeEffect
  <2>7. kept \subseteq Occupancies
    BY <2>1, <2>2 DEF Rows
  <2>8. /\ OfferRecord' /\ offer'.kept = kept /\ envelope' = e /\ call'.stage = "handled"
    BY <2>5, ReturnEffect
  <2>9. call'.tool = "parking"
    BY <1>0, <1>4 DEF ParkingOptions, Reading, Running
  <2> QED  BY <2>4, <2>6, <2>7, <2>8, <2>9 DEF Vouched, Occupancies
<1>5. CASE NearbyFacilities
  <2>1. PICK rows \in Rows("facilities"), err \in BOOLEAN :
          ReturnOffer("facilities", rows, err, {row \in rows : IsOpen(row)},
                      IF err /\ rows = {} THEN Unreadable("facilities") ELSE FacilitiesEnvelope(rows, err))
    BY <1>5 DEF NearbyFacilities
  <2>2. PICK u, p : u = Unreadable("facilities") /\ p = FacilitiesEnvelope(rows, err)
    OBVIOUS
  <2>3. PICK e : e = IF err /\ rows = {} THEN u ELSE p
    OBVIOUS
  <2>4. PICK kept : ReturnOffer("facilities", rows, err, kept, e)
    BY <2>1, <2>2, <2>3
  <2>5. u.status = "unavailable" /\ (p.status = "ok" => ~(offer.filter /\ "unverified" \in rows))
    BY <2>2, UnreadableEffect, FacilitiesEnvelopeEffect
  <2>6. /\ OfferRecord' /\ offer'.rows = rows /\ offer'.filter = offer.filter /\ envelope' = e
        /\ call'.stage = "handled"
    BY <2>4, ReturnEffect
  <2>7. call'.tool = "facilities"
    BY <1>0, <1>5 DEF NearbyFacilities, Reading, Running
  <2> QED  BY <2>3, <2>5, <2>6, <2>7 DEF Vouched
<1>6. CASE WasteDropoff
  <2>1. PICK rows \in Rows("waste"), err \in BOOLEAN :
          ReturnOffer("waste", rows, err, {row \in rows : row[1] # "refuses" /\ IsOpen(row[2])},
                      WasteEnvelope(rows, err))
    BY <1>6 DEF WasteDropoff
  <2>2. PICK e : e = WasteEnvelope(rows, err)
    OBVIOUS
  <2>3. PICK kept : ReturnOffer("waste", rows, err, kept, e)
    BY <2>1, <2>2
  <2>4. e.status = "ok" =>
           \A row \in rows : row[1] # "refuses" =>
              row[1] # "unverified" /\ (offer.filter => row[2] # "unverified")
    BY <1>0, <2>2, WasteEnvelopeEffect
  <2>5. \A row \in rows : row[1] \in {"accepts", "unverified", "refuses"}
    BY <2>1 DEF Rows, DropOffs
  <2>6. /\ OfferRecord' /\ offer'.rows = rows /\ offer'.filter = offer.filter /\ envelope' = e
        /\ call'.stage = "handled"
    BY <2>3, ReturnEffect
  <2>7. call'.tool = "waste"
    BY <1>0, <1>6 DEF WasteDropoff, Reading, Running
  <2> QED  BY <2>4, <2>5, <2>6, <2>7 DEF Vouched
<1>7. CASE EnvironmentBrief
  <2>1. PICK rows :
          \/ ReturnOffer("environment", {}, TRUE, {}, Unreadable("environment"))
          \/ ReturnOffer("environment", rows, FALSE, Supported(rows), EnvironmentEnvelope(rows))
    BY <1>7 DEF EnvironmentBrief
  <2>2. PICK u, p : u = Unreadable("environment") /\ p = EnvironmentEnvelope(rows)
    OBVIOUS
  <2>3. PICK supported : supported = Supported(rows)
    OBVIOUS
  <2>4. u.status = "unavailable" /\ (p.status = "ok" => offer.asked = supported)
    BY <2>2, <2>3, UnreadableEffect, EnvironmentEnvelopeEffect
  <2>5. call'.tool = "environment"
    BY <1>0, <1>7 DEF EnvironmentBrief, Reading, Running, ReturnOffer
  <2>6. CASE ReturnOffer("environment", {}, TRUE, {}, u)
    BY <2>4, <2>6, ReturnEffect
  <2>7. CASE ReturnOffer("environment", rows, FALSE, supported, p)
    <3>1. /\ OfferRecord' /\ offer'.kept = supported /\ offer'.asked = offer.asked /\ envelope' = p
          /\ call'.stage = "handled"
      BY <2>7, ReturnEffect
    <3> QED  BY <2>4, <2>5, <3>1 DEF Vouched
  <2> QED  BY <2>1, <2>2, <2>3, <2>6, <2>7
<1> HIDE DEF Goal
<1>8. Goal
  BY <1>2, <1>3, <1>4, <1>5, <1>6, <1>7 DEF PlaceToolsStep, Goal
<1> QED  BY <1>8 DEF Goal

(***************************************************************************)
(* An answer of lyon_parking_options, lyon_nearby_facilities,               *)
(* lyon_waste_dropoff or lyon_environment_brief that is ok has only what    *)
(* its source vouches for, whatever rows, errors and deadlines there were.  *)
(***************************************************************************)
THEOREM OkAnswersAreVouchedFor == Spec => []OkIsVouchedFor
<1>1. Init => ContextOK /\ VouchedInv
  BY InitialContext DEF Init, InitContext, NoCall, VouchedInv
<1>2. ContextOK /\ VouchedInv /\ [Next]_vars => (ContextOK /\ VouchedInv)'
  <2> SUFFICES ASSUME ContextOK, VouchedInv, [Next]_vars
               PROVE  (ContextOK /\ VouchedInv)'
    OBVIOUS
  <2>0. ContextOK'
    BY SameCall, NextContext
  <2>1. CASE ~(call'.stage # "idle" /\ call'.tool \in PlaceToolNames)
    BY <2>0, <2>1 DEF VouchedInv, PlaceToolNames
  <2>2. CASE call'.stage # "idle" /\ call'.tool \in PlaceToolNames
    <3>1. CASE Begin /\ call.stage = "idle"
      <4>1. PICK offline \in BOOLEAN, filter \in BOOLEAN, asked \in (SUBSET Indicators) \ {{}} :
              BeginPlaceTool(call'.tool, filter, asked, offline)
        BY <2>2, <3>1, BeginKinds DEF PlaceToolNames
      <4>2. PICK pc : offer' = [NoOffer EXCEPT !.pc = pc, !.filter = filter, !.asked = asked]
        BY <4>1 DEF BeginPlaceTool
      <4>3. offer' = [pc |-> pc, filter |-> filter, class |-> "none", asked |-> asked,
                      rows |-> {}, kept |-> {}]
        BY <4>2 DEF NoOffer
      <4>4. call'.stage = "running"
        BY <4>1, EnterEffect DEF BeginPlaceTool
      <4> QED  BY <2>0, <4>3, <4>4 DEF VouchedInv, OfferRecord
    <3>2. CASE PlaceToolsStep /\ Inside
      <4>1. OfferRecord /\ offer.rows = {} /\ offer.kept = {} /\ call.stage = "running" /\ call.tool \in PlaceToolNames
        BY <2>2, <3>2, OfferContext DEF VouchedInv, Inside
      <4> QED  BY <2>0, <3>2, <4>1, VouchedStep DEF VouchedInv
    <3>3. CASE Still /\ UNCHANGED offer
      <4>1. /\ OfferRecord
            /\ call.stage = "running" => offer.rows = {} /\ offer.kept = {}
            /\ call.stage # "running" /\ envelope.status = "ok" => Vouched(call.tool)
        BY <2>2, <3>3, StillKeeps DEF VouchedInv, Still
      <4>2. OfferRecord' /\ (Vouched(call.tool) => Vouched(call.tool)')
        BY <3>3, <4>1, StillKeeps DEF OfferRecord, Vouched
      <4>3. call'.stage = "running" => call.stage = "running"
        BY StillKeeps, <3>3
      <4>4. call'.stage # "running" /\ envelope'.status = "ok" => call.stage # "running" /\ envelope.status = "ok"
        BY StillKeeps, <3>3 DEF Sent
      <4> QED  BY <2>0, <3>3, <4>1, <4>2, <4>3, <4>4 DEF VouchedInv
    <3> QED  BY <2>2, <3>1, <3>2, <3>3, ToolSteps DEF Inside, PlaceToolNames
  <2> QED  BY <2>1, <2>2
<1>3. VouchedInv => OkIsVouchedFor
  <2> SUFFICES ASSUME VouchedInv, call.stage = "answered", envelope.status = "ok"
               PROVE  OkIsVouchedFor
    BY DEF OkIsVouchedFor
  <2>1. call.tool \in PlaceToolNames => Vouched(call.tool)
    BY DEF VouchedInv
  <2>2. CASE call.tool = "parking"
    BY <2>1, <2>2 DEF Vouched, PlaceToolNames, OkIsVouchedFor
  <2>3. CASE call.tool = "facilities"
    BY <2>1, <2>3 DEF Vouched, PlaceToolNames, OkIsVouchedFor
  <2>4. CASE call.tool = "waste"
    BY <2>1, <2>4 DEF Vouched, PlaceToolNames, OkIsVouchedFor
  <2>5. CASE call.tool = "environment"
    BY <2>1, <2>5 DEF Vouched, PlaceToolNames, OkIsVouchedFor
  <2>6. CASE call.tool \notin PlaceToolNames
    BY <2>6 DEF PlaceToolNames, OkIsVouchedFor
  <2> QED  BY <2>2, <2>3, <2>4, <2>5, <2>6 DEF PlaceToolNames
<1> QED  BY <1>1, <1>2, <1>3, PTL DEF Spec

-----------------------------------------------------------------------------
(* lyon_trip_options: the order of its steps.                              *)

Order == <<"origin", "destination", "velov", "velov-to", "park_and_ride", "tcl", "evaluate">>

\* The least of some natural numbers.
LEMMA MinIsLeast ==
  ASSUME NEW S \in SUBSET Nat, S # {}
  PROVE  Min(S) \in S /\ \A y \in S : Min(S) <= y
<1>1. \E x \in S : \A y \in S : x <= y
  <2>1. IsWellFoundedOn(OpToRel(<, Nat), Nat)
    BY NatLessThanWellFounded
  <2>2. PICK x \in S : \A y \in S : ~(<<y, x>> \in OpToRel(<, Nat))
    BY <2>1, WFMin
  <2>3. \A y \in S : ~(y < x)
    BY <2>2 DEF OpToRel
  <2> QED  BY <2>3
<1> QED  BY <1>1 DEF Min

LEMMA AfterIsLater ==
  ASSUME NEW modes \in SUBSET Modes
  PROVE  /\ After("destination", modes) \in {"velov", "park_and_ride", "tcl", "evaluate"}
         /\ After("velov-to", modes) \in {"park_and_ride", "tcl", "evaluate"}
         /\ After("park_and_ride", modes) \in {"tcl", "evaluate"}
         /\ After("tcl", modes) = "evaluate"
<1>1. ASSUME NEW place \in 1..6
      PROVE  /\ (CHOOSE i \in DOMAIN Order : Order[i] = Order[place]) = place
             /\ After(Order[place], modes) \in {Order[i] : i \in {j \in (place + 1)..7 :
                                                  Order[j] \in modes \cup {"evaluate"}}}
  <2>1. DOMAIN Order = 1..7
    BY DEF Order
  <2>2. \A i \in 1..7 : Order[i] = Order[place] => i = place
    BY DEF Order
  <2>3. (CHOOSE i \in DOMAIN Order : Order[i] = Order[place]) = place
    BY <2>1, <2>2
  <2>4. PICK S : S = {i \in DOMAIN Order : i > place /\ Order[i] \in modes \cup {"evaluate"}}
    OBVIOUS
  <2>5. S \in SUBSET Nat /\ 7 \in S
    BY <2>1, <2>4 DEF Order
  <2>6. Min(S) \in S
    BY <2>5, MinIsLeast
  <2>7. After(Order[place], modes) = Order[Min(S)]
    BY <2>3, <2>4 DEF After, Order
  <2> QED  BY <2>1, <2>3, <2>4, <2>6, <2>7
<1>2. /\ Order[2] = "destination" /\ Order[3] = "velov" /\ Order[4] = "velov-to"
      /\ Order[5] = "park_and_ride" /\ Order[6] = "tcl" /\ Order[7] = "evaluate"
  BY DEF Order
<1>3. After("destination", modes) \in {Order[i] : i \in {3, 5, 6, 7}}
  BY <1>1, <1>2 DEF Modes
<1>4. After("velov-to", modes) \in {Order[i] : i \in {5, 6, 7}}
  BY <1>1, <1>2
<1>5. After("park_and_ride", modes) \in {Order[i] : i \in {6, 7}}
  BY <1>1, <1>2
<1>6. After("tcl", modes) \in {Order[i] : i \in {7}}
  BY <1>1, <1>2
<1> QED  BY <1>2, <1>3, <1>4, <1>5, <1>6

-----------------------------------------------------------------------------
(* lyon_trip_options: what an option is.                                   *)

Conveys(o, transit) ==
    /\ o.walking = transit.walking /\ o.arrives = transit.arrives
    /\ o.alerts = transit.alerts /\ o.accessible = transit.accessible

\* A pair of stations that was usable when it was taken.
PairTaken(pair) ==
    /\ pair[1].open /\ pair[1].bikes >= Request.bikes /\ pair[2].open /\ pair[2].docks >= Request.docks
    /\ call.offline \/ (pair[1].fresh /\ pair[2].fresh)
    /\ PairWalking(pair) <= Request.walking

\* An option says of its parts what their sources say.
Truthful(o) ==
    /\ o.mode \in Modes
    /\ o.mode = "walk" => /\ o.walking = Destination /\ o.arrives = (Destination * 5) \div 7
                          /\ o.accessible = FALSE
    /\ o.mode = "car" => o.arrives = Destination \div 8 /\ o.accessible = FALSE
    /\ o.mode = "velov" => /\ PairTaken(o.parts) /\ o.walking = PairWalking(o.parts)
                           /\ o.arrives = PairDuration(o.parts) /\ o.accessible = FALSE
    /\ o.mode = "tcl" /\ o.evidence # "unavailable" => Conveys(o, o.parts[1])
    /\ o.mode = "park_and_ride" /\ o.evidence # "unavailable" =>
          /\ Conveys(o, o.parts[2]) /\ o.parts[2].departs >= CarArrival(o.parts[1])
          /\ o.known = o.parts[1].known
          /\ o.stale <=> o.parts[1].known /\ ~call.offline /\ ~o.parts[1].fresh
          /\ Chain(o.parts[2].legs, o.parts[2].departs, o.parts[2].arrives)
                => Chain(o.legs, 0, o.arrives)

IsCarPark(p) == p.at \in Nat /\ p.known \in BOOLEAN /\ p.fresh \in BOOLEAN

IsItinerary(t) ==
    /\ t.departs \in Int /\ t.arrives \in Int /\ t.departs < t.arrives
    /\ t.walking \in Int \cup {Unknown} /\ t.alerts \in BOOLEAN /\ t.accessible \in BOOLEAN
    /\ t.legs \in Seq(Int \X Int)

LEMMA EstimatedTruthful ==
  ASSUME NEW o \in Estimated
  PROVE  Truthful(o)
<1>1. CASE o = Option("walk", "estimated", Destination, 0, (Destination * 5) \div 7)
  <2>1. /\ o.mode = "walk" /\ o.walking = Destination /\ o.arrives = (Destination * 5) \div 7
        /\ o.accessible = FALSE
    BY <1>1 DEF Option
  <2> QED  BY <2>1 DEF Truthful, Modes
<1>2. CASE o = Option("car", "estimated", 0, 0, Destination \div 8)
  <2>1. o.mode = "car" /\ o.arrives = Destination \div 8 /\ o.accessible = FALSE
    BY <1>2 DEF Option
  <2> QED  BY <2>1 DEF Truthful, Modes
<1> QED  BY <1>1, <1>2 DEF Estimated

LEMMA VelovFields ==
  ASSUME NEW pair, NEW o, o = VelovOption(pair)
  PROVE  /\ o.mode = "velov" /\ o.evidence = "estimated" /\ o.parts = pair
         /\ o.walking = PairWalking(pair) /\ o.arrives = PairDuration(pair)
         /\ o.alerts = FALSE /\ o.accessible = FALSE
BY DEF VelovOption, Option

LEMMA VelovTruthful ==
  ASSUME NEW pair, PairTaken(pair)
  PROVE  Truthful(VelovOption(pair))
<1>1. PICK o : o = VelovOption(pair)
  OBVIOUS
<1>2. /\ o.mode = "velov" /\ o.parts = pair /\ o.walking = PairWalking(pair)
      /\ o.arrives = PairDuration(pair) /\ o.accessible = FALSE
  BY <1>1, VelovFields
<1>3. Truthful(o)
  BY <1>2 DEF Truthful, Modes
<1> QED  BY <1>1, <1>3

LEMMA TransitFields ==
  ASSUME NEW transit, NEW o, o = TransitOption(transit)
  PROVE  /\ o.mode = "tcl" /\ o.evidence = "calculated" /\ o.parts = <<transit>>
         /\ Conveys(o, transit)
BY DEF TransitOption, Option, Conveys

LEMMA TransitTruthful ==
  ASSUME NEW transit
  PROVE  Truthful(TransitOption(transit))
<1>1. PICK o : o = TransitOption(transit)
  OBVIOUS
<1>2. o.mode = "tcl" /\ o.parts[1] = transit /\ Conveys(o, transit)
  BY <1>1, TransitFields
<1>3. Truthful(o)
  BY <1>2 DEF Truthful, Modes
<1> QED  BY <1>1, <1>3

LEMMA NoItineraryTruthful ==
  Truthful(NoItinerary)
<1>1. PICK o : o = NoItinerary
  OBVIOUS
<1>2. o.mode = "tcl" /\ o.evidence = "unavailable"
  BY <1>1 DEF NoItinerary, Option
<1>3. Truthful(o)
  BY <1>2 DEF Truthful, Modes
<1> QED  BY <1>1, <1>3

LEMMA ParkTruthful ==
  ASSUME NEW park
  PROVE  Truthful(ParkOption(park))
<1>1. PICK o : o = ParkOption(park)
  OBVIOUS
<1>2. o.mode = "park_and_ride" /\ o.evidence = "unavailable"
  BY <1>1 DEF ParkOption, Option
<1>3. Truthful(o)
  BY <1>2 DEF Truthful, Modes
<1> QED  BY <1>1, <1>3

\* A leg that ends where a chain begins makes it a longer one.
LEMMA LegBefore ==
  ASSUME NEW from \in Int, NEW mid \in Int, from <= mid, NEW to,
         NEW legs \in Seq(Int \X Int), Chain(legs, mid, to)
  PROVE  /\ Chain(<<<<from, mid>>>> \o legs, from, to)
         /\ <<<<from, mid>>>> \o legs \in Seq(Int \X Int)
<1>1. PICK n \in Nat : n = Len(legs) /\ n > 0
  <2>1. PICK n : n = Len(legs)
    OBVIOUS
  <2>2. n > 0 /\ n \in Nat
    BY <2>1 DEF Chain
  <2> QED  BY <2>1, <2>2
<1>2. PICK first, p : first = <<from, mid>> /\ p = <<first>> \o legs
  OBVIOUS
<1>3. first \in Int \X Int /\ first[1] = from /\ first[2] = mid
  BY <1>2
<1>4. <<first>> \in Seq(Int \X Int) /\ Len(<<first>>) = 1 /\ <<first>>[1] = first
  BY <1>3
<1>5. /\ p \in Seq(Int \X Int) /\ Len(p) = n + 1 /\ p[1] = first
      /\ \A i \in 1..n : p[i + 1] = legs[i]
  BY <1>1, <1>2, <1>4
<1>6. p[1][1] = from /\ p[n + 1][2] = to
  BY <1>1, <1>3, <1>5 DEF Chain
<1>7. ASSUME NEW i \in 1..(n + 1) PROVE p[i][1] <= p[i][2]
  <2>1. CASE i = 1
    BY <1>3, <1>5, <2>1
  <2>2. CASE i # 1
    <3>1. PICK j \in 1..n : i = j + 1
      BY <1>1, <2>2
    <3> QED  BY <1>1, <1>5, <3>1 DEF Chain
  <2> QED  BY <2>1, <2>2
<1>8. ASSUME NEW i \in 1..n PROVE p[i][2] = p[i + 1][1]
  <2>1. CASE i = 1
    BY <1>1, <1>3, <1>5, <2>1 DEF Chain
  <2>2. CASE i # 1
    <3>1. PICK j \in 1..(n - 1) : i = j + 1
      BY <1>1, <2>2
    <3>2. j \in 1..n /\ j + 1 \in 1..n
      BY <1>1, <3>1
    <3>3. p[j + 1] = legs[j] /\ p[(j + 1) + 1] = legs[j + 1]
      BY <1>5, <3>2
    <3>4. p[i] = legs[j] /\ p[i + 1] = legs[j + 1]
      BY <3>1, <3>3
    <3> QED  BY <1>1, <3>1, <3>4 DEF Chain
  <2> QED  BY <2>1, <2>2
<1>9. Chain(p, from, to)
  BY <1>1, <1>5, <1>6, <1>7, <1>8 DEF Chain
<1> QED  BY <1>2, <1>5, <1>9

\* The legs of a park-and-ride option: by car, perhaps a wait, by transit.
LEMMA ParkLegsChain ==
  ASSUME NEW park, IsCarPark(park), NEW transit, IsItinerary(transit), ~Missed(park, transit),
         Chain(transit.legs, transit.departs, transit.arrives)
  PROVE  Chain(ParkLegs(park, transit), 0, transit.arrives)
<1>1. PICK car : car = CarArrival(park)
  OBVIOUS
<1>2. PICK t, a, legs : t = transit.departs /\ a = transit.arrives /\ legs = transit.legs
  OBVIOUS
<1>3. car \in Int /\ 0 <= car /\ t \in Int /\ car <= t
  <2>1. PICK at : at = park.at
    OBVIOUS
  <2>2. at \in Nat /\ car = at \div 8
    BY <1>1, <2>1 DEF IsCarPark, CarArrival
  <2>3. car \in Int /\ 0 <= car
    BY <2>2
  <2>4. t \in Int /\ ~(t < car)
    BY <1>1, <1>2 DEF IsItinerary, Missed
  <2> QED  BY <2>3, <2>4
<1>4. legs \in Seq(Int \X Int) /\ Chain(legs, t, a)
  BY <1>2 DEF IsItinerary
<1>5. CASE t > car
  <2>1. PICK later : later = <<<<car, t>>>> \o legs
    OBVIOUS
  <2>2. later \in Seq(Int \X Int) /\ Chain(later, car, a)
    BY <1>3, <1>4, <2>1, LegBefore
  <2>3. Chain(<<<<0, car>>>> \o later, 0, a)
    BY <1>3, <2>2, LegBefore
  <2>4. <<<<0, car>>>> \o later = <<<<0, car>>, <<car, t>>>> \o legs
    <3>1. PICK x, y : x = <<0, car>> /\ y = <<car, t>>
      OBVIOUS
    <3>2. x \in Int \X Int /\ y \in Int \X Int
      BY <1>3, <3>1
    <3>3. PICK front : front = <<x>> \o <<y>>
      OBVIOUS
    <3>4. front = <<x, y>>
      <4>1. PICK both : both = <<x, y>>
        OBVIOUS
      <4>2. both \in Seq(Int \X Int) /\ Len(both) = 2 /\ both[1] = x /\ both[2] = y
        BY <3>2, <4>1
      <4>3. front \in Seq(Int \X Int) /\ Len(front) = 2 /\ front[1] = x /\ front[2] = y
        BY <3>2, <3>3
      <4>4. \A i \in 1..2 : front[i] = both[i]
        BY <4>2, <4>3
      <4> QED  BY <4>1, <4>2, <4>3, <4>4, SeqEqual
    <3>5. front \o legs = <<x>> \o (<<y>> \o legs)
      <4>1. <<x>> \in Seq(Int \X Int) /\ <<y>> \in Seq(Int \X Int)
        BY <3>2
      <4> QED  BY <1>4, <3>3, <4>1, ConcatAssociative
    <3> QED  BY <2>1, <3>1, <3>4, <3>5
  <2>5. ParkLegs(park, transit) = <<<<0, car>>, <<car, t>>>> \o legs
    BY <1>1, <1>2, <1>5 DEF ParkLegs
  <2> QED  BY <1>2, <2>3, <2>4, <2>5
<1>6. CASE ~(t > car)
  <2>1. ParkLegs(park, transit) = <<<<0, car>>>> \o legs
    BY <1>1, <1>2, <1>6 DEF ParkLegs
  <2>2. car = t
    BY <1>3, <1>6
  <2> QED  BY <1>2, <1>3, <1>4, <2>1, <2>2, LegBefore
<1> QED  BY <1>5, <1>6

LEMMA ParkAndTransitTruthful ==
  ASSUME NEW park, IsCarPark(park), NEW transit, IsItinerary(transit), ~Missed(park, transit)
  PROVE  Truthful(ParkAndTransit(park, transit))
<1>1. PICK p : p = ParkOption(park)
  OBVIOUS
<1>2. PICK o : o = ParkAndTransit(park, transit)
  OBVIOUS
<1>3. PICK l, parts : l = ParkLegs(park, transit) /\ parts = <<park, transit>>
  OBVIOUS
<1>4. PICK w, arrives, alerts, accessible :
         /\ w = transit.walking /\ arrives = transit.arrives
         /\ alerts = transit.alerts /\ accessible = transit.accessible
  OBVIOUS
<1>5. PICK s, k : s = (park.known /\ ~call.offline /\ ~park.fresh) /\ k = park.known
  OBVIOUS
<1>6. o = [p EXCEPT !.evidence = "mixed", !.departs = 0, !.arrives = arrives, !.walking = w,
                    !.alerts = alerts, !.accessible = accessible, !.legs = l, !.parts = parts]
  BY <1>1, <1>2, <1>3, <1>4 DEF ParkAndTransit
<1>7. p.mode = "park_and_ride" /\ p.known = k /\ p.stale = s /\ DOMAIN p = DOMAIN NoItinerary
  BY <1>1, <1>5 DEF ParkOption, Option, NoItinerary
<1>8. /\ o.mode = "park_and_ride" /\ o.parts[1] = park /\ o.parts[2] = transit /\ Conveys(o, transit)
      /\ o.known = park.known /\ (o.stale <=> park.known /\ ~call.offline /\ ~park.fresh)
      /\ o.legs = l /\ o.departs = 0 /\ o.arrives = transit.arrives
  BY <1>3, <1>4, <1>5, <1>6, <1>7 DEF Conveys, NoItinerary, Option
<1>9. Chain(o.parts[2].legs, o.parts[2].departs, o.parts[2].arrives) => Chain(o.legs, 0, o.arrives)
  BY <1>3, <1>8, ParkLegsChain
<1>10. transit.departs >= CarArrival(park)
  BY DEF IsCarPark, IsItinerary, CarArrival, Missed
<1>11. Truthful(o)
  BY <1>8, <1>9, <1>10 DEF Truthful, Modes
<1> QED  BY <1>2, <1>11

-----------------------------------------------------------------------------
(* lyon_trip_options: what a trip has gathered at each of its steps.       *)

TripRecord(t) ==
    t = [pc |-> t.pc, request |-> t.request, routing |-> t.routing, near |-> t.near, far |-> t.far,
         parks |-> t.parks, plan |-> t.plan, options |-> t.options, recommended |-> t.recommended]

Unplaced == {"origin", "destination", "unplaced"}

TripPcs == Unplaced \cup {"velov", "velov-to", "park_and_ride", "connections", "tcl", "evaluate", "done"}

IsStation(s) ==
    /\ s.at \in Int /\ s.bikes \in Nat /\ s.docks \in Nat
    /\ s.open \in BOOLEAN /\ s.fresh \in BOOLEAN

\* A pair that can be taken stands in the options, perhaps by a faster one.
PairsTold(t) ==
    \A pair \in Pairs(t.near, t.far) : \E p :
        /\ IsStation(p[1]) /\ IsStation(p[2]) /\ PairTaken(p)
        /\ PairDuration(p) <= PairDuration(pair) /\ VelovOption(p) \in t.options

PlanTold(t) ==
    \A i \in DOMAIN t.plan : IsItinerary(t.plan[i]) /\ TransitOption(t.plan[i]) \in t.options

SourcesTyped(t) ==
    /\ \A s \in t.near \cup t.far : IsStation(s)
    /\ t.pc \in Unplaced \cup {"velov"} => t.near = {}
    /\ t.pc \in Unplaced \cup {"velov", "velov-to"} => t.far = {}
    /\ \A p \in t.parks : IsCarPark(p)
    /\ t.pc = "connections" => t.parks # {}

OptionsTold(t) ==
    /\ t.pc \in Unplaced => t.options = {} /\ t.plan = <<>> /\ t.recommended = {}
    /\ \A o \in t.options : Truthful(o)
    /\ t.pc \notin Unplaced => Estimated \subseteq t.options
    /\ t.recommended \subseteq {o \in t.options : Eligible(o)}
    /\ t.pc = "done" /\ t.recommended = {} => \A o \in t.options : ~Eligible(o)

TripGood(t) ==
    /\ TripRecord(t) /\ t.request = trip.request /\ t.pc \in TripPcs
    /\ SourcesTyped(t) /\ OptionsTold(t) /\ PairsTold(t) /\ PlanTold(t)

\* The invariant: outside of its tool's calls there is no trip.
TripInv ==
    \/ trip = NoTrip
    \/ /\ call.stage # "idle" /\ call.tool = "trip"
       /\ trip.request \in Requests /\ TripGood(trip)

\* What is said of options depends on the request and on the call.
LEMMA TripFrame ==
  ASSUME NEW t, call'.offline = call.offline, trip'.request = trip.request, TripGood(t), t = trip'
  PROVE  TripGood(trip)'
<1>1. Request' = Request
  BY DEF Request
<1>2. \A p : PairTaken(p) => PairTaken(p)'
  BY <1>1 DEF PairTaken
<1>3. \A o : Truthful(o) => Truthful(o)'
  BY <1>2 DEF Truthful
<1>4. \A o : Eligible(o) <=> Eligible(o)'
  BY <1>1 DEF Eligible
<1>5. \A near, far : Pairs(near, far)' = Pairs(near, far)
  BY <1>1 DEF Pairs, Usable
<1>6. Estimated' = Estimated
  BY <1>1 DEF Estimated
<1>7. OptionsTold(trip)'
  <2>1. \A o \in trip'.options : Truthful(o)'
    BY <1>3 DEF TripGood, OptionsTold
  <2>2. trip'.pc \notin Unplaced => Estimated' \subseteq trip'.options
    BY <1>6 DEF TripGood, OptionsTold
  <2>3. trip'.recommended \subseteq {o \in trip'.options : Eligible(o)'}
    BY <1>4 DEF TripGood, OptionsTold
  <2>4. trip'.pc = "done" /\ trip'.recommended = {} => \A o \in trip'.options : ~Eligible(o)'
    BY <1>4 DEF TripGood, OptionsTold
  <2>5. trip'.pc \in Unplaced => trip'.options = {} /\ trip'.plan = <<>> /\ trip'.recommended = {}
    BY DEF TripGood, OptionsTold
  <2> QED  BY <2>1, <2>2, <2>3, <2>4, <2>5 DEF OptionsTold
<1>8. PairsTold(trip)'
  BY <1>2, <1>5 DEF TripGood, PairsTold
<1>9. TripRecord(trip)' /\ trip'.pc \in TripPcs /\ SourcesTyped(trip)' /\ PlanTold(trip)'
  BY DEF TripGood, TripRecord, SourcesTyped, PlanTold
<1> QED  BY <1>7, <1>8, <1>9 DEF TripGood

LEMMA RequestTyped ==
  ASSUME trip.request \in Requests
  PROVE  /\ Request.modes \in SUBSET Modes /\ Request.bikes \in Nat /\ Request.docks \in Nat
         /\ Request.walking \in Nat /\ Request.deadline \in Int \cup {Never}
         /\ Request.avoid \in BOOLEAN /\ Request.wheelchair \in BOOLEAN
BY TripAssumption DEF Request

LEMMA SourcesAreTyped ==
  /\ \A stations \in Stations : \A s \in stations : IsStation(s)
  /\ \A parks \in CarParks : \A p \in parks : IsCarPark(p)
  /\ \A plan \in Itineraries : \A i \in DOMAIN plan : IsItinerary(plan[i])
<1>1. \A stations \in Stations : \A s \in stations : IsStation(s)
  BY TripAssumption DEF IsStation
<1>2. \A parks \in CarParks : \A p \in parks : IsCarPark(p)
  BY TripAssumption DEF IsCarPark
<1>3. ASSUME NEW plan \in Itineraries, NEW i \in DOMAIN plan
      PROVE  IsItinerary(plan[i])
  <2>1. PICK r : r = [departs : Int, arrives : Int, walking : Int \cup {Unknown},
                      alerts : BOOLEAN, accessible : BOOLEAN, legs : Seq(Int \X Int)]
    OBVIOUS
  <2>2. plan \in Seq(r) /\ plan[i].departs < plan[i].arrives
    BY <2>1, TripAssumption
  <2>3. plan[i] \in r
    BY <2>2
  <2> QED  BY <2>1, <2>2, <2>3 DEF IsItinerary
<1> QED  BY <1>1, <1>2, <1>3

LEMMA ProceedEffect ==
  ASSUME TripRecord(trip), NEW options, NEW t, t = Proceed(options)
  PROVE  t = [pc |-> After(trip.pc, Request.modes), request |-> trip.request, routing |-> trip.routing,
              near |-> trip.near, far |-> trip.far, parks |-> trip.parks, plan |-> trip.plan,
              options |-> trip.options \cup options, recommended |-> trip.recommended]
BY DEF Proceed, TripRecord

LEMMA ResolveEndGood ==
  ASSUME trip.request \in Requests, TripGood(trip), NEW ref, ResolveEnd(ref)
  PROVE  TripGood(trip')
<1>0. /\ TripRecord(trip) /\ trip.pc \in {"origin", "destination"} /\ trip.near = {} /\ trip.far = {}
      /\ trip.options = {} /\ trip.plan = <<>> /\ trip.recommended = {}
      /\ \A p \in trip.parks : IsCarPark(p)
  BY DEF ResolveEnd, TripGood, SourcesTyped, OptionsTold, Unplaced
<1>1. \A t : t.near = {} \/ t.far = {} => PairsTold(t)
  BY DEF PairsTold, Pairs
<1>2. ASSUME NEW pc \in Unplaced, trip' = [trip EXCEPT !.pc = pc]
      PROVE  TripGood(trip')
  <2>1. trip' = [pc |-> pc, request |-> trip.request, routing |-> trip.routing, near |-> trip.near,
                 far |-> trip.far, parks |-> trip.parks, plan |-> trip.plan, options |-> trip.options,
                 recommended |-> trip.recommended]
    BY <1>0, <1>2 DEF TripRecord
  <2>2. TripRecord(trip') /\ trip'.pc \in TripPcs /\ pc # "done" /\ pc # "connections"
    BY <2>1 DEF TripRecord, TripPcs, Unplaced
  <2>3. PairsTold(trip')
    BY <1>0, <1>1, <2>1
  <2> QED  BY <1>0, <2>1, <2>2, <2>3 DEF TripGood, SourcesTyped, OptionsTold, PlanTold
<1>3. ASSUME trip' = [trip EXCEPT !.pc = After("destination", Request.modes), !.options = Estimated]
      PROVE  TripGood(trip')
  <2>1. PICK pc : pc = After("destination", Request.modes)
    OBVIOUS
  <2>2. pc \in {"velov", "park_and_ride", "tcl", "evaluate"}
    BY <2>1, RequestTyped, AfterIsLater
  <2>3. PICK estimated : estimated = Estimated
    OBVIOUS
  <2>4. trip' = [pc |-> pc, request |-> trip.request, routing |-> trip.routing, near |-> trip.near,
                 far |-> trip.far, parks |-> trip.parks, plan |-> trip.plan, options |-> estimated,
                 recommended |-> trip.recommended]
    BY <1>0, <1>3, <2>1, <2>3 DEF TripRecord
  <2>5. TripRecord(trip') /\ trip'.pc \in TripPcs
    BY <2>2, <2>4 DEF TripRecord, TripPcs
  <2>6. OptionsTold(trip')
    <3>1. \A o \in estimated : Truthful(o)
      BY <2>3, EstimatedTruthful
    <3>2. trip'.options = estimated /\ trip'.recommended = {} /\ trip'.pc = pc
      BY <1>0, <2>4
    <3> QED  BY <2>2, <2>3, <3>1, <3>2 DEF OptionsTold, Unplaced
  <2>7. PairsTold(trip')
    BY <1>0, <1>1, <2>4
  <2>8. SourcesTyped(trip') /\ PlanTold(trip')
    BY <1>0, <2>2, <2>4 DEF SourcesTyped, PlanTold, Unplaced
  <2> QED  BY <2>4, <2>5, <2>6, <2>7, <2>8 DEF TripGood
<1>4. \/ \E pc \in Unplaced : trip' = [trip EXCEPT !.pc = pc]
      \/ trip' = [trip EXCEPT !.pc = After("destination", Request.modes), !.options = Estimated]
  BY DEF ResolveEnd, Unplaced
<1> QED  BY <1>2, <1>3, <1>4

LEMMA ReadNearGood ==
  ASSUME TripGood(trip), ReadNear
  PROVE  TripGood(trip')
<1>1. PICK near :
        /\ trip' = [trip EXCEPT !.pc = "velov-to", !.near = near]
        /\ \A s \in near : IsStation(s)
  <2>1. CASE trip' = [trip EXCEPT !.pc = "velov-to"]
    <3>1. trip' = [trip EXCEPT !.pc = "velov-to", !.near = trip.near]
      BY <2>1 DEF TripGood, TripRecord
    <3> QED  BY <3>1 DEF TripGood, SourcesTyped
  <2>2. ASSUME NEW stations \in Stations,
               trip' = [trip EXCEPT !.pc = "velov-to",
                            !.near = {s \in stations : Distance(s.at, 0) <= Request.walking}]
        PROVE  \E near : /\ trip' = [trip EXCEPT !.pc = "velov-to", !.near = near]
                         /\ \A s \in near : IsStation(s)
    BY <2>2, SourcesAreTyped
  <2> QED  BY <2>1, <2>2 DEF ReadNear
<1>2. trip.pc = "velov"
  BY DEF ReadNear
<1>3. trip' = [pc |-> "velov-to", request |-> trip.request, routing |-> trip.routing, near |-> near,
               far |-> trip.far, parks |-> trip.parks, plan |-> trip.plan, options |-> trip.options,
               recommended |-> trip.recommended]
  BY <1>1 DEF TripGood, TripRecord
<1>4. trip.far = {}
  BY <1>2 DEF TripGood, SourcesTyped
<1>5. PairsTold(trip')
  BY <1>3, <1>4 DEF PairsTold, Pairs
<1>6. TripRecord(trip') /\ trip'.pc \in TripPcs
  BY <1>3 DEF TripRecord, TripPcs
<1>7. SourcesTyped(trip') /\ OptionsTold(trip') /\ PlanTold(trip')
  BY <1>1, <1>2, <1>3, <1>4 DEF TripGood, SourcesTyped, OptionsTold, PlanTold, Unplaced
<1> QED  BY <1>3, <1>5, <1>6, <1>7 DEF TripGood

LEMMA DistancesTyped ==
  ASSUME NEW pair, IsStation(pair[1]), IsStation(pair[2])
  PROVE  PairWalking(pair) \in Int /\ PairDuration(pair) \in Int
<1>1. \A x, y \in Int : Distance(x, y) \in Int
  BY DEF Distance
<1>2. PICK a, b : a = pair[1] /\ b = pair[2]
  OBVIOUS
<1>3. PICK x, y, d1, d2, d : /\ x = a.at /\ y = b.at /\ d1 = Distance(x, 0)
                             /\ d2 = Distance(y, Destination) /\ d = Distance(x, y)
  OBVIOUS
<1>4. d1 \in Int /\ d2 \in Int /\ d \in Int
  <2>1. x \in Int /\ y \in Int /\ Destination \in Int /\ 0 \in Int
    BY <1>2, <1>3, TripAssumption DEF IsStation
  <2> QED  BY <1>1, <1>3, <2>1
<1>5. PairWalking(pair) = d1 + d2
  BY <1>2, <1>3 DEF PairWalking
<1>6. PairDuration(pair) = (d \div 4) + (d1 + d2)
  BY <1>2, <1>3, <1>5 DEF PairDuration
<1> QED  BY <1>4, <1>5, <1>6

LEMMA PairsTyped ==
  ASSUME NEW near, NEW far, \A s \in near \cup far : IsStation(s), NEW pair \in Pairs(near, far)
  PROVE  /\ IsStation(pair[1]) /\ IsStation(pair[2]) /\ PairTaken(pair)
         /\ PairWalking(pair) \in Int /\ PairDuration(pair) \in Int
<1>1. /\ pair \in near \X far /\ Usable(pair[1], Request.bikes, 0) /\ Usable(pair[2], 0, Request.docks)
      /\ PairWalking(pair) <= Request.walking
  BY DEF Pairs
<1>2. PICK a, b : a = pair[1] /\ b = pair[2]
  OBVIOUS
<1>3. IsStation(a) /\ IsStation(b)
  BY <1>1, <1>2
<1>4. PairTaken(pair)
  BY <1>1, <1>2, <1>3 DEF PairTaken, Usable
<1> QED  BY <1>2, <1>3, <1>4, DistancesTyped

LEMMA ReadFarGood ==
  ASSUME trip.request \in Requests, TripGood(trip), ReadFar
  PROVE  TripGood(trip')
<1>0. TripRecord(trip) /\ trip.pc = "velov-to" /\ trip.far = {}
  BY DEF ReadFar, TripGood, SourcesTyped
<1>1. PICK pc : pc = After("velov-to", Request.modes)
  OBVIOUS
<1>2. pc \in {"park_and_ride", "tcl", "evaluate"}
  BY <1>1, RequestTyped, AfterIsLater
<1>3. ASSUME NEW far, \A s \in far : IsStation(s), NEW chosen, \A o \in chosen : Truthful(o),
             trip' = [pc |-> pc, request |-> trip.request, routing |-> trip.routing,
                      near |-> trip.near, far |-> far, parks |-> trip.parks, plan |-> trip.plan,
                      options |-> trip.options \cup chosen, recommended |-> trip.recommended],
             \A pair \in Pairs(trip.near, far) : \E p :
                /\ IsStation(p[1]) /\ IsStation(p[2]) /\ PairTaken(p)
                /\ PairDuration(p) <= PairDuration(pair) /\ VelovOption(p) \in chosen
      PROVE  TripGood(trip')
  <2>1. TripRecord(trip') /\ trip'.pc \in TripPcs
    BY <1>2, <1>3 DEF TripRecord, TripPcs
  <2>2. PairsTold(trip')
    BY <1>3 DEF PairsTold
  <2>3. SourcesTyped(trip')
    BY <1>2, <1>3 DEF TripGood, SourcesTyped, Unplaced
  <2>4. OptionsTold(trip')
    <3>1. \A o \in trip'.options : Truthful(o)
      BY <1>3 DEF TripGood, OptionsTold
    <3>2. Estimated \subseteq trip'.options /\ trip'.recommended \subseteq {o \in trip'.options : Eligible(o)}
      BY <1>0, <1>3 DEF TripGood, OptionsTold, Unplaced
    <3> QED  BY <1>2, <1>3, <3>1, <3>2 DEF OptionsTold, Unplaced
  <2>5. PlanTold(trip')
    BY <1>3 DEF TripGood, PlanTold
  <2> QED  BY <1>3, <2>1, <2>2, <2>3, <2>4, <2>5 DEF TripGood
<1>4. CASE trip' = Proceed({})
  <2>1. trip' = [pc |-> pc, request |-> trip.request, routing |-> trip.routing,
                 near |-> trip.near, far |-> {}, parks |-> trip.parks, plan |-> trip.plan,
                 options |-> trip.options \cup {}, recommended |-> trip.recommended]
    BY <1>0, <1>1, <1>4, ProceedEffect
  <2>2. Pairs(trip.near, {}) = {}
    BY DEF Pairs
  <2> QED  BY <1>3, <2>1, <2>2
<1>5. ASSUME NEW stations \in Stations, NEW far, NEW chosen,
             far = {s \in stations : Distance(s.at, Destination) <= Request.walking},
             IF Pairs(trip.near, far) = {} THEN chosen = {}
             ELSE \E p \in Fastest(Pairs(trip.near, far)) : chosen = {VelovOption(p)},
             trip' = [Proceed(chosen) EXCEPT !.far = far]
      PROVE  TripGood(trip')
  <2>1. \A s \in far : IsStation(s)
    BY <1>5, SourcesAreTyped
  <2>2. trip' = [pc |-> pc, request |-> trip.request, routing |-> trip.routing,
                 near |-> trip.near, far |-> far, parks |-> trip.parks, plan |-> trip.plan,
                 options |-> trip.options \cup chosen, recommended |-> trip.recommended]
    <3>1. PICK t : t = Proceed(chosen)
      OBVIOUS
    <3>2. t = [pc |-> pc, request |-> trip.request, routing |-> trip.routing,
               near |-> trip.near, far |-> trip.far, parks |-> trip.parks, plan |-> trip.plan,
               options |-> trip.options \cup chosen, recommended |-> trip.recommended]
      BY <1>0, <1>1, <3>1, ProceedEffect
    <3>3. trip' = [t EXCEPT !.far = far]
      BY <1>5, <3>1
    <3> QED  BY <3>2, <3>3
  <2>3. PICK pairs : pairs = Pairs(trip.near, far)
    OBVIOUS
  <2>4. \A pair \in pairs : /\ IsStation(pair[1]) /\ IsStation(pair[2]) /\ PairTaken(pair)
                            /\ PairDuration(pair) \in Int
    BY <2>1, <2>3, PairsTyped DEF TripGood, SourcesTyped
  <2>5. CASE pairs = {}
    BY <1>3, <1>5, <2>1, <2>2, <2>3, <2>5
  <2>6. CASE pairs # {}
    <3>1. PICK p \in Fastest(pairs) : chosen = {VelovOption(p)}
      BY <1>5, <2>3, <2>6
    <3>2. p \in pairs /\ \A q \in pairs : PairDuration(p) <= PairDuration(q)
      BY <3>1 DEF Fastest
    <3>3. IsStation(p[1]) /\ IsStation(p[2]) /\ PairTaken(p)
      BY <2>4, <3>2
    <3>4. \A o \in chosen : Truthful(o)
      BY <3>1, <3>3, VelovTruthful
    <3>5. VelovOption(p) \in chosen
      BY <3>1
    <3> QED  BY <1>3, <2>1, <2>2, <2>3, <3>2, <3>3, <3>4, <3>5
  <2> QED  BY <2>5, <2>6
<1>6. \/ trip' = Proceed({})
      \/ \E stations \in Stations :
            LET far == {s \in stations : Distance(s.at, Destination) <= Request.walking}
                pairs == Pairs(trip.near, far)
                options == {VelovOption(pair) : pair \in Fastest(pairs)}
            IN \E chosen \in IF pairs = {} THEN {{}} ELSE {{o} : o \in options} :
                  trip' = [Proceed(chosen) EXCEPT !.far = far]
  BY DEF ReadFar
<1>7. CASE \E stations \in Stations :
            LET far == {s \in stations : Distance(s.at, Destination) <= Request.walking}
                pairs == Pairs(trip.near, far)
                options == {VelovOption(pair) : pair \in Fastest(pairs)}
            IN \E chosen \in IF pairs = {} THEN {{}} ELSE {{o} : o \in options} :
                  trip' = [Proceed(chosen) EXCEPT !.far = far]
  <2>1. PICK stations \in Stations :
            LET far == {s \in stations : Distance(s.at, Destination) <= Request.walking}
                pairs == Pairs(trip.near, far)
                options == {VelovOption(pair) : pair \in Fastest(pairs)}
            IN \E chosen \in IF pairs = {} THEN {{}} ELSE {{o} : o \in options} :
                  trip' = [Proceed(chosen) EXCEPT !.far = far]
    BY <1>7
  <2>2. PICK far : far = {s \in stations : Distance(s.at, Destination) <= Request.walking}
    OBVIOUS
  <2>3. PICK pairs : pairs = Pairs(trip.near, far)
    OBVIOUS
  <2>4. PICK chosen \in IF pairs = {} THEN {{}} ELSE {{o} : o \in {VelovOption(pair) : pair \in Fastest(pairs)}} :
          trip' = [Proceed(chosen) EXCEPT !.far = far]
    BY <2>1, <2>2, <2>3
  <2>5. IF Pairs(trip.near, far) = {} THEN chosen = {}
        ELSE \E p \in Fastest(Pairs(trip.near, far)) : chosen = {VelovOption(p)}
    BY <2>3, <2>4
  <2> QED  BY <1>5, <2>1, <2>2, <2>4, <2>5
<1> QED  BY <1>4, <1>6, <1>7

LEMMA ReadCarParksGood ==
  ASSUME trip.request \in Requests, TripGood(trip), ReadCarParks
  PROVE  TripGood(trip')
<1>0. TripRecord(trip) /\ trip.pc = "park_and_ride"
  BY DEF ReadCarParks, TripGood
<1>1. PICK after : after = After("park_and_ride", Request.modes)
  OBVIOUS
<1>2. after \in {"tcl", "evaluate"}
  BY <1>1, RequestTyped, AfterIsLater
<1>3. PICK read \in CarParks :
         trip' = IF read = {} THEN Proceed({}) ELSE [trip EXCEPT !.pc = "connections", !.parks = read]
  BY DEF ReadCarParks
<1>4. PICK pc, parks :
        /\ trip' = [pc |-> pc, request |-> trip.request, routing |-> trip.routing,
                    near |-> trip.near, far |-> trip.far, parks |-> parks, plan |-> trip.plan,
                    options |-> trip.options, recommended |-> trip.recommended]
        /\ \A p \in parks : IsCarPark(p)
        /\ pc \in {"tcl", "evaluate"} \/ (pc = "connections" /\ parks # {})
  <2>1. CASE read = {}
    <3>1. trip' = [pc |-> after, request |-> trip.request, routing |-> trip.routing,
                   near |-> trip.near, far |-> trip.far, parks |-> trip.parks, plan |-> trip.plan,
                   options |-> trip.options \cup {}, recommended |-> trip.recommended]
      BY <1>0, <1>1, <1>3, <2>1, ProceedEffect
    <3>2. trip.options \cup {} = trip.options /\ \A p \in trip.parks : IsCarPark(p)
      BY DEF TripGood, SourcesTyped
    <3> QED  BY <1>2, <3>1, <3>2
  <2>2. CASE read # {}
    <3>1. trip' = [pc |-> "connections", request |-> trip.request, routing |-> trip.routing,
                   near |-> trip.near, far |-> trip.far, parks |-> read, plan |-> trip.plan,
                   options |-> trip.options, recommended |-> trip.recommended]
      BY <1>0, <1>3, <2>2 DEF TripRecord
    <3> QED  BY <1>3, <2>2, <3>1, SourcesAreTyped
  <2> QED  BY <2>1, <2>2
<1>5. TripRecord(trip') /\ trip'.pc \in TripPcs
  BY <1>4 DEF TripRecord, TripPcs
<1>6. SourcesTyped(trip')
  BY <1>4 DEF TripGood, SourcesTyped, Unplaced
<1>7. OptionsTold(trip')
  BY <1>0, <1>4 DEF TripGood, OptionsTold, Unplaced
<1>8. PairsTold(trip') /\ PlanTold(trip')
  BY <1>4 DEF TripGood, PairsTold, PlanTold
<1> QED  BY <1>4, <1>5, <1>6, <1>7, <1>8 DEF TripGood

LEMMA NextParkIsOne ==
  ASSUME trip.parks # {}, \A p \in trip.parks : IsCarPark(p)
  PROVE  NextPark \in trip.parks
<1>1. ASSUME NEW p \in trip.parks
      PROVE  Distance(p.at, Destination) \in Nat
  <2>1. PICK at : at = p.at
    OBVIOUS
  <2>2. at \in Nat
    BY <2>1 DEF IsCarPark
  <2> QED  BY <2>1, <2>2, TripAssumption DEF Distance
<1>2. PICK S : S = {Distance(p.at, Destination) : p \in trip.parks}
  OBVIOUS
<1>3. S \in SUBSET Nat /\ S # {}
  BY <1>1, <1>2
<1>4. Min(S) \in S /\ \A y \in S : Min(S) <= y
  BY <1>3, MinIsLeast
<1>5. \E p \in trip.parks : \A q \in trip.parks :
         Distance(p.at, Destination) <= Distance(q.at, Destination)
  BY <1>2, <1>4
<1> QED  BY <1>5 DEF NextPark

LEMMA ConnectionIsPlanned ==
  ASSUME NEW park, NEW planned \in Itineraries, planned # <<>>
  PROVE  \E i \in DOMAIN planned : Connection(park, planned) = planned[i]
<1>1. PICK r : planned \in Seq(r)
  BY TripAssumption
<1>2. PICK later : later = {i \in DOMAIN planned : planned[i].departs >= CarArrival(park) + Transfer}
  OBVIOUS
<1>3. Connection(park, planned) = planned[IF later = {} THEN 1 ELSE Min(later)]
  BY <1>2 DEF Connection
<1>4. 1 \in DOMAIN planned /\ later \in SUBSET Nat /\ later \subseteq DOMAIN planned
  BY <1>1, <1>2
<1>5. later # {} => Min(later) \in later
  BY <1>4, MinIsLeast
<1> QED  BY <1>3, <1>4, <1>5

LEMMA WithConnectionTruthful ==
  ASSUME NEW park, IsCarPark(park), NEW planned, planned = <<>> \/ planned \in Itineraries
  PROVE  Truthful(WithConnection(park, planned))
<1>1. PICK c : c = Connection(park, planned)
  OBVIOUS
<1>2. PICK o : o = WithConnection(park, planned)
  OBVIOUS
<1>3. CASE planned = <<>> \/ Missed(park, c)
  <2>1. o = ParkOption(park)
    BY <1>1, <1>2, <1>3 DEF WithConnection
  <2> QED  BY <1>2, <2>1, ParkTruthful
<1>4. CASE planned \in Itineraries /\ planned # <<>> /\ ~Missed(park, c)
  <2>1. o = ParkAndTransit(park, c)
    BY <1>1, <1>2, <1>4 DEF WithConnection
  <2>2. IsItinerary(c)
    BY <1>1, <1>4, ConnectionIsPlanned, SourcesAreTyped
  <2> QED  BY <1>2, <1>4, <2>1, <2>2, ParkAndTransitTruthful
<1> QED  BY <1>3, <1>4

LEMMA PlansGiven ==
  ASSUME NEW plan \in Plans
  PROVE  plan[1] = <<>> \/ (plan[1] \in Itineraries /\ plan[2] = FALSE)
<1>1. PICK planned, none, unrouted :
        planned = {<<p, FALSE>> : p \in Itineraries} /\ none = << <<>>, TRUE>> /\ unrouted = << <<>>, FALSE>>
  OBVIOUS
<1>2. Plans = IF trip.routing THEN planned \cup {none} ELSE {unrouted}
  BY <1>1 DEF Plans
<1>3. plan \in planned \/ plan = none \/ plan = unrouted
  BY <1>2
<1>4. CASE plan \in planned
  <2>1. PICK p \in Itineraries : plan = <<p, FALSE>>
    BY <1>1, <1>4
  <2>2. plan[1] = p /\ plan[2] = FALSE
    BY <2>1
  <2> QED  BY <2>1, <2>2
<1>5. none[1] = <<>> /\ unrouted[1] = <<>>
  BY <1>1
<1> QED  BY <1>3, <1>4, <1>5

LEMMA ConnectGood ==
  ASSUME trip.request \in Requests, TripGood(trip), Connect
  PROVE  TripGood(trip')
<1>0. TripRecord(trip) /\ trip.pc = "connections"
  BY DEF Connect, TripGood
<1>1. PICK after : after = After("park_and_ride", Request.modes)
  OBVIOUS
<1>2. after \in {"tcl", "evaluate"}
  BY <1>1, RequestTyped, AfterIsLater
<1>3. PICK park, left : park = NextPark /\ left = trip.parks \ {park}
  OBVIOUS
<1>4. IsCarPark(park)
  BY <1>0, <1>3, NextParkIsOne DEF TripGood, SourcesTyped
<1>5. PICK plan \in Plans :
        trip' = LET option == WithConnection(NextPark, plan[1]) IN
                IF trip.parks \ {NextPark} # {}
                THEN [trip EXCEPT !.parks = trip.parks \ {NextPark}, !.options = @ \cup {option}]
                ELSE [trip EXCEPT !.parks = {}, !.options = @ \cup {option},
                                  !.pc = After("park_and_ride", Request.modes)]
  BY DEF Connect
<1>6. PICK option : option = WithConnection(park, plan[1])
  OBVIOUS
<1>7. Truthful(option)
  <2>1. PICK planned : planned = plan[1]
    OBVIOUS
  <2>2. planned = <<>> \/ planned \in Itineraries
    BY <1>5, <2>1, PlansGiven
  <2> QED  BY <1>4, <1>6, <2>1, <2>2, WithConnectionTruthful
<1>8. trip' = IF left # {} THEN [trip EXCEPT !.parks = left, !.options = trip.options \cup {option}]
              ELSE [trip EXCEPT !.parks = {}, !.options = trip.options \cup {option}, !.pc = after]
  <2>1. trip' = IF left # {} THEN [trip EXCEPT !.parks = left, !.options = @ \cup {option}]
                ELSE [trip EXCEPT !.parks = {}, !.options = @ \cup {option}, !.pc = after]
    BY <1>1, <1>3, <1>5, <1>6
  <2> QED  BY <1>0, <2>1 DEF TripRecord
<1>9. PICK pc, parks, options :
        /\ trip' = [pc |-> pc, request |-> trip.request, routing |-> trip.routing,
                    near |-> trip.near, far |-> trip.far, parks |-> parks, plan |-> trip.plan,
                    options |-> options, recommended |-> trip.recommended]
        /\ parks \subseteq trip.parks /\ options = trip.options \cup {option}
        /\ pc \in {"tcl", "evaluate"} \/ (pc = "connections" /\ parks # {})
  <2>1. CASE left # {}
    <3>1. trip' = [pc |-> "connections", request |-> trip.request, routing |-> trip.routing,
                   near |-> trip.near, far |-> trip.far, parks |-> left, plan |-> trip.plan,
                   options |-> trip.options \cup {option}, recommended |-> trip.recommended]
      BY <1>0, <1>8, <2>1 DEF TripRecord
    <3> QED  BY <1>3, <2>1, <3>1
  <2>2. CASE left = {}
    <3>1. trip' = [pc |-> after, request |-> trip.request, routing |-> trip.routing,
                   near |-> trip.near, far |-> trip.far, parks |-> {}, plan |-> trip.plan,
                   options |-> trip.options \cup {option}, recommended |-> trip.recommended]
      BY <1>0, <1>8, <2>2 DEF TripRecord
    <3> QED  BY <1>2, <3>1
  <2> QED  BY <2>1, <2>2
<1>10. TripRecord(trip') /\ trip'.pc \in TripPcs
  BY <1>9 DEF TripRecord, TripPcs
<1>11. SourcesTyped(trip')
  BY <1>9 DEF TripGood, SourcesTyped, Unplaced
<1>12. OptionsTold(trip')
  <2>1. \A o \in trip'.options : Truthful(o)
    BY <1>7, <1>9 DEF TripGood, OptionsTold
  <2>2. Estimated \subseteq trip'.options /\ trip'.recommended \subseteq {o \in trip'.options : Eligible(o)}
    BY <1>0, <1>9 DEF TripGood, OptionsTold, Unplaced
  <2> QED  BY <1>9, <2>1, <2>2 DEF OptionsTold, Unplaced
<1>13. PairsTold(trip') /\ PlanTold(trip')
  BY <1>9 DEF TripGood, PairsTold, PlanTold
<1> QED  BY <1>9, <1>10, <1>11, <1>12, <1>13 DEF TripGood

LEMMA PlanTransitGood ==
  ASSUME trip.request \in Requests, TripGood(trip), PlanTransit
  PROVE  TripGood(trip')
<1>0. TripRecord(trip) /\ trip.pc = "tcl"
  BY DEF PlanTransit, TripGood
<1>1. PICK after : after = After("tcl", Request.modes)
  OBVIOUS
<1>2. after = "evaluate"
  BY <1>1, RequestTyped, AfterIsLater
<1>3. PICK plan \in Plans :
        trip' = [Proceed(IF plan[1] = <<>> THEN {NoItinerary}
                         ELSE {TransitOption(plan[1][i]) : i \in DOMAIN plan[1]}) EXCEPT !.plan = plan[1]]
  BY DEF PlanTransit
<1>4. PICK planned, options :
        /\ planned = plan[1]
        /\ options = IF planned = <<>> THEN {NoItinerary}
                     ELSE {TransitOption(planned[i]) : i \in DOMAIN planned}
  OBVIOUS
<1>5. trip' = [pc |-> after, request |-> trip.request, routing |-> trip.routing,
               near |-> trip.near, far |-> trip.far, parks |-> trip.parks, plan |-> planned,
               options |-> trip.options \cup options, recommended |-> trip.recommended]
  <2>1. PICK t : t = Proceed(options)
    OBVIOUS
  <2>2. t = [pc |-> after, request |-> trip.request, routing |-> trip.routing,
             near |-> trip.near, far |-> trip.far, parks |-> trip.parks, plan |-> trip.plan,
             options |-> trip.options \cup options, recommended |-> trip.recommended]
    BY <1>0, <1>1, <2>1, ProceedEffect
  <2>3. trip' = [t EXCEPT !.plan = planned]
    BY <1>3, <1>4, <2>1
  <2> QED  BY <2>2, <2>3
<1>6. \A i \in DOMAIN planned : IsItinerary(planned[i]) /\ TransitOption(planned[i]) \in options
  <2>1. CASE planned = <<>>
    BY <2>1
  <2>2. CASE planned # <<>>
    <3>1. planned \in Itineraries
      BY <1>3, <1>4, <2>2, PlansGiven
    <3> QED  BY <1>4, <2>2, <3>1, SourcesAreTyped
  <2> QED  BY <2>1, <2>2
<1>7. \A o \in options : Truthful(o)
  BY <1>4, NoItineraryTruthful, TransitTruthful
<1>8. TripRecord(trip') /\ trip'.pc \in TripPcs
  BY <1>2, <1>5 DEF TripRecord, TripPcs
<1>9. SourcesTyped(trip')
  BY <1>2, <1>5 DEF TripGood, SourcesTyped, Unplaced
<1>10. OptionsTold(trip')
  <2>1. \A o \in trip'.options : Truthful(o)
    BY <1>5, <1>7 DEF TripGood, OptionsTold
  <2>2. Estimated \subseteq trip'.options /\ trip'.recommended \subseteq {o \in trip'.options : Eligible(o)}
    BY <1>0, <1>5 DEF TripGood, OptionsTold, Unplaced
  <2> QED  BY <1>2, <1>5, <2>1, <2>2 DEF OptionsTold, Unplaced
<1>11. PairsTold(trip') /\ PlanTold(trip')
  BY <1>5, <1>6 DEF TripGood, PairsTold, PlanTold
<1> QED  BY <1>5, <1>8, <1>9, <1>10, <1>11 DEF TripGood

LEMMA RecommendGood ==
  ASSUME TripGood(trip), Recommend
  PROVE  TripGood(trip')
<1>0. TripRecord(trip) /\ trip.pc = "evaluate"
  BY DEF Recommend, TripGood
<1>1. PICK eligible : eligible = {o \in trip.options : Eligible(o)}
  OBVIOUS
<1>2. PICK recommended :
        /\ trip' = [trip EXCEPT !.pc = "done", !.recommended = recommended]
        /\ recommended \subseteq eligible /\ (recommended = {} => eligible = {})
  <2>1. CASE eligible = {} /\ trip' = [trip EXCEPT !.pc = "done"]
    <3>1. trip' = [trip EXCEPT !.pc = "done", !.recommended = trip.recommended]
      BY <1>0, <2>1 DEF TripRecord
    <3> QED  BY <1>1, <2>1, <3>1 DEF TripGood, OptionsTold
  <2>2. ASSUME NEW o \in eligible, trip' = [trip EXCEPT !.pc = "done", !.recommended = {o}]
        PROVE  \E recommended :
                  /\ trip' = [trip EXCEPT !.pc = "done", !.recommended = recommended]
                  /\ recommended \subseteq eligible /\ (recommended = {} => eligible = {})
    <3>1. PICK one : one = {o}
      OBVIOUS
    <3>2. trip' = [trip EXCEPT !.pc = "done", !.recommended = one]
      BY <2>2, <3>1
    <3> QED  BY <2>2, <3>1, <3>2
  <2> QED  BY <1>1, <2>1, <2>2 DEF Recommend
<1>3. trip' = [pc |-> "done", request |-> trip.request, routing |-> trip.routing,
               near |-> trip.near, far |-> trip.far, parks |-> trip.parks, plan |-> trip.plan,
               options |-> trip.options, recommended |-> recommended]
  BY <1>0, <1>2 DEF TripRecord
<1>4. TripRecord(trip') /\ trip'.pc \in TripPcs
  BY <1>3 DEF TripRecord, TripPcs
<1>5. SourcesTyped(trip')
  BY <1>3 DEF TripGood, SourcesTyped, Unplaced
<1>6. OptionsTold(trip')
  BY <1>0, <1>1, <1>2, <1>3 DEF TripGood, OptionsTold, Unplaced
<1>7. PairsTold(trip') /\ PlanTold(trip')
  BY <1>3 DEF TripGood, PairsTold, PlanTold
<1> QED  BY <1>3, <1>4, <1>5, <1>6, <1>7 DEF TripGood

LEMMA TripStepGood ==
  ASSUME trip.request \in Requests, TripGood(trip), TripStep
  PROVE  TripGood(trip')
BY ResolveEndGood, ReadNearGood, ReadFarGood, ReadCarParksGood, ConnectGood, PlanTransitGood,
   RecommendGood DEF TripStep

-----------------------------------------------------------------------------
(* lyon_trip_options: what the answers owe to it.                          *)

LEMMA TripIsGood ==
  Spec => []TripInv
<1>1. Init => ContextOK /\ TripInv
  BY InitialContext DEF Init, InitTrip, TripInv
<1>2. ContextOK /\ TripInv /\ [Next]_vars => (ContextOK /\ TripInv)'
  <2> SUFFICES ASSUME ContextOK, TripInv, [Next]_vars
               PROVE  (ContextOK /\ TripInv)'
    OBVIOUS
  <2>0. ContextOK'
    BY SameCall, NextContext
  <2>1. CASE call'.stage = "idle"
    <3>1. trip' = NoTrip \/ (trip' = trip /\ call'.stage = call.stage)
      BY <2>1, NextContext DEF Reply, Inside, Outside, handlers, vars
    <3> QED  BY <2>0, <2>1, <3>1 DEF TripInv
  <2>2. CASE call'.stage # "idle"
    <3>1. CASE Begin /\ call.stage = "idle"
      <4>1. trip = NoTrip
        BY <3>1 DEF TripInv
      <4>2. trip' = trip \/ (call'.tool = "trip" /\ \E request \in Requests, routing \in BOOLEAN,
                                offline \in BOOLEAN : BeginTrip(request, routing, offline))
        BY <3>1, BeginKinds
      <4>3. CASE trip' = trip
        BY <2>0, <4>1, <4>3 DEF TripInv, NoTrip
      <4>4. ASSUME NEW request \in Requests, NEW routing \in BOOLEAN,
                   trip' = [NoTrip EXCEPT !.pc = "origin", !.request = request, !.routing = routing]
            PROVE  TripGood(trip)' /\ trip'.request \in Requests
        <5>1. trip' = [pc |-> "origin", request |-> request, routing |-> routing, near |-> {}, far |-> {},
                       parks |-> {}, plan |-> <<>>, options |-> {}, recommended |-> {}]
          BY <4>4 DEF NoTrip
        <5>2. TripRecord(trip)' /\ trip'.pc \in TripPcs
          BY <5>1 DEF TripRecord, TripPcs, Unplaced
        <5>3. SourcesTyped(trip)' /\ OptionsTold(trip)' /\ PairsTold(trip)' /\ PlanTold(trip)'
          BY <5>1 DEF SourcesTyped, OptionsTold, PairsTold, PlanTold, Unplaced, Pairs
        <5> QED  BY <5>1, <5>2, <5>3 DEF TripGood
      <4> QED  BY <2>0, <2>2, <4>1, <4>2, <4>3, <4>4 DEF TripInv, BeginTrip
    <3>2. CASE Inside /\ call.tool = "trip" /\ TripStep
      <4>1. trip.request \in Requests /\ TripGood(trip)
        <5>1. trip.pc # "idle"
          BY <3>2 DEF TripStep, ResolveEnd, ReadNear, ReadFar, ReadCarParks, Connect, PlanTransit, Recommend
        <5> QED  BY <5>1 DEF TripInv, NoTrip
      <4>2. TripGood(trip')
        BY <3>2, <4>1, TripStepGood
      <4>3. trip'.request = trip.request /\ call'.offline = call.offline
        BY <3>2, <4>2 DEF TripGood, Inside
      <4>4. TripGood(trip)'
        BY <4>2, <4>3, TripFrame
      <4> QED  BY <2>0, <2>2, <3>2, <4>1, <4>3, <4>4 DEF TripInv, Inside
    <3>3. CASE trip' = trip /\ call'.offline = call.offline /\ call'.tool = call.tool
      <4>1. CASE trip = NoTrip
        BY <2>0, <3>3, <4>1 DEF TripInv, NoTrip
      <4>2. CASE trip.request \in Requests /\ TripGood(trip) /\ call.tool = "trip"
        <5>1. TripGood(trip') /\ trip'.request = trip.request
          BY <3>3, <4>2
        <5>2. TripGood(trip)'
          BY <3>3, <5>1, TripFrame
        <5> QED  BY <2>0, <2>2, <3>3, <4>2, <5>2 DEF TripInv
      <4> QED  BY <4>1, <4>2 DEF TripInv
    <3> QED  BY <2>2, <3>1, <3>2, <3>3, ToolSteps, StillKeeps DEF Inside, PlaceToolNames
  <2> QED  BY <2>1, <2>2
<1> QED  BY <1>1, <1>2, PTL DEF Spec

(***************************************************************************)
(* What a park-and-ride option puts before its itinerary connects with it:  *)
(* when the itinerary's own legs are a chain, so are the option's, whatever *)
(* car parks, itineraries, errors and order of reads there were.            *)
(***************************************************************************)
THEOREM ParkAndRideConnects == Spec => []LegsConnect
<1>1. TripInv => LegsConnect
  <2> SUFFICES ASSUME TripInv
               PROVE  \A o \in trip.options : Truthful(o)
    BY DEF LegsConnect, Truthful
  <2>1. CASE trip = NoTrip
    BY <2>1 DEF NoTrip
  <2>2. CASE TripGood(trip)
    BY <2>2 DEF TripGood, OptionsTold, Truthful
  <2> QED  BY <2>1, <2>2 DEF TripInv
<1> QED  BY <1>1, TripIsGood, PTL

(***************************************************************************)
(* What is recommended can be done as was asked: its parts, as their        *)
(* sources described them, meet the request.                                *)
(***************************************************************************)
THEOREM RecommendedCanBeDone == Spec => []RecommendationMeetsRequest
<1>1. TripInv => RecommendationMeetsRequest
  <2> SUFFICES ASSUME TripInv, NEW r \in trip.recommended
               PROVE  CASE r.mode = "walk" -> WalkSuits
                        [] r.mode = "car" -> CarSuits
                        [] r.mode = "velov" -> PairSuits(r.parts)
                        [] r.mode = "tcl" -> ItinerarySuits(r.parts[1])
                        [] r.mode = "park_and_ride" ->
                              /\ r.parts[1].known /\ (call.offline \/ r.parts[1].fresh)
                              /\ r.parts[2].departs >= CarArrival(r.parts[1]) /\ ItinerarySuits(r.parts[2])
    BY DEF RecommendationMeetsRequest
  <2>1. TripGood(trip)
    BY DEF TripInv, NoTrip
  <2>2. Truthful(r) /\ Eligible(r)
    BY <2>1 DEF TripGood, OptionsTold
  <2>3. /\ r.walking <= Request.walking /\ r.walking # Unknown /\ r.evidence # "unavailable"
        /\ InTime(r.arrives) /\ (Request.avoid => ~r.alerts) /\ (Request.wheelchair => r.accessible)
        /\ r.mode = "park_and_ride" => r.known /\ ~r.stale
    BY <2>2 DEF Eligible, InTime
  <2>4. ASSUME NEW transit, Conveys(r, transit)
        PROVE  ItinerarySuits(transit)
    BY <2>3, <2>4 DEF ItinerarySuits, Conveys, InTime
  <2>5. CASE r.mode = "walk"
    <3>1. WalkSuits
      BY <2>2, <2>3, <2>5 DEF Truthful, WalkSuits
    <3> QED  BY <2>5, <3>1
  <2>6. CASE r.mode = "car"
    <3>1. CarSuits
      BY <2>2, <2>3, <2>6 DEF Truthful, CarSuits
    <3> QED  BY <2>6, <3>1
  <2>7. CASE r.mode = "velov"
    <3>1. PairSuits(r.parts)
      BY <2>2, <2>3, <2>7 DEF Truthful, PairTaken, PairSuits
    <3> QED  BY <2>7, <3>1
  <2>8. CASE r.mode = "tcl"
    <3>1. ItinerarySuits(r.parts[1])
      BY <2>2, <2>3, <2>4, <2>8 DEF Truthful
    <3> QED  BY <2>8, <3>1
  <2>9. CASE r.mode = "park_and_ride"
    <3>1. ItinerarySuits(r.parts[2])
      BY <2>2, <2>3, <2>4, <2>9 DEF Truthful
    <3>2. /\ r.parts[1].known /\ (call.offline \/ r.parts[1].fresh)
          /\ r.parts[2].departs >= CarArrival(r.parts[1])
      BY <2>2, <2>3, <2>9 DEF Truthful
    <3> QED  BY <2>9, <3>1, <3>2
  <2> QED  BY <2>2, <2>5, <2>6, <2>7, <2>8, <2>9 DEF Truthful, Modes
<1> QED  BY <1>1, TripIsGood, PTL

(***************************************************************************)
(* No trip that is possible as asked is lost on the way to the              *)
(* recommendation.                                                          *)
(***************************************************************************)
THEOREM PossibleTripIsFound == Spec => []FeasibleTripIsRecommended
<1>1. TripInv => FeasibleTripIsRecommended
  <2> SUFFICES ASSUME TripInv, trip.pc = "done", trip.recommended = {}
               PROVE  /\ "walk" \in Request.modes => ~WalkSuits
                      /\ "car" \in Request.modes => ~CarSuits
                      /\ \A pair \in trip.near \X trip.far : ~PairSuits(pair)
                      /\ \A i \in DOMAIN trip.plan : ~ItinerarySuits(trip.plan[i])
    BY DEF FeasibleTripIsRecommended
  <2>1. TripGood(trip) /\ trip.request \in Requests
    BY DEF TripInv, NoTrip
  <2>2. \A o \in trip.options : ~Eligible(o)
    BY <2>1 DEF TripGood, OptionsTold
  <2>3. Estimated \subseteq trip.options
    BY <2>1 DEF TripGood, OptionsTold, Unplaced
  <2>4. Destination \in Nat /\ Never \notin Int /\ Unknown \notin Int
    BY TripAssumption
  <2>5. ASSUME "walk" \in Request.modes, WalkSuits
        PROVE  FALSE
    <3>1. PICK o : o = Option("walk", "estimated", Destination, 0, (Destination * 5) \div 7)
      OBVIOUS
    <3>2. /\ o.mode = "walk" /\ o.evidence = "estimated" /\ o.walking = Destination
          /\ o.arrives = (Destination * 5) \div 7 /\ o.alerts = FALSE
      BY <3>1 DEF Option
    <3>3. o \in Estimated
      BY <2>5, <3>1, <3>2 DEF Estimated
    <3>4. (Destination * 5) \div 7 \in Int
      BY <2>4
    <3>5. Eligible(o)
      BY <2>4, <2>5, <3>2, <3>4 DEF Eligible, WalkSuits, InTime
    <3> QED  BY <2>2, <2>3, <3>3, <3>5
  <2>6. ASSUME "car" \in Request.modes, CarSuits
        PROVE  FALSE
    <3>1. PICK o : o = Option("car", "estimated", 0, 0, Destination \div 8)
      OBVIOUS
    <3>2. /\ o.mode = "car" /\ o.evidence = "estimated" /\ o.walking = 0
          /\ o.arrives = Destination \div 8 /\ o.alerts = FALSE
      BY <3>1 DEF Option
    <3>3. o \in Estimated
      BY <2>6, <3>1, <3>2 DEF Estimated
    <3>4. Destination \div 8 \in Int
      BY <2>4
    <3>5. 0 <= Request.walking
      BY <2>1, RequestTyped
    <3>6. Eligible(o)
      BY <2>4, <2>6, <3>2, <3>4, <3>5 DEF Eligible, CarSuits, InTime
    <3> QED  BY <2>2, <2>3, <3>3, <3>6
  <2>7. ASSUME NEW pair \in trip.near \X trip.far, PairSuits(pair)
        PROVE  FALSE
    <3>1. \A s \in trip.near \cup trip.far : IsStation(s)
      BY <2>1 DEF TripGood, SourcesTyped
    <3>2. pair \in Pairs(trip.near, trip.far)
      <4>1. PICK a \in trip.near, b \in trip.far : pair = <<a, b>>
        OBVIOUS
      <4>2. IsStation(a) /\ IsStation(b) /\ pair[1] = a /\ pair[2] = b
        BY <3>1, <4>1
      <4>3. Usable(a, Request.bikes, 0) /\ Usable(b, 0, Request.docks)
        BY <2>7, <4>2 DEF PairSuits, IsStation, Usable
      <4> QED  BY <2>7, <4>1, <4>3 DEF PairSuits, Pairs
    <3>3. PICK p : /\ IsStation(p[1]) /\ IsStation(p[2]) /\ PairTaken(p)
                   /\ PairDuration(p) <= PairDuration(pair) /\ VelovOption(p) \in trip.options
      BY <2>1, <3>2 DEF TripGood, PairsTold
    <3>4. PairDuration(pair) \in Int
      BY <3>1, <3>2, PairsTyped
    <3>5. PairWalking(p) \in Int /\ PairDuration(p) \in Int
      BY <3>3, DistancesTyped
    <3>6. PICK o : o = VelovOption(p)
      OBVIOUS
    <3>7. /\ o.mode = "velov" /\ o.evidence = "estimated" /\ o.walking = PairWalking(p)
          /\ o.arrives = PairDuration(p) /\ o.alerts = FALSE
      BY <3>6 DEF VelovOption, Option
    <3>8. PICK w, d, e : w = PairWalking(p) /\ d = PairDuration(p) /\ e = PairDuration(pair)
      OBVIOUS
    <3>9. w \in Int /\ d \in Int /\ e \in Int /\ d <= e /\ w <= Request.walking
      BY <3>3, <3>4, <3>5, <3>8 DEF PairTaken
    <3>10. Request.deadline = Never \/ d <= Request.deadline
      BY <2>1, <2>7, <3>8, <3>9, RequestTyped DEF PairSuits, InTime
    <3>11. Eligible(o)
      BY <2>4, <2>7, <3>7, <3>8, <3>9, <3>10 DEF PairSuits, Eligible
    <3> QED  BY <2>2, <3>3, <3>6, <3>11
  <2>8. ASSUME NEW i \in DOMAIN trip.plan, ItinerarySuits(trip.plan[i])
        PROVE  FALSE
    <3>1. PICK transit : transit = trip.plan[i]
      OBVIOUS
    <3>2. IsItinerary(transit) /\ TransitOption(transit) \in trip.options /\ ItinerarySuits(transit)
      BY <2>1, <2>8, <3>1 DEF TripGood, PlanTold
    <3>3. PICK o : o = TransitOption(transit)
      OBVIOUS
    <3>4. o.mode = "tcl" /\ o.evidence = "calculated" /\ Conveys(o, transit)
      BY <3>3, TransitFields
    <3>5. Eligible(o)
      BY <2>4, <3>2, <3>4 DEF Eligible, Conveys, ItinerarySuits, InTime, IsItinerary
    <3> QED  BY <2>2, <3>2, <3>3, <3>5
  <2> QED  BY <2>5, <2>6, <2>7, <2>8
<1> QED  BY <1>1, TripIsGood, PTL

-----------------------------------------------------------------------------
(* lyon_next_departures: the scheduled departures.                         *)

DeparturesRecord ==
    /\ departures = [pc |-> departures.pc, at |-> departures.at, current |-> departures.current,
                     change |-> departures.change, timetable |-> departures.timetable,
                     read |-> departures.read, disturbed |-> departures.disturbed,
                     truncated |-> departures.truncated,
                     live |-> departures.live, scheduled |-> departures.scheduled]
    /\ departures.read = [times |-> departures.read.times, calendar |-> departures.read.calendar,
                          exceptions |-> departures.read.exceptions]
    /\ departures.at \in Instants /\ departures.change \in Changes
    /\ departures.timetable \in Timetables
    /\ departures.disturbed \in BOOLEAN /\ departures.truncated \in BOOLEAN

\* What the statements so far have read is the timetable that is stored, of whose
\* times some may be missing.
ReadSoFar ==
    ~departures.disturbed =>
        /\ departures.pc \in {"calendar", "exceptions", "schedule"} =>
              /\ departures.read.times \subseteq departures.timetable.times
              /\ ~departures.truncated => departures.read.times = departures.timetable.times
        /\ departures.pc \in {"exceptions", "schedule"} =>
              departures.read.calendar = departures.timetable.calendar
        /\ departures.pc = "schedule" => departures.read.exceptions = departures.timetable.exceptions

PastDays(at) == {d \in Days : d <= CivilDate(at) + 1}

Among(days) ==
    departures.pc = "scheduled" /\ ~departures.disturbed => departures.scheduled \subseteq Expected(days)

DeparturesGood ==
    /\ DeparturesRecord
    /\ ReadSoFar
    /\ Among(PastDays(departures.at))
    /\ Exactly(PastDays(departures.at))

\* Outside of its tool's calls nothing of a call is left.
DeparturesInv ==
    \/ departures = NoDepartures
    \/ call.stage # "idle" /\ call.tool = "departures" /\ DeparturesGood

LEMMA CivilDateTyped ==
  ASSUME DeparturesRecord
  PROVE  /\ CivilDate(departures.at) \in Days
         /\ DayStart(departures.change, CivilDate(departures.at)) <= departures.at
<1>1. PICK c : c = CivilDate(departures.at)
  OBVIOUS
<1>2. \E d \in Days : /\ DayStart(departures.change, d) <= departures.at
                      /\ departures.at < DayStart(departures.change, d + 1)
  BY DeparturesAssumption DEF DeparturesRecord
<1>3. c \in Days /\ DayStart(departures.change, c) <= departures.at
  BY <1>1, <1>2 DEF CivilDate, DateOf
<1> QED  BY <1>1, <1>3

\* No time of a day before ServiceDays is late enough for the window: of five
\* days ago and earlier, times up to 99:59:59 are over, whatever the clock did.
LEMMA EarlierDaysAreOver ==
  ASSUME DeparturesRecord, NEW d \in Days, d + 4 < CivilDate(departures.at), NEW time \in 0..199
  PROVE  ServiceTime(d, time) < departures.at
<1>1. PICK c, at, shift, day : /\ c = CivilDate(departures.at) /\ at = departures.at
                               /\ shift = departures.change.shift /\ day = departures.change.day
  OBVIOUS
<1>2. c \in Int /\ d \in Int /\ at \in Int /\ shift \in -2..2 /\ day \in Int
  BY <1>1, CivilDateTyped, DeparturesAssumption DEF DeparturesRecord
<1>3. 48 * c + (IF c > day THEN shift ELSE 0) <= at
  BY <1>1, CivilDateTyped DEF DayStart, Shifted, HalfHours
<1>4. ServiceTime(d, time) = 48 * d + (IF d >= day THEN shift ELSE 0) + time
  BY <1>1 DEF ServiceTime, Shifted, HalfHours
<1>5. 48 * d + (IF d >= day THEN shift ELSE 0) + time < 48 * c + (IF c > day THEN shift ELSE 0)
  <2>1. d + 4 < c
    BY <1>1
  <2>2. PICK x, y : x = (IF d >= day THEN shift ELSE 0) /\ y = (IF c > day THEN shift ELSE 0)
    OBVIOUS
  <2>3. x \in -2..2 /\ y \in -2..2
    BY <1>2, <2>2
  <2>4. 48 * d + x + time < 48 * c + y
    BY <1>2, <2>1, <2>3
  <2> QED  BY <2>2, <2>4
<1>6. ServiceTime(d, time) \in Int
  BY <1>2, <1>4
<1> QED  BY <1>1, <1>2, <1>3, <1>4, <1>5

\* Looking at ServiceDays finds what looking at every past day would.
LEMMA ServiceDaysSuffice ==
  ASSUME DeparturesRecord, NEW table, table.times \subseteq 0..199
  PROVE  Departing(table, ServiceDays(departures.at), departures.at)
           = Departing(table, PastDays(departures.at), departures.at)
<1>1. PICK at, c : at = departures.at /\ c = CivilDate(at)
  OBVIOUS
<1>2. c \in Int /\ \A d \in Days : d \in Int
  BY <1>1, CivilDateTyped, DeparturesAssumption
<1>3. ServiceDays(at) \subseteq PastDays(at)
  BY DEF ServiceDays, PastDays
<1>4. ASSUME NEW d \in PastDays(at), NEW time \in table.times, InWindow(d, time, at)
      PROVE  d \in ServiceDays(at)
  <2>1. d \in Days /\ d <= c + 1 /\ time \in 0..199
    BY <1>1, <1>4 DEF PastDays
  <2>2. at <= ServiceTime(d, time)
    BY <1>4 DEF InWindow
  <2>3. CASE d + 4 < c
    <3>1. ServiceTime(d, time) < at
      BY <1>1, <2>1, <2>3, EarlierDaysAreOver
    <3>2. PICK s : s = ServiceTime(d, time)
      OBVIOUS
    <3>3. s \in Int /\ at \in Int
      BY <1>1, <1>2, <2>1, <3>2, DeparturesAssumption
      DEF ServiceTime, Shifted, HalfHours, DeparturesRecord
    <3> QED  BY <2>2, <3>1, <3>2, <3>3
  <2>4. CASE ~(d + 4 < c)
    BY <1>1, <1>2, <2>1, <2>4 DEF ServiceDays
  <2> QED  BY <2>3, <2>4
<1>5. Departing(table, PastDays(at), at) \subseteq Departing(table, ServiceDays(at), at)
  BY <1>4 DEF Departing
<1>6. Departing(table, ServiceDays(at), at) \subseteq Departing(table, PastDays(at), at)
  BY <1>3 DEF Departing
<1> QED  BY <1>1, <1>5, <1>6

LEMMA SameChange ==
  ASSUME departures'.change = departures.change
  PROVE  /\ \A table, days, at : Departing(table, days, at)' = Departing(table, days, at)
         /\ \A found : FirstOf(found)' = FirstOf(found)
         /\ \A at : PastDays(at)' = PastDays(at)
<1>1. \A d, time : ServiceTime(d, time)' = ServiceTime(d, time)
  BY DEF ServiceTime
<1>2. \A at : CivilDate(at)' = CivilDate(at)
  BY DEF CivilDate
<1>3. \A d, time, at : InWindow(d, time, at)' <=> InWindow(d, time, at)
  BY <1>1 DEF InWindow
<1>4. \A table, days, at : Departing(table, days, at)' = Departing(table, days, at)
  BY <1>3 DEF Departing
<1>5. \A found : FirstOf(found)' = FirstOf(found)
  BY <1>1 DEF FirstOf
<1>6. \A at : PastDays(at)' = PastDays(at)
  BY <1>2 DEF PastDays
<1> QED  BY <1>4, <1>5, <1>6

\* A step to a place where nothing has been read since.
LEMMA MovesGood ==
  ASSUME DeparturesGood, NEW pc, pc \notin {"calendar", "exceptions", "schedule", "scheduled"}, NEW live,
         departures' = [departures EXCEPT !.pc = pc, !.live = live]
  PROVE  DeparturesGood'
<1>1. departures' = [pc |-> pc, at |-> departures.at, current |-> departures.current,
                     change |-> departures.change, timetable |-> departures.timetable,
                     read |-> departures.read, disturbed |-> departures.disturbed,
                     truncated |-> departures.truncated,
                     live |-> live, scheduled |-> departures.scheduled]
  BY DEF DeparturesGood, DeparturesRecord
<1>2. DeparturesRecord'
  BY <1>1 DEF DeparturesGood, DeparturesRecord
<1>3. ReadSoFar' /\ Among(PastDays(departures.at))' /\ Exactly(PastDays(departures.at))'
  BY <1>1 DEF ReadSoFar, Among, Exactly
<1> QED  BY <1>2, <1>3 DEF DeparturesGood

LEMMA GoToGood ==
  ASSUME DeparturesGood, NEW pc, pc \notin {"calendar", "exceptions", "schedule", "scheduled"}, GoTo(pc)
  PROVE  DeparturesGood' /\ departures'.pc = pc
<1>1. departures' = [departures EXCEPT !.pc = pc, !.live = departures.live]
  BY DEF GoTo, DeparturesGood, DeparturesRecord
<1>2. departures'.pc = pc
  BY <1>1 DEF DeparturesGood, DeparturesRecord
<1> QED  BY <1>1, <1>2, MovesGood

LEMMA ReadScheduleGood ==
  ASSUME DeparturesGood,
         NEW pc, NEW next, NEW table, ReadSchedule(pc, next, table),
         \/ pc = "calendar" /\ next = "exceptions" /\ table = "calendar"
         \/ pc = "exceptions" /\ next = "schedule" /\ table = "exceptions"
  PROVE  DeparturesGood' /\ departures'.pc \in {"done", next}
<1>1. CASE GoTo("done")
  BY <1>1, GoToGood
<1>2. CASE departures' = [departures EXCEPT !.pc = next, !.read[table] = departures.timetable[table]]
  <2>1. PICK read : read = [departures.read EXCEPT ![table] = departures.timetable[table]]
    OBVIOUS
  <2>2. departures' = [pc |-> next, at |-> departures.at, current |-> departures.current,
                       change |-> departures.change, timetable |-> departures.timetable,
                       read |-> read, disturbed |-> departures.disturbed,
                       truncated |-> departures.truncated,
                       live |-> departures.live, scheduled |-> departures.scheduled]
    BY <1>2, <2>1 DEF DeparturesGood, DeparturesRecord
  <2>3. departures.pc = pc /\ next \notin {"scheduled", "done"}
    BY DEF ReadSchedule
  <2>4. /\ read = [times |-> read.times, calendar |-> read.calendar, exceptions |-> read.exceptions]
        /\ read.times = departures.read.times
        /\ read.calendar = IF table = "calendar" THEN departures.timetable.calendar ELSE departures.read.calendar
        /\ read.exceptions = IF table = "exceptions" THEN departures.timetable.exceptions
                             ELSE departures.read.exceptions
    BY <2>1 DEF DeparturesGood, DeparturesRecord
  <2>5. DeparturesRecord'
    BY <2>2, <2>4 DEF DeparturesGood, DeparturesRecord
  <2>6. ReadSoFar'
    BY <2>2, <2>3, <2>4 DEF DeparturesGood, ReadSoFar
  <2>7. Among(PastDays(departures.at))' /\ Exactly(PastDays(departures.at))'
    BY <2>2, <2>3 DEF Among, Exactly
  <2> QED  BY <2>2, <2>5, <2>6, <2>7 DEF DeparturesGood
<1> QED  BY <1>1, <1>2 DEF ReadSchedule, Conclude

LEMMA ReadTimesGood ==
  ASSUME DeparturesGood, ReadTimes
  PROVE  DeparturesGood' /\ departures'.pc \in {"done", "calendar"}
<1>1. CASE GoTo("done")
  BY <1>1, GoToGood
<1>2. ASSUME NEW rows \in SUBSET departures.timetable.times,
             departures' = [departures EXCEPT !.pc = "calendar", !.read.times = rows,
                                    !.truncated = rows # departures.timetable.times]
      PROVE  DeparturesGood' /\ departures'.pc \in {"done", "calendar"}
  <2>1. PICK short \in BOOLEAN : short <=> rows # departures.timetable.times
    OBVIOUS
  <2>2. PICK read : read = [departures.read EXCEPT !.times = rows]
    OBVIOUS
  <2>3. departures' = [pc |-> "calendar", at |-> departures.at, current |-> departures.current,
                       change |-> departures.change, timetable |-> departures.timetable,
                       read |-> read, disturbed |-> departures.disturbed, truncated |-> short,
                       live |-> departures.live, scheduled |-> departures.scheduled]
    BY <1>2, <2>1, <2>2 DEF DeparturesGood, DeparturesRecord
  <2>4. /\ read = [times |-> read.times, calendar |-> read.calendar, exceptions |-> read.exceptions]
        /\ read.times = rows
    BY <2>2 DEF DeparturesGood, DeparturesRecord
  <2>5. DeparturesRecord'
    BY <2>3, <2>4 DEF DeparturesGood, DeparturesRecord
  <2>6. ReadSoFar'
    BY <2>1, <2>3, <2>4 DEF ReadSoFar
  <2>7. Among(PastDays(departures.at))' /\ Exactly(PastDays(departures.at))'
    BY <2>3 DEF Among, Exactly
  <2> QED  BY <2>3, <2>5, <2>6, <2>7 DEF DeparturesGood
<1> QED  BY <1>1, <1>2 DEF ReadTimes, Conclude

LEMMA ScheduleGood ==
  ASSUME DeparturesGood, Schedule
  PROVE  DeparturesGood'
<1>1. departures.pc = "schedule"
  BY DEF Schedule
<1>2. PICK found, kept :
        /\ found = Departing(departures.read, ServiceDays(departures.at), departures.at)
        /\ kept \in FirstOf(found)
        /\ departures' = [departures EXCEPT !.pc = "scheduled", !.scheduled = kept]
  BY DEF Schedule
<1>3. departures' = [pc |-> "scheduled", at |-> departures.at, current |-> departures.current,
                     change |-> departures.change, timetable |-> departures.timetable,
                     read |-> departures.read, disturbed |-> departures.disturbed,
                     truncated |-> departures.truncated,
                     live |-> departures.live, scheduled |-> kept]
  BY <1>2 DEF DeparturesGood, DeparturesRecord
<1>4. DeparturesRecord' /\ ReadSoFar'
  BY <1>3 DEF DeparturesGood, DeparturesRecord, ReadSoFar
<1>5. PICK expected : expected = Expected(PastDays(departures.at))
  OBVIOUS
<1>6. Expected(PastDays(departures.at))' = expected
  BY <1>3, <1>5, SameChange DEF Expected
<1>7. ASSUME ~departures.disturbed
      PROVE  /\ kept \subseteq expected
             /\ ~departures.truncated => found = expected
  <2>1. /\ departures.read.times \subseteq departures.timetable.times
        /\ ~departures.truncated => departures.read.times = departures.timetable.times
        /\ departures.read.calendar = departures.timetable.calendar
        /\ departures.read.exceptions = departures.timetable.exceptions
    BY <1>1, <1>7 DEF DeparturesGood, ReadSoFar
  <2>2. departures.timetable.times \subseteq 0..199
    BY DeparturesAssumption DEF DeparturesGood, DeparturesRecord
  <2>3. \A d : Runs(departures.read, d) <=> Runs(departures.timetable, d)
    BY <2>1 DEF Runs
  <2>4. found = Departing(departures.read, PastDays(departures.at), departures.at)
    BY <1>2, <2>1, <2>2, ServiceDaysSuffice DEF DeparturesGood
  <2>5. expected = Departing(departures.timetable, PastDays(departures.at), departures.at)
    BY <1>5 DEF Expected
  <2>6. found \subseteq expected /\ (~departures.truncated => found = expected)
    BY <2>1, <2>3, <2>4, <2>5 DEF Departing
  <2>7. kept \subseteq found
    BY <1>2 DEF FirstOf
  <2> QED  BY <2>6, <2>7
<1>8. kept \in FirstOf(found)'
  BY <1>2, <1>3, SameChange
<1>9. Among(PastDays(departures.at))' /\ Exactly(PastDays(departures.at))'
  BY <1>3, <1>6, <1>7, <1>8 DEF Among, Exactly
<1> QED  BY <1>4, <1>9 DEF DeparturesGood

LEMMA DeparturesStepGood ==
  ASSUME DeparturesGood, DeparturesStep
  PROVE  DeparturesGood'
<1>1. ASSUME NEW ref, FindStop(ref)
      PROVE  DeparturesGood'
  <2>1. \E pc \in {"done", "near", "live", "times"} : GoTo(pc)
    BY <1>1 DEF FindStop, Conclude
  <2> QED  BY <2>1, GoToGood
<1>2. CASE FindNear
  <2>1. \E pc \in {"done", "index", "live", "times"} : GoTo(pc)
    BY <1>2 DEF FindNear, Conclude
  <2> QED  BY <2>1, GoToGood
<1>3. CASE CheckIndex
  <2>1. GoTo("done")
    BY <1>3 DEF CheckIndex, Conclude
  <2> QED  BY <2>1, GoToGood
<1>4. CASE ReadLive
  <2>1. GoTo("times") \/ \E live : departures' = [departures EXCEPT !.pc = "done", !.live = live]
    BY <1>4 DEF ReadLive
  <2> QED  BY <2>1, GoToGood, MovesGood
<1> QED  BY <1>1, <1>2, <1>3, <1>4, ReadTimesGood, ReadScheduleGood, ScheduleGood DEF DeparturesStep

LEMMA ImportGood ==
  ASSUME DeparturesGood, ImportMeanwhile
  PROVE  DeparturesGood' /\ departures'.pc = departures.pc
<1>1. PICK stored \in Timetables, d \in BOOLEAN :
        /\ departures' = [departures EXCEPT !.timetable = stored, !.disturbed = d]
        /\ departures.pc # "times" => d
  <2>1. PICK d \in BOOLEAN : d <=> (departures.disturbed \/ departures.pc # "times")
    OBVIOUS
  <2>2. PICK stored \in Timetables :
          departures' = [departures EXCEPT !.timetable = stored,
                            !.disturbed = @ \/ departures.pc # "times"]
    BY DEF ImportMeanwhile
  <2>3. departures' = [departures EXCEPT !.timetable = stored, !.disturbed = d]
    BY <2>1, <2>2 DEF DeparturesGood, DeparturesRecord
  <2> QED  BY <2>1, <2>2, <2>3
<1>2. departures' = [pc |-> departures.pc, at |-> departures.at, current |-> departures.current,
                     change |-> departures.change, timetable |-> stored,
                     read |-> departures.read, disturbed |-> d, truncated |-> departures.truncated,
                     live |-> departures.live, scheduled |-> departures.scheduled]
  BY <1>1 DEF DeparturesGood, DeparturesRecord
<1>3. departures.pc \in {"times", "calendar", "exceptions"}
  BY DEF ImportMeanwhile
<1>4. DeparturesRecord'
  BY <1>1, <1>2 DEF DeparturesGood, DeparturesRecord
<1>5. ReadSoFar' /\ Among(PastDays(departures.at))' /\ Exactly(PastDays(departures.at))'
  BY <1>1, <1>2, <1>3 DEF ReadSoFar, Among, Exactly
<1> QED  BY <1>2, <1>4, <1>5 DEF DeparturesGood

LEMMA DeparturesKept ==
  ASSUME DeparturesGood, departures' = departures
  PROVE  DeparturesGood'
<1>1. DeparturesRecord' /\ ReadSoFar'
  BY DEF DeparturesGood, DeparturesRecord, ReadSoFar
<1>2. Expected(PastDays(departures.at))' = Expected(PastDays(departures.at))
  BY SameChange DEF Expected
<1>3. Among(PastDays(departures.at))' /\ Exactly(PastDays(departures.at))'
  BY <1>2, SameChange DEF DeparturesGood, Among, Exactly
<1> QED  BY <1>1, <1>3 DEF DeparturesGood

LEMMA BeginDeparturesGood ==
  ASSUME NEW at \in Instants, NEW current, NEW change \in Changes, NEW stored \in Timetables, NEW offline \in BOOLEAN,
         BeginDepartures(at, current, change, stored, offline)
  PROVE  DeparturesGood' /\ departures'.pc = "stop" /\ call'.tool = "departures" /\ call'.stage = "running"
<1>1. departures' = [pc |-> "stop", at |-> at, current |-> current, change |-> change,
                     timetable |-> stored, read |-> NoTimetable, disturbed |-> FALSE,
                     truncated |-> FALSE, live |-> {}, scheduled |-> {}]
  BY DEF BeginDepartures, NoDepartures
<1>2. DeparturesRecord'
  BY <1>1 DEF DeparturesRecord, NoTimetable
<1>3. ReadSoFar' /\ Among(PastDays(departures.at))' /\ Exactly(PastDays(departures.at))'
  BY <1>1 DEF ReadSoFar, Among, Exactly
<1> QED  BY <1>1, <1>2, <1>3, EnterEffect DEF DeparturesGood, BeginDepartures

LEMMA ContextIsKept ==
  Spec => []ContextOK
<1>1. Init => ContextOK
  BY InitialContext DEF Init, InitContext
<1>2. ContextOK /\ [Next]_vars => ContextOK'
  BY SameCall, NextContext
<1> QED  BY <1>1, <1>2, PTL DEF Spec

LEMMA DeparturesAreGood ==
  Spec => []DeparturesInv
<1>1. Init => DeparturesInv
  BY DEF Init, InitDepartures, DeparturesInv
<1>2. ContextOK /\ DeparturesInv /\ [Next]_vars => DeparturesInv'
  <2> SUFFICES ASSUME ContextOK, DeparturesInv, [Next]_vars
               PROVE  DeparturesInv'
    OBVIOUS
  <2>1. ASSUME departures' = departures, call.stage = "idle" \/ (call'.stage # "idle" /\ call'.tool = call.tool)
        PROVE  DeparturesInv'
    BY <2>1, DeparturesKept DEF DeparturesInv, NoDepartures
  <2>2. CASE UNCHANGED vars
    BY <2>1, <2>2 DEF vars
  <2>3. CASE Begin
    <3>1. call.stage = "idle"
      BY <2>3, BeginContext
    <3>2. \/ departures' = departures
          \/ \E offline \in BOOLEAN, at \in Instants, current \in BOOLEAN, change \in Changes, stored \in Timetables :
                BeginDepartures(at, current, change, stored, offline)
      BY <2>3 DEF Begin
    <3> QED  BY <2>1, <3>1, <3>2, BeginDeparturesGood DEF DeparturesInv
  <2>4. CASE Handle
    <3>1. call'.stage # "idle" /\ call'.tool = call.tool /\ Inside
      BY <2>4, MobilityContext, TripContext, DeparturesContext, PlacesContext, AccessContext, OfferContext
      DEF Handle, Inside
    <3>2. CASE DeparturesStep
      <4>1. DeparturesGood
        <5>1. departures.pc # "idle"
          BY <3>2 DEF DeparturesStep, FindStop, FindNear, CheckIndex, ReadLive, ReadTimes, ReadSchedule, Schedule
        <5> QED  BY <5>1 DEF DeparturesInv, NoDepartures
      <4>2. call.tool = "departures"
        BY <3>2, DeparturesContext
      <4> QED  BY <3>1, <3>2, <4>1, <4>2, DeparturesStepGood DEF DeparturesInv
    <3>3. CASE departures' = departures
      BY <2>1, <3>1, <3>3
    <3> QED  BY <2>4, <3>2, <3>3 DEF Handle
  <2>5. CASE Context
    BY <2>1, <2>5, ExpireEffect, CompleteEffect DEF Context, handlers
  <2>6. CASE Import
    <3>1. DeparturesGood
      BY <2>6 DEF Import, ImportMeanwhile, DeparturesInv, NoDepartures
    <3>2. call' = call /\ call.stage # "idle" /\ call.tool = "departures"
      BY <2>6 DEF Import, ImportMeanwhile, context, Running
    <3> QED  BY <2>6, <3>1, <3>2, ImportGood DEF Import, DeparturesInv
  <2>7. CASE Reply
    BY <2>7 DEF Reply, DeparturesInv, NoDepartures
  <2> QED  BY <2>2, <2>3, <2>4, <2>5, <2>6, <2>7 DEF Next
<1> QED  BY <1>1, <1>2, ContextIsKept, PTL DEF Spec

(***************************************************************************)
(* Unless an import comes between the statements, the scheduled departures  *)
(* are departures of the timetable in the next 24 elapsed hours, and unless *)
(* the first read also ends early, they are the first ones of every past    *)
(* service day, of today and of tomorrow: for any timetable with times up   *)
(* to 99:59:59 and any change of the clock by at most an hour, looking back *)
(* four days is enough.  The day after tomorrow, which the window reaches   *)
(* on the eve of a short day, is not among them (see ElapsedDayIsCovered).  *)
(***************************************************************************)
THEOREM ScheduledAreExact == Spec => []ScheduleIsExact
<1>1. DeparturesInv => ScheduleIsExact
  BY DEF DeparturesInv, NoDepartures, ScheduleIsExact, ToTomorrow, Among, Exactly, DeparturesGood, PastDays
<1> QED  BY <1>1, DeparturesAreGood, PTL

-----------------------------------------------------------------------------
(* Failures are told.                                                      *)

\* The failures that the answer has to tell: not those of resolving a place.
Failures == call.failed \ {"place"}

Named(e, sources) == \A source \in sources : \E warning \in e.warnings : warning[2] = source

\* An envelope that tells of some sources that they failed.
Owns(e, sources) == sources # {} => e.degraded = TRUE /\ Named(e, sources)

Honest(e, sources) == Owns(e, sources) /\ (sources # {} => e.status \notin {"ok", "not_found"})

\* One that goes on telling, whatever warnings and failures follow.
Steady(e, sources) == IsEnvelope(e) /\ e.status # "not_found" /\ Honest(e, sources)

LEMMA SameFailures ==
  ASSUME call'.failed = call.failed
  PROVE  Failures' = Failures
BY DEF Failures

LEMMA PlaceFailures ==
  ASSUME NEW ref, NEW outcome \in Resolutions(ref)
  PROVE  outcome.failed \subseteq {"place"}
BY DEF Resolutions, Outcomes

LEMMA GoesOn ==
  ASSUME ContextOK, NEW sources, call' = Failing(sources)
  PROVE  /\ call'.stage = call.stage /\ call'.tool = call.tool
         /\ "place" \notin sources => Failures' = Failures \cup sources
         /\ sources \subseteq {"place"} => Failures' = Failures
<1>1. /\ call'.stage = call.stage /\ call'.tool = call.tool
      /\ call'.failed = call.failed \cup sources
  BY DEF ContextOK, Failing
<1> QED  BY <1>1 DEF Failures

LEMMA Returns ==
  ASSUME ContextOK, NEW e, NEW sources, Handled(e, sources)
  PROVE  /\ call'.stage = "handled" /\ envelope' = e
         /\ "place" \notin sources => Failures' = Failures \cup sources
         /\ sources \subseteq {"place"} => Failures' = Failures
<1>1. PICK c : c = Failing(sources)
  OBVIOUS
<1>2. /\ c = [stage |-> c.stage, tool |-> c.tool, offline |-> c.offline,
              expired |-> c.expired, failed |-> c.failed]
      /\ c.failed = call.failed \cup sources
  BY <1>1 DEF ContextOK, Failing
<1>3. call'.stage = "handled" /\ envelope' = e /\ call'.failed = call.failed \cup sources
  BY <1>1, <1>2 DEF Handled
<1> QED  BY <1>3 DEF Failures

LEMMA OwnsWarnIf ==
  ASSUME NEW e, IsEnvelope(e), NEW F, Owns(e, F), NEW cond \in BOOLEAN, NEW code, NEW source,
         NEW S, S \subseteq {source}, S # {} => cond, NEW w, w = WarnIf(cond, e, code, source)
  PROVE  IsEnvelope(w) /\ Owns(w, F \cup S)
<1>1. /\ IsEnvelope(w) /\ e.warnings \subseteq w.warnings /\ (e.degraded = TRUE => w.degraded = TRUE)
      /\ cond => <<code, source>> \in w.warnings /\ w.degraded = TRUE
  BY WarnIfEffect
<1>2. Named(w, F)
  BY <1>1 DEF Owns, Named
<1>3. Named(w, S)
  BY <1>1 DEF Named
<1> QED  BY <1>1, <1>2, <1>3 DEF Owns, Named

\* A warning about something else.
LEMMA OwnsOn ==
  ASSUME NEW e, IsEnvelope(e), NEW F, Owns(e, F), NEW cond \in BOOLEAN, NEW code, NEW source,
         NEW w, w = WarnIf(cond, e, code, source)
  PROVE  IsEnvelope(w) /\ Owns(w, F)
<1>1. PICK S : S = {}
  OBVIOUS
<1>2. IsEnvelope(w) /\ Owns(w, F \cup S)
  BY <1>1, OwnsWarnIf
<1>3. F \cup S = F
  BY <1>1
<1> QED  BY <1>2, <1>3

LEMMA SteadyWarnIf ==
  ASSUME NEW e, NEW F, Steady(e, F), NEW cond \in BOOLEAN, NEW code, NEW source,
         NEW S, S \subseteq {source}, S # {} => cond, NEW w, w = WarnIf(cond, e, code, source)
  PROVE  Steady(w, F \cup S)
<1>1. IsEnvelope(w) /\ Owns(w, F \cup S)
  BY OwnsWarnIf DEF Steady, Honest
<1>2. IsEnvelope(e)
  BY DEF Steady
<1>3. PICK q : q = WarnIf(cond, e, code, source)
  OBVIOUS
<1>4. q.status = e.status \/ q.status = "partial"
  BY <1>2, <1>3, WarnIfEffect
<1>5. q.status = "ok" => ~cond /\ e.status = "ok"
  BY <1>2, <1>3, WarnIfEffect
<1>6. q = w
  BY <1>3
<1> QED  BY <1>1, <1>4, <1>5, <1>6 DEF Steady, Honest

LEMMA WarnIsWarnIf ==
  ASSUME NEW e, NEW code, NEW source
  PROVE  Warn(e, code, source) = WarnIf(TRUE, e, code, source)
BY DEF WarnIf

LEMMA SteadyWarn ==
  ASSUME NEW e, NEW F, Steady(e, F), NEW code, NEW source,
         NEW S, S \subseteq {source}, NEW w, w = Warn(e, code, source)
  PROVE  Steady(w, F \cup S) /\ w.warnings # {}
<1>1. w = WarnIf(TRUE, e, code, source)
  BY WarnIsWarnIf
<1>2. w.warnings = e.warnings \cup {<<code, source>>}
  BY WarnEffect DEF Steady
<1> QED  BY <1>1, <1>2, SteadyWarnIf

\* The status may be set to one that hides nothing.
LEMMA HonestStatus ==
  ASSUME NEW e, NEW F, Steady(e, F), NEW s, F # {} => s \notin {"ok", "not_found"}
  PROVE  Honest([e EXCEPT !.status = s], F)
<1>1. PICK n : n = [e EXCEPT !.status = s]
  OBVIOUS
<1>2. n.status = s /\ n.warnings = e.warnings /\ n.degraded = e.degraded
  BY <1>1, StatusEffect DEF Steady
<1>3. Honest(n, F)
  BY <1>2 DEF Steady, Honest, Owns, Named
<1> QED  BY <1>1, <1>3

LEMMA NewIsSteady ==
  ASSUME NEW s, s # "not_found"
  PROVE  Steady(NewEnvelope(s), {})
BY NewIsEnvelope DEF Steady, Honest, Owns

-----------------------------------------------------------------------------
(* Failures during lyon_next_departures.                                   *)

EarlyDepartures == {"stop", "near", "index"}

DeparturesTold ==
    /\ Steady(envelope, Failures)
    /\ departures.pc \in EarlyDepartures => Failures = {}

LEMMA EmptyIsHonest ==
  ASSUME NEW e, NEW F, Steady(e, F)
  PROVE  Honest(EmptyStatus(e), F)
<1>1. PICK n : n = EmptyStatus(e)
  OBVIOUS
<1>2. /\ n.warnings = e.warnings /\ n.degraded = TRUE
      /\ n.status = IF e.warnings # {} THEN "unavailable" ELSE "not_found"
  BY <1>1, EmptyStatusEffect DEF Steady
<1>3. Honest(n, F)
  BY <1>2 DEF Steady, Honest, Owns, Named
<1> QED  BY <1>1, <1>3

LEMMA DeparturesToldStep ==
  ASSUME ContextOK, DeparturesGood, DeparturesTold, DeparturesStep, call.stage = "running"
  PROVE  \/ call'.stage = "running" /\ DeparturesTold'
         \/ call'.stage = "handled" /\ Honest(envelope', Failures')
<1> DEFINE Goal == \/ call'.stage = "running" /\ DeparturesTold'
                   \/ call'.stage = "handled" /\ Honest(envelope', Failures')
<1>0. Steady(envelope, Failures)
  BY DEF DeparturesTold
<1>1. ASSUME NEW e, NEW S, "place" \notin S, Handled(e, S), Honest(e, Failures \cup S)
      PROVE  Goal
  BY <1>1, Returns
<1>2. ASSUME Failures = {}, NEW several \in BOOLEAN, call'.stage = "running", Failures' = {},
             envelope' = WarnIf(several, envelope, "AMBIGUOUS_PLACE", "places")
      PROVE  Goal
  <2>1. Steady(envelope', Failures \cup {})
    BY <1>0, <1>2, SteadyWarnIf
  <2>2. Failures' = {} /\ Failures \cup {} = Failures'
    BY <1>2
  <2>3. Steady(envelope', Failures')
    BY <2>1, <2>2
  <2> QED  BY <1>2, <2>2, <2>3 DEF DeparturesTold
<1>3. ASSUME NEW ref, FindStop(ref)
      PROVE  Goal
  <2>1. departures.pc = "stop" /\ Failures = {}
    BY <1>3 DEF FindStop, DeparturesTold, EarlyDepartures
  <2>2. PICK n : n = NewEnvelope("not_found")
    OBVIOUS
  <2>3. PICK outcome \in Resolutions(ref) :
          \/ Handled(n, outcome.failed)
          \/ /\ call' = Failing(outcome.failed)
             /\ \E stop \in BOOLEAN, several \in BOOLEAN :
                   envelope' = WarnIf(stop /\ several, envelope, "AMBIGUOUS_PLACE", "places")
    BY <1>3, <2>2 DEF FindStop, Conclude
  <2>4. PICK S : S = outcome.failed
    OBVIOUS
  <2>5. S \subseteq {"place"}
    BY <2>4, PlaceFailures
  <2>6. CASE Handled(n, S)
    <3>1. call'.stage = "handled" /\ Failures' = {}
      BY <2>1, <2>5, <2>6, Returns
    <3> QED  BY <3>1 DEF Honest, Owns
  <2>7. ASSUME call' = Failing(S), NEW stop \in BOOLEAN, NEW several \in BOOLEAN,
               envelope' = WarnIf(stop /\ several, envelope, "AMBIGUOUS_PLACE", "places")
        PROVE  Goal
    <3>1. call'.stage = "running" /\ Failures' = {}
      BY <2>1, <2>5, <2>7, GoesOn
    <3>2. PICK both \in BOOLEAN : both <=> stop /\ several
      OBVIOUS
    <3>3. envelope' = WarnIf(both, envelope, "AMBIGUOUS_PLACE", "places")
      BY <2>7, <3>2 DEF WarnIf
    <3> QED  BY <1>2, <2>1, <3>1, <3>3
  <2> QED  BY <2>3, <2>4, <2>6, <2>7
<1>4. CASE FindNear
  <2>1. departures.pc = "near" /\ Failures = {}
    BY <1>4 DEF FindNear, DeparturesTold, EarlyDepartures
  <2>2. PICK w, u : w = Warn(envelope, "SOURCE_UNAVAILABLE", "entities") /\ u = [w EXCEPT !.status = "unavailable"]
    OBVIOUS
  <2>3. Steady(w, Failures \cup {"entities"})
    BY <1>0, <2>2, SteadyWarn
  <2>4. Honest(u, Failures \cup {"entities"})
    BY <2>2, <2>3, HonestStatus
  <2>5. \/ Handled(u, {"entities"})
        \/ call' = call /\ \E stops : envelope' = WarnIf(stops > 1, envelope, "AMBIGUOUS_PLACE", "places")
    BY <1>4, <2>2 DEF FindNear, Conclude, Unavailable
  <2>6. ASSUME NEW stops, call' = call, envelope' = WarnIf(stops > 1, envelope, "AMBIGUOUS_PLACE", "places")
        PROVE  Goal
    <3>1. PICK several \in BOOLEAN : envelope' = WarnIf(several, envelope, "AMBIGUOUS_PLACE", "places")
      BY <2>6 DEF WarnIf
    <3>2. call'.stage = "running" /\ Failures' = {}
      BY <2>1, <2>6, SameFailures
    <3> QED  BY <1>2, <2>1, <3>1, <3>2
  <2> QED  BY <1>1, <2>4, <2>5, <2>6
<1>5. CASE CheckIndex
  <2>1. departures.pc = "index" /\ Failures = {}
    BY <1>5 DEF CheckIndex, DeparturesTold, EarlyDepartures
  <2>2. PICK w, u, n : /\ w = Warn(envelope, "SOURCE_UNAVAILABLE", "gtfs_tcl")
                       /\ u = [w EXCEPT !.status = "unavailable"]
                       /\ n = [envelope EXCEPT !.status = "not_found"]
    OBVIOUS
  <2>3. PICK fails \in BOOLEAN : Handled(u, IF fails THEN {"gtfs_tcl"} ELSE {}) \/ Handled(n, {})
    BY <1>5, <2>2 DEF CheckIndex, Conclude, Unavailable, StoreFails
  <2>4. PICK S : S = IF fails THEN {"gtfs_tcl"} ELSE {}
    OBVIOUS
  <2>5. Steady(w, Failures \cup S)
    BY <1>0, <2>2, <2>4, SteadyWarn
  <2>6. Honest(u, Failures \cup S)
    BY <2>2, <2>5, HonestStatus
  <2>7. Honest(n, Failures \cup {})
    BY <2>1 DEF Honest, Owns
  <2> QED  BY <1>1, <2>3, <2>4, <2>6, <2>7
<1>6. CASE ReadLive
  <2>1. PICK rows, err : err \in BOOLEAN /\
          LET live == rows \ {"elsewhen"}
              code == IF rows = {} THEN "SOURCE_UNAVAILABLE" ELSE "PARTIAL_RESULT"
              read == WarnIf(err, envelope, code, "tcl_departures")
              dated == WarnIf("undated" \in live, read, "PARTIAL_RESULT", "tcl_departures")
              sources == IF err THEN {"tcl_departures"} ELSE {}
          IN IF live = {}
             THEN GoTo("times") /\ envelope' = read /\ call' = Failing(sources)
             ELSE /\ departures' = [departures EXCEPT !.pc = "done", !.live = live]
                  /\ Handled(WarnIf("stale" \in live, dated, "STALE_DATA", "tcl_departures"), sources)
    BY <1>6 DEF ReadLive
  <2>2. PICK code, read, S : /\ code = IF rows = {} THEN "SOURCE_UNAVAILABLE" ELSE "PARTIAL_RESULT"
                             /\ read = WarnIf(err, envelope, code, "tcl_departures")
                             /\ S = IF err THEN {"tcl_departures"} ELSE {}
    OBVIOUS
  <2>3. PICK undated \in BOOLEAN, stale \in BOOLEAN :
          (undated <=> "undated" \in rows \ {"elsewhen"}) /\ (stale <=> "stale" \in rows \ {"elsewhen"})
    OBVIOUS
  <2>4. PICK dated : dated = WarnIf(undated, read, "PARTIAL_RESULT", "tcl_departures")
    OBVIOUS
  <2>5. PICK old : old = WarnIf(stale, dated, "STALE_DATA", "tcl_departures")
    OBVIOUS
  <2>6. \/ GoTo("times") /\ envelope' = read /\ call' = Failing(S)
        \/ Handled(old, S)
    BY <2>1, <2>2, <2>3, <2>4, <2>5 DEF WarnIf
  <2>7. Steady(read, Failures \cup S)
    BY <1>0, <2>1, <2>2, SteadyWarnIf
  <2>8. Steady(dated, Failures \cup S \cup {})
    BY <2>3, <2>4, <2>7, SteadyWarnIf
  <2>9. Steady(old, Failures \cup S \cup {} \cup {})
    BY <2>3, <2>5, <2>8, SteadyWarnIf
  <2>10. Failures \cup S \cup {} \cup {} = Failures \cup S
    OBVIOUS
  <2>11. Honest(old, Failures \cup S)
    BY <2>9, <2>10 DEF Steady
  <2>12. CASE GoTo("times") /\ envelope' = read /\ call' = Failing(S)
    <3>1. departures'.pc = "times"
      BY <2>12, GoToGood
    <3>2. call'.stage = "running" /\ Steady(envelope', Failures')
      BY <2>2, <2>7, <2>12, GoesOn
    <3> QED  BY <3>1, <3>2 DEF DeparturesTold, EarlyDepartures
  <2>13. "place" \notin S
    BY <2>2
  <2> QED  BY <1>1, <2>6, <2>11, <2>12, <2>13
<1>7. ASSUME NEW next, departures'.pc \in {"done", next}, next \notin EarlyDepartures,
             \/ ReadTimes
             \/ \E pc, table : ReadSchedule(pc, next, table)
      PROVE  Goal
  <2>1. PICK w, n : w = Warn(envelope, "SOURCE_UNAVAILABLE", "gtfs") /\ n = EmptyStatus(w)
    OBVIOUS
  <2>2. Handled(n, {"gtfs"}) \/ (call' = call /\ envelope' = envelope)
    BY <1>7, <2>1 DEF ReadTimes, ReadSchedule, Conclude, context
  <2>3. Honest(n, Failures \cup {"gtfs"})
    BY <1>0, <2>1, SteadyWarn, EmptyIsHonest
  <2>4. CASE call' = call /\ envelope' = envelope
    <3>1. Steady(envelope', Failures') /\ call'.stage = "running"
      BY <1>0, <2>4, SameFailures
    <3> QED  BY <1>7, <3>1 DEF DeparturesTold, EarlyDepartures
  <2> QED  BY <1>1, <2>2, <2>3, <2>4
<1>8. CASE Schedule
  <2>1. PICK n, w : n = EmptyStatus(envelope) /\ w = Warn(envelope, "STALE_DATA", "gtfs_tcl")
    OBVIOUS
  <2>2. Handled(n, {}) \/ Handled(w, {})
    BY <1>8, <2>1 DEF Schedule
  <2>3. Steady(w, Failures \cup {}) /\ Honest(n, Failures)
    BY <1>0, <2>1, SteadyWarn, EmptyIsHonest
  <2>4. Failures \cup {} = Failures
    OBVIOUS
  <2> QED  BY <1>1, <2>2, <2>3, <2>4 DEF Steady
<1>9. CASE ReadTimes
  BY <1>7, <1>9, ReadTimesGood DEF EarlyDepartures
<1>10. CASE ReadSchedule("calendar", "exceptions", "calendar")
  BY <1>7, <1>10, ReadScheduleGood DEF EarlyDepartures
<1>11. CASE ReadSchedule("exceptions", "schedule", "exceptions")
  BY <1>7, <1>11, ReadScheduleGood DEF EarlyDepartures
<1> HIDE DEF Goal
<1>12. Goal
  BY <1>3, <1>4, <1>5, <1>6, <1>8, <1>9, <1>10, <1>11 DEF DeparturesStep, Goal
<1> QED  BY <1>12 DEF Goal

-----------------------------------------------------------------------------
(* Failures during lyon_accessibility_check and lyon_resolve_place.        *)

LEMMA AccessToldStep ==
  ASSUME ContextOK, Steady(envelope, Failures), AccessStep, call.stage = "running"
  PROVE  \/ call'.stage = "running" /\ Steady(envelope', Failures')
         \/ call'.stage = "handled" /\ Honest(envelope', Failures')
<1> DEFINE Goal == \/ call'.stage = "running" /\ Steady(envelope', Failures')
                   \/ call'.stage = "handled" /\ Honest(envelope', Failures')
<1>1. ASSUME NEW S, "place" \notin S, call' = Failing(S), Steady(envelope', Failures \cup S)
      PROVE  Goal
  BY <1>1, GoesOn
<1>2. CASE ReadIncidents
  <2>1. PICK err : /\ err \in BOOLEAN
                   /\ call' = Failing(IF err THEN {"accessibility_incidents"} ELSE {})
                   /\ envelope' = WarnIf(err, envelope, "SOURCE_UNAVAILABLE", "accessibility_incidents")
    BY <1>2 DEF ReadIncidents
  <2>2. PICK S : S = IF err THEN {"accessibility_incidents"} ELSE {}
    OBVIOUS
  <2>3. Steady(envelope', Failures \cup S)
    BY <2>1, <2>2, SteadyWarnIf
  <2> QED  BY <1>1, <2>1, <2>2, <2>3
<1>3. CASE ResolveStop
  <2>1. PICK outcome \in Resolutions("place") \cup Resolutions("coordinates") :
          /\ call' = Failing(outcome.failed)
          /\ envelope' = envelope \/ envelope' = Warn(envelope, "PLACE_NOT_FOUND", "place")
    BY <1>3 DEF ResolveStop
  <2>2. PICK w : w = Warn(envelope, "PLACE_NOT_FOUND", "place")
    OBVIOUS
  <2>3. Steady(w, Failures \cup {})
    BY <2>2, SteadyWarn
  <2>4. Failures \cup {} = Failures
    OBVIOUS
  <2>5. call'.stage = "running" /\ Failures' = Failures
    BY <2>1, PlaceFailures, GoesOn
  <2> QED  BY <2>1, <2>2, <2>3, <2>4, <2>5
<1>4. CASE CheckStop
  <2>1. \/ /\ call' = Failing({"accessibility_check"})
           /\ envelope' = Warn(envelope, "SOURCE_UNAVAILABLE", "accessibility_check")
        \/ call' = call /\ envelope' = envelope
    BY <1>4 DEF CheckStop, context
  <2>2. PICK w : w = Warn(envelope, "SOURCE_UNAVAILABLE", "accessibility_check")
    OBVIOUS
  <2>3. Steady(w, Failures \cup {"accessibility_check"})
    BY <2>2, SteadyWarn
  <2> QED  BY <1>1, <2>1, <2>2, <2>3, SameFailures
<1>5. CASE ReadBoarding
  BY <1>5, SameFailures DEF ReadBoarding, context
<1>6. CASE ReturnAccess
  <2>1. PICK p : p = [envelope EXCEPT !.status = "partial", !.degraded = TRUE]
    OBVIOUS
  <2>2. Handled(p, {}) \/ Handled(envelope, {})
    BY <1>6, <2>1 DEF ReturnAccess
  <2>3. p.status = "partial" /\ p.degraded = TRUE /\ p.warnings = envelope.warnings
    BY <2>1 DEF ContextOK, IsEnvelope
  <2>4. Honest(p, Failures) /\ Honest(envelope, Failures)
    BY <2>3 DEF Steady, Honest, Owns, Named
  <2>5. call'.stage = "handled" /\ Failures' = Failures /\ envelope' \in {p, envelope}
    BY <2>2, Returns
  <2> QED  BY <2>4, <2>5
<1> HIDE DEF Goal
<1>7. Goal
  BY <1>2, <1>3, <1>4, <1>5, <1>6 DEF AccessStep, Goal
<1> QED  BY <1>7 DEF Goal

LEMMA PlacesToldStep ==
  ASSUME ContextOK, Owns(envelope, Failures), PlacesStep, call.stage = "running"
  PROVE  Owns(envelope', Failures')
<1>0. IsEnvelope(envelope)
  BY DEF ContextOK
<1>1. ASSUME NEW source, source # "place", NEW cond \in BOOLEAN, NEW S, S \subseteq {source}, S # {} => cond,
             call' = Failing(S), envelope' = WarnIf(cond, envelope, "SOURCE_UNAVAILABLE", source)
      PROVE  Owns(envelope', Failures')
  <2>1. Owns(envelope', Failures \cup S)
    BY <1>0, <1>1, OwnsWarnIf
  <2>2. Failures' = Failures \cup S
    BY <1>1, GoesOn
  <2> QED  BY <2>1, <2>2
<1>2. ASSUME NEW source, source # "place", call' = Failing({source}), envelope' = Warn(envelope, "SOURCE_UNAVAILABLE", source)
      PROVE  Owns(envelope', Failures')
  <2>1. envelope' = WarnIf(TRUE, envelope, "SOURCE_UNAVAILABLE", source)
    BY <1>2, WarnIsWarnIf
  <2> QED  BY <1>1, <1>2, <2>1
<1>3. ASSUME NEW pc, NEW next, NEW source, source # "place", SearchLocal(pc, next, source)
      PROVE  Owns(envelope', Failures')
  <2>1. \/ call' = Failing({source}) /\ envelope' = Warn(envelope, "SOURCE_UNAVAILABLE", source)
        \/ call' = call /\ envelope' = envelope
    BY <1>3 DEF SearchLocal, context
  <2> QED  BY <1>2, <1>3, <2>1, SameFailures
<1>4. CASE SearchRemote
  <2>1. \/ call' = Failing({"photon"}) /\ envelope' = Warn(envelope, "SOURCE_UNAVAILABLE", "photon")
        \/ call' = call /\ envelope' = envelope
    BY <1>4 DEF SearchRemote, context
  <2> QED  BY <1>2, <2>1, SameFailures
<1>5. CASE SaveResolvedPlace
  <2>1. PICK fails : /\ fails \in BOOLEAN
                     /\ envelope' = WarnIf(fails, envelope, "SOURCE_UNAVAILABLE", "places")
                     /\ call' = Failing(IF fails THEN {"places"} ELSE {})
    BY <1>5 DEF SaveResolvedPlace, StoreFails
  <2>2. PICK S : S = IF fails THEN {"places"} ELSE {}
    OBVIOUS
  <2> QED  BY <1>1, <2>1, <2>2
<1>6. CASE ReturnPlaces
  <2>1. PICK ambiguous \in BOOLEAN, near \in Outcomes, kept \in SUBSET places.candidates :
          LET several == Cardinality(kept) > 1 /\ ambiguous
              status == IF kept = {} THEN "not_found" ELSE IF several THEN "ambiguous" ELSE "ok"
              e == [envelope EXCEPT !.status = status]
          IN Handled(WarnIf(~near.found, WarnIf(several, e, "AMBIGUOUS_PLACE", "places"),
                            "PLACE_NOT_FOUND", "places"), near.failed)
    BY <1>6 DEF ReturnPlaces
  <2>2. PICK several, far :
          /\ several \in BOOLEAN /\ (several <=> Cardinality(kept) > 1 /\ ambiguous)
          /\ far \in BOOLEAN /\ (far <=> ~near.found)
    OBVIOUS
  <2>3. PICK status : status = IF kept = {} THEN "not_found" ELSE IF several THEN "ambiguous" ELSE "ok"
    OBVIOUS
  <2>4. PICK e : e = [envelope EXCEPT !.status = status]
    OBVIOUS
  <2>5. PICK v : v = WarnIf(several, e, "AMBIGUOUS_PLACE", "places")
    OBVIOUS
  <2>6. PICK w : w = WarnIf(far, v, "PLACE_NOT_FOUND", "places")
    OBVIOUS
  <2>7. Handled(w, near.failed) /\ near.failed \subseteq {"place"}
    BY <2>1, <2>2, <2>3, <2>4, <2>5, <2>6 DEF WarnIf, Outcomes
  <2>8. IsEnvelope(e) /\ Owns(e, Failures)
    <3>1. IsEnvelope(e) /\ e.warnings = envelope.warnings /\ e.degraded = envelope.degraded
      BY <1>0, <2>4, StatusEffect
    <3> QED  BY <3>1 DEF Owns, Named
  <2>9. IsEnvelope(v) /\ Owns(v, Failures)
    BY <2>2, <2>5, <2>8, OwnsOn
  <2>10. Owns(w, Failures)
    BY <2>2, <2>6, <2>9, OwnsOn
  <2>11. Failures' = Failures /\ envelope' = w
    BY <2>7, Returns
  <2> QED  BY <2>10, <2>11
<1> QED  BY <1>3, <1>4, <1>5, <1>6 DEF PlacesStep

-----------------------------------------------------------------------------
(* Failures of the tools around a place, which read once.                  *)

OfferTold == Failures = {} /\ envelope.status # "not_found"

LEMMA OfferToldStep ==
  ASSUME ContextOK, OfferTold, PlaceToolsStep, call.stage = "running"
  PROVE  \/ call'.stage = "running" /\ OfferTold'
         \/ call'.stage = "handled" /\ Honest(envelope', Failures')
<1> DEFINE Goal == \/ call'.stage = "running" /\ OfferTold'
                   \/ call'.stage = "handled" /\ Honest(envelope', Failures')
<1>0. IsEnvelope(envelope) /\ Failures = {}
  BY DEF ContextOK, OfferTold
<1>1. ASSUME NEW e, NEW S, "place" \notin S, Handled(e, S), Honest(e, S)
      PROVE  Goal
  BY <1>0, <1>1, Returns
<1>2. ASSUME NEW e, NEW S, S \subseteq {"place"}, FinishOffer(e, S)
      PROVE  Goal
  <2>1. call'.stage = "handled" /\ Failures' = {}
    BY <1>0, <1>2, Returns DEF FinishOffer
  <2> QED  BY <2>1 DEF Honest, Owns
<1>3. ASSUME NEW tool, NEW rows, NEW err \in BOOLEAN, NEW kept, NEW e,
             ReturnOffer(tool, rows, err, kept, e),
             err => /\ e.degraded = TRUE /\ e.status \notin {"ok", "not_found"}
                    /\ \E w \in e.warnings : w[2] = SourceOf(tool)
      PROVE  Goal
  <2>1. PICK S : S = IF err THEN {SourceOf(tool)} ELSE {}
    OBVIOUS
  <2>2. Handled(e, S) /\ "place" \notin S
    BY <1>3, <2>1 DEF ReturnOffer, SourceOf
  <2>3. Honest(e, S)
    BY <1>3, <2>1 DEF Honest, Owns, Named
  <2> QED  BY <1>1, <2>2, <2>3
<1>4. ASSUME NEW tool, NEW u, u = Unreadable(tool)
      PROVE  /\ u.degraded = TRUE /\ u.status \notin {"ok", "not_found"}
             /\ \E w \in u.warnings : w[2] = SourceOf(tool)
  <2>1. PICK s : s = SourceOf(tool)
    OBVIOUS
  <2>2. u.degraded = TRUE /\ u.status = "unavailable" /\ <<"SOURCE_UNAVAILABLE", s>> \in u.warnings
    BY <1>4, <2>1, UnreadableEffect
  <2> QED  BY <2>1, <2>2
<1>5. CASE Classify
  <2>1. PICK n : n = NewEnvelope("unavailable")
    OBVIOUS
  <2>2. PICK w : w = Warn(n, "SOURCE_UNAVAILABLE", "waste_taxonomy")
    OBVIOUS
  <2>3. \/ FinishOffer(w, {"waste_taxonomy"})
        \/ \E e : FinishOffer(e, {})
        \/ call' = call /\ \E class \in {"ok", "ambiguous"} : envelope' = NewEnvelope(class)
    BY <1>5, <2>1, <2>2 DEF Classify
  <2>4. Honest(w, {"waste_taxonomy"})
    <3>1. IsEnvelope(n) /\ n.status = "unavailable"
      BY <2>1, NewIsEnvelope
    <3>2. w.degraded = TRUE /\ w.status = "unavailable" /\ <<"SOURCE_UNAVAILABLE", "waste_taxonomy">> \in w.warnings
      BY <2>2, <3>1, WarnEffect
    <3> QED  BY <3>2 DEF Honest, Owns, Named
  <2>5. CASE FinishOffer(w, {"waste_taxonomy"})
    BY <1>1, <2>4, <2>5 DEF FinishOffer
  <2>6. CASE call' = call /\ \E class \in {"ok", "ambiguous"} : envelope' = NewEnvelope(class)
    BY <1>0, <2>6, NewIsEnvelope, SameFailures DEF OfferTold
  <2> QED  BY <1>2, <2>3, <2>5, <2>6
<1>6. CASE \E tool \in PlaceToolNames : ResolveCentre(tool)
  <2>1. PICK outcome \in Resolutions("place") \cup Resolutions("coordinates") :
          \/ call' = Failing(outcome.failed) /\ envelope' = envelope
          \/ FinishOffer(NewEnvelope("not_found"), outcome.failed)
    BY <1>6 DEF ResolveCentre
  <2>2. outcome.failed \subseteq {"place"}
    BY PlaceFailures
  <2>3. CASE call' = Failing(outcome.failed) /\ envelope' = envelope
    <3>1. call'.stage = "running" /\ Failures' = {}
      BY <1>0, <2>2, <2>3, GoesOn
    <3> QED  BY <2>3, <3>1 DEF OfferTold
  <2> QED  BY <1>2, <2>1, <2>2, <2>3
<1>7. CASE ParkingOptions
  <2>1. PICK rows, err, kept :
          /\ err \in BOOLEAN /\ (rows # {} => kept # {})
          /\ ReturnOffer("parking", rows, err, kept,
                         IF err /\ rows = {} THEN Unreadable("parking") ELSE ParkingEnvelope(kept, err))
    BY <1>7 DEF ParkingOptions
  <2>2. PICK u, p : u = Unreadable("parking") /\ p = ParkingEnvelope(kept, err)
    OBVIOUS
  <2>3. PICK e : e = IF err /\ rows = {} THEN u ELSE p
    OBVIOUS
  <2>4. ReturnOffer("parking", rows, err, kept, e)
    BY <2>1, <2>2, <2>3
  <2>5. /\ p.status = "ok" => ~err
        /\ err => /\ <<"PARTIAL_RESULT", "parking">> \in p.warnings /\ p.degraded = TRUE
                  /\ kept # {} => p.status # "not_found"
    BY <2>1, <2>2, ParkingEnvelopeEffect
  <2>6. err => /\ e.degraded = TRUE /\ e.status \notin {"ok", "not_found"}
               /\ \E w \in e.warnings : w[2] = SourceOf("parking")
    BY <1>4, <2>1, <2>2, <2>3, <2>5 DEF SourceOf
  <2> QED  BY <1>3, <2>1, <2>4, <2>6
<1>8. CASE NearbyFacilities
  <2>1. PICK rows, err, kept :
          /\ err \in BOOLEAN
          /\ ReturnOffer("facilities", rows, err, kept,
                         IF err /\ rows = {} THEN Unreadable("facilities") ELSE FacilitiesEnvelope(rows, err))
    BY <1>8 DEF NearbyFacilities
  <2>2. PICK u, p : u = Unreadable("facilities") /\ p = FacilitiesEnvelope(rows, err)
    OBVIOUS
  <2>3. PICK e : e = IF err /\ rows = {} THEN u ELSE p
    OBVIOUS
  <2>4. ReturnOffer("facilities", rows, err, kept, e)
    BY <2>1, <2>2, <2>3
  <2>5. /\ p.status = "ok" => ~err
        /\ err => <<"PARTIAL_RESULT", "facilities">> \in p.warnings /\ p.degraded = TRUE
        /\ p.status \in {"ok", "partial"}
    BY <2>1, <2>2, FacilitiesEnvelopeEffect
  <2>6. err => /\ e.degraded = TRUE /\ e.status \notin {"ok", "not_found"}
               /\ \E w \in e.warnings : w[2] = SourceOf("facilities")
    BY <1>4, <2>2, <2>3, <2>5 DEF SourceOf
  <2> QED  BY <1>3, <2>1, <2>4, <2>6
<1>9. CASE WasteDropoff
  <2>1. PICK rows, err, kept :
          err \in BOOLEAN /\ ReturnOffer("waste", rows, err, kept, WasteEnvelope(rows, err))
    BY <1>9 DEF WasteDropoff
  <2>2. PICK e : e = WasteEnvelope(rows, err)
    OBVIOUS
  <2>3. /\ e.status = "ok" => ~err
        /\ err => e.degraded = TRUE /\ \E w \in e.warnings : w[2] = "waste_facilities"
        /\ e.status \in {envelope.status, "partial"}
    BY <1>0, <2>1, <2>2, WasteEnvelopeEffect
  <2>4. err => /\ e.degraded = TRUE /\ e.status \notin {"ok", "not_found"}
               /\ \E w \in e.warnings : w[2] = SourceOf("waste")
    BY <2>3 DEF OfferTold, SourceOf
  <2> QED  BY <1>3, <2>1, <2>2, <2>4
<1>10. CASE EnvironmentBrief
  <2>1. PICK u : u = Unreadable("environment")
    OBVIOUS
  <2>2. \/ ReturnOffer("environment", {}, TRUE, {}, u)
        \/ \E rows, kept, e : ReturnOffer("environment", rows, FALSE, kept, e)
    BY <1>10, <2>1 DEF EnvironmentBrief
  <2>3. CASE ReturnOffer("environment", {}, TRUE, {}, u)
    BY <1>3, <1>4, <2>1, <2>3
  <2> QED  BY <1>3, <2>2, <2>3
<1> HIDE DEF Goal
<1>11. Goal
  BY <1>5, <1>6, <1>7, <1>8, <1>9, <1>10 DEF PlaceToolsStep, Goal
<1> QED  BY <1>11 DEF Goal


-----------------------------------------------------------------------------
(* Failures of the branches of lyon_mobility_status.                       *)

\* Every failure is remembered by a branch that has run, of which the answer
\* will warn.
MobilityTold ==
    /\ envelope.status # "not_found"
    /\ \A source \in Failures : \E b \in Branches :
          source = Source(b) /\ mobility.err[b] = TRUE /\ mobility.state[b] \in {"running", "done"}
    /\ mobility.pc = "areas" => Failures = {} /\ \A b \in Branches : mobility.state[b] = "off"

LEMMA MobilityToldKept ==
  ASSUME MobilityRecord, MobilityTold, NEW b \in Branches, NEW m \in {"running", "done"},
         mobility.state[b] # "off", mobility'.pc = mobility.pc,
         mobility'.state = [mobility.state EXCEPT ![b] = m],
         \A c \in Branches : mobility.err[c] = TRUE => mobility'.err[c] = TRUE,
         envelope' = envelope, NEW S, Failures' = Failures \cup S, S \subseteq {Source(b)},
         S # {} => mobility'.err[b] = TRUE
  PROVE  MobilityTold'
<1>1. envelope'.status # "not_found" /\ mobility'.pc # "areas"
  BY DEF MobilityTold
<1>2. mobility'.state[b] = m /\ \A c \in Branches \ {b} : mobility'.state[c] = mobility.state[c]
  BY DEF MobilityRecord
<1>3. ASSUME NEW source \in Failures'
      PROVE  \E c \in Branches : /\ source = Source(c) /\ mobility'.err[c] = TRUE
                                 /\ mobility'.state[c] \in {"running", "done"}
  <2>1. CASE source \in S
    BY <1>2, <2>1
  <2>2. CASE source \in Failures
    BY <1>2, <2>2 DEF MobilityTold
  <2> QED  BY <1>3, <2>1, <2>2
<1>4. \A source \in Failures' : \E c \in Branches :
         source = Source(c)' /\ mobility'.err[c] = TRUE /\ mobility'.state[c] \in {"running", "done"}
  BY <1>3 DEF Source
<1> QED  BY <1>1, <1>4 DEF MobilityTold

\* Of a branch that met an error the answer warns.
LEMMA BranchTells ==
  ASSUME NEW b \in Branches, mobility.err[b] = TRUE
  PROVE  \E w \in BranchWarnings(b) : w[2] = Source(b)
<1>1. PICK s : s = Source(b)
  OBVIOUS
<1>2. CASE mobility.rows[b] = {} \/ b = "traffic"
  <2>1. <<"SOURCE_UNAVAILABLE", s>> \in BranchWarnings(b)
    BY <1>1, <1>2 DEF BranchWarnings
  <2> QED  BY <1>1, <2>1
<1>3. CASE ~(mobility.rows[b] = {} \/ b = "traffic")
  <2>1. <<"PARTIAL_RESULT", s>> \in BranchWarnings(b)
    BY <1>1, <1>3 DEF BranchWarnings
  <2> QED  BY <1>1, <2>1
<1> QED  BY <1>2, <1>3

LEMMA MobilityToldStep ==
  ASSUME ContextOK, MobilityRecord, MobilityTold, MobilityStep, call.stage = "running"
  PROVE  \/ call'.stage = "running" /\ MobilityTold'
         \/ call'.stage = "handled" /\ Honest(envelope', Failures')
<1> DEFINE Goal == \/ call'.stage = "running" /\ MobilityTold'
                   \/ call'.stage = "handled" /\ Honest(envelope', Failures')
<1>1. CASE ResolveAreas
  <2>1. PICK labels, points, s, failed :
          /\ mobility.pc = "areas" /\ call' = Failing(failed) /\ failed \subseteq {"place"}
          /\ mobility' = [mobility EXCEPT !.pc = "branches", !.labels = 1..labels, !.points = points,
                             !.asked = IF labels = 0 THEN {0} ELSE 1..labels, !.state = s]
          /\ envelope' = WarnIf(points < mobility.areas, envelope, "PLACE_NOT_FOUND", "areas")
    <3>1. PICK labels, points, failed :
            /\ mobility.pc = "areas" /\ call' = Failing(failed) /\ failed \in SUBSET {"place"}
            /\ mobility' = [mobility EXCEPT !.pc = "branches", !.labels = 1..labels, !.points = points,
                  !.asked = IF labels = 0 THEN {0} ELSE 1..labels,
                  !.state = [b \in Branches |->
                      IF b \in mobility.include /\ ~(b = "roadworks" /\ Blocked(mobility.areas, points))
                      THEN "waiting" ELSE "off"]]
            /\ envelope' = WarnIf(points < mobility.areas, envelope, "PLACE_NOT_FOUND", "areas")
      BY <1>1, Zenon DEF ResolveAreas
    <3>2. PICK s : s = [b \in Branches |->
                      IF b \in mobility.include /\ ~(b = "roadworks" /\ Blocked(mobility.areas, points))
                      THEN "waiting" ELSE "off"]
      OBVIOUS
    <3> QED  BY <3>1, <3>2
  <2>2. PICK few \in BOOLEAN : envelope' = WarnIf(few, envelope, "PLACE_NOT_FOUND", "areas")
    BY <2>1 DEF WarnIf
  <2>3. PICK e : e = WarnIf(few, envelope, "PLACE_NOT_FOUND", "areas")
    OBVIOUS
  <2>4. e.status = envelope.status \/ e.status = "partial"
    BY <2>3, WarnIfEffect DEF ContextOK
  <2>5. mobility'.pc = "branches" /\ call'.stage = "running" /\ Failures' = {}
    BY <2>1, GoesOn DEF MobilityTold, MobilityRecord
  <2> QED  BY <2>1, <2>2, <2>3, <2>4, <2>5 DEF MobilityTold
<1>2. CASE \E b \in Branches : AcquireBranch(b)
  <2>1. PICK b \in Branches : AcquireBranch(b)
    BY <1>2
  <2>2. /\ mobility' = [mobility EXCEPT !.state[b] = "running", !.held = @ + 1]
        /\ mobility.state[b] = "waiting" /\ call' = call /\ envelope' = envelope
    BY <2>1 DEF AcquireBranch, context, In
  <2>3. PICK s, h : s = [mobility.state EXCEPT ![b] = "running"] /\ h = mobility.held + 1
    OBVIOUS
  <2>4. mobility' = [mobility EXCEPT !.state = s, !.held = h]
    BY <2>2, <2>3 DEF MobilityRecord
  <2>5. mobility'.pc = mobility.pc /\ mobility'.state = s /\ mobility'.err = mobility.err
    BY <2>4 DEF MobilityRecord
  <2>6. PICK S : S = {}
    OBVIOUS
  <2>7. Failures' = Failures \cup S
    BY <2>2, <2>6, SameFailures
  <2>8. MobilityTold'
    BY <2>2, <2>3, <2>5, <2>6, <2>7, MobilityToldKept
  <2> QED  BY <2>2, <2>8
<1>3. CASE \E b \in Branches : ReturnBranch(b)
  <2>0. PICK b \in Branches : ReturnBranch(b)
    BY <1>3
  <2>1. PICK rows, err :
          /\ mobility' = Finish(mobility, b, rows, err) /\ mobility.state[b] = "running"
          /\ call' = Failing(IF err THEN {Source(b)} ELSE {}) /\ envelope' = envelope
    BY <2>0 DEF ReturnBranch, In
  <2>2. PICK S : S = IF err THEN {Source(b)} ELSE {}
    OBVIOUS
  <2>3. call'.stage = "running" /\ Failures' = Failures \cup S
    BY <2>1, <2>2, GoesOn DEF Source, Branches
  <2>4. /\ mobility'.pc = mobility.pc /\ mobility'.state = [mobility.state EXCEPT ![b] = "done"]
        /\ mobility'.err = [mobility.err EXCEPT ![b] = @ \/ err]
    BY <2>1, FinishEffect
  <2>5. /\ \A c \in Branches : mobility.err[c] = TRUE => mobility'.err[c] = TRUE
        /\ S # {} => mobility'.err[b] = TRUE
    BY <2>2, <2>4 DEF MobilityRecord
  <2>6. S \subseteq {Source(b)}
    BY <2>2
  <2>7. MobilityTold'
    BY <2>1, <2>3, <2>4, <2>5, <2>6, MobilityToldKept
  <2> QED  BY <2>3, <2>7
<1>4. CASE ReturnTraffic
  <2>1. PICK m \in {"running", "done"} : mobility'.state = [mobility.state EXCEPT !["traffic"] = m]
    BY <1>4, TrafficEffect
  <2>2. PICK err : /\ call' = Failing(IF err THEN {"traffic"} ELSE {})
                   /\ err \in BOOLEAN /\ (err => mobility'.err["traffic"] = TRUE)
    BY <1>4, TrafficEffect
  <2>3. PICK S : S = IF err THEN {"traffic"} ELSE {}
    OBVIOUS
  <2>4. call'.stage = "running" /\ Failures' = Failures \cup S
    BY <2>2, <2>3, GoesOn
  <2>5. "traffic" \in Branches /\ Source("traffic") = "traffic"
    BY DEF Branches, Source
  <2>6. /\ mobility.state["traffic"] = "running" /\ mobility'.pc = mobility.pc /\ envelope' = envelope
        /\ \A c \in Branches : mobility.err[c] = TRUE => mobility'.err[c] = TRUE
    BY <1>4, TrafficEffect
  <2>7. S \subseteq {Source("traffic")} /\ (S # {} => mobility'.err["traffic"] = TRUE)
    BY <2>2, <2>3, <2>5
  <2>8. MobilityTold'
    BY <2>1, <2>4, <2>5, <2>6, <2>7, MobilityToldKept
  <2> QED  BY <2>4, <2>8
<1>5. CASE AssembleMobility
  <2>1. PICK ws : ws = UNION {BranchWarnings(b) : b \in In("done")}
    OBVIOUS
  <2>2. PICK e : e = WarnAll(envelope, ws)
    OBVIOUS
  <2>3. Handled(e, {}) /\ AllJoined
    BY <1>5, <2>1, <2>2 DEF AssembleMobility
  <2>4. /\ e.warnings = envelope.warnings \cup ws /\ (ws # {} => e.degraded = TRUE)
        /\ e.status = IF ws # {} /\ envelope.status = "ok" THEN "partial" ELSE envelope.status
    BY <2>2, WarnAllEffect DEF ContextOK
  <2>5. ASSUME NEW source \in Failures
        PROVE  \E w \in ws : w[2] = source
    <3>1. PICK b \in Branches : /\ source = Source(b) /\ mobility.err[b] = TRUE
                                /\ mobility.state[b] \in {"running", "done"}
      BY <2>5 DEF MobilityTold
    <3>2. b \in In("done")
      BY <2>3, <3>1 DEF AllJoined, In
    <3>3. PICK w \in BranchWarnings(b) : w[2] = Source(b)
      BY <3>1, BranchTells
    <3>4. w \in ws
      BY <2>1, <3>2, <3>3
    <3> QED  BY <3>1, <3>3, <3>4
  <2>6. Honest(e, Failures)
    BY <2>4, <2>5 DEF Honest, Owns, Named, MobilityTold
  <2>7. call'.stage = "handled" /\ Failures' = Failures /\ envelope' = e
    BY <2>3, Returns
  <2> QED  BY <2>6, <2>7
<1> HIDE DEF Goal
<1>6. Goal
  BY <1>1, <1>2, <1>3, <1>4, <1>5 DEF MobilityStep, Goal
<1> QED  BY <1>6 DEF Goal


-----------------------------------------------------------------------------
(* Failures during lyon_trip_options.                                      *)

\* The failure of the stations near the origin is told only after those near
\* the destination were read.
Late == IF trip.pc = "velov-to" THEN {"velov_realtime"} ELSE {}

TripTold ==
    /\ Steady(envelope, Failures \ Late)
    /\ trip.pc \in {"origin", "destination"} => Failures = {}

LEMMA SteadyLess ==
  ASSUME NEW e, NEW F, Steady(e, F), NEW L
  PROVE  Steady(e, F \ L)
BY DEF Steady, Honest, Owns, Named

LEMMA TripToldStep ==
  ASSUME ContextOK, trip.request \in Requests, TripRecord(trip), TripTold, TripStep, call.stage = "running"
  PROVE  \/ call'.stage = "running" /\ TripTold'
         \/ call'.stage = "handled" /\ Honest(envelope', Failures')
<1> DEFINE Goal == \/ call'.stage = "running" /\ TripTold'
                   \/ call'.stage = "handled" /\ Honest(envelope', Failures')
\* A step after which nothing is still to be told.
<1>1. ASSUME NEW S, "place" \notin S, call' = Failing(S), Steady(envelope', Failures \cup S),
             trip'.pc \notin {"origin", "destination", "velov-to"}
      PROVE  Goal
  <2>1. call'.stage = "running" /\ Failures' = Failures \cup S
    BY <1>1, GoesOn
  <2>2. PICK L : L = Late'
    OBVIOUS
  <2>3. L = {}
    BY <1>1, <2>2 DEF Late
  <2>4. Failures' \ L = Failures \cup S
    BY <2>1, <2>3
  <2> QED  BY <1>1, <2>1, <2>2, <2>4 DEF TripTold
<1>2. PICK steps : steps = {"velov", "park_and_ride", "tcl", "evaluate"}
  OBVIOUS
<1>3. /\ After("destination", Request.modes) \in steps
      /\ trip.pc \in {"velov-to", "park_and_ride", "tcl"} => After(trip.pc, Request.modes) \in steps \ {"velov"}
      /\ After("park_and_ride", Request.modes) \in steps
  BY <1>2, RequestTyped, AfterIsLater
<1>4. trip.pc # "velov-to" => Steady(envelope, Failures)
  <2>1. CASE trip.pc # "velov-to"
    <3>1. PICK L : L = Late
      OBVIOUS
    <3>2. L = {}
      BY <2>1, <3>1 DEF Late
    <3>3. Failures \ L = Failures
      BY <3>2
    <3> QED  BY <3>1, <3>3 DEF TripTold
  <2> QED  BY <2>1
<1>5. CASE \E ref \in {"coordinates", "query"} : ResolveEnd(ref)
  <2>1. PICK n, after : n = NewEnvelope("not_found") /\ after = After("destination", Request.modes)
    OBVIOUS
  <2>2. PICK S \in SUBSET {"place"} :
          /\ Failures = {} /\ Steady(envelope, Failures)
          /\ \/ Handled(n, S)
             \/ /\ call' = Failing(S) /\ envelope' = envelope
                /\ \/ trip' = [trip EXCEPT !.pc = "destination"]
                   \/ trip' = [trip EXCEPT !.pc = after, !.options = Estimated]
    <3>1. PICK ref \in {"coordinates", "query"} : ResolveEnd(ref)
      BY <1>5
    <3>2. PICK outcome \in Resolutions(ref) :
            \/ Handled(n, outcome.failed)
            \/ /\ call' = Failing(outcome.failed) /\ envelope' = envelope
               /\ \/ trip' = [trip EXCEPT !.pc = "destination"]
                  \/ trip' = [trip EXCEPT !.pc = after, !.options = Estimated]
      BY <2>1, <3>1 DEF ResolveEnd
    <3>3. Failures = {} /\ Steady(envelope, Failures)
      BY <1>4, <3>1 DEF ResolveEnd, TripTold
    <3> QED  BY <3>2, <3>3, PlaceFailures
  <2>3. CASE Handled(n, S)
    <3>1. call'.stage = "handled" /\ Failures' = {}
      BY <2>2, <2>3, Returns
    <3> QED  BY <3>1 DEF Honest, Owns
  <2>4. CASE /\ call' = Failing(S) /\ envelope' = envelope
             /\ \/ trip' = [trip EXCEPT !.pc = "destination"]
                \/ trip' = [trip EXCEPT !.pc = after, !.options = Estimated]
    <3>1. trip'.pc = "destination" \/ trip'.pc \in steps
      BY <1>3, <2>1, <2>4 DEF TripRecord
    <3>2. PICK L : L = Late'
      OBVIOUS
    <3>3. L = {}
      BY <1>2, <3>1, <3>2 DEF Late
    <3>4. call'.stage = "running" /\ Failures' = {}
      BY <2>2, <2>4, GoesOn
    <3>5. Failures' \ L = Failures
      BY <2>2, <3>3, <3>4
    <3> QED  BY <2>2, <2>4, <3>2, <3>4, <3>5 DEF TripTold
  <2> QED  BY <2>2, <2>3, <2>4
<1>6. CASE ReadNear
  <2>1. /\ trip.pc = "velov" /\ envelope' = envelope /\ call'.stage = "running"
        /\ Failures' = Failures \/ Failures' = Failures \cup {"velov_realtime"}
    BY <1>6, GoesOn, SameFailures DEF ReadNear, context
  <2>2. trip'.pc = "velov-to"
    BY <1>6 DEF ReadNear, TripRecord
  <2>3. PICK L : L = Late'
    OBVIOUS
  <2>4. L = {"velov_realtime"}
    BY <2>2, <2>3 DEF Late
  <2>5. Failures' \ L = Failures \ L
    BY <2>1, <2>4
  <2>6. Steady(envelope, Failures \ L)
    BY <1>4, <2>1, SteadyLess
  <2> QED  BY <2>1, <2>2, <2>3, <2>5, <2>6 DEF TripTold
<1>7. CASE ReadFar
  <2>1. PICK L : L = Late
    OBVIOUS
  <2>2. trip.pc = "velov-to" /\ L = {"velov_realtime"} /\ Steady(envelope, Failures \ L)
    BY <1>7, <2>1 DEF ReadFar, Late, TripTold
  <2>3. ASSUME NEW t, NEW options, t = Proceed(options)
        PROVE  t.pc \in steps /\ \A far : [t EXCEPT !.far = far].pc = t.pc
    BY <1>3, <2>2, <2>3, ProceedEffect
  <2>4. \/ /\ "velov_realtime" \notin call.failed /\ call' = call
           /\ \E chosen, far : trip' = [Proceed(chosen) EXCEPT !.far = far]
           /\ \E none \in BOOLEAN : envelope' = WarnIf(none, envelope, "PARTIAL_RESULT", "velov_realtime")
        \/ /\ trip' = Proceed({})
           /\ call' = Failing({"velov_realtime"})
           /\ envelope' = Warn(envelope, "SOURCE_UNAVAILABLE", "velov_realtime")
    BY <1>7 DEF ReadFar
  <2>5. CASE /\ "velov_realtime" \notin call.failed /\ call' = call
             /\ \E chosen, far : trip' = [Proceed(chosen) EXCEPT !.far = far]
             /\ \E none \in BOOLEAN : envelope' = WarnIf(none, envelope, "PARTIAL_RESULT", "velov_realtime")
    <3>1. PICK chosen, far : trip' = [Proceed(chosen) EXCEPT !.far = far]
      BY <2>5
    <3>2. PICK t : t = Proceed(chosen)
      OBVIOUS
    <3>3. trip'.pc \in steps
      BY <2>3, <3>1, <3>2
    <3>4. PICK none \in BOOLEAN : envelope' = WarnIf(none, envelope, "PARTIAL_RESULT", "velov_realtime")
      BY <2>5
    <3>5. PICK S : S = {}
      OBVIOUS
    <3>6. Steady(envelope', (Failures \ L) \cup S)
      BY <2>2, <3>4, <3>5, SteadyWarnIf
    <3>7. (Failures \ L) \cup S = Failures \cup S
      BY <2>2, <2>5, <3>5 DEF Failures
    <3>8. call' = Failing(S) /\ "place" \notin S
      BY <2>5, <3>5 DEF Failing, ContextOK
    <3> QED  BY <1>1, <1>2, <3>3, <3>6, <3>7, <3>8
  <2>6. CASE /\ trip' = Proceed({})
             /\ call' = Failing({"velov_realtime"})
             /\ envelope' = Warn(envelope, "SOURCE_UNAVAILABLE", "velov_realtime")
    <3>1. trip'.pc \in steps
      BY <2>3, <2>6
    <3>2. Steady(envelope', (Failures \ L) \cup {"velov_realtime"})
      BY <2>2, <2>6, SteadyWarn
    <3>3. (Failures \ L) \cup {"velov_realtime"} = Failures \cup {"velov_realtime"}
      BY <2>2
    <3> QED  BY <1>1, <1>2, <2>6, <3>1, <3>2, <3>3
  <2> QED  BY <2>4, <2>5, <2>6
<1>8. CASE ReadCarParks
  <2>1. PICK parks, err :
          /\ err \in BOOLEAN /\ trip.pc = "park_and_ride"
          /\ trip' = IF parks = {} THEN Proceed({}) ELSE [trip EXCEPT !.pc = "connections", !.parks = parks]
          /\ envelope' = WarnIf(err, envelope, IF parks = {} THEN "SOURCE_UNAVAILABLE" ELSE "PARTIAL_RESULT",
                                "parking")
          /\ call' = Failing(IF err THEN {"parking"} ELSE {})
    BY <1>8 DEF ReadCarParks
  <2>2. PICK code, S : /\ code = (IF parks = {} THEN "SOURCE_UNAVAILABLE" ELSE "PARTIAL_RESULT")
                       /\ S = (IF err THEN {"parking"} ELSE {})
    OBVIOUS
  <2>3. Steady(envelope', Failures \cup S)
    BY <1>4, <2>1, <2>2, SteadyWarnIf
  <2>4. PICK p : p = Proceed({})
    OBVIOUS
  <2>5. p.pc \in steps
    BY <1>3, <2>1, <2>4, ProceedEffect
  <2>6. trip'.pc \in steps \cup {"connections"}
    BY <2>1, <2>4, <2>5 DEF TripRecord
  <2> QED  BY <1>1, <1>2, <2>1, <2>2, <2>3, <2>6
<1>9. CASE Connect
  <2>1. PICK plan \in Plans :
          LET option == WithConnection(NextPark, plan[1])
              left == trip.parks \ {NextPark}
              unknown == WarnIf(~NextPark.known, envelope, "PARTIAL_RESULT", "parking_availability")
          IN /\ trip.pc = "connections"
             /\ trip' = IF left # {} THEN [trip EXCEPT !.parks = left, !.options = @ \cup {option}]
                        ELSE [trip EXCEPT !.parks = {}, !.options = @ \cup {option},
                                          !.pc = After("park_and_ride", Request.modes)]
             /\ envelope' = WarnIf(plan[1] = <<>>, unknown, "ROUTING_UNAVAILABLE", "park_and_ride")
             /\ call' = Failing(IF plan[2] THEN {"park_and_ride"} ELSE {})
    BY <1>9 DEF Connect
  <2>2. PICK unknown, none : /\ unknown \in BOOLEAN /\ (unknown <=> ~NextPark.known)
                             /\ none \in BOOLEAN /\ (none <=> plan[1] = <<>>)
    OBVIOUS
  <2>3. PICK e : e = WarnIf(unknown, envelope, "PARTIAL_RESULT", "parking_availability")
    OBVIOUS
  <2>4. envelope' = WarnIf(none, e, "ROUTING_UNAVAILABLE", "park_and_ride")
    BY <2>1, <2>2, <2>3 DEF WarnIf
  <2>5. Steady(e, Failures)
    <3>1. PICK S : S = {}
      OBVIOUS
    <3>2. Steady(e, Failures \cup S)
      BY <1>4, <2>1, <2>2, <2>3, <3>1, SteadyWarnIf
    <3>3. Failures \cup S = Failures
      BY <3>1
    <3> QED  BY <3>2, <3>3
  <2>6. PICK S : S = IF plan[2] THEN {"park_and_ride"} ELSE {}
    OBVIOUS
  <2>7. Steady(envelope', Failures \cup S)
    <3>1. S \subseteq {"park_and_ride"} /\ (S # {} => none)
      BY <2>1, <2>2, <2>6, PlansGiven
    <3> QED  BY <2>2, <2>4, <2>5, <3>1, SteadyWarnIf
  <2>8. trip'.pc \in steps \cup {"connections"}
    <3>1. PICK option, after : /\ option = WithConnection(NextPark, plan[1])
                               /\ after = After("park_and_ride", Request.modes)
      OBVIOUS
    <3>2. \/ trip' = [trip EXCEPT !.parks = trip.parks \ {NextPark}, !.options = @ \cup {option}]
          \/ trip' = [trip EXCEPT !.parks = {}, !.options = @ \cup {option}, !.pc = after]
      BY <2>1, <3>1
    <3> QED  BY <1>3, <2>1, <3>1, <3>2 DEF TripRecord
  <2> QED  BY <1>1, <1>2, <2>1, <2>6, <2>7, <2>8
<1>10. CASE PlanTransit
  <2>1. PICK plan \in Plans :
          /\ trip.pc = "tcl"
          /\ \E options : trip' = [Proceed(options) EXCEPT !.plan = plan[1]]
          /\ envelope' = WarnIf(plan[1] = <<>>, envelope, "ROUTING_UNAVAILABLE", "journey_planner")
          /\ call' = Failing(IF plan[2] THEN {"journey_planner"} ELSE {})
    BY <1>10 DEF PlanTransit
  <2>2. PICK none, S : /\ none \in BOOLEAN /\ (none <=> plan[1] = <<>>)
                       /\ S = (IF plan[2] THEN {"journey_planner"} ELSE {})
    OBVIOUS
  <2>3. envelope' = WarnIf(none, envelope, "ROUTING_UNAVAILABLE", "journey_planner")
    BY <2>1, <2>2 DEF WarnIf
  <2>4. Steady(envelope', Failures \cup S)
    <3>1. S \subseteq {"journey_planner"} /\ (S # {} => none)
      BY <2>1, <2>2, PlansGiven
    <3>2. Steady(envelope, Failures)
      BY <1>4, <2>1
    <3> QED  BY <2>2, <2>3, <3>1, <3>2, SteadyWarnIf
  <2>5. PICK options : trip' = [Proceed(options) EXCEPT !.plan = plan[1]]
    BY <2>1
  <2>6. PICK p : p = Proceed(options)
    OBVIOUS
  <2>7. trip'.pc \in steps
    BY <1>3, <2>1, <2>5, <2>6, ProceedEffect
  <2> QED  BY <1>1, <1>2, <2>1, <2>2, <2>4, <2>7
<1>11. CASE Recommend
  <2>1. PICK s : s = NothingStatus
    OBVIOUS
  <2>2. PICK e : e = [envelope EXCEPT !.status = s]
    OBVIOUS
  <2>3. /\ Steady(envelope, Failures)
        /\ Handled(e, {}) \/ Handled(envelope, {})
    BY <1>4, <1>11, <2>1, <2>2 DEF Recommend
  <2>4. Failures # {} => s \notin {"ok", "not_found"}
    BY <2>1, <2>3 DEF NothingStatus, Steady, Honest, Owns, Named
  <2>5. Honest(e, Failures) /\ Honest(envelope, Failures)
    BY <2>2, <2>3, <2>4, HonestStatus DEF Steady
  <2>6. call'.stage = "handled" /\ Failures' = Failures /\ (envelope' = e \/ envelope' = envelope)
    BY <2>3, Returns
  <2> QED  BY <2>5, <2>6
<1> HIDE DEF Goal
<1>12. Goal
  BY <1>5, <1>6, <1>7, <1>8, <1>9, <1>10, <1>11 DEF TripStep, Goal
<1> QED  BY <1>12 DEF Goal


-----------------------------------------------------------------------------
(* Failures of any call.                                                   *)

\* What the handler of a call that runs has told, or remembers to tell.
RunningTold ==
    /\ call.tool = "mobility" => MobilityTold
    /\ call.tool = "trip" => TripTold
    /\ call.tool = "departures" => DeparturesTold
    /\ call.tool = "access" => Steady(envelope, Failures)
    /\ call.tool = "places" => Owns(envelope, Failures)
    /\ call.tool \in PlaceToolNames => OfferTold

AnswerTold ==
    /\ Owns(envelope, Failures)
    /\ call.tool # "places" => Honest(envelope, Failures)

ToldInv ==
    /\ call.stage = "running" => RunningTold
    /\ call.stage \in {"handled", "answered"} => AnswerTold

LEMMA BeginTold ==
  ASSUME ContextOK', Begin, call'.failed = {}
  PROVE  ToldInv'
<1>0. Failures' = {}
  BY DEF Failures
<1>1. AnswerTold'
  BY <1>0 DEF AnswerTold, Honest, Owns
<1>2. PICK offline \in BOOLEAN :
        \/ /\ call'.tool = "mobility"
           /\ \/ \E include \in SUBSET Branches, areas \in 0..MaxAreas :
                    BeginMobility(include, areas, offline)
              \/ call'.stage = "handled"
        \/ call'.tool = "trip" /\ (Refuse("trip", offline) \/ Enter("trip", offline))
        \/ call'.tool = "departures" /\ Enter("departures", offline)
        \/ call'.tool = "places" /\ Enter("places", offline)
        \/ /\ call'.tool = "access"
           /\ \E stops \in 0..MaxStops, stepFree \in BOOLEAN : BeginAccess(stops, stepFree, offline)
        \/ call'.tool \in PlaceToolNames /\ Enter(call'.tool, offline)
  BY BeginKinds DEF BeginTrip, BeginDepartures, BeginPlaces, BeginPlaceTool
<1>3. ASSUME NEW tool, Enter(tool, offline)
      PROVE  Steady(envelope', {})
  <2>1. envelope' = NewEnvelope("ok")
    BY <1>3 DEF Enter
  <2> QED  BY <2>1, NewIsSteady
<1>4. ASSUME Steady(envelope', {}),
             call'.tool = "mobility" => \A b \in Branches : mobility'.state[b] = "off"
      PROVE  RunningTold'
  <2>1. PICK L : L = Late'
    OBVIOUS
  <2>2. Failures' \ L = {}
    BY <1>0
  <2>3. TripTold'
    BY <1>0, <1>4, <2>1, <2>2 DEF TripTold
  <2>4. call'.tool = "mobility" => MobilityTold'
    BY <1>0, <1>4 DEF MobilityTold, Steady
  <2>5. DeparturesTold' /\ OfferTold' /\ Owns(envelope', Failures')
    BY <1>0, <1>4 DEF DeparturesTold, OfferTold, Steady, Honest
  <2> QED  BY <1>0, <1>4, <2>3, <2>4, <2>5 DEF RunningTold
<1>5. CASE /\ call'.tool = "mobility"
           /\ \E include \in SUBSET Branches, areas \in 0..MaxAreas : BeginMobility(include, areas, offline)
  <2>1. \A b \in Branches : mobility'.state[b] = "off"
    BY <1>5 DEF BeginMobility, NoMobility
  <2>2. Steady(envelope', {})
    BY <1>3, <1>5 DEF BeginMobility
  <2> QED  BY <1>1, <1>4, <2>1, <2>2 DEF ToldInv
<1>6. CASE call'.stage = "handled"
  BY <1>1, <1>6 DEF ToldInv
<1>7. CASE /\ call'.tool = "access"
           /\ \E stops \in 0..MaxStops, stepFree \in BOOLEAN : BeginAccess(stops, stepFree, offline)
  <2>1. PICK stops \in 0..MaxStops, stepFree \in BOOLEAN : BeginAccess(stops, stepFree, offline)
    BY <1>7
  <2>2. CASE stops = 0
    BY <1>6, <2>1, <2>2 DEF BeginAccess, NoCall
  <2>3. CASE stops # 0
    <3>1. PICK n, S : n = NewEnvelope("ok") /\ S = {}
      OBVIOUS
    <3>2. envelope' = WarnIf(stepFree, n, "PARTIAL_RESULT", "accessibility")
      BY <2>1, <2>3, <3>1 DEF BeginAccess
    <3>3. Steady(n, {})
      BY <3>1, NewIsSteady
    <3>4. Steady(envelope', {} \cup S)
      BY <3>1, <3>2, <3>3, SteadyWarnIf
    <3>5. {} \cup S = {}
      BY <3>1
    <3> QED  BY <1>1, <1>4, <1>7, <3>4, <3>5 DEF ToldInv
  <2> QED  BY <2>2, <2>3
<1>8. CASE call'.tool # "mobility" /\ \E tool : Enter(tool, offline)
  BY <1>1, <1>3, <1>4, <1>8 DEF ToldInv
<1>9. Refuse("trip", offline) => call'.stage = "handled"
  BY DEF Refuse, NoCall
<1> QED  BY <1>2, <1>5, <1>6, <1>7, <1>8, <1>9 DEF PlaceToolNames

\* The answer that Complete sends tells what the handler's envelope told.
LEMMA SentTells ==
  ASSUME NEW F, Sent
  PROVE  /\ Owns(envelope, F) => Owns(envelope', F)
         /\ Honest(envelope, F) => Honest(envelope', F)
<1>1. Owns(envelope, F) => Owns(envelope', F)
  BY DEF Owns, Named, Sent
<1>2. envelope.status \notin {"ok", "not_found"} => envelope'.status \notin {"ok", "not_found"}
  BY DEF Sent
<1> QED  BY <1>1, <1>2 DEF Honest

LEMMA StillTold ==
  ASSUME ContextOK, ToldInv, Still, UNCHANGED <<mobility, trip, places, access, offer>>,
         departures'.pc # departures.pc => departures'.pc \notin EarlyDepartures
  PROVE  ToldInv'
<1>1. /\ call'.tool = call.tool /\ call'.failed = call.failed /\ Sent
      /\ \/ call'.stage = call.stage /\ envelope' = envelope
         \/ call.stage = "handled" /\ call'.stage = "answered"
  BY StillKeeps
<1>2. AnswerTold => AnswerTold'
  BY <1>1, SameFailures, SentTells DEF AnswerTold
<1>3. CASE envelope' = envelope /\ call'.stage = call.stage
  <2>1. MobilityTold => MobilityTold'
    BY <1>1, <1>3, SameFailures DEF MobilityTold, Source
  <2>2. TripTold => TripTold'
    BY <1>1, <1>3, SameFailures DEF TripTold, Late
  <2>3. DeparturesTold => DeparturesTold'
    BY <1>1, <1>3, SameFailures DEF DeparturesTold
  <2>4. OfferTold => OfferTold'
    BY <1>1, <1>3, SameFailures DEF OfferTold
  <2>5. RunningTold => RunningTold'
    BY <1>1, <1>3, <2>1, <2>2, <2>3, <2>4, SameFailures DEF RunningTold
  <2> QED  BY <1>2, <1>3, <2>5 DEF ToldInv
<1>4. CASE call.stage = "handled" /\ call'.stage = "answered"
  BY <1>2, <1>4 DEF ToldInv
<1> QED  BY <1>1, <1>3, <1>4

LEMMA HandlerTold ==
  ASSUME ContextOK, ToldInv, TripInv, DeparturesInv, RetainedInv, Inside,
         \/ MobilityStep /\ call.tool = "mobility"
         \/ TripStep /\ call.tool = "trip"
         \/ DeparturesStep /\ call.tool = "departures"
         \/ PlacesStep /\ call.tool = "places"
         \/ AccessStep /\ call.tool = "access"
         \/ PlaceToolsStep /\ call.tool \in PlaceToolNames
  PROVE  ToldInv'
<1>0. /\ call.stage = "running" /\ RunningTold /\ call'.tool = call.tool
      /\ call'.stage \in {"running", "handled"}
  BY DEF Inside, ToldInv
<1>1. ASSUME call'.stage = "handled", Honest(envelope', Failures')
      PROVE  ToldInv'
  BY <1>1 DEF ToldInv, AnswerTold, Honest
<1>2. CASE MobilityStep /\ call.tool = "mobility"
  <2>1. MobilityRecord /\ MobilityTold
    BY <1>0, <1>2 DEF RetainedInv, Refused, RunningTold
  <2>2. \/ call'.stage = "running" /\ MobilityTold'
        \/ call'.stage = "handled" /\ Honest(envelope', Failures')
    BY <1>0, <1>2, <2>1, MobilityToldStep
  <2> QED  BY <1>0, <1>1, <1>2, <2>2 DEF ToldInv, RunningTold, PlaceToolNames
<1>3. CASE TripStep /\ call.tool = "trip"
  <2>1. trip.request \in Requests /\ TripRecord(trip) /\ TripTold
    <3>1. trip.pc # "idle"
      BY <1>3 DEF TripStep, ResolveEnd, ReadNear, ReadFar, ReadCarParks, Connect, PlanTransit, Recommend
    <3> QED  BY <1>0, <1>3, <3>1 DEF TripInv, TripGood, NoTrip, RunningTold
  <2>2. \/ call'.stage = "running" /\ TripTold'
        \/ call'.stage = "handled" /\ Honest(envelope', Failures')
    BY <1>0, <1>3, <2>1, TripToldStep
  <2> QED  BY <1>0, <1>1, <1>3, <2>2 DEF ToldInv, RunningTold, PlaceToolNames
<1>4. CASE DeparturesStep /\ call.tool = "departures"
  <2>1. DeparturesGood /\ DeparturesTold
    <3>1. departures.pc # "idle"
      BY <1>4 DEF DeparturesStep, FindStop, FindNear, CheckIndex, ReadLive, ReadTimes, ReadSchedule, Schedule
    <3> QED  BY <1>0, <1>4, <3>1 DEF DeparturesInv, NoDepartures, RunningTold
  <2>2. \/ call'.stage = "running" /\ DeparturesTold'
        \/ call'.stage = "handled" /\ Honest(envelope', Failures')
    BY <1>0, <1>4, <2>1, DeparturesToldStep
  <2> QED  BY <1>0, <1>1, <1>4, <2>2 DEF ToldInv, RunningTold, PlaceToolNames
<1>5. CASE PlacesStep /\ call.tool = "places"
  <2>1. Owns(envelope', Failures')
    BY <1>0, <1>5, PlacesToldStep DEF RunningTold
  <2> QED  BY <1>0, <1>5, <2>1 DEF ToldInv, RunningTold, AnswerTold, PlaceToolNames
<1>6. CASE AccessStep /\ call.tool = "access"
  <2>1. \/ call'.stage = "running" /\ Steady(envelope', Failures')
        \/ call'.stage = "handled" /\ Honest(envelope', Failures')
    BY <1>0, <1>6, AccessToldStep DEF RunningTold
  <2> QED  BY <1>0, <1>1, <1>6, <2>1 DEF ToldInv, RunningTold, PlaceToolNames
<1>7. CASE PlaceToolsStep /\ call.tool \in PlaceToolNames
  <2>1. \/ call'.stage = "running" /\ OfferTold'
        \/ call'.stage = "handled" /\ Honest(envelope', Failures')
    BY <1>0, <1>7, OfferToldStep DEF RunningTold
  <2> QED  BY <1>0, <1>1, <1>7, <2>1 DEF ToldInv, RunningTold, PlaceToolNames
<1> QED  BY <1>2, <1>3, <1>4, <1>5, <1>6, <1>7

(***************************************************************************)
(* Whatever source fails that is read about a place, in whichever tool and  *)
(* however its reads and the deadline interleave, the answer is degraded,   *)
(* names the source in a warning, and is neither ok nor not_found (a search *)
(* for places keeps its status).  Of a failure while a place of the request *)
(* is resolved nothing is said: it is not told (see FailuresAreTold).       *)
(***************************************************************************)
THEOREM FailuresAreAlwaysTold == Spec => []FailuresAreTold
<1>1. Init => ToldInv
  BY DEF Init, InitContext, NoCall, ToldInv
<1>2. ContextOK /\ TripInv /\ DeparturesInv /\ RetainedInv /\ ToldInv /\ [Next]_vars => ToldInv'
  <2> SUFFICES ASSUME ContextOK, TripInv, DeparturesInv, RetainedInv, ToldInv, [Next]_vars
               PROVE  ToldInv'
    OBVIOUS
  <2>1. CASE call'.stage = "idle"
    BY <2>1 DEF ToldInv
  <2>2. CASE call'.stage # "idle"
    <3>1. CASE Begin /\ call.stage = "idle" /\ call'.failed = {}
      BY <2>2, <3>1, ToolSteps, BeginTold
    <3>2. CASE /\ Still /\ UNCHANGED <<mobility, trip, places, access, offer>>
               /\ departures' = departures \/ ImportMeanwhile
      <4>1. departures'.pc # departures.pc => departures'.pc \notin EarlyDepartures
        <5>1. CASE ImportMeanwhile
          <6>1. departures.pc # "idle"
            BY <5>1 DEF ImportMeanwhile
          <6>2. DeparturesRecord
            BY <6>1 DEF DeparturesInv, NoDepartures, DeparturesGood
          <6>3. PICK stored, disturbed : departures' = [departures EXCEPT !.timetable = stored, !.disturbed = disturbed]
            BY <5>1 DEF ImportMeanwhile
          <6> QED  BY <6>2, <6>3 DEF DeparturesRecord
        <5> QED  BY <3>2, <5>1
      <4> QED  BY <3>2, <4>1, StillTold
    <3> QED  BY <2>2, <3>1, <3>2, ToolSteps, HandlerTold
  <2> QED  BY <2>1, <2>2
<1>3. ContextOK /\ ToldInv => FailuresAreTold
  BY DEF ToldInv, AnswerTold, Honest, Owns, Named, Failures, FailuresAreTold
<1> QED  BY <1>1, <1>2, <1>3, ContextIsKept, TripIsGood, DeparturesAreGood, RetainedIsKept, PTL DEF Spec

=============================================================================
