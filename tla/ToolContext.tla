----------------------------- MODULE ToolContext -----------------------------
(***************************************************************************)
(* What every tool call has (internal/service/dispatch.go, model/helpers.go):*)
(* its context with a deadline, the envelope that its handler fills, and    *)
(* App.Call, which refuses bad arguments before the handler and completes   *)
(* the envelope after it.  The modules of the tools extend this one; a call *)
(* shares nothing with other calls but the store and the provider.          *)
(***************************************************************************)
EXTENDS Naturals, Sequences, FiniteSets

VARIABLES
    call,       \* the call that runs: its tool, its stage, its context
    envelope    \* the envelope as it is so far

context == <<call, envelope>>

\* A warning is a code and a source; its text is left out.
NewEnvelope(status) == [status |-> status, warnings |-> {}, degraded |-> FALSE, error |-> FALSE]

Warn(e, code, source) ==
    [e EXCEPT !.warnings = @ \cup {<<code, source>>}, !.degraded = TRUE,
              !.status = IF @ = "ok" THEN "partial" ELSE @]

WarnIf(condition, e, code, source) == IF condition THEN Warn(e, code, source) ELSE e

\* Warn for each of some warnings; their order makes no difference.
WarnAll(e, warnings) ==
    [e EXCEPT !.warnings = @ \cup warnings, !.degraded = @ \/ warnings # {},
              !.status = IF warnings # {} /\ @ = "ok" THEN "partial" ELSE @]

InvalidRequest ==
    [Warn(NewEnvelope("invalid_request"), "INVALID_REQUEST", "request_validation")
        EXCEPT !.error = TRUE]

AttachErrorDetail(e) ==
    IF e.status \in {"invalid_request", "unavailable"} THEN [e EXCEPT !.error = TRUE] ELSE e

NoCall == [stage |-> "idle", tool |-> "none", offline |-> FALSE, expired |-> FALSE, failed |-> {}]

InitContext == call = NoCall /\ envelope = NewEnvelope("ok")

\* Arguments that the schema or decodeInput refuses: no handler runs.
Refuse(tool, offline) ==
    /\ call.stage = "idle"
    /\ call' = [NoCall EXCEPT !.stage = "handled", !.tool = tool, !.offline = offline]
    /\ envelope' = InvalidRequest

\* Call hands the arguments to the handler of the tool.
Enter(tool, offline) ==
    /\ call.stage = "idle"
    /\ call' = [NoCall EXCEPT !.stage = "running", !.tool = tool, !.offline = offline]
    /\ envelope' = NewEnvelope("ok")

Running(tool) == call.stage = "running" /\ call.tool = tool

\* The deadline of the tool, or an earlier one of the caller, passes.
Expire ==
    /\ call.stage \in {"running", "handled"} /\ ~call.expired
    /\ call' = [call EXCEPT !.expired = TRUE]
    /\ UNCHANGED envelope

\* call.failed remembers the sources whose reads failed, "place" for those that
\* resolve a place.  A failure that the store keeps to itself is not among them.
Failing(sources) == [call EXCEPT !.failed = @ \cup sources]

\* The handler returns the envelope e.
Handled(e, sources) ==
    /\ call' = [Failing(sources) EXCEPT !.stage = "handled"]
    /\ envelope' = e

Completed(e) ==
    LET detailed == AttachErrorDetail(e)
        timed == WarnIf(call.expired, detailed, "TOOL_TIMEOUT", "tool_execution")
    IN IF e.status = "invalid_request" THEN detailed
       ELSE WarnIf(call.offline, timed, "OFFLINE_FIXTURE", "offline_fixtures")

\* The deferred function of Call.
Complete ==
    /\ call.stage = "handled"
    /\ call' = [call EXCEPT !.stage = "answered"]
    /\ envelope' = Completed(envelope)

Answered(tool) == call.stage = "answered" /\ call.tool = tool /\ envelope.status # "invalid_request"

\* A query of the store fails once the context has ended; it may fail before.
StoreFails == IF call.expired THEN {TRUE} ELSE BOOLEAN

\* A reference is resolved to a place or not; a read may have failed either way,
\* as a search has several sources and drops what it knows of their failures.
Outcomes == [found : BOOLEAN, failed : SUBSET {"place"}]

\* ResolvePoint and ResolveRef: coordinates need nothing, the other references
\* the store or the geocoder, which fail once the context has ended.
Resolutions(ref) == IF ref = "coordinates" THEN {[found |-> TRUE, failed |-> {}]}
                    ELSE IF call.expired THEN {[found |-> FALSE, failed |-> {"place"}]}
                    ELSE Outcomes
=============================================================================
