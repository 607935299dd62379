--------------------------- MODULE MobilityStatus ----------------------------
(***************************************************************************)
(* The tool lyon_mobility_status (internal/service/mobility.go): branches    *)
(* that read one kind of information each, as goroutines under a semaphore, *)
(* joined before the answer is put together.                                *)
(*                                                                         *)
(* A row of a branch is what the answer tells apart: for traffic the area   *)
(* it was asked for, for road events where it lies.  Rows are already       *)
(* unique.  The branches write to fields of their own.                      *)
(***************************************************************************)
EXTENDS ToolContext, FiniteSetsExt

CONSTANTS
    MaxParallel,    \* network.max_parallel
    MaxAreas        \* bound on the areas of a request

Branches == {"transit", "accessibility", "traffic", "roadworks"}
Source(b) == CASE b = "transit" -> "tcl_alerts" [] b = "accessibility" -> "tcl_accessibility"
               [] b = "traffic" -> "traffic" [] b = "roadworks" -> "road_events"

VARIABLE mobility

NoMobility == [pc |-> "idle", include |-> {}, areas |-> 0, labels |-> {}, points |-> 0,
               state |-> [b \in Branches |-> "off"], asked |-> {}, held |-> 0,
               rows |-> [b \in Branches |-> {}], err |-> [b \in Branches |-> FALSE],
               data |-> [b \in Branches |-> {}]]

InitMobility == mobility = NoMobility

\* The size of the semaphore.
Limit == IF MaxParallel < 1 THEN 1 ELSE IF MaxParallel > 4 THEN 4 ELSE MaxParallel

\* The branches whose goroutine is in a state.
In(state) == {b \in Branches : mobility.state[b] = state}

-----------------------------------------------------------------------------

\* An empty include stands for all.
BeginMobility(include, areas, offline) ==
    /\ Enter("mobility", offline)
    /\ mobility' = [NoMobility EXCEPT !.pc = "areas", !.areas = areas,
                       !.include = IF include = {} THEN Branches ELSE include]

\* roadBlocked: no area of the request could be placed.
Blocked(areas, points) == areas # 0 /\ points = 0

\* resolveMobilityAreas: each area has a label, only a point, or neither, as a
\* read has failed or without that.
\* Every branch that is wanted becomes a goroutine.
ResolveAreas ==
    /\ Running("mobility") /\ mobility.pc = "areas"
    /\ \E labels \in 0..mobility.areas, points \in 0..mobility.areas, failed \in SUBSET {"place"} :
          /\ labels <= points
          /\ call.expired => labels = 0 /\ (points < mobility.areas => failed = {"place"})
          /\ mobility.areas = 0 => failed = {}
          /\ mobility' = [mobility EXCEPT !.pc = "branches", !.labels = 1..labels, !.points = points,
                !.asked = IF labels = 0 THEN {0} ELSE 1..labels,
                !.state = [b \in Branches |->
                    IF b \in mobility.include /\ ~(b = "roadworks" /\ Blocked(mobility.areas, points))
                    THEN "waiting" ELSE "off"]]
          /\ envelope' = WarnIf(points < mobility.areas, envelope, "PLACE_NOT_FOUND", "areas")
          /\ call' = Failing(failed)

\* A goroutine gets a place in the semaphore.
AcquireBranch(b) ==
    /\ Running("mobility") /\ b \in In("waiting") /\ mobility.held < Limit
    /\ mobility' = [mobility EXCEPT !.state[b] = "running", !.held = @ + 1]
    /\ UNCHANGED context

\* What a read returns: rows, an error, or the rows before a page that failed.
Replies == [rows : {{}, {"row"}}, err : BOOLEAN]
RoadReplies == [rows : {{}, {"near", "elsewhere"}}, err : BOOLEAN]

\* Mutant: a branch that fails returns without giving its place back.
FinishHolding(m, b, rows, err) ==
    [m EXCEPT !.rows[b] = @ \cup rows, !.err[b] = @ \/ err, !.state[b] = "done",
              !.held = IF err THEN @ ELSE @ - 1]

\* The read of a branch is over; it gives its place in the semaphore back.
Finish(m, b, rows, err) ==
    [m EXCEPT !.rows[b] = @ \cup rows, !.err[b] = @ \/ err, !.state[b] = "done", !.held = @ - 1]

ReturnBranch(b) ==
    /\ Running("mobility") /\ b \in In("running") \ {"traffic"}
    /\ \E reply \in IF b = "roadworks" THEN RoadReplies ELSE Replies :
          /\ mobility' = Finish(mobility, b, reply.rows, reply.err)
          /\ call' = Failing(IF reply.err THEN {Source(b)} ELSE {})
    /\ UNCHANGED envelope

\* The loop over the areas: one that fails does not end it.  Providers return
\* traffic conditions or an error, never both.
ReturnTraffic ==
    /\ Running("mobility") /\ "traffic" \in In("running")
    /\ \E err \in BOOLEAN :
          LET label == Min(mobility.asked)
              rows == IF err THEN {} ELSE {label}
              next == [mobility EXCEPT !.asked = @ \ {label}, !.err["traffic"] = @ \/ err,
                                       !.rows["traffic"] = @ \cup rows]
          IN /\ mobility' = IF next.asked = {} THEN Finish(next, "traffic", {}, next.err["traffic"]) ELSE next
             /\ call' = Failing(IF err THEN {"traffic"} ELSE {})
    /\ UNCHANGED envelope

\* filterRoadEvents: without areas nothing is filtered.
InAreas(rows) == IF mobility.points = 0 THEN rows ELSE rows \cap {"near"}

\* The data that a branch adds to the answer.
Data(b) == IF b = "roadworks" THEN InAreas(mobility.rows[b]) ELSE mobility.rows[b]

\* The warnings of a branch.
BranchWarnings(b) ==
    LET lost == mobility.err[b] /\ (mobility.rows[b] = {} \/ b = "traffic")
        cut == mobility.err[b] /\ ~lost
        unfiltered == b = "traffic" /\ mobility.points > Cardinality(mobility.labels)
        omitted == b = "roadworks" /\ Data(b) # mobility.rows[b]
    IN {w \in {<<"SOURCE_UNAVAILABLE", Source(b)>>, <<"PARTIAL_RESULT", Source(b)>>} :
           IF w[1] = "SOURCE_UNAVAILABLE" THEN lost ELSE cut \/ unfiltered \/ omitted}

\* Mutant: the answer is put together when no branch runs any more.
NoneRunning == In("running") = {}

\* waitGroup.Wait
AllJoined == In("waiting") \cup In("running") = {}

\* The rest of MobilityStatus, which nothing can stop.
AssembleMobility ==
    /\ Running("mobility") /\ mobility.pc = "branches" /\ AllJoined
    /\ mobility' = [mobility EXCEPT !.pc = "done",
                       !.data = [b \in Branches |-> IF b \in In("done") THEN Data(b) ELSE {}]]
    /\ Handled(WarnAll(envelope, UNION {BranchWarnings(b) : b \in In("done")}), {})

MobilityStep ==
    \/ ResolveAreas \/ ReturnTraffic \/ AssembleMobility
    \/ \E b \in Branches : AcquireBranch(b) \/ ReturnBranch(b)

-----------------------------------------------------------------------------

(***************************************************************************)
(* Property.  Every branch of an answer that ran is in it with all that its *)
(* source returned, whatever the other branches and the deadline did: the   *)
(* rows are the ones asked for, all of an unfiltered branch, the near ones  *)
(* of road events (the join and the fan-in of MobilityStatus).              *)
(***************************************************************************)
BranchesRetained ==
    Answered("mobility") =>
        \A b \in mobility.include :
            \/ b = "roadworks" /\ Blocked(mobility.areas, mobility.points)
            \/ /\ mobility.state[b] = "done"
               /\ mobility.data[b] = (IF b = "roadworks" /\ mobility.points > 0
                                      THEN mobility.rows[b] \cap {"near"} ELSE mobility.rows[b])
=============================================================================
