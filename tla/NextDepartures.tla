---------------------------- MODULE NextDepartures ---------------------------
(***************************************************************************)
(* The tool lyon_next_departures (internal/service/transit.go): the stop,   *)
(* realtime departures, and the timetable when there are none, which        *)
(* ScheduledDepartures (internal/storage/gtfs.go) reads in three statements *)
(* while an import may replace it.                                         *)
(*                                                                         *)
(* Time is in half hours that elapse from midnight of day 0, a Monday.  The *)
(* clock may go forward or back in one night, between midnight and noon, so *)
(* that this day is shorter or longer.  Lines and directions all match; a   *)
(* timetable has one service.                                              *)
(***************************************************************************)
EXTENDS ToolContext, FiniteSetsExt

CONSTANTS
    Timetables,     \* timetables: [times, calendar, exceptions], see Runs
    Instants,       \* the instants asked for
    Days,           \* the days there are
    Changes,        \* changes of the clock: [day, shift], of which a year has few
    RowLimit        \* the limit of a request

HalfHours == 48

\* Midnight or noon minus twelve hours, before or after the change of the clock.
Shifted(change, d, passed) == HalfHours * d + IF passed THEN change.shift ELSE 0

DayStart(change, d) == Shifted(change, d, d > change.day)

\* civilDate
DateOf(change, t) == CHOOSE d \in Days : DayStart(change, d) <= t /\ t < DayStart(change, d + 1)

(***************************************************************************)
(* Times go up to 99:59:59 (ParseGTFSTime), the clock changes by an hour,   *)
(* and the instants asked for lie on the days there are.                    *)
(***************************************************************************)
ASSUME DeparturesAssumption ==
    /\ Days \subseteq Int /\ Instants \subseteq Int
    /\ \A stored \in Timetables :
          /\ stored = [times |-> stored.times, calendar |-> stored.calendar,
                       exceptions |-> stored.exceptions]
          /\ stored.times \subseteq 0..199
    /\ \A change \in Changes :
          /\ change.day \in Int /\ change.shift \in -2..2
          /\ \A at \in Instants : \E d \in Days : DayStart(change, d) <= at /\ at < DayStart(change, d + 1)

VARIABLE departures

NoTimetable == [times |-> {}, calendar |-> [first |-> 0, last |-> 0, weekdays |-> {}],
                exceptions |-> [added |-> {}, removed |-> {}]]
NoDepartures == [pc |-> "idle", at |-> 0, current |-> FALSE, change |-> [day |-> 0, shift |-> 0],
                 timetable |-> NoTimetable, read |-> NoTimetable, disturbed |-> FALSE,
                 truncated |-> FALSE, live |-> {}, scheduled |-> {}]

InitDepartures == departures = NoDepartures

-----------------------------------------------------------------------------
(* Service days and elapsed time.                                          *)

CivilDate(t) == DateOf(departures.change, t)

\* ParseGTFSTime: a time counts from noon minus twelve hours of its service day.
ServiceTime(d, time) == Shifted(departures.change, d, d >= departures.change.day) + time

\* serviceRuns: an exception for the day comes before the calendar.
Runs(read, d) ==
    \/ d \in read.exceptions.added
    \/ /\ d \notin read.exceptions.removed
       /\ d \in read.calendar.first..read.calendar.last /\ (d % 7) \in read.calendar.weekdays

\* Mutant: only the service days of yesterday and later are looked at.
RecentDays(at) == {d \in Days : d + 1 >= CivilDate(at) /\ d <= CivilDate(at) + 1}

\* Times go up to 99:59:59, which is four days later.
ServiceDays(at) == {d \in Days : d + 4 >= CivilDate(at) /\ d <= CivilDate(at) + 1}

InWindow(d, time, at) == at <= ServiceTime(d, time) /\ ServiceTime(d, time) < at + HalfHours

\* The departures of some days, in the next 24 elapsed hours.
Departing(read, days, at) ==
    {run \in days \X read.times : Runs(read, run[1]) /\ InWindow(run[1], run[2], at)}

\* Sorted by time and cut at the limit.
FirstOf(found) ==
    {kept \in SUBSET found :
        /\ Cardinality(kept) = Min({RowLimit, Cardinality(found)})
        /\ \A k \in kept, l \in found \ kept : ServiceTime(k[1], k[2]) <= ServiceTime(l[1], l[2])}

-----------------------------------------------------------------------------

BeginDepartures(at, current, change, stored, offline) ==
    /\ Enter("departures", offline)
    /\ departures' = [NoDepartures EXCEPT !.pc = "stop", !.at = at, !.current = current,
                                          !.change = change, !.timetable = stored]

\* useRealtime
Realtime == call.offline \/ departures.current

GoTo(pc) == departures' = [departures EXCEPT !.pc = pc]

Conclude(e, sources) == GoTo("done") /\ Handled(e, sources)

Unavailable(e) == [e EXCEPT !.status = "unavailable"]

\* ResolveRef: a stop, or another place; several stops may match.
FindStop(ref) ==
    /\ Running("departures") /\ departures.pc = "stop"
    /\ \E outcome \in Resolutions(ref), stop \in BOOLEAN, several \in BOOLEAN :
          IF ~outcome.found THEN Conclude(NewEnvelope("not_found"), outcome.failed)
          ELSE /\ GoTo(IF ~stop THEN "near" ELSE IF Realtime THEN "live" ELSE "times")
               /\ envelope' = WarnIf(stop /\ several, envelope, "AMBIGUOUS_PLACE", "places")
               /\ call' = Failing(outcome.failed)

\* NearEntities and, when there is no stop near, HasTransitIndex.
FindNear ==
    /\ Running("departures") /\ departures.pc = "near"
    /\ \E fails \in StoreFails :
          IF fails
          THEN Conclude(Unavailable(Warn(envelope, "SOURCE_UNAVAILABLE", "entities")), {"entities"})
          ELSE \E stops \in 0..2 :
                  /\ GoTo(IF stops = 0 THEN "index" ELSE IF Realtime THEN "live" ELSE "times")
                  /\ envelope' = WarnIf(stops > 1, envelope, "AMBIGUOUS_PLACE", "places")
                  /\ UNCHANGED call

CheckIndex ==
    /\ Running("departures") /\ departures.pc = "index"
    /\ \E fails \in StoreFails, indexed \in BOOLEAN :
          IF fails \/ ~indexed
          THEN Conclude(Unavailable(Warn(envelope, "SOURCE_UNAVAILABLE", "gtfs_tcl")),
                        IF fails THEN {"gtfs_tcl"} ELSE {})
          ELSE Conclude([envelope EXCEPT !.status = "not_found"], {})

\* Mutant: an answer without departures is one that found none.
EmptyStatusFound(e) == [e EXCEPT !.status = "not_found", !.degraded = TRUE]

\* No departures.
EmptyStatus(e) == [e EXCEPT !.status = IF e.warnings # {} THEN "unavailable" ELSE "not_found",
                            !.degraded = TRUE]

\* The provider returns rows, an error, or rows beside an error; rows may be
\* out of the window of the request, old, or without a time of observation.
ReadLive ==
    /\ Running("departures") /\ departures.pc = "live"
    /\ \E rows \in SUBSET {"elsewhen", "fresh", "stale", "undated"}, err \in BOOLEAN :
          LET live == rows \ {"elsewhen"}
              code == IF rows = {} THEN "SOURCE_UNAVAILABLE" ELSE "PARTIAL_RESULT"
              read == WarnIf(err, envelope, code, "tcl_departures")
              dated == WarnIf("undated" \in live, read, "PARTIAL_RESULT", "tcl_departures")
              sources == IF err THEN {"tcl_departures"} ELSE {}
          IN IF live = {}
             THEN GoTo("times") /\ envelope' = read /\ call' = Failing(sources)
             ELSE /\ departures' = [departures EXCEPT !.pc = "done", !.live = live]
                  /\ Handled(WarnIf("stale" \in live, dated, "STALE_DATA", "tcl_departures"), sources)

\* The first statement of ScheduledDepartures, whose loop does not ask why the
\* rows end: a read that fails on the way counts as one that is complete.  (Once
\* the context has ended, the next statement fails.)
ReadTimes ==
    /\ Running("departures") /\ departures.pc = "times"
    /\ \E fails \in StoreFails, rows \in SUBSET departures.timetable.times :
          IF fails
          THEN Conclude(EmptyStatus(Warn(envelope, "SOURCE_UNAVAILABLE", "gtfs")), {"gtfs"})
          ELSE /\ departures' = [departures EXCEPT !.pc = "calendar", !.read.times = rows,
                                    !.truncated = rows # departures.timetable.times]
               /\ UNCHANGED context

\* The other statements, one after the other.
ReadSchedule(pc, next, table) ==
    /\ Running("departures") /\ departures.pc = pc
    /\ \E fails \in StoreFails :
          IF fails
          THEN Conclude(EmptyStatus(Warn(envelope, "SOURCE_UNAVAILABLE", "gtfs")), {"gtfs"})
          ELSE /\ departures' = [departures EXCEPT !.pc = next, !.read[table] = departures.timetable[table]]
               /\ UNCHANGED context

\* What follows in memory, and the rest of NextDepartures.
Schedule ==
    /\ Running("departures") /\ departures.pc = "schedule"
    /\ \E found \in {Departing(departures.read, ServiceDays(departures.at), departures.at)} :
       \E kept \in FirstOf(found) :
          /\ departures' = [departures EXCEPT !.pc = "scheduled", !.scheduled = kept]
          /\ Handled(IF kept = {} THEN EmptyStatus(envelope)
                     ELSE Warn(envelope, "STALE_DATA", "gtfs_tcl"), {})

\* An import of another program replaces the timetable.
ImportMeanwhile ==
    /\ Running("departures") /\ departures.pc \in {"times", "calendar", "exceptions"}
    /\ \E stored \in Timetables \ {departures.timetable} :
          departures' = [departures EXCEPT !.timetable = stored,
                            !.disturbed = @ \/ departures.pc # "times"]
    /\ UNCHANGED context

DeparturesStep ==
    \/ \E ref \in {"coordinates", "query"} : FindStop(ref)
    \/ FindNear \/ CheckIndex \/ ReadLive
    \/ ReadTimes
    \/ ReadSchedule("calendar", "exceptions", "calendar")
    \/ ReadSchedule("exceptions", "schedule", "exceptions")
    \/ Schedule

-----------------------------------------------------------------------------

\* The timetable's departures in the next 24 elapsed hours, of some days.
Expected(days) == Departing(departures.timetable, days, departures.at)

Exactly(days) ==
    departures.pc = "scheduled" /\ ~departures.disturbed /\ ~departures.truncated =>
        \E expected \in {Expected(days)} : departures.scheduled \in FirstOf(expected)

\* The service days up to tomorrow.
ToTomorrow == {d \in Days : d <= CivilDate(departures.at) + 1}

(***************************************************************************)
(* Property.  Unless an import came between the statements, the scheduled   *)
(* departures are departures of the timetable in the next 24 elapsed hours, *)
(* and unless the first read ended early, which is not noticed, they are    *)
(* the first ones of all the service days up to tomorrow: of every day in   *)
(* the past, however late its times run, also when the clock changes, with  *)
(* the exceptions of the calendar.  On the eve of a night with a short day  *)
(* the window has departures of the day after tomorrow too; they are left   *)
(* out, see ElapsedDayIsCovered (ScheduledDepartures, serviceRuns,          *)
(* ParseGTFSTime).                                                          *)
(***************************************************************************)
ScheduleIsExact ==
    /\ departures.pc = "scheduled" /\ ~departures.disturbed =>
          departures.scheduled \subseteq Expected(ToTomorrow)
    /\ Exactly(ToTomorrow)

(***************************************************************************)
(* Stated by docs/tools.md 134: "GTFS uses service calendars and date       *)
(* exceptions within the next 24 elapsed hours. It handles midnight service *)
(* days and both DST changes."  A night with a short day brings the service *)
(* of the day after tomorrow into the last hour of the window, and          *)
(* ScheduledDepartures never looks at that day.                             *)
(***************************************************************************)
ElapsedDayIsCovered == Exactly(Days)
=============================================================================
