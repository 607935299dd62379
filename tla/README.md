# TLA+ verification of mcp-grand-lyon

This directory holds TLA+ models of mcp-grand-lyon, TLC configurations that check them on
small instances, and proofs, checked by TLAPS, of what matters most for every instance.
Line numbers refer to the sources under `src/`; `PROJECT.json` maps every definition to the
lines it stands for, lists the runs, the mutants that show that each property can fail, the
findings, the hazards and the theorems.

## 1. The system

mcp-grand-lyon is one Go program: a command line (`internal/cli`) and an MCP server on
standard input and output (`internal/adapter`), both over `internal/service`, which answers
tool calls from live sources (`internal/providers` over `internal/httpclient`) and from one
SQLite database (`internal/storage`). Several processes may run at the same time on the same
data directory: a server, commands, and commands that a scheduler starts.

```
 cli ----+                         +--> providers --> httpclient --> upstreams
         +--> service (App, tools) |        |             |
 mcp ----+                         +--> storage <---------+--- DataDir/gtfs/GTFS_TCL.ZIP
                                   |    (SQLite)
 config (environment, secrets.env, settings.yaml), profiles.yaml, sources.yaml
```

### Inventory

| Component | State | Operations | What is hard | What makes it correct |
| --- | --- | --- | --- | --- |
| HTTP client: coalesced reads (`httpclient/client.go` 56–235) | map of flights by key, waiter counters, channel of permits | `Get`, `joinFlight`, `runFlight`, `leaveFlight`, `acquire`, `release` | goroutines that join, give up and publish in any order; cancellation; a bounded pool | nobody joins a dead flight; one caller's cancellation hurts nobody; abandoned requests stop; permits balance; every call returns |
| HTTP client: attempts (303–400) | attempt number, timer, deadline | `do`, `waitForRetry`, `waitRetryDelay`, `parseRetryAfter` | deadline against retry against answer; overflow of durations | no early retry, no hopeless wait, all attempts used, an end |
| HTTP client: downloads (237–272, 442–522) | temporary file, destination | `Download`, `writeDownload` | errors and kills at each step, power cuts, two writers, the byte limit | the destination is always one whole body |
| HTTP client: policy (402–440) | none | `validateURL`, `checkRedirect` | a pure decision per URL | (not modelled) |
| GTFS synchronization (`cli/cli.go` 471–628, `storage/gtfs.go` 33–306) | canonical archive, timetable tables, stop index, `gtfs_imports` | `sync gtfs`, `--maintain`, `--from-file`; `ImportGTFS` | file and database change in separate steps, in several processes, with failures between any two | timetable, index and recorded hash belong to one archive; `UNCHANGED` tells the truth |
| GTFS queries (`gtfs.go` 308–503, `gtfs_coverage.go`) | reads only | `ScheduledDepartures`, `GTFSCoverage` | several statements without a transaction; service days over midnight | one timetable per answer |
| Briefings and history (`service/briefing.go`, `storage/profiles.go` 144–205, `storage/retention.go`) | `briefing_snapshots` | `PersonalBriefing`, `SaveSnapshot`, `LastSnapshot`, `PruneHistory`, `DeleteBriefingHistory` | read and write in separate statements; two orders of one table (time and id); outages | reported changes are exact; the baseline is what was reported last; no duplicates |
| Vélo'v observations (`profiles.go` 207–273) | `velov_snapshots`, `velov_stations` | `RecordVelov`, `Reliability`, `DeleteVelovHistory` | timestamps as text with offsets, compared with UTC cutoffs | retention by real time |
| Live provider: caches (`providers/live.go` 590–621, 928–1004) | station and parking caches with mutexes | `allVelov`, `parkingAvailability` | a mutex held over the network; errors cached; one unlocked read (815) | fresh data, no foreign errors, no caller blocked for ever |
| Live provider: paging (160–215, 1077–1184) | rows read so far | `queryTable`, `fetchOGCItems`, `fetchWFSItems` | limits of rows, pages and time; pages that shift | a cut result says so |
| Source registry (`storage/sources.go`, `providers/catalog.go`) | `source_registry` table | `LoadSources`, `SetSourceStatus`, catalog scan and validate | a row rewritten at each start, and by commands that read it before their requests | a resolved source stays so; OK is said of confirmed tables |
| Profiles (`profiles.go` 21–142, `cli/profiles.go`, `service/app.go` 54–74) | `profiles.yaml` and three tables | `LoadProfiles`, `profile set/remove` | two copies written one after the other; lost updates | the file is the source of truth |
| Configuration (`config/`) | `settings.yaml`, `secrets.env`, environment | `Load`, `Migrate`, `Explain`, `WriteSecrets` | precedence; two files rewritten in turn | migration preserves effective values |
| Setup (`cli/cli.go` 119–198, `cli/files.go`) | configuration files | `runSetup`, `copyConfiguration` | partial failure | nothing is lost, nothing overwritten unasked |
| Store (`storage/store.go`) | `schema_migrations` | `Open`, `migrate` | concurrent first starts; crash between migrations | each migration once |
| Permissions (`storage/permissions*.go`) | file modes | `EnsureDataDirectory`, `SecureStorage` | system calls, no protocol | (not modelled) |
| Entity index (`storage/entities.go`, `service/place.go`) | `entities` | `ResolvePlace`, `SaveResolvedPlace`, `SearchEntities`, `NearEntities` | searches and writes that fail one by one | a candidate's identity can be used again |
| Dispatch (`service/dispatch.go`) | none between calls | `Call` | a deadline after part of the work | failures and timeouts are told |
| Mobility status (`service/mobility.go`) | goroutines and results of one call | `MobilityStatus` | concurrent branches under a semaphore | none lost, all joined |
| Departures (`service/transit.go`) | none | `NextDepartures` | realtime and its fallback; three statements without a transaction; nights of 23 and 25 hours | exactly the departures of the next 24 hours |
| Journey planner (`service/journey.go`) | none | `TripOptions` | choices made before the constraints are looked at; partial evidence | what is recommended can be done as asked; a possible trip is found |
| Accessibility (`service/accessibility.go`) | none | `AccessibilityCheck` | evidence of several sources in turn, each of which may fail | the worst evidence decides; what could not be read is told |
| Parking, facilities, waste, environment (`service/parking.go`, `facilities.go`, `waste.go`, `environment.go`) | none | one handler each | rows of mixed quality beside an error | `ok` is said of what sources vouch for |
| Vélo'v stations of a briefing, freshness, capabilities, fixtures, adapter, types | none | one request each | conversion | (not modelled) |

## 2. Modules

| Module | Role |
| --- | --- |
| `SharedFetch` | abstract: what `Client.Get` promises its callers |
| `HttpFlights` | the client's flights, waiters, contexts and permits; implements `SharedFetch` |
| `HttpRetry` | one request's attempts under one deadline |
| `AtomicFile` | abstract: what `Client.Download` promises of its destination |
| `HttpDownload` | downloads to one destination, with failures; implements `AtomicFile` |
| `AtomicTimetable` | abstract: what an import promises the readers of the timetable |
| `GtfsSync` | sync commands and imports; implements `AtomicTimetable` |
| `BriefingHistory` | briefings, their snapshots and their retention |
| `LiveCaches` | the memory caches of stations and car parks, their refresh and fallbacks |
| `Settings` | what a start makes of environment, `secrets.env` and `settings.yaml`; `config migrate`, `setup`, `config explain` |
| `SourceRegistry` | a source's row and the functions that make the next one |
| `Installation` | programs that open one database, load the files into it, change profiles and resolve sources |
| `ToolContext` | what each tool call has: context, deadline, envelope, `App.Call` |
| `MobilityStatus`, `TripOptions`, `NextDepartures` | the handlers of three tools, on `ToolContext` |
| `AccessibilityCheck`, `PlaceTools` | the handler of the accessibility check, and those of the four tools that look around a place, on `ToolContext` |
| `ToolCalls` | calls of the tools, one after the other; composes the modules above and the place search |
| `MCHttpRequest` | one run of `HttpRetry` and `HttpDownload`, one after the other, for TLC |
| `MCInstallation`, `MCToolCalls` | instances of `Installation` and `ToolCalls` for TLC |
| `HttpFlightsProofs`, `GtfsSyncProofs`, `BriefingHistoryProofs`, `LiveCachesProofs`, `SettingsProofs`, `InstallationProofs`, `ToolCallsProofs` | theorems about the module of that name |
| `HttpRequestProofs` | theorems about `HttpDownload` and `HttpRetry`, which share no names |

The modules meet at these interfaces. `HttpFlights` has the outcome of a request (an answer,
a failure, a stop after the context ended) as one step with a nondeterministic result;
`HttpRetry` is the inside of that step. `HttpFlights` has a download as a holder of a permit;
`HttpDownload` is what it does with its answer. `GtfsSync` takes a download as one step, which
is what `AtomicFile` allows. `LiveCaches` has a paged read, which is several calls of `Get`, as
one step; a read of a provider in `ToolCalls` is one step too, and ends with its context, as
`SharedFetch` has it. `NextDepartures` reads the timetable that `GtfsSync` writes, and
`AtomicTimetable` says that an import is one step to it. `Installation` opens the database that
all of these use; `BriefingHistory` has the pruning that a start does.

A definition whose comment begins with "Mutant" is no part of a model: it is a plausible bug in
place of the definition after it, and shows that a property can fail.

### HttpFlights

State: `flights` is the map, `heap` the `*flight` values, `permits` the length of the channel,
`get` the frames of the callers of `Get`, `transfer` where a download is. An action is one
critical section under `flightsMu` or one blocking point: `Join` and `Lead` are `joinFlight`,
`Receive` and `GiveUp` the two branches of `Get`'s `select` (either may be taken when both are
ready), `Leave` the deferred `leaveFlight`, `Acquire` and `AcquireFails` the `select` of
`acquire`, `FetchReturns` the rest of `getDirect`, `Publish` the end of `runFlight`. The
`cancel` after `runFlight`'s unlock is part of `Publish`: between the two nobody reads the
flight's context. A flight that is published and left is garbage and its identity is used
again, so that callers call for ever in a finite state space. The content of responses is
abstracted to one of the outcomes ok, failed, cancelled and expired.

Refused calls of `Get` (offline, invalid limit) return at once and touch nothing.

### HttpRetry

Time runs in ticks; `Second`, `FirstRetryDelay`, `Budget` give the constants of the code in
ticks. A duration is a two's complement number (`Wrapped`), as `int64` nanoseconds are, so that
the product in `parseRetryAfter` overflows as it does in the code. The random jitter is a choice
from its range. The deadline's timer may fire late (`Slack`).

### HttpDownload

Each transfer has a temporary file, counted in bytes. `CopyLimit` is the `LimitReader`. A kill
stops a transfer at any step; a power cut stops all of them, may undo the last renames (nothing
synchronizes the directory) and may empty a file that was not synchronized.

### GtfsSync

Each process's frame holds the locals of `maintainGTFS` and `ImportGTFS`: what `path` names, the
active import as read, the archive that is open, the hash. `At(frame)` reads a path: through
the name, at that moment. What a transaction makes visible is its commit; the write lock is
`writer`. An archive is a number that stands for its bytes and for its SHA-256. `disturbed`
is a history variable: another command replaced the file while this one imported it.

A command is not over with its commit. Maintenance goes on with `ReadCoverage`, `RereadActive` and
`Report` (`cli.go` 602-618), the plain command with its output, and each of these may fail, be killed,
or come after another command's commit (`overtaken`). So the status `OK` is that of a report which
was written: a command that failed after its commit ends in an error, though the timetable is
replaced, and one that was overtaken reports what the other has put there.

### BriefingHistory

`rows` is the table in the order of ids; a frame holds a briefing between its reads and its
writes. The facts of a section are items under keys, as `briefingItems` makes them; a source
that is down leaves an empty section, as the tools' envelopes do. The gathering of facts and
the read of the last snapshot are one step, since nothing else reads what is gathered. The wall
clock is never set back; `at` (the caller's, or the clock in seconds) is opaque. The list of
changes is not cut at fifty. The age limit of retention is an arbitrary cutoff in the past.

`captured_at` is a text (`time.RFC3339Nano`, `profiles.go` 158) and retention compares texts. The
zeros at the end of a fraction are left out, and the `Z` that stands there sorts after every digit
and after the point: `.1Z` comes after `.15Z`. The clock counts ticks, `Units` are the ticks of each
digit of the fraction and of the whole second, `Unit(t)` is the one at which the text of `t` ends,
and `Later` is the order of the texts. `crowded` is a history variable: a save was made between
another's read and insert, or two snapshots of a profile have texts that are not in the order of
their moments (`Near`).

### LiveCaches

The two caches share no state, so a behaviour is of one `kind`. `cache` stands for `velov` and
`velovExpires`, or for the six `parking...` fields; `mutex` for the one that guards it; a frame
for the locals of `Stations` or `Parkings` and what they call. `Hit`, `Refresh` and `Refuse`
begin with the `Lock`, and everything up to the first network read is one step, as nobody else
can get in. Each source in the chain OGC, WFS, table, second table is one `ReadAvailability`,
whose result is what the code tells apart: an error or none, and whether some row has an
availability (rows may come beside an error). `Store` includes `sourceTTL`, which falls back
when the caller's context has ended. `ListTable` is the part of `Parkings` that runs without the
mutex: it reads `parkingRetrieved` as it is by then. `Answer.retrieved` is a time that the code
does not always keep: it says when the entries of an answer really were fetched, and `stamps`
says which times the code gives them. Park-and-ride, filters and distances are left out.

### Settings

`secrets` and `settings` are the two files, `writer` a command that rewrites them step by step,
`starter` another program that reads them one after the other. Commands follow each other;
`Die` is an error or a kill at any step, and each write of a file is atomic
(`writeAtomicRegular`). The settings are the mode and two paths, of which the data directory takes
the database with it in three different places (`defaultConfig`, `applyYAML`, `applyEnvironment`);
all other settings behave as the mode does. `Load` is a function of environment and files, so that
a property speaks of all environments at once (`Effective`). Values are opaque: parsing, quoting and
validation are left out, and the configuration directory is fixed.

A key of `settings.yaml` may be absent (`None`), have no value (`Null`, for which `applyYAML` finds no
pointer and `Explain` a node) or be blank (`Blank`, a pointer whose value is not taken: a blank
`db_path` keeps the database from following `data_dir`). A blank mode makes every load fail and is
left out; a blank directory behaves as one without a value. A runtime section is a mapping or null.
`Plain` are the files for which no value is lost.

### SourceRegistry and Installation

A program's frame holds the locals of `Open`, `New` and its command. One action is one
transaction or one read or write of a file; `Exit` is the end of a program, an error or a kill. A
migration's statements are counted (`applied`), so that one that runs twice shows. The profile
tables and `profiles.yaml` are sets of entries that refer to each other; `Stored` is
`LoadProfiles`, whose upserts and deletions make the tables equal to the document. A profile
command reads and checks the file before the service starts, which loads the file as it is by
then, and writes tables and file after that.

The registry is one source's row. A table's name may contain another's, which is how the search
by name goes wrong or not: `Select` is `searchCatalog` with `resolveCatalogCandidate`. A catalog
command decides on a row that it has read (`ListSources`) and writes later (`WriteStatus`).
`confirmed` is a history variable: the tables that a catalog listed as the only match, or a
probe has read, each with the service it was found in. `Fresh` takes a status that `sources.yaml`
gives as it is, `OK` too (`sources.go` 50). A command never writes the service of a row, so that the
known table of a scan, which is probed in its known service (`catalog.go` 134-143), may stand in a
row of another service.

### ToolContext, the tools and ToolCalls

A call shares nothing with other calls but the store and the provider, so one call runs at a time,
and calls follow each other for ever. `Expire` may come at any step; from then on the store's
queries fail and references that need it are not resolved. `call.failed` is a history variable:
the sources whose reads failed, with `place` for a store or geocoder that failed while a reference was
resolved. An envelope is its status, its warnings as pairs of code and source,
and its flags; a loop that warns several times is one `WarnAll`, as warnings are a set.

`MobilityStatus` has a goroutine per branch: `AcquireBranch` is the send to the semaphore,
`ReturnBranch` and `ReturnTraffic` the read and the deferred receive, `AllJoined` the
`WaitGroup`. Rows are what the answer tells apart: near the areas or elsewhere.

`TripOptions` has places on a line, in metres, and the formulas of the code over small numbers,
in its integer division. What a source returns is chosen from sets of an instance. Scores are
left out: whichever eligible option may be the best one. `parts` keeps what an option was made of, so
that the properties can go back to what the sources said instead of what the option repeats.
An itinerary has its legs with their own times, as the provider gives them: they may leave gaps,
overlap, or begin after the itinerary does, and `ParkLegs` appends them as they are.

`NextDepartures` has time in half hours that elapse; one day has 23, 24 or 25 hours, depending
on the instance's change of the clock (two half hours, as in Lyon). `ServiceTime` counts from noon
minus twelve hours, `DayStart` and with it `CivilDate` from midnight: the two differ on the day of
the change, which is where mistakes are made. The three statements of `ScheduledDepartures` are
three actions, and an import may come before or between them (`disturbed`). The first may end early
without an error (`truncated`), as its loop does not look at `rows.Err`.

`AccessibilityCheck` numbers the stops of a request; a segment keeps its evidence as the code does,
pairs of a source and its verdict. `ReadIncidents` has a list with a page that failed: rows that were
`returned`, and the empty list that the handler goes on with. `ReadBoarding` includes the storage
function, which makes a failed query of it a missing value (`unread` remembers it).

`PlaceTools` has four handlers of one form: resolve, read, tell. A row is what its tool tells apart:
the quality of an occupancy, verified hours, acceptance of an item, an indicator with or without a
value. Rows are inside the radius, as both providers filter them.

`ToolCalls` adds `lyon_resolve_place`: searches of two tables and the geocoder, each of which may
fail, and the storing of each candidate found. The likeness of names is left out: any candidates may
be cut off, and several may be ambiguous.

## 3. Runs

| Run | Instance | Checks |
| --- | --- | --- |
| `http_flights` | 2 callers, 2 keys, 2 flights, 1 download, 1 permit | `JoinableEntries`, `CancellationIsPrivate`, `PermitsAccounted`; implements `SharedFetch`; `EveryGetReturns` |
| `http_flights_coalescing` | 2 callers, 1 key | violation of `IdenticalReadsCoalesce` |
| `http_request` | 12 ticks, 3 attempts, headers inside and beyond the budget; then 2 transfers, bodies of 0 to 4 bytes around a limit of 2 | `RetryAfterHonoured`, `BudgetDecides`, `Returns`; `NoPartialFileLeft`; implements `AtomicFile` (whose content is a whole body at all times) |
| `gtfs_sync` | 2 commands again and again, 4 releases (one malformed, one incomplete), a local file | `HashDescribesTimetable`, `ReportedArchiveIsServed`; implements `AtomicTimetable` |
| `briefing_history` | 2 briefings, 2 profiles, 1 section, 1 item with 2 values, 2 rows | `ChangesExplainDifference`, `SnapshotsAlternate`, `PruningKeepsNewest`, `ReportedFactsAreBaseline` |
| `live_caches` | 2 callers again and again, 2 ticks, a period of 2 and a fallback of 1 | `AnswersAreRecent`, `OneRefreshPerPeriod`, `EveryCallReturns` |
| `settings` | every pair of files over 2 modes (one in the environment and `secrets.env`), 2 directories and a path, with keys without a value or blank and sections without fields; every environment | `PlainMigrationPreserves`, `StartSeesEffective`, `CredentialsSurvive`, `ExplainedOriginIsEffective` |
| `settings_migration` | the same | violation of `MigrationPreservesEffective` |
| `installation` | 2 programs, 1 migration, a place and a commute, 2 tables, 2 services, 3 configurations | `SchemaComplete`, `FileWins`, `MutationTakesEffect`, `MutationsKeepReferences`, `ResolutionPersists`, `OkWasConfirmed` |
| `tool_calls` | 9 tools, 4 branches in 2 places, 2 areas, 3 sets of stations, 3 of car parks, 4 plans, 2 timetables over 10 days, 2 instants, 4 changes of the clock, up to 2 stops, every set of kinds of rows | `BranchesRetained`, `FailuresAreTold`, `RecommendationMeetsRequest`, `FeasibleTripIsRecommended`, `LegsConnect`, `ScheduleIsExact`, `CandidatesAreReusable`, `WorstEvidenceDecides`, `OkIsVouchedFor`, `EveryCallReturns` |
| `accessibility_incidents` | the accessibility check, up to 2 stops | violation of `IncidentsRetained` |
| `accessibility_timetable` | the same | violation of `UnreadTimetableIsTold` |

Why the bounds are enough:

- `http_flights`: every action concerns one flight and one key, and at most one other caller. Two
  flights and two callers have an abandoned flight beside its successor of the same key, which
  is where the deletions of entries can go wrong; two keys have two flights compete for the
  only permit, with a download as the third. The safety properties are proved for all
  instances besides.
- `http_request`: the backoffs of the first two attempts are 1 to 2 and 2 to 4 ticks; with 12 ticks
  there are courses in which three attempts fit, in which the budget ends in each wait, and in
  which a wait ends exactly at the deadline. A download reads nothing of the attempts before it, so
  that it runs after the response that arrives at once and no other. Lengths of the limit minus one
  to plus two are all that `CopyLimit` and `validateResponse` tell apart. Two transfers show
  replacement by another. The safety properties are proved for all instances of either module
  besides.
- `gtfs_sync`: one of each kind of archive and a next valid one after each; two processes, since
  the write lock lets at most one import at a time, and what disturbs it is one rename. The
  three properties are proved for all instances besides.
- `briefing_history`: a comparison looks at one snapshot and one set of facts; an item is added,
  removed, updated or the same. Two rows are a baseline and its predecessor, of one profile or
  of two, and one too many for the count limit of 1. With two ticks to a second the clock shows
  0, 1 and 2: the text of 0 sorts after that of 1, the others are in their order. One moment `at`
  is enough, since any two sets of facts may differ otherwise. Briefings, profiles and values are
  symmetric. The four properties are proved for all instances besides.
- `live_caches`: one caller refreshes while the other waits, or arrives before, at and after
  the expiry; with two ticks there is time for a refresh, its expiry after the fallback period
  and another one, and a period of two ticks that does not expire. The safety properties are
  proved for all callers and periods besides.
- `settings`: all initial files are there, so one command shows what any sequence of commands
  does to them, and commands are repeated besides. Two directories tell a database that follows
  its directory from one that stays behind, a path tells it from one that is given; every key may
  be unset in every layer, and without a value or blank in `settings.yaml`. A mode that is `false`
  already by default need not come from the environment or `secrets.env`. One starting program
  is enough, as it changes nothing. The properties are proved for all instances besides.
- `installation`: two programs, of which one reads while the other writes; a program runs once or
  twice (`MaxRuns = 2` in all), so that the second starts on what the first has left, finished or
  not. Migrations are independent, so one has both outcomes of the race. A commute that refers to a
  place has both ways to break a reference. Of two tables one contains the other's name, and the
  source's configuration is enabled without a hint, enabled in another service with a hint and a
  status `OK` of the user's own, or disabled.
- `tool_calls`: the semaphore has fewer places than there are branches; two areas have one that
  fails and one that does not. Stations are near either end, on either side, closed, stale, short of
  bikes or docks; car parks are known and fresh, stale, unknown; itineraries leave before, at
  and after the car's arrival and its transfer, with legs that connect, leave a gap, overlap or begin
  late. The instants are half past eleven at night and half past three in the morning, the clock
  changes by an hour in either direction on the day of one or of the other; times are half past
  eleven at night, midnight of the next day and two and four days on, up to 99:30, and a calendar
  begins in the middle of the week, with a day added and one removed. A limit of two rows cuts.
  Two stops have one whose verdict could hide the other's; every combination of an incident, a
  check, a declaration and their failures occurs for each. Rows of one kind are alike, so that a set
  has at most one of each. The runs of `ToolCalls` differ in the tools that are called (`Tools`), as
  calls of different tools do not meet.

Deadlock is checked except where the system stops: in `http_request` a request ends for good.

### Fairness

`HttpFlights` (`Fairness`): goroutines that can go on do (`Receive` or `GiveUp`, `Leave`, `Acquire`
or `AcquireFails`, `FetchStopped`, `Publish`) and timers fire (`Expire`, and `EndDownload` at the
latest at the download's deadline); `withTimeout` gives each request a deadline, which
`config.validate` makes positive. It is weak fairness throughout: the Go scheduler runs every
goroutine that stays runnable, and `net/http` gives up a request whose context ended. There is
none on `FetchAnswered` (no upstream has to answer), on `EndContext` or on calls. That a flight
may never win a permit is covered by its own deadline, so strong fairness is not needed.

`HttpRetry` (`AttemptsFairness`, in `RequestSpec` of the run): time passes, the deadline's timer
fires, a timer that fired wakes its waiter, a request whose context ended fails. None on answers,
and none on downloads.

`LiveCaches` (`Fairness`): goroutines run on, and a paged read ends by its page budget or the
client's deadline (weak fairness on the reads and on what follows). What follows `Lock` is strongly
fair: other callers take the mutex again and again, and `sync.Mutex` hands it to a waiter of more
than a millisecond (its starvation mode), so that one who waits gets it. None on calls, on
contexts that end, or on time.

`ToolCalls` (`Fairness`): handlers and goroutines run, reads return, since each ends with its
context, and answers are sent (weak fairness on each of `Handle`, `Complete` and `Reply`). None on
the deadline: a call returns even if it never passes. A waiting goroutine of `MobilityStatus`
needs no strong fairness, as no branch takes a place twice.

The other modules claim no liveness.

## 4. Findings

Each is a run that TLC finds violated by what the code does; `PROJECT.json` has the quotations.

1. `runFlight` deletes the entry of its key unconditionally (`client.go` 196): an abandoned
   flight that ends late deletes its successor's entry, and a third caller starts a second
   identical request. `leaveFlight` has the check that is missing here.
2. The accessibility check drops the incidents that a source returns beside an error
   (`accessibility.go` 46), which `provider.go` (9-10) forbids: a stop that is known to have an
   incident is called unknown, or partially accessible.
3. `WheelchairBoarding` hides every failure of its query (`gtfs.go` 358): without a row nothing
   was scanned, which it takes for a value that is not there. The handler's warning
   (`accessibility.go` 150) can never be given.
4. `config migrate` stores nothing in a section of `settings.yaml` that is no mapping, such as an
   empty `runtime:`, and removes the legacy values all the same (`settings.go` 340, 97), contrary to
   `docs/operations.md` (51). The database path changes in two more ways. A legacy data directory
   takes the default database with it and no longer does once it stands in `settings.yaml` beside a
   blank `db_path` (`config.go` 348, 352). A legacy path that is the default name of the data
   directory, once it stands in `settings.yaml`, follows a directory of the environment (`config.go`
   431). Of files that are `Plain` the promise is proved.

Seen while modelling, and not a run of its own. Where a definition is named, it states what a
document says, and TLC finds it violated when it is added to the module's configuration:

- The timetable's window (`ElapsedDayIsCovered` in `NextDepartures`): on the eve of a night of 23
  hours, a request in the last hour before midnight misses the departures just after the next but one
  midnight, within its 24 elapsed hours (`gtfs.go` 416), contrary to `docs/tools.md` (134).
- The download (`DestinationIsArchive` in `HttpDownload`): `writeDownload` replaces the
  previous archive without the ZIP check that ADR 0005 describes.
- The hash of an import (`UnchangedIsCurrent` in `GtfsSync`): an import opens the path again to
  hash it (`gtfs.go` 83). Overlapping commands leave an old timetable under a new hash, and
  maintenance then answers `UNCHANGED`, which `docs/operations.md` (226) says of an unchanged
  archive only.
- Snapshots (`IdenticalFactsStoredOnce` in `BriefingHistory`): `SaveSnapshot` compares `at` too,
  so that identical facts of two moments are stored twice, contrary to `docs/operations.md` (130).
- Retention (`PruningKeepsNewest` in `BriefingHistory` without its condition `~crowded`): `PruneHistory`
  orders by the text of `captured_at` (`retention.go` 49). Of a snapshot whose text ends early and one
  that is saved before the next of that digit (`05Z` and `05.3Z`), pruning to one keeps the older, and
  the next briefing is compared with that. The same goes for two saves whose clock readings and ids
  are in different orders, as the reading comes before the wait for the write lock. No document says
  otherwise, and the first needs a nanosecond reading that ends in zeros; the property leaves both out.
- Outages (`RemovalsAreObserved` in `BriefingHistory`): an outage of a source is reported as the
  removal of its items (`briefing.go` 244), which `docs/tools.md` (317) tells from lost evidence.
- Retrieval times (`RetrievedAtIsFetch` in `LiveCaches`): `Parkings` stamps cached features with
  the time of the request, and table rows with a time that it reads without the mutex
  (`live.go` 793, 815), contrary to `docs/tools.md` (70).
- The product in `parseRetryAfter` wraps for delays of more than about 292 years and the next
  attempt is early. `HttpRetry` has the wrap; its run has delays within the range of a duration.
- `Stations` drops the rows that `allVelov` returns beside an error, although
  `docs/data-sources.md` (74) says that a later page's failure keeps the earlier rows.
  `MobilityStatus` would do so for traffic, where no provider returns both today.
- When a caller's context ends in all its parking reads, its error is kept for the fallback
  minute and served to callers that were not cancelled.
- `docs/operations.md` (48) and the output of `config explain` (`settings.go` 204) put
  `settings.yaml` before a legacy `secrets.env`. `load` applies the legacy values last
  (`config.go` 206-212), and the origins that `Explain` gives agree with that
  (`ExplainedOriginIsEffective`).
- `config explain` names `settings.yaml` as the origin of a key that is there without a value, or
  blank, while something else is in force (`settings.go` 163), and of a `db_path` that is a default
  name and follows another directory. `ExplainedOriginIsEffective` leaves these out by name.
- When a command fails after its commit (`cli.go` 602-616), it exits with code 1, which
  `docs/operations.md` (231) says of a refresh that failed; the timetable is replaced. When another
  import is committed before the report, `archive_sha256` is of one archive, `coverage` and
  `active_import` of another. `ReportedArchiveIsServed` speaks of neither.
- A source may be `OK` with a table that was never read in the row's service: a scan probes the known
  table in its known service (`catalog.go` 134-143), `SetSourceStatus` writes status and table only
  (`sources.go` 145). A status that `sources.yaml` gives is taken as it is (`sources.go` 50).
  `OkWasConfirmed` is of tables and of what the program itself has found.
- Park-and-ride passes on the legs of the provider's itinerary as they are (`journey.go` 416), where
  `docs/tools.md` (192) has segment times form a chain: legs with a gap or an overlap stay so, and do
  not make the itinerary unusable, as 186 has it of contradictory timing. `LegsConnect` is about what
  the planner itself puts before them.
- The stop times of a schedule are read by a loop that does not ask why it ended (`gtfs.go` 398-408, no
  `rows.Err`): a read that fails on the way passes as whole, and departures are missing without a
  warning. After such a read `ScheduleIsExact` claims only that what is answered is right.
- `setup --offline` or `--live` loses to a legacy `OFFLINE` when the migration at its end
  stores that over the mode that setup has written (`cli.go` 155-160).
- Two profile commands side by side lose one change: `MutationTakesEffect` is stated of those that
  ran alone. A `profiles.yaml` of zero bytes is not loaded (`app.go` 69); the model has it as one
  that is absent.
- A place that cannot be resolved because the store or the geocoder failed, or the deadline
  passed, is answered as `not_found` without a warning (`place.go` 41, `journey.go` 48,
  `transit.go` 25). `FailuresAreTold` is about sources that are read after that.
- When all areas of a status request are unresolved, traffic is queried for the whole region
  (`mobility.go` 77), while road events are left out.
- When no connection leaves after the transfer, park-and-ride takes the first itinerary, which may
  leave before the transfer is over, though not before the car is there (`journey.go` 399-410).
- `WasteFacilities` and `Facilities` keep the nearest rows up to the limit (`live.go` 766, 726), and
  the handlers filter them by acceptance and opening hours after that: an answer may be empty while a
  suitable place is a little farther away.
- Three statements of `ScheduledDepartures` without a transaction mix two timetables when an import
  comes between them; `ScheduleIsExact` is about reads that none disturbs.

## 5. Proofs

### The shared client

`HttpFlightsProofs` proves, for all sets of callers, keys, flights and downloads (finite where
something is counted) and every `MaxParallel`:

| Theorem | Property |
| --- | --- |
| `TypeCorrect` | `Spec => []TypeOK` |
| `BooksBalance` | `Spec => []WaitersExact` |
| `EntriesJoinable` | `Spec => []JoinableEntries` |
| `NoFetchIsStray` | `Spec => []NoStrayFetch` |
| `CancellationPrivate` | `Spec => []CancellationIsPrivate` |
| `PoolAccounted` | `Spec => []PermitsAccounted` |
| `GetIsShared` | `Spec => SharedFetchSpec` |

Assumptions: `ParallelAssumption`, `NilAssumption` (no flight is nil), `FiniteAssumption` (the
counted sets are finite). TLC evaluates them in every run.

The argument. `JoinableEntries` is not inductive: that a found flight has somebody on it needs
the counter to be exact, and that a flight which is cancelled has left the map needs to know
who cancels. The inductive invariant is

    Inv == TypeOK /\ Bookkeeping /\ Sharing

- `Bookkeeping`: `CallsSound` (a caller inside `Get` holds a flight of its own key, and has an
  answer only after its select), `HeapSound` (a flight that exists has a key, a free one is
  blank) and `WaitersExact`;
- `Sharing`: `JoinableEntries`, `NoStrayFetch`, `CancellationIsPrivate` and `OutcomesPrivate`
  (a flight ends as cancelled only with nobody on it).

`Bookkeeping` and `Sharing` are proved separately, one lemma per action: an action changes the
`Holders` of one flight by at most one caller, so that its cardinality and the counter move
together; from an exact counter it follows that the last waiter really is the last. The permits
are proved on top, with the cardinalities of the sets of holders changed by one.
The case that carries the weight is `Publish`, which deletes whatever entry its key has: it
leaves no entry of a dead flight behind because a published flight's entry, if there is one, has
the same key. It also shows why finding 1 costs coalescing only, and no safety.

`GetIsShared` is the refinement of `SharedFetch`. A flight that is published and left is free again
in the implementation and over in the abstraction, so the mapping (`StageOf`, `StageMap`,
`SubjectMap`) is read off the heap under the invariant; one lemma for each of the calls `Join`, `Lead`,
`Receive`/`GiveUp` and `Leave` and one for `Publish` shows the abstract step, and every other step a
stutter. `Settled`, that a flight which is over has an outcome and keeps it, is proved beside `Inv`.

### One request's attempts

`HttpRequestProofs` proves of `HttpRetry`, for any budget, slack, delays and dates, under
`TimeAssumption` (positive periods, and a `Duration` that holds at least the budget):

| Theorem | Property |
| --- | --- |
| `AttemptsTyped` | `AttemptsSpec => []AttemptsTypeOK` |
| `BudgetIsDecisive` | `AttemptsSpec => []BudgetDecides` |
| `RetryAfterIsHonoured` | `Representable => (AttemptsSpec => []RetryAfterHonoured)` |

The invariant adds `WaitSound`: a wait ends no later than was asked for, and exactly then if the
header's seconds could be counted. A product that wraps never exceeds the true one (`Wrapped` takes
away multiples of `2^64`), so the budget is decisive even then; that an attempt is not early needs
`Representable`, that the seconds of the headers fit a duration. Without it the property is false, as
section 4 says.

### Downloads

`HttpRequestProofs` proves of `HttpDownload`, for any transfers and any limit, under `LimitAssumption`,
`PreviousAssumption` and `NoFileAssumption`:

| Theorem | Property |
| --- | --- |
| `TypeCorrect` | `Spec => []TypeOK` |
| `NoTempIsLeft` | `Spec => []NoPartialFileLeft` |
| `AlwaysWhole` | `Spec => []DestinationWhole` |
| `DownloadIsAtomic` | `Spec => AtomicFileSpec` |

The invariant says what a temporary file holds at each step (`TempSound`: after the copy all of the
body, after the synchronization on the disk) and of every file that is or was at the destination,
which a power cut may bring back, that it is durable and whole (`Landed`). A rename is the abstract
replacement, a power cut the abstract return to an earlier file, everything else a stutter.

### The GTFS synchronization

`GtfsSyncProofs` proves, for any set of processes, any number of releases and any local files,
whichever archives are malformed or incomplete:

| Theorem | Property |
| --- | --- |
| `TypeCorrect` | `Spec => []TypeOK` |
| `HashDescribes` | `Spec => []HashDescribesTimetable` |
| `ReportedServed` | `Spec => ReportedArchiveIsServed` |
| `ImplementsAtomicTimetable` | `Spec => AtomicTimetableSpec` |

Assumptions: `ArchiveAssumption` (releases and local files are numbered from 1, so that 0 is no
archive) and `ProcessAssumption` (nobody is not a process).

The argument. What a commit stores was decided several steps earlier, by a path that other
processes can give another file in between. The inductive invariant says of every command in
progress what it may rely on:

- `PathSound`: from the comparison to the opening its path names an archive, and never the
  canonical file before maintenance has published;
- `ImportSound`: unless it was disturbed, the file its path names is the archive that it
  compared, opened and hashed, as far as it has come;
- `OpenedSound`: the open archive has passed the checks made so far, so that at the commit it
  is `Loadable`;

and of the database that timetable and index are of one archive. There is one lemma per action.
`ReplaceCanonical` carries the weight: a rename changes what the path of every other command at
the canonical file names, and the proof needs exactly those that still rely on it to be marked as
disturbed. For `ReportedServed`, `ReportSound` has what maintenance has read for its report since the
commit, which holds until another commit marks it as overtaken, and `StatusSound` adds that a command
in progress has no status yet: only its own report can end in `OK`. In the refinement a commit is a
`Replace` by `OpenedSound`; only a commit writes the database, so that every other step is an
`Attempt`.

### Briefings

`BriefingHistoryProofs` proves, for any briefings, profiles, sections, items, values and moments, any
count limit, any digits of a second and any end of time:

| Theorem | Property |
| --- | --- |
| `TypeCorrect` | `Spec => []TypeOK` |
| `SnapshotsDiffer` | `Spec => []SnapshotsAlternate` |
| `ChangesAreExact` | `Spec => []ChangesExplainDifference` |
| `NewestIsKept` | `Spec => PruningKeepsNewest` |
| `ReportIsBaseline` | `Spec => ReportedFactsAreBaseline` |

Assumptions: `PolicyAssumption` (a count limit is a number) and `ClockAssumption` (the units of time
divide each other, up to a second).

    Inv == TypeOK /\ Stamped /\ ReportSound /\ (~crowded => InOrder /\ Alternate /\ ReadHolds)

`SnapshotsAlternate` is about neighbours, and what is pruned or deleted makes new neighbours; it is
kept because retention takes the oldest and a deletion takes all of a profile. So both leave, with a
row, all later ones of its profile (`Closed`), and such a set of rows has no new neighbours
(`KeptInOrder`). That retention does so although it orders by texts is `RetainedClosed`: it needs
`InOrder`, that ids and moments of a profile agree and the texts follow them, and that nothing sorts
between two texts in their order the wrong way (`LaterThanBoth`, from units that nest).
An insert extends `InOrder` and `Alternate` because of `ReadHolds`: what a briefing that waits for
its insert has read of its profile is still so, unless another has marked it as disturbed; only an
insert of that profile can make it false, and that one marks it. For `ChangesAreExact` the invariant says
that the report is `CompareFacts` of its two sets of facts, and `ChangesLead` that the comparison is
right for all facts: what is removed, added and updated makes one domain of items into the other.

Two facts about counting carry the rest: a set of row numbers can be counted in its order
(`AscendingExists`), and its last element is `Newest`. Both are inductions over numbers, done as the
search for a least counterexample.

### The live caches

`LiveCachesProofs` proves, for any set of callers, any periods (the fallback positive) and any
bound on time, under `TimeAssumption`:

| Theorem | Property |
| --- | --- |
| `TypeCorrect` | `Spec => []TypeOK` |
| `AnswersRecent` | `Spec => AnswersAreRecent` |
| `RefreshesSpaced` | `Spec => OneRefreshPerPeriod` |
| `FailuresShown` | `Spec => FailuresSurface` |

The argument. That a hit is recent depends on what some other caller stored, perhaps with a
fallback period; the invariant links the two. `CacheSound`: what is kept was retrieved in the past,
and expires one of the two periods after. `RefreshSound`: a cache that was never filled has no
entries, and stations that are about to be kept come from a complete read. With the mutex held by
exactly the caller between `Refresh` and its answer (part of `TypeOK`), there is one lemma per
action; the action properties then only ask which action can give a caller an answer, or take it
from the lock to a refresh.

### Settings

`SettingsProofs` proves, for any directories and paths, under `SettingsAssumption` (a value is none of
`None`, `Null` and `Blank`, a path no directory):

| Theorem | Property |
| --- | --- |
| `TypeCorrect` | `Spec => []TypeOK` |
| `CredentialsKept` | `Spec => CredentialsSurvive` |
| `ExplainIsRight` | `Spec => []ExplainedOriginIsEffective` |
| `MigrationIsNeutral` | `Spec => PlainMigrationPreserves` |
| `StartIsConsistent` | `Spec => StartSeesEffective` |

No theorem restricts the files; `PlainMigrationPreserves` itself speaks of the steps of a migration of
`Plain` files, since of the others finding 4 shows it false. For plain files `LoadOrder` reduces the
code's five functions to the first value of environment, `secrets.env`, `settings.yaml` and default, for
each setting. From then on it is algebra: a migrated document is the old one under the legacy values
(`MigratedDocument`), which changes nothing while they stand (`MigratedEffective`), and nothing when
they go afterwards (`Absorbed`, `AbsorbedEffective`). The invariant says that what a command is about
to write is still what it would make of the files (`WriterSound`), and that what a start has read of
`secrets.env` is worth what the file is worth now, as long as no write between its reads has changed what
is in force (`StarterSound`; `starter.disturbed` remembers such a write).

### The installation

`InstallationProofs` proves, for any programs, number of migrations, documents, tables and
configurations, under `InstallationAssumption` and `RegistryAssumption`:

| Theorem | Property |
| --- | --- |
| `TypeCorrect` | `Spec => []TypeOK` |
| `SchemaIsComplete` | `Spec => []SchemaComplete` |
| `OkIsConfirmed` | `Spec => []OkWasConfirmed` |
| `FileIsTruth` | `Spec => FileWins` |
| `MutationEffective` | `Spec => MutationTakesEffect` |
| `ReferencesKept` | `Spec => MutationsKeepReferences` |
| `ResolutionKept` | `Spec => ResolutionPersists` |

    Inv == TypeOK /\ FramesSound /\ AloneSound /\ AppliedOnce /\ OkWasConfirmed

`FramesSound` has, of each program: how far it has brought the schema (`SchemaReached`; the lemma that
matters is that a version once recorded stays so, whoever recorded it), that a finding in progress was
confirmed (`FindingSound`), that a profile command carries a valid document (`DocumentSound`), and
what a program that has run alone so far knows of file and tables (`AloneKnows`). `AloneSound`, that two
programs are not both alone, keeps the last one through the steps of others.

### The tool calls

`ToolCallsProofs` proves, for any limits, areas, stops, requests, stations, car parks, itineraries,
timetables, changes of the clock and candidates:

| Theorem | Property |
| --- | --- |
| `PlacesAreReusable` | `Spec => []CandidatesAreReusable` |
| `BranchesAreRetained` | `Spec => []BranchesRetained` |
| `EvidenceDecides` | `Spec => []WorstEvidenceDecides` |
| `OkAnswersAreVouchedFor` | `Spec => []OkIsVouchedFor` |
| `ParkAndRideConnects` | `Spec => []LegsConnect` |
| `RecommendedCanBeDone` | `Spec => []RecommendationMeetsRequest` |
| `PossibleTripIsFound` | `Spec => []FeasibleTripIsRecommended` |
| `ScheduledAreExact` | `Spec => []ScheduleIsExact` |
| `FailuresAreAlwaysTold` | `Spec => []FailuresAreTold` |

Assumptions: `TripAssumption` (facts have the types of the code's fields, and an itinerary and each of its
legs arrives after it departs, as `ParseTransitousPlan` requires) and `DeparturesAssumption` (times below
100 hours, a clock that changes by at most an hour, and days enough to have every instant on one of them).

What all share is `ContextOK`, the shape of call and envelope, and `ToolSteps`: a step is the start of a
call, a step inside the handler of its tool (`Inside`), or one that leaves the handler as it is
(`Outside`: the deadline, or `Complete`, which adds warnings and may turn `ok` into `partial`, `Sent`).
Each tool then has an invariant of its own handler.

- `ReusableInv`: the candidates found so far are stored.
- `RetainedInv`: every branch that was asked for has a goroutine, and at the join only those that are
  done are left. The semaphore plays no part in it.
- `WorstInv`: the status of a segment is the worst of its evidence so far, and one that is about to be
  checked has none. It needs that appending and replacing keep the earlier segments (`AppendDecides`).
- `VouchedInv`: nothing is kept before the read, and what is `ok` is vouched for.
- `TripInv`: an option says of its parts what their sources say (`Truthful`), for every usable pair of
  stations an option at least as fast stands among the options (`PairsTold`), every itinerary does
  (`PlanTold`), and the legs of a park-and-ride option are a chain if those of the provider in it are
  (`ParkLegsChain`). That choosing the fastest pair loses no trip is that `Eligible` depends on the
  duration alone once the walking limit holds. The least element of a finite set of pairs comes from
  well-founded induction on the durations.
- `DeparturesInv`: what the statements have read so far is the timetable that is stored, unless an
  import came between (`ReadSoFar`), of the times at least a part, all of them unless the read was
  cut, and the schedule is exact over all service days up to tomorrow. That four days are enough
  (`ServiceDaysSuffice`) is arithmetic: five days before, times below 100 hours are over whatever
  the clock did (`EarlierDaysAreOver`).
- `ToldInv`: each failure but those of resolving a place (`Failures`) is told by a warning with its
  source in a degraded envelope whose status is neither `ok` nor `not_found` (`Steady`), step by
  step, with two exceptions that make the property hard: the branches of the mobility status only
  remember their errors until the join (`MobilityTold`, with `BranchTells`), and the stations near
  the origin are told only after those near the destination were read (`Late` in `TripTold`).
  Statuses that would hide a failure are set only where none can have happened (`DeparturesTold`,
  `TripTold`, `OfferTold`).

### Not a run's property any more

`TypeOK`, `WaitersExact`, `NoStrayFetch`, `FailuresSurface` and `DestinationWhole` are proved for every
instance and are therefore in no configuration; their theorems stand.

### Model-checked only

Liveness (`EveryGetReturns` of `HttpFlights`, `Returns` of `HttpRetry`, `EveryCallReturns` of
`LiveCaches` and of `ToolCalls`) is out of the prover's reach. Every other property of a passing run
is proved for all instances. The four findings are violations that TLC shows, as are the observations
of section 4 that name a definition.

## 6. What is not modelled

- URL policy, redirects and credentials: a decision on one URL, without state.
- Paged reads (`queryTable`, `fetchOGCItems`, `fetchWFSItems`): one caller's loop, of which
  `LiveCaches` and `ToolCalls` have the outcomes.
- The conversion of upstream payloads, the wording and layout of answers, the catalog's parsing,
  schemas and the parsing of settings: conversions without state.
- `VelovStations`, which only briefings call, and the capability report: one read each, with the same
  helpers and no state.
- Vélo'v observations: single statements.
- File permissions; the legacy cache and health tables, which nothing fills; the fixtures.
- Inside modelled parts: `setup`'s copies of profiles, sources and taxonomy, the client snippet and
  the start of the service at its end; `GTFSCoverage`; the text search of places and its ranking;
  scores of trips; the `ogc` mode of a catalog scan, which lists and writes nothing.

## 7. Plan

Done: all modules of section 2, in this order: the shared client, retries, downloads, the GTFS
synchronization, briefings, the live caches; then settings, the installation and the tool calls.

All properties of the passing runs are proved but the liveness of section 5's last part. What could
come next are parts of section 6 that have a loop of their own: paged reads, and the policy of redirects.
