\* Two callers and a download on one permit, two keys, two flights.
SPECIFICATION FairSpec
CONSTANTS
    Callers = {c1, c2}
    Keys = {k1, k2}
    Flights = {f1, f2}
    Downloads = {d1}
    MaxParallel = 1
    NoFlight = NoFlight
    NoKey = NoKey
INVARIANTS
    JoinableEntries
    CancellationIsPrivate
    PermitsAccounted
PROPERTIES
    SharedFetchSpec
    EveryGetReturns
