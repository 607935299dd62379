\* The documented coalescing of identical reads: one key, no download.
SPECIFICATION Spec
CONSTANTS
    Callers = {c1, c2}
    Keys = {k1}
    Flights = {f1, f2}
    Downloads = {}
    MaxParallel = 2
    NoFlight = NoFlight
    NoKey = NoKey
INVARIANTS
    IdenticalReadsCoalesce
