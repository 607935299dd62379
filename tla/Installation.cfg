SPECIFICATION Spec
CONSTANTS
    Programs = {p1, p2}
    Versions = 1
    home = home
    trip = trip
    tableA = tableA
    tableB = tableB
    Entries = {home, trip}
    Places = {home}
    Example = {home}
    Absent = {absent}
    Refs <- MCRefs
    Tables = {tableA, tableB}
    Contains <- MCContains
    Related = {tableB}
    Known = tableB
    KnownService = "rdata"
    None = None
    Configs <- MCConfigs
    MaxRuns = 2
SYMMETRY Symmetry
INVARIANTS
    SchemaComplete
    OkWasConfirmed
PROPERTIES
    FileWins
    MutationTakesEffect
    MutationsKeepReferences
    ResolutionPersists
