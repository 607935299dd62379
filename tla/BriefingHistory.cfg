\* Two briefings of two profiles side by side; snapshots of one section whose
\* single item has two values; retention to one snapshot per profile and by age.
\* Of the three moments the first two have texts that are not in their order.
SPECIFICATION Spec
SYMMETRY Symmetry
CONSTANTS
    Briefings = {b1, b2}
    Profiles = {p, q}
    NoProfile = none
    Sections = {s}
    Items = {i}
    Values = {v, w}
    Moments = {m1}
    NoMoment = never
    MaxCount = 1
    Second = 2
    Units = {1, 2}
    MaxTime = 2
    MaxRows = 2
INVARIANTS ChangesExplainDifference SnapshotsAlternate
PROPERTIES PruningKeepsNewest ReportedFactsAreBaseline
