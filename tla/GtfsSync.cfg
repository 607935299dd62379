\* Two commands, each started again and again; four releases, one malformed
\* and one incomplete; the operator has an archive too.
SPECIFICATION Spec
CONSTANTS
    Syncs = {s1, s2}
    Releases = 4
    LocalFiles = {1}
    Malformed = {2}
    Incomplete = {3}
INVARIANTS
    HashDescribesTimetable
PROPERTIES
    ReportedArchiveIsServed
    AtomicTimetableSpec
