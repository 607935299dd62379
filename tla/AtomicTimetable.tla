--------------------------- MODULE AtomicTimetable ---------------------------
(***************************************************************************)
(* What an import of a GTFS archive promises to the readers of the          *)
(* timetable (docs/operations.md:211): the timetable and the stop index     *)
(* are always those of one archive, and an import either replaces both or   *)
(* changes nothing.                                                        *)
(***************************************************************************)
EXTENDS Integers

CONSTANTS
    Archives,       \* archives, numbered from 1
    Valid           \* those whose every file loads, with data in each

VARIABLES
    served,         \* the archive that is served, or 0
    imports         \* the archives that are being imported

vars == <<served, imports>>

Init == served = 0 /\ imports = {}

\* The set of imports in progress changes: they begin, fail, are killed.
Attempt ==
    /\ imports' \subseteq Archives
    /\ UNCHANGED served

\* An import of a valid archive succeeds.
Replace ==
    /\ \E a \in imports \cap Valid : served' = a
    /\ imports' \subseteq imports

Next == Attempt \/ Replace

Spec == Init /\ [][Next]_vars

=============================================================================
