------------------------------ MODULE GtfsSync -------------------------------
(***************************************************************************)
(* The command "sync gtfs", with and without --maintain                     *)
(* (internal/cli/cli.go), and Store.ImportGTFS (internal/storage/gtfs.go):  *)
(* runs of the command, each a process of its own, fetch an archive,        *)
(* compare it with the active import, publish it under the canonical path   *)
(* and replace the timetable in one SQLite transaction.                     *)
(*                                                                         *)
(* An archive stands for its bytes and its SHA-256; archives are numbered   *)
(* in the order the upstream releases them.  Client.Download is one step    *)
(* (AtomicFile), and so is what a transaction makes visible: its commit.    *)
(***************************************************************************)
EXTENDS Integers

CONSTANTS
    Syncs,          \* processes; one that ended may be started again
    Releases,       \* bound: archives the upstream releases are 1 .. Releases
    LocalFiles,     \* archives an operator may pass with --from-file
    Malformed,      \* archives refused before the transaction begins
    Incomplete      \* archives refused while they are loaded

ASSUME ArchiveAssumption ==
    /\ Releases \in Nat \ {0}
    /\ LocalFiles \subseteq Nat \ {0}

Nothing == 0        \* no archive, no import
Archives == (1 .. Releases) \cup LocalFiles
Loadable == Archives \ (Malformed \cup Incomplete)

VARIABLES
    upstream,       \* the archive the upstream serves
    canonical,      \* the file DataDir/gtfs/GTFS_TCL.ZIP
    db,             \* committed state: timetable, stop index, active import;
                    \* history: was the import of it disturbed
    writer,         \* the sync that holds the database's write lock
    sync            \* the commands' frames

vars == <<upstream, canonical, db, writer, sync>>

NoSync == "nobody"

ASSUME ProcessAssumption == NoSync \notin Syncs

Frame == [
    pc : {"idle", "reading", "fetching", "comparing", "publishing", "opening",
          "beginning", "loading", "sealing", "committing",
          "covering", "rereading", "reporting"},
    maintain : BOOLEAN,
    path : {"own", "canonical", "local"},       \* what the variable path names
    own : Archives \cup {Nothing},              \* the maintenance temporary
    local : LocalFiles \cup {Nothing},          \* the --from-file archive
    active : Archives \cup {Nothing},           \* active["file_hash"], or newActive's
    fetched : Archives \cup {Nothing},          \* fileSHA256(path)
    opened : Archives \cup {Nothing},           \* the open zip.Reader
    hash : Archives \cup {Nothing},             \* hashFile(path)
    coverage : Archives \cup {Nothing},         \* the timetable of coverageAfter
    disturbed : BOOLEAN,    \* history: another command replaced its file
    overtaken : BOOLEAN,    \* history: another import was committed after its own
    status : {"none", "OK", "UNCHANGED", "DISABLED", "error", "killed"}
]

Idle == [pc |-> "idle", maintain |-> FALSE, path |-> "own", own |-> Nothing,
         local |-> Nothing, active |-> Nothing, fetched |-> Nothing,
         opened |-> Nothing, hash |-> Nothing, coverage |-> Nothing,
         disturbed |-> FALSE, overtaken |-> FALSE, status |-> "none"]

TypeOK ==
    /\ upstream \in 1 .. Releases
    /\ canonical \in Archives \cup {Nothing}
    /\ db \in [timetable : Archives \cup {Nothing}, index : Archives \cup {Nothing},
               active : Archives \cup {Nothing}, disturbed : BOOLEAN]
    /\ sync \in [Syncs -> Frame]
    /\ writer \in Syncs \cup {NoSync}
    /\ \A s \in Syncs :
        sync[s].pc \in {"loading", "sealing", "committing"} <=> writer = s

Init ==
    /\ upstream = 1
    /\ canonical = Nothing
    /\ db = [timetable |-> Nothing, index |-> Nothing, active |-> Nothing,
             disturbed |-> FALSE]
    /\ writer = NoSync
    /\ sync = [s \in Syncs |-> Idle]

\* What the file that a command's path names holds now.
At(frame) ==
    IF frame.path = "own" THEN frame.own
    ELSE IF frame.path = "canonical" THEN canonical ELSE frame.local

\* A command goes on at p, with some of its locals changed.
Goto(s, p, frame) == sync' = [sync EXCEPT ![s] = [frame EXCEPT !.pc = p]]

\* A command goes on at "opening" after it replaced the canonical file.  That
\* disturbs the others that were going to open that file, or to hash it.
ReplaceCanonical(s, archive) ==
    /\ canonical' = archive
    /\ sync' = [t \in Syncs |->
          IF t = s
             THEN [sync[s] EXCEPT !.pc = "opening", !.path = "canonical", !.own = Nothing]
             ELSE [sync[t] EXCEPT !.disturbed = @ \/
                     (sync[t].path = "canonical" /\
                      sync[t].pc \in {"opening", "beginning", "loading", "sealing"})]]

\* It returns, and its deferred os.Remove, Rollback and Close run: what is
\* left of it is its output.
Exit(s, status) ==
    /\ sync' = [sync EXCEPT ![s] = [Idle EXCEPT !.status = status]]
    /\ writer' = IF writer = s THEN NoSync ELSE writer

-----------------------------------------------------------------------------
(* The command.                                                            *)

\* sync gtfs [--maintain] [--from-file local], online or offline.
Start(s) ==
    /\ sync[s].pc = "idle"
    /\ \E maintain \in BOOLEAN, local \in LocalFiles \cup {Nothing} :
        LET path == IF local # Nothing THEN "local"
                    ELSE IF maintain THEN "own" ELSE "canonical"
            next == IF maintain THEN "reading"
                    ELSE IF local # Nothing THEN "opening" ELSE "fetching"
        IN Goto(s, next, [Idle EXCEPT !.maintain = maintain, !.local = local, !.path = path])
    /\ UNCHANGED <<upstream, canonical, db, writer>>

\* maintainGTFS: GTFSCoverage and ActiveGTFSImport.
ReadActive(s) ==
    /\ sync[s].pc = "reading"
    /\ Goto(s, IF sync[s].path = "local" THEN "comparing" ELSE "fetching",
            [sync[s] EXCEPT !.active = db.active])
    /\ UNCHANGED <<upstream, canonical, db, writer>>

\* Offline mode without --from-file.
Disabled(s) ==
    /\ sync[s].pc = "fetching"
    /\ Exit(s, "DISABLED")
    /\ UNCHANGED <<upstream, canonical, db>>

\* Client.Download: to the maintenance temporary, or to the canonical path.
Fetch(s) ==
    /\ sync[s].pc = "fetching"
    /\ IF sync[s].maintain
          THEN /\ Goto(s, "comparing", [sync[s] EXCEPT !.own = upstream])
               /\ UNCHANGED canonical
          ELSE ReplaceCanonical(s, upstream)
    /\ UNCHANGED <<upstream, db, writer>>

\* fileSHA256 and the comparison with the active import.
CompareDifferent(s) ==
    /\ sync[s].pc = "comparing"
    /\ At(sync[s]) # sync[s].active
    /\ Goto(s, IF sync[s].path = "own" THEN "publishing" ELSE "opening",
            [sync[s] EXCEPT !.fetched = At(sync[s])])
    /\ UNCHANGED <<upstream, canonical, db, writer>>

CompareUnchanged(s) ==
    /\ sync[s].pc = "comparing"
    /\ At(sync[s]) = sync[s].active
    /\ Exit(s, "UNCHANGED")
    /\ UNCHANGED <<upstream, canonical, db>>

\* Mutant: path is switched to the canonical file, which is not replaced.
PublishSkipped(s) ==
    /\ sync[s].pc = "publishing"
    /\ canonical # Nothing
    /\ Goto(s, "opening", [sync[s] EXCEPT !.own = Nothing, !.path = "canonical"])
    /\ UNCHANGED <<upstream, canonical, db, writer>>

\* os.Rename to the canonical path.
PublishArchive(s) ==
    /\ sync[s].pc = "publishing"
    /\ ReplaceCanonical(s, sync[s].own)
    /\ UNCHANGED <<upstream, db, writer>>

-----------------------------------------------------------------------------
(* Store.ImportGTFS.                                                       *)

\* Stat, zip.OpenReader, selectGTFSMembers and validateGTFSMembers.
OpenArchive(s) ==
    /\ sync[s].pc = "opening"
    /\ At(sync[s]) \notin Malformed
    /\ Goto(s, "beginning", [sync[s] EXCEPT !.opened = At(sync[s])])
    /\ UNCHANGED <<upstream, canonical, db, writer>>

\* BeginTx; the first DELETE takes the write lock.
BeginImport(s) ==
    /\ sync[s].pc = "beginning"
    /\ writer = NoSync
    /\ writer' = s
    /\ Goto(s, "loading", sync[s])
    /\ UNCHANGED <<upstream, canonical, db>>

\* Mutant: no validateGTFSCounts, and rows that do not parse are skipped.
LoadUnchecked(s) ==
    /\ sync[s].pc = "loading"
    /\ Goto(s, "sealing", sync[s])
    /\ UNCHANGED <<upstream, canonical, db, writer>>

\* importGTFSFile of every member, and validateGTFSCounts.
Load(s) ==
    /\ sync[s].pc = "loading"
    /\ sync[s].opened \notin Incomplete
    /\ Goto(s, "sealing", sync[s])
    /\ UNCHANGED <<upstream, canonical, db, writer>>

\* hashFile(path), which opens the path again, and INSERT INTO gtfs_imports.
HashArchive(s) ==
    /\ sync[s].pc = "sealing"
    /\ Goto(s, "committing", [sync[s] EXCEPT !.hash = At(sync[s])])
    /\ UNCHANGED <<upstream, canonical, db, writer>>

\* The transaction's state is what every reader sees.  The reader of the archive
\* is closed; maintenance has its report to make, the plain command its output.
\* Those that have still to report theirs are overtaken.
Committed(s, timetable, index, active) ==
    /\ db' = [timetable |-> timetable, index |-> index, active |-> active,
              disturbed |-> sync[s].disturbed]
    /\ writer' = NoSync
    /\ sync' = [t \in Syncs |->
          IF t = s
             THEN [sync[s] EXCEPT !.pc = IF sync[s].maintain THEN "covering" ELSE "reporting",
                                  !.opened = Nothing]
             ELSE [sync[t] EXCEPT !.overtaken = @ \/
                     sync[t].pc \in {"covering", "rereading", "reporting"}]]
    /\ UNCHANGED <<upstream, canonical>>

\* Mutant: the import is recorded under the hash the command compared with.
CommitStaleHash(s) ==
    /\ sync[s].pc = "committing"
    /\ Committed(s, sync[s].opened, sync[s].opened,
                 IF sync[s].maintain THEN sync[s].active ELSE sync[s].hash)

\* Mutant: the stops are indexed after the transaction, if at all.
CommitWithoutIndex(s) ==
    /\ sync[s].pc = "committing"
    /\ Committed(s, sync[s].opened, db.index, sync[s].hash)

\* Commit: tables, stop index and import record at once.
Commit(s) ==
    /\ sync[s].pc = "committing"
    /\ Committed(s, sync[s].opened, sync[s].opened, sync[s].hash)

-----------------------------------------------------------------------------
(* What maintenance reports of an import, with one query after the other.   *)

\* GTFSCoverage, of the timetable as it is by now.
ReadCoverage(s) ==
    /\ sync[s].pc = "covering"
    /\ Goto(s, "rereading", [sync[s] EXCEPT !.coverage = db.timetable])
    /\ UNCHANGED <<upstream, canonical, db, writer>>

\* ActiveGTFSImport.
RereadActive(s) ==
    /\ sync[s].pc = "rereading"
    /\ Goto(s, "reporting", [sync[s] EXCEPT !.active = db.active])
    /\ UNCHANGED <<upstream, canonical, db, writer>>

\* writeJSON of the report, or of the plain command's counts.
Report(s) ==
    /\ sync[s].pc = "reporting"
    /\ Exit(s, "OK")
    /\ UNCHANGED <<upstream, canonical, db>>

-----------------------------------------------------------------------------
(* Failures.                                                               *)

\* An error return: the download or a file operation fails, the archive is
\* refused, the lock stays taken for busy_timeout, a statement fails, or
\* the context ends.  Every call can fail, also those after the commit: the
\* command then ends in an error although the timetable is replaced.
Fail(s) ==
    /\ sync[s].pc # "idle"
    /\ Exit(s, "error")
    /\ UNCHANGED <<upstream, canonical, db>>

\* The process is killed: SQLite rolls its transaction back.
Die(s) ==
    /\ sync[s].pc # "idle"
    /\ Exit(s, "killed")
    /\ UNCHANGED <<upstream, canonical, db>>

Release ==
    /\ upstream < Releases
    /\ upstream' = upstream + 1
    /\ UNCHANGED <<canonical, db, writer, sync>>

Step(s) ==
    \/ Start(s) \/ ReadActive(s) \/ Disabled(s) \/ Fetch(s)
    \/ CompareDifferent(s) \/ CompareUnchanged(s) \/ PublishArchive(s)
    \/ OpenArchive(s) \/ BeginImport(s) \/ Load(s) \/ HashArchive(s) \/ Commit(s)
    \/ ReadCoverage(s) \/ RereadActive(s) \/ Report(s)
    \/ Fail(s) \/ Die(s)

Next == (\E s \in Syncs : Step(s)) \/ Release

Spec == Init /\ [][Next]_vars

-----------------------------------------------------------------------------
(* Properties.                                                             *)

\* The recorded hash is the hash of the archive that the timetable holds, so
\* that a later comparison with it is a comparison with the timetable, unless
\* another command replaced the file between its opening and its hashing.
HashDescribesTimetable == db.disturbed \/ db.active = db.timetable

\* Maintenance serves the archive whose hash it reports, and the coverage and
\* the active import that stand beside it in the report are of that archive,
\* unless another command replaced the canonical file while this one imported
\* it, or committed an import of its own before the report was out.
ReportedArchiveIsServed ==
    [][\A s \in Syncs :
          sync[s].maintain /\ sync[s].pc # "idle" /\ sync'[s].status = "OK"
          => \/ sync[s].disturbed \/ sync[s].overtaken
             \/ {db'.timetable, db'.active, sync[s].coverage, sync[s].active}
                   = {sync[s].fetched}]_vars

\* "An unchanged archive returns UNCHANGED without replacing the timetable"
\* (docs/operations.md:226): a command that finds its archive unchanged has
\* before it the archive that is being served, unless another import was
\* committed since it read the active one.
UnchangedIsCurrent ==
    [][\A s \in Syncs :
          sync[s].pc = "comparing" /\ sync'[s].status = "UNCHANGED"
          /\ sync[s].active = db.active
          => At(sync[s]) = db.timetable]_vars

Timetable == INSTANCE AtomicTimetable WITH
    Valid <- Loadable,
    served <- IF db.timetable = db.index THEN db.timetable ELSE -1,
    imports <- {sync[s].opened : s \in Syncs} \ {Nothing}

\* Whatever fails, and wherever a command is killed, the timetable and the
\* stop index are those of one whole valid archive, the last one imported.
AtomicTimetableSpec == Timetable!Spec

=============================================================================
