---------------------------- MODULE Installation -----------------------------
(***************************************************************************)
(* Programs that share one installation: each opens the database and brings *)
(* its schema up to date (storage.Open), loads sources.yaml and profiles.   *)
(* yaml into it (service.New) and then serves, changes a profile (internal/ *)
(* cli, profiles.go) or resolves the source registry (catalog scan and      *)
(* validate), while others do the same; any of them fails or is killed.     *)
(*                                                                         *)
(* A profile document is the set of its entries, each of which refers to    *)
(* others: a commute to two places, a briefing to a commute.                *)
(***************************************************************************)
EXTENDS Naturals, SourceRegistry

CONSTANTS
    Programs,   \* processes
    Versions,   \* schema migrations: 1..Versions
    Entries,    \* places, commutes and briefings
    Refs,       \* Refs[e]: the entries that e refers to
    Places,     \* the entries that are places
    Example,    \* the embedded profiles.example.yaml
    Absent,     \* stands for no profiles.yaml
    Configs,    \* what sources.yaml may say of the source
    MaxRuns     \* bound: programs run

Documents == SUBSET Entries

ASSUME InstallationAssumption ==
    /\ Versions \in Nat /\ MaxRuns \in Nat
    /\ Refs \in [Entries -> Documents] /\ Places \subseteq Entries
    /\ Example \in Documents /\ Absent \notin Documents /\ Configs \subseteq Configuration

VARIABLES
    applied,    \* how often each migration's statements were committed
    recorded,   \* schema_migrations
    registry,   \* the source's row
    store,      \* the profile tables
    sources,    \* sources.yaml
    profiles,   \* profiles.yaml
    run,        \* the programs' frames
    runs,       \* how many have started
    confirmed   \* history: services and tables that a catalog listed as the one,
                \* or a probe read

database == <<applied, recorded, registry, store>>
files == <<sources, profiles>>
vars == <<applied, recorded, registry, store, sources, profiles, run, runs, confirmed>>

\* set and remove change one entry; the others change none.
Commands == [name : {"serve", "scan", "validate"}, entry : {Absent}]
            \cup [name : {"set", "remove"}, entry : Entries]
Serve == [name |-> "serve", entry |-> Absent]

Frame == [pc : {"idle", "open", "migrate", "readSources", "loadSources", "readProfiles",
                "loadProfiles", "store", "file", "list", "write", "ready"},
          command : Commands,
          version : 1..Versions + 1,            \* migrations: the next one
          config : Configs,                     \* sources.yaml as read
          loads : Documents \cup {Absent},      \* what LoadProfiles will load at the start
          document : Documents \cup {Absent},   \* what the command has made of the file
          finding : Finding,                    \* what a catalog command will write
          alone : BOOLEAN]                      \* no other program ran at the same time

NoFinding == [status |-> "UNRESOLVED", table |-> None, service |-> "rdata"]
FirstConfig == CHOOSE c \in Configs : TRUE
Idle == [pc |-> "idle", command |-> Serve, version |-> 1, config |-> FirstConfig,
         loads |-> Absent, document |-> Absent, finding |-> NoFinding, alone |-> FALSE]

\* Types.
TypeOK ==
    /\ applied \in [1..Versions -> Nat] /\ recorded \in [1..Versions -> BOOLEAN]
    /\ registry \in Row /\ store \in Documents
    /\ sources \in Configs /\ profiles \in Documents \cup {Absent}
    /\ run \in [Programs -> Frame] /\ runs \in 0..MaxRuns /\ confirmed \subseteq Services \X Tables

\* Every entry that one of d refers to is there.
Valid(d) == \A e \in d : Refs[e] \subseteq d

\* A new database, or one that an older release, or this one, has left; the user
\* may have edited profiles.yaml since.  The row is what a start makes of c, or
\* one that a scan has resolved.
Init ==
    \E n \in 0..Versions, c \in Configs, f \in Documents \cup {Absent} :
        /\ recorded = [v \in 1..Versions |-> v <= n]
        /\ applied = [v \in 1..Versions |-> IF v <= n THEN 1 ELSE 0]
        /\ sources = c
        /\ \/ registry = Fresh(c) /\ confirmed = {}
           \/ \E t \in Tables : /\ n > 0 /\ c.enabled /\ confirmed = {<<c.service, t>>}
                               /\ registry = [config |-> c, status |-> "OK", table |-> t]
        /\ profiles = f /\ store \in (IF n = 0 THEN {{}} ELSE Documents)
        /\ run = [p \in Programs |-> Idle] /\ runs = 0

Goto(p, pc) == run' = [run EXCEPT ![p].pc = pc]
Leave(p) == run' = [run EXCEPT ![p] = Idle]

-----------------------------------------------------------------------------
(* A program begins; "profile set" and "profile remove" read the file first. *)

\* Mutant: no check of the references.
AcceptsUnchecked(c, d) == TRUE

\* What makes the command's change refused: validateProfileDocument.
Accepts(c, d) == Valid(d)

\* What the command makes of the entries in the file.
Changed(c, d) == IF c.name = "set" THEN d \cup {c.entry} ELSE d \ {c.entry}

InFile(f) == IF f = Absent THEN {} ELSE f

\* runProfileMutation up to withApp; set of an entry that exists has --force.
Begin(p, c) ==
    /\ run[p].pc = "idle" /\ runs < MaxRuns
    /\ c.name \in {"set", "remove"} => Accepts(c, Changed(c, InFile(profiles)))
    /\ c.name = "remove" => c.entry \in InFile(profiles)
    /\ LET others == \E q \in Programs : run[q].pc # "idle" IN
       run' = [q \in Programs |->
                 IF q # p THEN [run[q] EXCEPT !.alone = FALSE]
                 ELSE [Idle EXCEPT !.pc = "open", !.command = c, !.alone = ~others,
                          !.document = IF c.name \in {"set", "remove"}
                                       THEN Changed(c, InFile(profiles)) ELSE Absent]]
    /\ runs' = runs + 1
    /\ UNCHANGED <<database, files, confirmed>>

-----------------------------------------------------------------------------
(* storage.Open: migrate, one transaction per missing version.             *)

\* The SELECT for the next version.
CheckMigration(p) ==
    LET v == run[p].version IN
    /\ run[p].pc = "open"
    /\ IF v > Versions THEN run' = [run EXCEPT ![p].pc = "readSources", ![p].version = 1]
       ELSE IF recorded[v] THEN run' = [run EXCEPT ![p].version = v + 1]
       ELSE Goto(p, "migrate")
    /\ UNCHANGED <<database, files, runs, confirmed>>

\* Mutant: the version is recorded as "INSERT OR IGNORE" would.
MigratesAgain(v) == TRUE

\* Another program may have applied it meanwhile: the insertion then fails.
Migrates(v) == ~recorded[v]

\* The transaction; it fails as a whole.
ApplyMigration(p) ==
    LET v == run[p].version IN
    /\ run[p].pc = "migrate"
    /\ IF Migrates(v)
          THEN /\ applied' = [applied EXCEPT ![v] = @ + 1]
               /\ recorded' = [recorded EXCEPT ![v] = TRUE]
               /\ run' = [run EXCEPT ![p].pc = "open", ![p].version = v + 1]
          ELSE Leave(p) /\ UNCHANGED <<applied, recorded>>
    /\ UNCHANGED <<registry, store, files, runs, confirmed>>

-----------------------------------------------------------------------------
(* service.New: the two files into the database.                           *)

ReadSources(p) ==
    /\ run[p].pc = "readSources"
    /\ run' = [run EXCEPT ![p].pc = "loadSources", ![p].config = sources]
    /\ UNCHANGED <<database, files, runs, confirmed>>

\* LoadSources.
LoadSources(p) ==
    /\ run[p].pc = "loadSources"
    /\ registry' = Upsert(registry, run[p].config)
    /\ run' = [run EXCEPT ![p].pc = "readProfiles", ![p].config = FirstConfig]
    /\ UNCHANGED <<applied, recorded, store, files, runs, confirmed>>

\* Mutant: a database that has places keeps them.
StartDocumentOnce(f, s) == IF s \cap Places = {} THEN IF f = Absent THEN Example ELSE f ELSE Absent

\* What New loads: the file, or the example into a database without places.
StartDocument(f, s) ==
    IF f # Absent THEN f ELSE IF s \cap Places = {} THEN Example ELSE Absent

ReadProfiles(p) ==
    /\ run[p].pc = "readProfiles"
    /\ run' = [run EXCEPT ![p].pc = "loadProfiles", ![p].loads = StartDocument(profiles, store)]
    /\ UNCHANGED <<database, files, runs, confirmed>>

\* LoadProfiles: upserts, and deleteMissingKeys, in one transaction.
Stored(d, s) == d

Body(name) ==
    CASE name \in {"set", "remove"} -> "store"
      [] name \in {"scan", "validate"} -> "list"
      [] OTHER -> "ready"

LoadProfiles(p) ==
    /\ run[p].pc = "loadProfiles"
    /\ store' = IF run[p].loads = Absent THEN store ELSE Stored(run[p].loads, store)
    /\ run' = [run EXCEPT ![p].pc = Body(run[p].command.name), ![p].loads = Absent]
    /\ UNCHANGED <<applied, recorded, registry, files, runs, confirmed>>

-----------------------------------------------------------------------------
(* The commands.                                                           *)

\* Mutant: the tables are left to the next start.
StoreMutationLater(p) ==
    /\ run[p].pc = "store"
    /\ Goto(p, "file")
    /\ UNCHANGED <<database, files, runs, confirmed>>

\* The document that was read before the start goes into the tables first.
StoreMutation(p) ==
    /\ run[p].pc = "store"
    /\ store' = Stored(run[p].document, store)
    /\ Goto(p, "file")
    /\ UNCHANGED <<applied, recorded, registry, files, runs, confirmed>>

WriteProfiles(p) ==
    /\ run[p].pc = "file"
    /\ profiles' = run[p].document
    /\ Goto(p, "ready")
    /\ UNCHANGED <<database, sources, runs, confirmed>>

\* ListSources and the requests: listed is what a catalog has, answer what a
\* probe gives.  A scan takes the known tables when no catalog can be read.
ListSources(p) ==
    \E listed \in SUBSET Tables, answer \in {"OK", "ERROR", "UNRESOLVED"} :
    \E finding \in IF run[p].command.name = "validate" THEN {Validated(registry, answer)}
                   ELSE {Resolved(registry, listed), Probed(registry, answer)} :
        /\ run[p].pc = "list"
        /\ IF run[p].command.name = "validate" /\ ~Validates(registry)
              THEN Goto(p, "ready") /\ UNCHANGED confirmed
              ELSE /\ run[p].command.name = "validate" => answer # "UNRESOLVED"
                   /\ run' = [run EXCEPT ![p].pc = "write", ![p].finding = finding]
                   /\ confirmed' = confirmed \cup
                        IF finding.status # "OK" THEN {}
                        ELSE IF run[p].command.name = "validate"
                                THEN {<<finding.service, registry.table>>}
                        ELSE {<<finding.service, finding.table>>}
        /\ UNCHANGED <<database, files, runs>>

WriteStatus(p) ==
    /\ run[p].pc = "write"
    /\ registry' = SetStatus(registry, run[p].finding.status, run[p].finding.table)
    /\ run' = [run EXCEPT ![p].pc = "ready", ![p].finding = NoFinding]
    /\ UNCHANGED <<applied, recorded, store, files, runs, confirmed>>

\* The program ends; before that, any step may fail and any kill come.
Exit(p) ==
    /\ run[p].pc # "idle"
    /\ Leave(p)
    /\ UNCHANGED <<database, files, runs, confirmed>>

\* The user edits sources.yaml.
EditSources(c) ==
    /\ sources' = c /\ c # sources
    /\ UNCHANGED <<database, profiles, run, runs, confirmed>>

Next ==
    \/ \E p \in Programs :
        \/ \E c \in Commands : Begin(p, c)
        \/ CheckMigration(p) \/ ApplyMigration(p)
        \/ ReadSources(p) \/ LoadSources(p) \/ ReadProfiles(p) \/ LoadProfiles(p)
        \/ StoreMutation(p) \/ WriteProfiles(p) \/ ListSources(p) \/ WriteStatus(p)
        \/ Exit(p)
    \/ \E c \in Configs : EditSources(c)

Spec == Init /\ [][Next]_vars

-----------------------------------------------------------------------------
(* Properties.                                                             *)

\* Each migration's statements are committed once, whoever starts beside, and
\* no program goes past the migrations before all of them are (migrate).
SchemaComplete ==
    /\ \A v \in 1..Versions : applied[v] = IF recorded[v] THEN 1 ELSE 0
    /\ \A p \in Programs : run[p].pc \notin {"idle", "open", "migrate"} =>
          \A v \in 1..Versions : recorded[v]

\* The file is the source of truth: a start that overlaps no other program
\* leaves the tables as the file has them, whatever a failed or killed profile
\* command, or a removal from the file, has left there (New, LoadProfiles).
FileWins ==
    [][\A p \in Programs :
          run[p].pc = "loadProfiles" /\ run'[p].pc \notin {"idle", "loadProfiles"}
              /\ run[p].alone /\ profiles # Absent
              => store' = profiles]_vars

\* A profile command that ran alone and got to its end has changed its own entry
\* in the file and in the tables, and no other (runProfileMutation).
MutationTakesEffect ==
    [][\A p \in Programs : run[p].pc = "file" /\ run'[p].pc = "ready" /\ run[p].alone =>
          /\ profiles' = Changed(run[p].command, InFile(profiles))
          /\ store' = profiles']_vars

\* A profile command never writes a document with an entry that refers to none,
\* even beside other commands (validateProfileDocument).
MutationsKeepReferences ==
    [][profiles' # profiles => Valid(profiles')]_vars

\* While its configuration stays the same, a source keeps a table once it has
\* one, over starts, scans without a result and failed probes (upsertSource,
\* SetSourceStatus).
ResolutionPersists ==
    [][registry'.config = registry.config /\ registry.table # None => registry'.table # None]_vars

Confirmed(table) == \E service \in Services : <<service, table>> \in confirmed

\* OK is said of a table only when sources.yaml says so, when a catalog had it as
\* the one match, or when a probe has read it, although commands write what they
\* found in older rows.  The service it was found in need not be the row's
\* (CatalogScan, CatalogValidate, SetSourceStatus).
OkWasConfirmed ==
    registry.status = "OK" /\ registry.config.status # "OK" => Confirmed(registry.table)

=============================================================================
