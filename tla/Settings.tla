------------------------------ MODULE Settings -------------------------------
(***************************************************************************)
(* Configuration (internal/config): what a start of the program makes of    *)
(* its environment, secrets.env and settings.yaml, and the commands that    *)
(* rewrite the two files, "config migrate" and "setup" (internal/cli), one  *)
(* after the other, killed anywhere, with other programs starting beside.   *)
(*                                                                         *)
(* The settings are the mode, and the data directory and database path that *)
(* depend on each other; the rest behave as the mode does.  A database path *)
(* is a directory when it is the default name under that directory.  A key  *)
(* of settings.yaml may be absent (None), have no value (Null: no pointer   *)
(* for load, but a node for Explain), or a string of white space (Blank). A *)
(* blank mode makes every load fail and is left out, a blank directory is    *)
(* taken for Null, which it behaves as.                                     *)
(***************************************************************************)
EXTENDS Naturals

CONSTANTS
    Dirs,           \* data directories
    DefaultDir,     \* the platform's own
    Paths,          \* database paths that are no default name
    Overrides,      \* the modes that the environment and secrets.env may have
    None,           \* no key, or an empty one in the environment or secrets.env
    Null,           \* a key of settings.yaml without a value
    Blank           \* an empty string, or white space, in settings.yaml

Modes == {"true", "false"}

\* Credentials are those in the file or those in a command's environment.
Users == {"stored", "given"}

\* What a key of settings.yaml may be besides a value.
Absent == {None, Null, Blank}

\* The default names and the others.
Databases == Dirs \cup Paths

ASSUME SettingsAssumption ==
    /\ Overrides \subseteq Modes /\ DefaultDir \in Dirs /\ Paths \cap Dirs = {}
    /\ Null # Blank /\ None \notin {Null, Blank}
    /\ Absent \cap (Databases \cup Modes \cup Users) = {}

Keys == {"offline", "data_dir", "db_path"}

\* Values of settings by key, in the environment and in secrets.env.
Layer == [offline : Overrides \cup {None}, data_dir : Dirs \cup {None}, db_path : Databases \cup {None}]
Unset == [k \in Keys |-> None]

Secrets == [user : Users \cup {None}, legacy : Layer]

\* The runtime section of settings.yaml; one that is null has no fields.
Yaml == [offline : Modes \cup {None, Null}, data_dir : Dirs \cup {None, Null},
         db_path : Databases \cup Absent]
Document == {d \in [exists : BOOLEAN, section : {"mapping", "null"}, values : Yaml] :
                /\ ~d.exists => d.section = "mapping"
                /\ ~d.exists \/ d.section = "null" => d.values = Unset}

VARIABLES
    secrets,    \* secrets.env: the credentials and the legacy settings
    settings,   \* settings.yaml
    writer,     \* a command that writes
    starter     \* another program that starts

vars == <<secrets, settings, writer, starter>>

Writer == [pc : {"idle", "load", "copy", "migrate", "settings", "secrets", "final"},
           command : {"migrate", "setup"}, force : BOOLEAN, mode : Modes,
           user : Users \cup {None}, document : Document]

NoSecrets == [user |-> None, legacy |-> Unset]
NoDocument == [exists |-> FALSE, section |-> "mapping", values |-> Unset]
NoCommand == [pc |-> "idle", command |-> "migrate", force |-> FALSE, mode |-> "true",
              user |-> None, document |-> NoDocument]
NotStarted == [reading |-> FALSE, secrets |-> NoSecrets, settings |-> NoDocument, disturbed |-> FALSE]

\* The values of the variables: one state predicate for types.
TypeOK ==
    /\ secrets \in Secrets /\ settings \in Document /\ writer \in Writer
    /\ starter \in [reading : BOOLEAN, secrets : Secrets, settings : Document, disturbed : BOOLEAN]

Init ==
    /\ secrets \in [user : {None, "stored"}, legacy : Layer]
    /\ settings \in Document
    /\ writer = NoCommand /\ starter = NotStarted

-----------------------------------------------------------------------------
(* load: what the layers make together.                                    *)

Or(value, fallback) == IF value = None THEN fallback ELSE value

\* The values map: the environment over secrets.env.
Merged(e, s) == [k \in Keys |-> Or(e[k], s.legacy[k])]

\* defaultConfig: a database is under the data directory.
Default(dir) == [offline |-> "false", data_dir |-> dir, db_path |-> dir]

\* applyYAML: a data directory of settings.yaml takes the database with it,
\* unless the file has a path for it, even one of white space.
WithYaml(cfg, d) ==
    LET v == d.values
        dir == IF v["data_dir"] \in Absent THEN cfg.data_dir ELSE v["data_dir"] IN
    [offline  |-> IF v["offline"] \in Absent THEN cfg.offline ELSE v["offline"],
     data_dir |-> dir,
     db_path  |-> CASE v["db_path"] \in {None, Null} -> dir
                    [] v["db_path"] = Blank -> cfg.db_path
                    [] OTHER -> v["db_path"]]

\* applyEnvironment: a data directory takes the database with it, as long as
\* that lies under the directory before it.
WithEnvironment(cfg, given) ==
    LET follows == given["data_dir"] # None /\ cfg.db_path = cfg.data_dir IN
    [offline  |-> Or(given["offline"], cfg.offline),
     data_dir |-> Or(given["data_dir"], cfg.data_dir),
     db_path  |-> Or(given["db_path"], IF follows THEN given["data_dir"] ELSE cfg.db_path)]

Load(e, s, d) ==
    LET given == Merged(e, s)
    IN WithEnvironment(WithYaml(Default(Or(given["data_dir"], DefaultDir)), d), given)

\* Mutant: the order that the documentation gives.
OriginYamlFirst(e, s, d, k) ==
    IF e[k] # None THEN "process"
    ELSE IF d.values[k] # None THEN "yaml"
    ELSE IF s.legacy[k] # None THEN "legacy" ELSE "default"

\* Explain: where it says that a setting comes from; a key that is there
\* without a value counts.
Origin(e, s, d, k) ==
    IF e[k] # None THEN "process"
    ELSE IF s.legacy[k] # None THEN "legacy"
    ELSE IF d.values[k] # None THEN "yaml" ELSE "default"

-----------------------------------------------------------------------------
(* Migrate, and setup, which ends with it.                                 *)

Goto(p, frame) == writer' = [frame EXCEPT !.pc = p]

\* Mutant: a field that settings.yaml has already is left as it is.
MigratedKeeping(s, d) ==
    IF d.section = "null" THEN d
    ELSE [d EXCEPT !.exists = TRUE,
                   !.values = [k \in Keys |-> IF d.values[k] \in Absent THEN s.legacy[k]
                                                                  ELSE d.values[k]]]

\* The document with the legacy values set; a section that is no mapping takes
\* none.
Migrated(s, d) ==
    IF d.section = "null" THEN d
    ELSE [d EXCEPT !.exists = TRUE,
                   !.values = [k \in Keys |-> Or(s.legacy[k], d.values[k])]]

\* The file that setup finds is patched where it has a mode, true or false; a
\* new one is the example.
Copied(w, d) ==
    IF ~d.exists \/ w.force
       THEN [exists |-> TRUE, section |-> "mapping",
             values |-> [Unset EXCEPT !["offline"] = w.mode]]
       ELSE [d EXCEPT !.values["offline"] = IF @ \in Modes THEN w.mode ELSE @]

\* Mutant: the file gets what the command was given.
StoredGiven(user, s) == [user |-> user, legacy |-> Unset]

\* What secrets.env is left with: credentials of the file, else the command's.
Stored(user, s) == [user |-> Or(s.user, user), legacy |-> Unset]

\* A command is given; user is what its environment has for credentials.
Begin(command, force, mode, user) ==
    /\ writer.pc = "idle"
    /\ command = "migrate" => ~force /\ mode = "true"
    /\ Goto("load", [NoCommand EXCEPT !.command = command, !.force = force,
                                      !.mode = mode, !.user = user])
    /\ UNCHANGED <<secrets, settings, starter>>

\* Load, or LoadForSetup; setup for live use needs credentials.
LoadWriter ==
    LET user == Or(writer.user, secrets.user) IN
    /\ writer.pc = "load"
    /\ IF writer.command = "migrate" THEN Goto("migrate", [writer EXCEPT !.user = user])
       ELSE IF writer.mode = "false" /\ user = None THEN writer' = NoCommand
       ELSE Goto("copy", [writer EXCEPT !.user = user])
    /\ UNCHANGED <<secrets, settings, starter>>

\* For every environment: the configuration in force with these files.
Effective(s, d) == [e \in Layer |-> Load(e, s, d)]

\* History: whether a write between the two reads of a start has changed what
\* is in force.
Disturbs ==
    starter' = [starter EXCEPT !.disturbed =
                    /\ starter.reading
                    /\ @ \/ Effective(secrets', settings') # Effective(secrets, settings)]

CopyConfiguration ==
    /\ writer.pc = "copy"
    /\ settings' = Copied(writer, settings)
    /\ Goto(IF writer.force THEN "final" ELSE "migrate", writer)
    /\ UNCHANGED secrets
    /\ Disturbs

\* Migrate reads both files; a document that stays the same is not written.
ReadFiles ==
    LET document == Migrated(secrets, settings) IN
    /\ writer.pc = "migrate"
    /\ IF document.values # settings.values
          THEN Goto("settings", [writer EXCEPT !.document = document])
          ELSE Goto("secrets", writer)
    /\ UNCHANGED <<secrets, settings, starter>>

WriteSettings ==
    /\ writer.pc = "settings"
    /\ settings' = writer.document
    /\ Goto("secrets", [writer EXCEPT !.document = NoDocument])
    /\ UNCHANGED secrets
    /\ Disturbs

WriteSecrets ==
    /\ writer.pc = "secrets"
    /\ secrets' = Stored(writer.user, secrets)
    /\ IF writer.command = "setup" THEN Goto("final", writer) ELSE writer' = NoCommand
    /\ UNCHANGED settings
    /\ Disturbs

\* setup's own WriteSecrets, with the credentials it loaded.
WriteSetupSecrets ==
    /\ writer.pc = "final"
    /\ secrets' = [user |-> writer.user, legacy |-> Unset]
    /\ writer' = NoCommand
    /\ UNCHANGED settings
    /\ Disturbs

\* An error of any call, or a kill.
Die ==
    /\ writer.pc # "idle"
    /\ writer' = NoCommand
    /\ UNCHANGED <<secrets, settings, starter>>

-----------------------------------------------------------------------------
(* A program that starts: load reads one file after the other.             *)

\* Mutant: settings.yaml first.
SettingsFirst == <<"settings", "secrets">>

\* The order of the reads.
ReadOrder == <<"secrets", "settings">>

Files == [secrets |-> secrets, settings |-> settings]

\* What the first read and one of the other file now make together.
Got == [starter EXCEPT ![ReadOrder[2]] = Files[ReadOrder[2]]]

ReadFirst ==
    /\ ~starter.reading
    /\ starter' = [NotStarted EXCEPT !.reading = TRUE, ![ReadOrder[1]] = Files[ReadOrder[1]]]
    /\ UNCHANGED <<secrets, settings, writer>>

\* The second read: the start has got its configuration.
ReadSecond ==
    /\ starter.reading
    /\ starter' = NotStarted
    /\ UNCHANGED <<secrets, settings, writer>>

Next ==
    \/ \E c \in {"migrate", "setup"}, f \in BOOLEAN, m \in Modes, u \in {None, "given"} :
           Begin(c, f, m, u)
    \/ LoadWriter \/ CopyConfiguration \/ ReadFiles \/ WriteSettings \/ WriteSecrets
    \/ WriteSetupSecrets \/ Die
    \/ ReadFirst \/ ReadSecond

Spec == Init /\ [][Next]_vars

-----------------------------------------------------------------------------
(* Properties.                                                             *)

MigrationStep == writer.command = "migrate" /\ writer.pc # "idle"

\* What operations.md promises of "config migrate": no step of it, whether it is
\* the last or one that a crash follows, changes what any later start makes of
\* the files.  The code breaks it for some files (Migrate, setSettingsValue).
MigrationPreservesEffective ==
    [][MigrationStep => Effective(secrets', settings') = Effective(secrets, settings)]_vars

\* Files from which values move without loss: the runtime section is a mapping,
\* neither file has a default name for a database path, and that of
\* settings.yaml is not blank.
Plain(s, d) ==
    /\ d.section = "mapping"
    /\ {s.legacy["db_path"], d.values["db_path"]} \cap (Dirs \cup {Blank}) = {}

\* Of plain files, every step of a migration keeps what is in force for any
\* environment, whether it is the last or one that a crash follows (Migrate).
PlainMigrationPreserves ==
    [][MigrationStep /\ Plain(secrets, settings) =>
          Effective(secrets', settings') = Effective(secrets, settings)]_vars

\* A start that reads the two files while a migration or a setup moves values
\* between them gets the configuration in force when it ends reading, if none of
\* the writes between its reads changed what is in force (load).
StartSeesEffective ==
    [][starter.reading /\ ~starter'.reading /\ ~starter.disturbed =>
          Effective(Got.secrets, Got.settings) = Effective(secrets, settings)]_vars

\* Credentials in the file go only where setup writes those it was given; a
\* migration writes the given ones only where there were none (Migrate).
CredentialsSurvive ==
    [][secrets'.user # secrets.user =>
          /\ secrets'.user = "given"
          /\ secrets.user # None => writer.command = "setup"]_vars

\* What Explain names as the origin of a setting has the value in force, unless
\* that is a key of settings.yaml without a value, or a default name for the
\* database there: that may follow another data directory.  Where Explain says
\* default, the default is in force, the database under the data directory.
ExplainedOriginIsEffective ==
    \A e \in Layer :
        LET at == [process |-> e, legacy |-> secrets.legacy, yaml |-> settings.values]
            cfg == Load(e, secrets, settings)
            default == [Default(cfg.data_dir) EXCEPT !.data_dir = DefaultDir]
        IN \A k \in Keys :
               LET origin == Origin(e, secrets, settings, k) IN
               IF origin = "default" THEN cfg[k] = default[k]
               ELSE \/ cfg[k] = at[origin][k]
                    \/ origin = "yaml" /\ at[origin][k] \in {Null, Blank}
                    \/ /\ origin = "yaml" /\ k = "db_path"
                       /\ at[origin][k] \in Dirs /\ cfg["db_path"] = cfg["data_dir"]

=============================================================================
