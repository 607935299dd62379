---------------------------- MODULE SettingsProofs ----------------------------
(***************************************************************************)
(* Theorems about Settings, for any directories and paths.                  *)
(***************************************************************************)
EXTENDS Settings, TLAPS

-----------------------------------------------------------------------------
(* What a start makes of the layers.                                       *)

\* The first value of three layers.
First(x, y, z) == Or(x, Or(y, z))

\* What a key of settings.yaml gives, a key without a value giving nothing.
Given(v) == IF v \in Absent THEN None ELSE v

\* For plain files the configuration is, for each setting, the first value of
\* environment, secrets.env, settings.yaml and default; the default database is
\* under the data directory in force.
LEMMA LoadOrder ==
  ASSUME NEW e \in Layer, NEW s \in Secrets, NEW d \in Document,
         d.values["db_path"] \notin Dirs \cup {Blank}
  PROVE  LET dir == First(e["data_dir"], s.legacy["data_dir"],
                          Or(Given(d.values["data_dir"]), DefaultDir)) IN
         Load(e, s, d) =
           [offline  |-> First(e["offline"], s.legacy["offline"],
                               Or(Given(d.values["offline"]), "false")),
            data_dir |-> dir,
            db_path  |-> First(e["db_path"], s.legacy["db_path"],
                               Or(Given(d.values["db_path"]), dir))]
  BY SettingsAssumption
     DEF Load, Merged, WithEnvironment, WithYaml, Default, First, Or, Keys, Given, Absent,
         Databases, Layer, Yaml, Secrets, Document

\* Of secrets.env only the legacy settings count.
LEMMA LegacyCounts ==
  ASSUME NEW s, NEW u, s.legacy = u.legacy, NEW d
  PROVE  Effective(s, d) = Effective(u, d)
  BY DEF Effective, Load, Merged

\* settings.yaml has the values that secrets.env has.
Absorbed(s, d) == \A k \in Keys : s.legacy[k] # None => d.values[k] = s.legacy[k]

\* Then secrets.env may lose them.
LEMMA AbsorbedEffective ==
  ASSUME NEW s \in Secrets, NEW u \in Secrets, NEW d \in Document,
         Plain(s, d), Absorbed(s, d), u.legacy = Unset
  PROVE  Effective(s, d) = Effective(u, d)
<1>1. ASSUME NEW e \in Layer PROVE Load(e, s, d) = Load(e, u, d)
  <2>1. \A k \in Keys : u.legacy[k] = None
    BY DEF Unset
  <2>2. ASSUME NEW x, NEW z, NEW k \in Keys
        PROVE  First(x, s.legacy[k], Or(Given(d.values[k]), z)) =
                 First(x, u.legacy[k], Or(Given(d.values[k]), z))
    <3>1. s.legacy[k] \notin {Null, Blank}
      BY SettingsAssumption DEF Secrets, Layer, Keys, Absent, Databases
    <3> QED BY <2>1, <3>1 DEF First, Or, Absorbed, Given, Absent
  <2> QED BY <2>2, LoadOrder DEF Keys, Plain
<1> QED BY <1>1 DEF Effective

\* A migrated document: it is one, it has the legacy values, and with it they
\* are in force as before.
LEMMA MigratedDocument ==
  ASSUME NEW s \in Secrets, NEW d \in Document
  PROVE  /\ Migrated(s, d) \in Document /\ Migrated(s, d).section = d.section
         /\ d.section = "mapping" =>
              /\ Absorbed(s, Migrated(s, d))
              /\ \A k \in Keys : Migrated(s, d).values[k] = Or(s.legacy[k], d.values[k])
<1>1. CASE d.section = "null"
  BY <1>1 DEF Migrated
<1>2. CASE d.section # "null"
  <2>1. d.section = "mapping" /\ d.exists \in BOOLEAN /\ d.values \in Yaml
    BY <1>2 DEF Document
  <2>2. PICK v : v = [k \in Keys |-> Or(s.legacy[k], d.values[k])]
    OBVIOUS
  <2>3. v \in Yaml
    <3>1. s.legacy \in Layer
      BY DEF Secrets
    <3> QED BY <2>1, <2>2, <3>1, SettingsAssumption DEF Yaml, Layer, Keys, Or, Absent, Databases
  <2>4. Migrated(s, d) = [d EXCEPT !.exists = TRUE, !.values = v]
    BY <1>2, <2>2 DEF Migrated
  <2>5. Migrated(s, d) \in Document /\ Migrated(s, d).section = "mapping"
        /\ Migrated(s, d).values = v
    BY <2>1, <2>3, <2>4 DEF Document
  <2> QED BY <2>1, <2>2, <2>5 DEF Absorbed, Or
<1> QED BY <1>1, <1>2

LEMMA MigratedEffective ==
  ASSUME NEW s \in Secrets, NEW d \in Document, Plain(s, d)
  PROVE  Effective(s, Migrated(s, d)) = Effective(s, d)
<1>1. d.section = "mapping"
  BY DEF Plain
<1>2. PICK m \in Document :
        m = Migrated(s, d) /\ \A k \in Keys : m.values[k] = Or(s.legacy[k], d.values[k])
  BY <1>1, MigratedDocument
<1>3. m.values["db_path"] \notin Dirs \cup {Blank} /\ d.values["db_path"] \notin Dirs \cup {Blank}
  BY <1>2 DEF Plain, Or, Keys
<1>4. ASSUME NEW e \in Layer PROVE Load(e, s, m) = Load(e, s, d)
  <2>1. ASSUME NEW x, NEW z, NEW k \in Keys
        PROVE  First(x, s.legacy[k], Or(Given(m.values[k]), z)) =
                 First(x, s.legacy[k], Or(Given(d.values[k]), z))
    BY <1>2 DEF First, Or
  <2> QED BY <1>3, <2>1, LoadOrder DEF Keys
<1> QED BY <1>2, <1>4 DEF Effective

-----------------------------------------------------------------------------
(* The invariant.                                                          *)

\* A command has loaded the credentials of the file or was given some.
UserSound ==
    /\ writer.pc = "load" => writer.user \in {None, "given"}
    /\ writer.pc \notin {"idle", "load"} => writer.user \in {"given", secrets.user}
    /\ writer.pc \in {"copy", "final"} => writer.command = "setup"

\* What a migration will write is what it would make of the files as they are,
\* and it removes the legacy values when settings.yaml has them.
WriterSound ==
    /\ writer.pc = "settings" => writer.document = Migrated(secrets, settings)
    /\ writer.pc = "secrets" /\ settings.section = "mapping" => Absorbed(secrets, settings)

\* What a start has read of secrets.env is worth what the file is worth now, and
\* only legacy settings can have gone from it.
StarterSound ==
    starter.reading /\ ~starter.disturbed =>
        /\ secrets.legacy \in {starter.secrets.legacy, Unset}
        /\ Effective(starter.secrets, settings) = Effective(secrets, settings)

Inv == TypeOK /\ UserSound /\ WriterSound /\ StarterSound

Starter == [reading : BOOLEAN, secrets : Secrets, settings : Document, disturbed : BOOLEAN]

LEMMA InitialTypes ==
  /\ Unset \in Layer /\ NoSecrets \in Secrets /\ NoDocument \in Document
  /\ NoCommand \in Writer /\ NoCommand.pc = "idle" /\ NoCommand.user = None
  /\ NotStarted \in Starter /\ ~NotStarted.reading
<1>1. Unset \in Layer /\ Unset \in Yaml
  BY DEF Unset, Layer, Yaml, Keys, Absent
<1>2. NoSecrets \in Secrets
  BY <1>1 DEF NoSecrets, Secrets
<1>3. NoDocument \in Document
  BY <1>1 DEF NoDocument, Document
<1> QED BY <1>1, <1>2, <1>3 DEF NoCommand, Writer, NotStarted, Starter, Modes

LEMMA InitSound == Init => Inv
<1> SUFFICES ASSUME Init PROVE Inv
  OBVIOUS
<1>1. secrets \in Secrets
  BY DEF Init, Secrets, Users
<1> QED BY <1>1, InitialTypes
        DEF Init, Inv, TypeOK, Starter, UserSound, WriterSound, StarterSound

\* A step that changes the writer alone.
LEMMA WriterStep ==
  ASSUME Inv, writer' \in Writer, UserSound', WriterSound',
         UNCHANGED <<secrets, settings, starter>>
  PROVE  Inv'
  BY DEF Inv, TypeOK, StarterSound

LEMMA BeginSound ==
  ASSUME Inv, NEW c \in {"migrate", "setup"}, NEW f \in BOOLEAN, NEW m \in Modes,
         NEW u \in {None, "given"}, Begin(c, f, m, u)
  PROVE  Inv'
<1>1. PICK w : w = [NoCommand EXCEPT !.command = c, !.force = f, !.mode = m, !.user = u]
  OBVIOUS
<1>2. /\ writer' = [w EXCEPT !.pc = "load"] /\ UNCHANGED <<secrets, settings, starter>>
      /\ w \in Writer /\ w.user = u
  BY <1>1, InitialTypes DEF Begin, Goto, Writer, Users
<1>3. writer' \in Writer /\ writer'.pc = "load" /\ writer'.user = u
  BY <1>1, <1>2 DEF Writer
<1> QED BY <1>2, <1>3, WriterStep DEF UserSound, WriterSound

LEMMA NoCommandSound ==
  ASSUME Inv, writer' = NoCommand, UNCHANGED <<secrets, settings, starter>>
  PROVE  Inv'
  BY InitialTypes, WriterStep DEF UserSound, WriterSound

LEMMA LoadWriterSound ==
  ASSUME Inv, LoadWriter
  PROVE  Inv'
<1> DEFINE u == Or(writer.user, secrets.user)
<1>1. /\ writer \in Writer /\ secrets.user \in Users \cup {None} /\ writer.pc = "load"
      /\ writer.user \in {None, "given"} /\ writer.command \in {"migrate", "setup"}
      /\ UNCHANGED <<secrets, settings, starter>>
  BY DEF Inv, TypeOK, Secrets, LoadWriter, UserSound, Writer
<1>2. u \in {"given", secrets.user} /\ u \in Users \cup {None}
  BY <1>1 DEF Or, Users
<1>3. PICK w \in Writer : /\ w = [writer EXCEPT !.user = u] /\ w.user = u
                          /\ w.command = writer.command
  <2>1. PICK w : w = [writer EXCEPT !.user = u]
    OBVIOUS
  <2> HIDE DEF u
  <2>2. w \in Writer /\ w.user = u /\ w.command = writer.command
    BY <1>1, <1>2, <2>1 DEF Writer
  <2> QED BY <2>1, <2>2
<1>4. CASE writer' = NoCommand
  BY <1>1, <1>4, NoCommandSound
<1>5. ASSUME NEW p \in {"migrate", "copy"}, writer' = [w EXCEPT !.pc = p],
             p = "copy" => writer.command = "setup"
      PROVE  Inv'
  <2>1. /\ writer' \in Writer /\ writer'.pc = p /\ writer'.user = u
        /\ writer'.command = writer.command
    BY <1>3, <1>5 DEF Writer
  <2> QED BY <1>1, <1>2, <1>5, <2>1, WriterStep DEF UserSound, WriterSound
<1>6. \/ writer' = NoCommand \/ writer' = [w EXCEPT !.pc = "migrate"]
      \/ writer' = [w EXCEPT !.pc = "copy"] /\ writer.command = "setup"
  BY <1>1, <1>3 DEF LoadWriter, Goto
<1> QED BY <1>4, <1>5, <1>6

\* What setup makes of settings.yaml is a document.
LEMMA CopiedDocument ==
  ASSUME NEW w \in Writer, NEW d \in Document
  PROVE  Copied(w, d) \in Document
<1>1. w.mode \in Modes
  BY DEF Writer
<1>2. CASE ~d.exists \/ w.force
  <2>1. [Unset EXCEPT !["offline"] = w.mode] \in Yaml
    BY <1>1 DEF Unset, Yaml, Keys, Absent
  <2> QED BY <1>2, <2>1 DEF Copied, Document
<1>3. CASE ~(~d.exists \/ w.force)
  <2>1. d.values \in Yaml /\ d.exists
    BY <1>3 DEF Document
  <2>2. PICK mode \in Modes \cup {None, Null} :
          mode = IF d.values["offline"] \in Modes THEN w.mode ELSE d.values["offline"]
    BY <1>1, <2>1 DEF Yaml
  <2>3. PICK v : v = [d.values EXCEPT !["offline"] = mode]
    OBVIOUS
  <2>4. v \in Yaml
    BY <2>1, <2>3 DEF Yaml
  <2>5. d.values = Unset => v = Unset
    BY <2>2, <2>3, SettingsAssumption DEF Unset, Keys, Absent
  <2>6. Copied(w, d) = [d EXCEPT !.values = v]
    BY <1>3, <2>1, <2>2, <2>3 DEF Copied, Document
  <2> QED BY <2>4, <2>5, <2>6 DEF Document
<1> QED BY <1>2, <1>3

\* The environment laid over the legacy settings: what a start makes of both is
\* what it makes of that environment without them.
LEMMA LegacyIsEnvironment ==
  ASSUME NEW s \in Secrets, NEW u, u.legacy = Unset, NEW d, NEW e \in Layer
  PROVE  /\ Merged(e, s) \in Layer
         /\ Effective(s, d)[e] = Effective(u, d)[Merged(e, s)]
<1>1. PICK m : m = Merged(e, s)
  OBVIOUS
<1>2. s.legacy \in Layer
  BY DEF Secrets
<1>3. m \in Layer
  BY <1>1, <1>2 DEF Merged, Or, Layer, Keys
<1>4. Merged(m, u) = m
  <2>1. \A k \in Keys : u.legacy[k] = None
    BY DEF Unset
  <2>2. Merged(m, u) = [k \in Keys |-> m[k]]
    BY <2>1 DEF Merged, Or
  <2> QED BY <1>1, <2>2 DEF Merged
<1>5. Load(e, s, d) = Load(m, u, d)
  BY <1>1, <1>4 DEF Load
<1> QED BY <1>1, <1>3, <1>5 DEF Effective

\* Legacy settings that make no difference with one settings.yaml make none with
\* another that is worth the same without them.
LEMMA StillWorthless ==
  ASSUME NEW s \in Secrets, NEW u, u.legacy = Unset, NEW d, NEW m,
         Effective(s, d) = Effective(u, d), Effective(u, m) = Effective(u, d)
  PROVE  Effective(s, m) = Effective(u, m)
<1>1. ASSUME NEW e \in Layer PROVE Effective(s, m)[e] = Effective(u, m)[e]
  <2>1. /\ Effective(s, m)[e] = Effective(u, m)[Merged(e, s)]
        /\ Effective(s, d)[e] = Effective(u, d)[Merged(e, s)]
    BY LegacyIsEnvironment
  <2> QED BY <2>1
<1>2. Effective(s, m) = [e \in Layer |-> Effective(s, m)[e]]
  BY DEF Effective
<1>3. Effective(u, m) = [e \in Layer |-> Effective(u, m)[e]]
  BY DEF Effective
<1> QED BY <1>1, <1>2, <1>3

\* A write between the reads of a start is noticed or changes nothing for it.
LEMMA DisturbsSound ==
  ASSUME Inv, Disturbs, secrets'.legacy \in {secrets.legacy, Unset},
         secrets' = secrets \/ settings' = settings
  PROVE  starter' \in Starter /\ StarterSound'
<1>1. PICK b \in BOOLEAN :
        b = /\ starter.reading
            /\ starter.disturbed \/ Effective(secrets', settings') # Effective(secrets, settings)
  OBVIOUS
<1>2. starter \in Starter /\ starter' = [starter EXCEPT !.disturbed = b] /\ starter.secrets \in Secrets
  BY <1>1 DEF Disturbs, Inv, TypeOK, Starter
<1>3. /\ starter' \in Starter /\ starter'.reading = starter.reading /\ starter'.disturbed = b
      /\ starter'.secrets = starter.secrets
  BY <1>2 DEF Starter
<1>4. ASSUME starter'.reading, ~starter'.disturbed
      PROVE  /\ secrets'.legacy \in {starter'.secrets.legacy, Unset}
             /\ Effective(starter'.secrets, settings') = Effective(secrets', settings')
  <2>1. /\ Effective(secrets', settings') = Effective(secrets, settings)
        /\ secrets.legacy \in {starter.secrets.legacy, Unset}
        /\ Effective(starter.secrets, settings) = Effective(secrets, settings)
    BY <1>1, <1>3, <1>4 DEF Inv, StarterSound
  <2>2. CASE settings' = settings
    BY <1>3, <2>1, <2>2
  <2>3. CASE secrets' = secrets /\ secrets.legacy = starter.secrets.legacy
    BY <1>3, <2>3, LegacyCounts
  <2>4. CASE secrets' = secrets /\ secrets.legacy = Unset
    BY <1>2, <1>3, <2>1, <2>4, StillWorthless
  <2> QED BY <1>3, <2>1, <2>2, <2>3, <2>4
<1> QED BY <1>3, <1>4 DEF StarterSound

LEMMA CopyConfigurationSound ==
  ASSUME Inv, CopyConfiguration
  PROVE  Inv'
<1>1. /\ writer \in Writer /\ settings \in Document /\ writer.pc = "copy"
      /\ settings' = Copied(writer, settings) /\ secrets' = secrets /\ Disturbs
  BY DEF Inv, TypeOK, CopyConfiguration
<1>2. PICK p \in {"final", "migrate"} : writer' = [writer EXCEPT !.pc = p]
  BY DEF CopyConfiguration, Goto
<1>3. /\ writer' \in Writer /\ writer'.pc = p /\ writer'.user = writer.user
      /\ writer'.command = writer.command
  BY <1>1, <1>2 DEF Writer
<1>4. settings' \in Document
  BY <1>1, CopiedDocument
<1>5. starter' \in Starter /\ StarterSound'
  BY <1>1, DisturbsSound
<1>6. UserSound' /\ WriterSound'
  BY <1>1, <1>3 DEF Inv, UserSound, WriterSound
<1> QED BY <1>1, <1>3, <1>4, <1>5, <1>6 DEF Inv, TypeOK, Starter

LEMMA ReadFilesSound ==
  ASSUME Inv, ReadFiles
  PROVE  Inv'
<1>1. PICK m \in Document :
        /\ m = Migrated(secrets, settings)
        /\ settings.section = "mapping" => Absorbed(secrets, m)
  BY MigratedDocument DEF Inv, TypeOK
<1>2. /\ writer \in Writer /\ writer.pc = "migrate" /\ UNCHANGED <<secrets, settings, starter>>
      /\ writer.user \in {"given", secrets.user}
  BY DEF Inv, TypeOK, ReadFiles, UserSound
<1>3. CASE m.values # settings.values
  <2>1. PICK w \in Writer : /\ w = [writer EXCEPT !.document = m] /\ w.document = m
                            /\ w.user = writer.user
    <3>1. PICK w : w = [writer EXCEPT !.document = m]
      OBVIOUS
    <3>2. w \in Writer /\ w.document = m /\ w.user = writer.user
      BY <1>2, <3>1 DEF Writer
    <3> QED BY <3>1, <3>2
  <2>2. writer' = [w EXCEPT !.pc = "settings"]
    BY <1>1, <1>3, <2>1 DEF ReadFiles, Goto
  <2>3. writer' \in Writer /\ writer'.pc = "settings" /\ writer'.user = writer.user
        /\ writer'.document = m
    BY <2>1, <2>2 DEF Writer
  <2> QED BY <1>1, <1>2, <2>3, WriterStep DEF UserSound, WriterSound
<1>4. CASE m.values = settings.values
  <2>1. writer' = [writer EXCEPT !.pc = "secrets"]
    BY <1>1, <1>4 DEF ReadFiles, Goto
  <2>2. writer' \in Writer /\ writer'.pc = "secrets" /\ writer'.user = writer.user
    BY <1>2, <2>1 DEF Writer
  <2>3. settings.section = "mapping" => Absorbed(secrets, settings)
    BY <1>1, <1>4 DEF Absorbed
  <2> QED BY <1>2, <2>2, <2>3, WriterStep DEF UserSound, WriterSound
<1> QED BY <1>3, <1>4

LEMMA WriteSettingsSound ==
  ASSUME Inv, WriteSettings
  PROVE  Inv'
<1>1. PICK m \in Document :
        /\ m = Migrated(secrets, settings) /\ m.section = settings.section
        /\ settings.section = "mapping" =>
              /\ Absorbed(secrets, m)
              /\ \A k \in Keys : m.values[k] = Or(secrets.legacy[k], settings.values[k])
  BY MigratedDocument DEF Inv, TypeOK
<1>2. /\ writer \in Writer /\ writer.pc = "settings" /\ settings' = m
      /\ writer.user \in {"given", secrets.user} /\ UNCHANGED secrets /\ Disturbs
  BY <1>1 DEF Inv, TypeOK, WriteSettings, WriterSound, UserSound
<1>3. PICK w \in Writer : w = [writer EXCEPT !.document = NoDocument] /\ w.user = writer.user
  <2>1. PICK w : w = [writer EXCEPT !.document = NoDocument]
    OBVIOUS
  <2>2. w \in Writer /\ w.user = writer.user
    BY <1>2, <2>1, InitialTypes DEF Writer
  <2> QED BY <2>1, <2>2
<1>4. writer' = [w EXCEPT !.pc = "secrets"]
  BY <1>3 DEF WriteSettings, Goto
<1>5. writer' \in Writer /\ writer'.pc = "secrets" /\ writer'.user = writer.user
  BY <1>3, <1>4 DEF Writer
<1>6. UserSound' /\ WriterSound'
  BY <1>1, <1>2, <1>5 DEF UserSound, WriterSound
<1>7. starter' \in Starter /\ StarterSound'
  BY <1>2, DisturbsSound
<1> QED BY <1>2, <1>5, <1>6, <1>7 DEF Inv, TypeOK, Starter

LEMMA WriteSecretsSound ==
  ASSUME Inv, WriteSecrets
  PROVE  Inv' /\ secrets'.legacy = Unset /\ secrets'.user = Or(secrets.user, writer.user)
<1>1. /\ writer \in Writer /\ writer.pc = "secrets" /\ writer.user \in Users \cup {None}
      /\ writer.user \in {"given", secrets.user} /\ UNCHANGED settings /\ Disturbs
      /\ secrets.user \in Users \cup {None}
  BY DEF Inv, TypeOK, WriteSecrets, UserSound, Writer, Secrets
<1>2. secrets' = [user |-> Or(secrets.user, writer.user), legacy |-> Unset]
  BY DEF WriteSecrets, Stored
<1>3. secrets' \in Secrets
  BY <1>1, <1>2, InitialTypes DEF Secrets, Or
<1>4. writer' \in Writer /\ UserSound' /\ WriterSound'
  <2>1. CASE writer.command = "setup"
    <3>1. writer' = [writer EXCEPT !.pc = "final"]
      BY <2>1 DEF WriteSecrets, Goto
    <3>2. writer' \in Writer /\ writer'.pc = "final" /\ writer'.user = writer.user
          /\ writer'.command = "setup"
      BY <1>1, <2>1, <3>1 DEF Writer
    <3> QED BY <1>1, <1>2, <3>2 DEF UserSound, WriterSound, Or
  <2>2. CASE writer.command # "setup"
    <3>1. writer' = NoCommand
      BY <2>2 DEF WriteSecrets
    <3> QED BY <3>1, InitialTypes DEF UserSound, WriterSound
  <2> QED BY <2>1, <2>2
<1>5. starter' \in Starter /\ StarterSound'
  BY <1>1, <1>2, DisturbsSound
<1> QED BY <1>1, <1>2, <1>3, <1>4, <1>5 DEF Inv, TypeOK, Starter

LEMMA WriteSetupSecretsSound ==
  ASSUME Inv, WriteSetupSecrets
  PROVE  Inv'
<1>1. /\ writer.user \in Users \cup {None} /\ Disturbs /\ writer' = NoCommand
      /\ secrets' = [user |-> writer.user, legacy |-> Unset] /\ settings' = settings
  BY DEF Inv, TypeOK, WriteSetupSecrets, Writer
<1>2. secrets' \in Secrets
  BY <1>1, InitialTypes DEF Secrets
<1>3. starter' \in Starter /\ StarterSound'
  BY <1>1, <1>2, DisturbsSound
<1>4. writer' \in Writer /\ UserSound' /\ WriterSound'
  BY <1>1, InitialTypes DEF UserSound, WriterSound
<1> QED BY <1>1, <1>2, <1>3, <1>4 DEF Inv, TypeOK, Starter

LEMMA ReadFirstSound ==
  ASSUME Inv, ReadFirst
  PROVE  Inv'
<1>1. /\ starter' = [NotStarted EXCEPT !.reading = TRUE, !.secrets = secrets]
      /\ UNCHANGED <<secrets, settings, writer>> /\ secrets \in Secrets
  BY DEF ReadFirst, ReadOrder, Files, Inv, TypeOK
<1>2. PICK n \in Starter : n = NotStarted
  BY InitialTypes
<1>3. starter' = [n EXCEPT !.reading = TRUE, !.secrets = secrets]
  BY <1>1, <1>2
<1>4. starter' \in Starter /\ starter'.secrets = secrets
  BY <1>1, <1>3 DEF Starter
<1> QED BY <1>1, <1>4 DEF Inv, TypeOK, Starter, UserSound, WriterSound, StarterSound

LEMMA ReadSecondSound ==
  ASSUME Inv, ReadSecond
  PROVE  Inv'
  BY InitialTypes DEF ReadSecond, Inv, TypeOK, Starter, UserSound, WriterSound, StarterSound

LEMMA Inductive == Inv /\ [Next]_vars => Inv'
<1> SUFFICES ASSUME Inv, [Next]_vars PROVE Inv'
  OBVIOUS
<1>1. CASE UNCHANGED vars
  BY <1>1 DEF vars, Inv, TypeOK, UserSound, WriterSound, StarterSound
<1>2. Die => Inv'
  BY NoCommandSound DEF Die
<1> QED BY <1>1, <1>2, BeginSound, LoadWriterSound, CopyConfigurationSound, ReadFilesSound,
           WriteSettingsSound, WriteSecretsSound, WriteSetupSecretsSound, ReadFirstSound,
           ReadSecondSound
        DEF Next

LEMMA Invariance == Spec => []Inv
  BY InitSound, Inductive, PTL DEF Spec

-----------------------------------------------------------------------------
(* The theorems.                                                           *)

\* The two files, the command and the start keep their types.
THEOREM TypeCorrect == Spec => []TypeOK
<1>1. Inv => TypeOK
  BY DEF Inv
<1> QED BY <1>1, Invariance, PTL

\* Nothing but a setup that was given credentials replaces those of the file, and
\* a migration writes given ones only where there were none (Migrate).
THEOREM CredentialsKept == Spec => CredentialsSurvive
<1>1. ASSUME Inv, [Next]_vars, secrets'.user # secrets.user
      PROVE  secrets'.user = "given" /\ (secrets.user # None => writer.command = "setup")
  <2>1. CASE WriteSecrets
    BY <1>1, <2>1, WriteSecretsSound DEF Inv, UserSound, WriteSecrets, Or
  <2>2. CASE WriteSetupSecrets
    BY <1>1, <2>2 DEF Inv, UserSound, WriteSetupSecrets
  <2> QED BY <1>1, <2>1, <2>2
          DEF Next, vars, Begin, LoadWriter, CopyConfiguration, ReadFiles, WriteSettings, Die,
              ReadFirst, ReadSecond
<1> QED BY <1>1, Invariance, PTL DEF Spec, CredentialsSurvive

\* What "config explain" names as a setting's origin has the value in force, for
\* any files: unless that is a key of settings.yaml without a value, or a default
\* name for the database there; and where it says default, that is in force
\* (Explain, load).
THEOREM ExplainIsRight == Spec => []ExplainedOriginIsEffective
<1>1. ASSUME Inv PROVE ExplainedOriginIsEffective
  <2>1. secrets \in Secrets /\ settings \in Document
    BY <1>1 DEF Inv, TypeOK
  <2>2. ASSUME NEW e \in Layer, NEW k \in Keys
        PROVE  LET at == [process |-> e, legacy |-> secrets.legacy, yaml |-> settings.values]
                   cfg == Load(e, secrets, settings)
                   default == [Default(cfg.data_dir) EXCEPT !.data_dir = DefaultDir]
                   origin == Origin(e, secrets, settings, k)
               IN IF origin = "default" THEN cfg[k] = default[k]
                  ELSE \/ cfg[k] = at[origin][k]
                       \/ origin = "yaml" /\ at[origin][k] \in {Null, Blank}
                       \/ /\ origin = "yaml" /\ k = "db_path"
                          /\ at[origin][k] \in Dirs /\ cfg["db_path"] = cfg["data_dir"]
    <3>1. CASE k = "offline"
      BY <2>1, <3>1, SettingsAssumption
         DEF Load, Merged, WithEnvironment, WithYaml, Default, Or, Keys, Absent, Layer, Yaml,
             Secrets, Document, Origin
    <3>2. CASE k = "data_dir"
      BY <2>1, <3>2, SettingsAssumption
         DEF Load, Merged, WithEnvironment, WithYaml, Default, Or, Keys, Absent, Layer, Yaml,
             Secrets, Document, Origin
    <3>3. CASE k = "db_path"
      BY <2>1, <3>3, SettingsAssumption
         DEF Load, Merged, WithEnvironment, WithYaml, Default, Or, Keys, Absent, Layer, Yaml,
             Secrets, Document, Origin, Databases
    <3> QED BY <3>1, <3>2, <3>3 DEF Keys
  <2> QED BY <2>2 DEF ExplainedOriginIsEffective
<1> QED BY <1>1, Invariance, PTL

\* Of plain files, no step of a migration, be it the last or one that a crash
\* follows, changes what a later start makes of the files (Migrate).
THEOREM MigrationIsNeutral == Spec => PlainMigrationPreserves
<1>1. ASSUME Inv, [Next]_vars, MigrationStep, Plain(secrets, settings)
      PROVE  Effective(secrets', settings') = Effective(secrets, settings)
  <2>1. secrets \in Secrets /\ settings \in Document /\ settings.section = "mapping"
    BY <1>1 DEF Inv, TypeOK, Plain
  <2>2. CASE WriteSettings
    BY <1>1, <2>1, <2>2, MigratedEffective DEF WriteSettings, Inv, WriterSound
  <2>3. CASE WriteSecrets
    <3>1. secrets' \in Secrets /\ secrets'.legacy = Unset /\ settings' = settings
      BY <1>1, <2>3, WriteSecretsSound DEF Inv, TypeOK, WriteSecrets
    <3>2. Absorbed(secrets, settings)
      BY <1>1, <2>1, <2>3 DEF Inv, WriterSound, WriteSecrets
    <3> QED BY <1>1, <2>1, <3>1, <3>2, AbsorbedEffective
  <2>4. CASE UNCHANGED <<secrets, settings>>
    BY <2>4
  <2> QED BY <1>1, <2>2, <2>3, <2>4
          DEF Next, vars, Begin, LoadWriter, CopyConfiguration, ReadFiles, WriteSetupSecrets,
              Die, ReadFirst, ReadSecond, Inv, UserSound, MigrationStep
<1> QED BY <1>1, Invariance, PTL DEF Spec, PlainMigrationPreserves

\* A start beside any migration or setup gets what is in force when it ends
\* reading, if no write between its reads changed what is in force (load).
THEOREM StartIsConsistent == Spec => StartSeesEffective
<1>1. ASSUME Inv, [Next]_vars, starter.reading, ~starter'.reading, ~starter.disturbed
      PROVE  Effective(Got.secrets, Got.settings) = Effective(secrets, settings)
  <2>1. starter \in Starter
    BY <1>1 DEF Inv, TypeOK, Starter
  <2>2. Got.secrets = starter.secrets /\ Got.settings = settings
    <3>1. Got = [starter EXCEPT !.settings = settings]
      BY DEF Got, ReadOrder, Files
    <3> QED BY <2>1, <3>1 DEF Starter
  <2> QED BY <1>1, <2>2 DEF Inv, StarterSound
<1> QED BY <1>1, Invariance, PTL DEF Spec, StartSeesEffective

=============================================================================
