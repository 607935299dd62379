------------------------- MODULE InstallationProofs --------------------------
(***************************************************************************)
(* Theorems about Installation, for any programs, schema versions, entries  *)
(* of profile documents, configurations and upstream tables.                *)
(***************************************************************************)
EXTENDS Installation, TLAPS

PCs == {"idle", "open", "migrate", "readSources", "loadSources", "readProfiles",
        "loadProfiles", "store", "file", "list", "write", "ready"}

Mutates(f) == f.command.name \in {"set", "remove"}

\* How far a program has brought the schema: below its version everything is
\* recorded, and past the migrations everything is.
SchemaReached(f) ==
    /\ f.pc \in {"open", "migrate"} => \A v \in 1..Versions : v < f.version => recorded[v]
    /\ f.pc = "migrate" => f.version <= Versions
    /\ f.pc \notin {"idle", "open", "migrate"} => \A v \in 1..Versions : recorded[v]

\* What a catalog command is about to write, if it is good news, was confirmed.
FindingSound(f) ==
    f.pc = "write" /\ f.finding.status = "OK" => Confirmed(f.finding.table)

\* A profile command carries a document that may be written, and only such a
\* command gets to where documents are written.
DocumentSound(f) ==
    /\ f.pc # "idle" /\ Mutates(f) => f.document \in Documents /\ Valid(f.document)
    /\ f.pc \in {"store", "file"} => Mutates(f)

\* What a program that still runs alone knows of the files and the tables.
AloneKnows(f) ==
    f.alone =>
        /\ f.pc \notin {"idle", "ready"} /\ Mutates(f) =>
              f.document = Changed(f.command, InFile(profiles))
        /\ f.pc = "loadProfiles" /\ profiles # Absent => f.loads = profiles
        /\ f.pc = "file" => store = f.document

FramesSound ==
    \A p \in Programs : /\ SchemaReached(run[p]) /\ FindingSound(run[p])
                        /\ DocumentSound(run[p]) /\ AloneKnows(run[p])

\* Alone means alone: a program that begins takes the mark from the others.
AloneSound ==
    \A p, q \in Programs : run[p].alone /\ q # p => run[q].pc = "idle"

AppliedOnce == \A v \in 1..Versions : applied[v] = IF recorded[v] THEN 1 ELSE 0

Inv == TypeOK /\ FramesSound /\ AloneSound /\ AppliedOnce /\ OkWasConfirmed

USE DEF Confirmed

-----------------------------------------------------------------------------
(* Frames.                                                                 *)

LEMMA FrameFields ==
  ASSUME NEW f \in Frame
  PROVE  /\ f.pc \in PCs /\ f.command \in Commands /\ f.version \in 1..Versions + 1
         /\ f.config \in Configs /\ f.loads \in Documents \cup {Absent}
         /\ f.document \in Documents \cup {Absent} /\ f.finding \in Finding
         /\ f.alone \in BOOLEAN
  BY DEF Frame, PCs

LEMMA NoFindingType == NoFinding \in Finding
  BY DEF NoFinding, Finding, Statuses, Maybe, Services

LEMMA IdleType ==
  ASSUME Configs # {}
  PROVE  Idle \in Frame /\ Idle.pc = "idle" /\ ~Idle.alone
<1>1. FirstConfig \in Configs
  BY DEF FirstConfig
<1>2. Serve \in Commands
  BY DEF Serve, Commands
<1> QED BY <1>1, <1>2, NoFindingType, InstallationAssumption DEF Idle, Frame

\* Only a program that runs steps; it keeps what the others rely on, and what
\* they know of running alone does not matter, as they do not.
LEMMA FrameStep ==
  ASSUME Inv, NEW p \in Programs, run[p].pc # "idle",
         NEW g \in Frame, run' = [run EXCEPT ![p] = g],
         g.alone => run[p].alone,
         SchemaReached(g)', FindingSound(g)', DocumentSound(g), AloneKnows(g)',
         \A v \in 1..Versions : recorded[v] => recorded'[v],
         confirmed \subseteq confirmed'
  PROVE  run' \in [Programs -> Frame] /\ FramesSound' /\ AloneSound'
<1>1. run \in [Programs -> Frame]
  BY DEF Inv, TypeOK
<1>2. /\ run' \in [Programs -> Frame] /\ run'[p] = g
      /\ \A q \in Programs \ {p} : run'[q] = run[q] /\ ~run[q].alone
  BY <1>1 DEF Inv, AloneSound
<1>3. AloneSound'
  BY <1>2 DEF Inv, AloneSound
<1>4. ASSUME NEW q \in Programs
      PROVE  (/\ SchemaReached(run[q]) /\ FindingSound(run[q])
              /\ DocumentSound(run[q]) /\ AloneKnows(run[q]))'
  <2>1. CASE q = p
    BY <1>2, <2>1 DEF SchemaReached, FindingSound, DocumentSound, AloneKnows, Mutates
  <2>2. CASE q # p
    <3>1. run'[q] = run[q] /\ ~run[q].alone
      BY <1>2, <2>2
    <3>2. SchemaReached(run[q]) /\ FindingSound(run[q]) /\ DocumentSound(run[q])
      BY DEF Inv, FramesSound
    <3> QED BY <3>1, <3>2 DEF SchemaReached, FindingSound, DocumentSound, AloneKnows, Mutates
  <2> QED BY <2>1, <2>2
<1> QED BY <1>2, <1>3, <1>4 DEF FramesSound

\* A step of one program that leaves database, files and history alone.
LEMMA QuietStep ==
  ASSUME Inv, NEW p \in Programs, run[p].pc # "idle",
         NEW g \in Frame, run' = [run EXCEPT ![p] = g],
         g.alone => run[p].alone,
         SchemaReached(g), FindingSound(g), DocumentSound(g), AloneKnows(g),
         UNCHANGED <<database, files, runs, confirmed>>
  PROVE  Inv'
<1>1. SchemaReached(g)' /\ FindingSound(g)' /\ AloneKnows(g)'
  BY DEF SchemaReached, FindingSound, AloneKnows, database, files
<1>2. run' \in [Programs -> Frame] /\ FramesSound' /\ AloneSound'
  <2>1. \A v \in 1..Versions : recorded[v] => recorded'[v]
    BY DEF database
  <2> QED BY <1>1, <2>1, FrameStep
<1>3. AppliedOnce' /\ OkWasConfirmed'
  BY DEF Inv, AppliedOnce, OkWasConfirmed, database
<1> QED BY <1>2, <1>3 DEF Inv, TypeOK, database, files

\* What a running program's frame satisfies.
LEMMA FrameHas ==
  ASSUME Inv, NEW p \in Programs
  PROVE  /\ run[p] \in Frame /\ SchemaReached(run[p]) /\ FindingSound(run[p])
         /\ DocumentSound(run[p]) /\ AloneKnows(run[p])
  BY DEF Inv, TypeOK, FramesSound

-----------------------------------------------------------------------------
(* The steps, one lemma each.                                              *)

\* The change of a command is a document again.
LEMMA ChangedIsDocument ==
  ASSUME NEW c \in Commands, c.name \in {"set", "remove"}, NEW d \in Documents
  PROVE  Changed(c, d) \in Documents
  BY DEF Changed, Commands, Documents

LEMMA BeginSound ==
  ASSUME Inv, NEW p \in Programs, NEW c \in Commands, Begin(p, c)
  PROVE  Inv'
<1> DEFINE others == \E q \in Programs : run[q].pc # "idle"
           document == IF c.name \in {"set", "remove"}
                       THEN Changed(c, InFile(profiles)) ELSE Absent
           frame == [Idle EXCEPT !.pc = "open", !.command = c, !.alone = ~others,
                                 !.document = document]
<1>1. Configs # {} /\ profiles \in Documents \cup {Absent}
  BY DEF Inv, TypeOK
<1>2. InFile(profiles) \in Documents
  BY <1>1 DEF InFile, Documents
<1>3. document \in Documents \cup {Absent}
  BY <1>2, ChangedIsDocument
<1>4. Idle \in Frame
  BY <1>1, IdleType
<1>5. PICK g \in Frame :
        /\ g = frame /\ g.pc = "open" /\ g.version = 1 /\ g.command = c
        /\ g.document = document /\ g.alone = ~others
  <2>1. PICK a \in BOOLEAN : a = ~others
    OBVIOUS
  <2>2. frame = [Idle EXCEPT !.pc = "open", !.command = c, !.alone = a, !.document = document]
    BY <2>1
  <2> HIDE DEF document, others, frame
  <2>3. /\ frame \in Frame /\ frame.pc = "open" /\ frame.version = 1 /\ frame.command = c
        /\ frame.document = document /\ frame.alone = a
    BY <1>3, <1>4, <2>2 DEF Frame, Idle
  <2> QED BY <2>1, <2>3
<1>6. /\ run \in [Programs -> Frame]
      /\ run' = [q \in Programs |-> IF q # p THEN [run[q] EXCEPT !.alone = FALSE] ELSE g]
  BY <1>5 DEF Begin, Inv, TypeOK
<1>7. run'[p] = g
  BY <1>6
<1>8. ASSUME NEW q \in Programs \ {p}
      PROVE  /\ run'[q] \in Frame /\ ~run'[q].alone
             /\ run'[q].pc = run[q].pc /\ run'[q].command = run[q].command
             /\ run'[q].version = run[q].version /\ run'[q].document = run[q].document
             /\ run'[q].finding = run[q].finding
  <2>1. run[q] \in Frame /\ run'[q] = [run[q] EXCEPT !.alone = FALSE]
    BY <1>6
  <2> QED BY <2>1 DEF Frame
<1>9. run' \in [Programs -> Frame]
  BY <1>6, <1>7, <1>8
<1>10. AloneSound'
  <2>1. g.alone => \A q \in Programs : run[q].pc = "idle"
    BY <1>5
  <2> QED BY <1>7, <1>8, <2>1 DEF AloneSound
<1>11. UNCHANGED <<database, files, confirmed>> /\ runs' = runs + 1 /\ runs < MaxRuns
       /\ (c.name \in {"set", "remove"} => Valid(document))
  BY DEF Begin, Accepts
<1>12. ASSUME NEW q \in Programs
       PROVE  (/\ SchemaReached(run[q]) /\ FindingSound(run[q])
               /\ DocumentSound(run[q]) /\ AloneKnows(run[q]))'
  <2>1. CASE q = p
    <3>1. /\ SchemaReached(g)' /\ FindingSound(g)' /\ AloneKnows(g)'
      BY <1>5, <1>11, InstallationAssumption
         DEF SchemaReached, FindingSound, AloneKnows, Mutates, files
    <3>2. DocumentSound(g)
      <4>1. Mutates(g) => document \in Documents /\ Valid(document)
        BY <1>2, <1>5, <1>11, ChangedIsDocument DEF Mutates
      <4> HIDE DEF document
      <4> QED BY <1>5, <4>1 DEF DocumentSound
    <3> QED BY <1>7, <2>1, <3>1, <3>2
            DEF SchemaReached, FindingSound, DocumentSound, AloneKnows, Mutates
  <2>2. CASE q # p
    <3>1. SchemaReached(run[q]) /\ FindingSound(run[q]) /\ DocumentSound(run[q])
      BY FrameHas
    <3>2. /\ run'[q].pc = run[q].pc /\ run'[q].command = run[q].command
          /\ run'[q].version = run[q].version /\ run'[q].document = run[q].document
          /\ run'[q].finding = run[q].finding /\ ~run'[q].alone
      BY <1>8, <2>2
    <3> QED BY <1>11, <3>1, <3>2
            DEF SchemaReached, FindingSound, DocumentSound, AloneKnows, Mutates, database
  <2> QED BY <2>1, <2>2
<1>13. AppliedOnce' /\ OkWasConfirmed'
  BY <1>11 DEF Inv, AppliedOnce, OkWasConfirmed, database
<1>14. TypeOK'
  BY <1>9, <1>11, InstallationAssumption DEF Inv, TypeOK, database, files
<1>15. FramesSound'
  BY <1>12 DEF FramesSound
<1> QED BY <1>10, <1>13, <1>14, <1>15 DEF Inv

\* A frame that has moved on, to another place or version.
Moved(f, pc, v) == [f EXCEPT !.pc = pc, !.version = v]

LEMMA MovedFrame ==
  ASSUME NEW f \in Frame, NEW pc \in PCs, NEW v \in 1..Versions + 1
  PROVE  /\ Moved(f, pc, v) \in Frame /\ Moved(f, pc, v).pc = pc /\ Moved(f, pc, v).version = v
         /\ Moved(f, pc, v).command = f.command /\ Moved(f, pc, v).config = f.config
         /\ Moved(f, pc, v).loads = f.loads /\ Moved(f, pc, v).document = f.document
         /\ Moved(f, pc, v).finding = f.finding /\ Moved(f, pc, v).alone = f.alone
  BY DEF Frame, PCs, Moved

LEMMA CheckMigrationSound ==
  ASSUME Inv, NEW p \in Programs, CheckMigration(p)
  PROVE  Inv'
<1>1. PICK f \in Frame : f = run[p]
  BY FrameHas
<1>2. /\ f.pc = "open" /\ f.version \in 1..Versions + 1 /\ SchemaReached(f)
      /\ FindingSound(f) /\ DocumentSound(f) /\ AloneKnows(f)
  BY <1>1, FrameHas, FrameFields DEF CheckMigration
<1>3. PICK pc \in {"open", "migrate", "readSources"}, v \in 1..Versions + 1 :
        /\ run' = [run EXCEPT ![p] = Moved(f, pc, v)]
        /\ pc = "readSources" => f.version > Versions
        /\ pc = "open" => f.version <= Versions /\ recorded[f.version] /\ v = f.version + 1
        /\ pc = "migrate" => f.version <= Versions /\ v = f.version
  <2>1. CASE f.version > Versions
    <3>1. run' = [run EXCEPT ![p] = Moved(f, "readSources", 1)]
      BY <1>1, <2>1 DEF CheckMigration, Moved
    <3>2. 1 \in 1..Versions + 1
      BY InstallationAssumption
    <3> QED BY <2>1, <3>1, <3>2
  <2>2. CASE f.version <= Versions /\ recorded[f.version]
    <3>1. run' = [run EXCEPT ![p] = [f EXCEPT !.version = f.version + 1]]
      BY <1>1, <1>2, <2>2, InstallationAssumption DEF CheckMigration
    <3>2. PICK v \in 1..Versions + 1 : v = f.version + 1
      BY <1>2, <2>2, InstallationAssumption
    <3>3. [f EXCEPT !.version = v] = Moved(f, "open", v)
      BY <1>2 DEF Frame, Moved
    <3>4. run' = [run EXCEPT ![p] = Moved(f, "open", v)]
      BY <3>1, <3>2, <3>3
    <3> QED BY <2>2, <3>2, <3>4
  <2>3. CASE f.version <= Versions /\ ~recorded[f.version]
    <3>1. run' = [run EXCEPT ![p] = [f EXCEPT !.pc = "migrate"]]
      BY <1>1, <1>2, <2>3, InstallationAssumption DEF CheckMigration, Goto
    <3>2. [f EXCEPT !.pc = "migrate"] = Moved(f, "migrate", f.version)
      BY DEF Frame, Moved
    <3>3. run' = [run EXCEPT ![p] = Moved(f, "migrate", f.version)]
      BY <3>1, <3>2
    <3> QED BY <1>2, <2>3, <3>3
  <2> QED
    <3>1. f.version > Versions \/ f.version <= Versions
      BY <1>2, InstallationAssumption
    <3> QED BY <2>1, <2>2, <2>3, <3>1
<1>4. PICK g : g = Moved(f, pc, v)
  OBVIOUS
<1>5. g \in Frame /\ g.alone = f.alone /\ g.command = f.command /\ g.document = f.document
      /\ g.pc = pc /\ g.version = v
  <2>1. pc \in PCs
    BY DEF PCs
  <2> QED BY <1>4, <2>1, MovedFrame
<1>6. SchemaReached(g) /\ FindingSound(g) /\ DocumentSound(g) /\ AloneKnows(g)
  BY <1>2, <1>3, <1>5, InstallationAssumption
     DEF SchemaReached, FindingSound, DocumentSound, AloneKnows, Mutates
<1> QED BY <1>1, <1>2, <1>3, <1>4, <1>5, <1>6, QuietStep DEF CheckMigration

\* The program leaves; nothing is expected of an idle frame.
LEMMA LeaveFrame ==
  ASSUME Inv
  PROVE  /\ Idle \in Frame /\ ~Idle.alone /\ SchemaReached(Idle) /\ FindingSound(Idle)
         /\ DocumentSound(Idle) /\ AloneKnows(Idle)
  BY IdleType DEF Inv, TypeOK, SchemaReached, FindingSound, DocumentSound, AloneKnows

LEMMA ExitSound ==
  ASSUME Inv, NEW p \in Programs, Exit(p)
  PROVE  Inv'
<1>1. PICK g \in Frame : g = Idle
  BY LeaveFrame
<1> QED BY <1>1, LeaveFrame, QuietStep DEF Exit, Leave

LEMMA ApplyMigrationSound ==
  ASSUME Inv, NEW p \in Programs, ApplyMigration(p)
  PROVE  Inv'
<1>1. PICK f \in Frame : f = run[p]
  BY FrameHas
<1>2. /\ f.pc = "migrate" /\ f.version \in 1..Versions + 1 /\ SchemaReached(f)
      /\ FindingSound(f) /\ DocumentSound(f) /\ AloneKnows(f)
  BY <1>1, FrameHas, FrameFields DEF ApplyMigration
<1>3. f.version \in 1..Versions
  BY <1>2, InstallationAssumption DEF SchemaReached
<1>4. CASE Migrates(f.version)
  <2>1. PICK g : g = Moved(f, "open", f.version + 1)
    OBVIOUS
  <2>2. /\ g \in Frame /\ g.alone = f.alone /\ g.command = f.command /\ g.document = f.document
        /\ g.pc = "open" /\ g.version = f.version + 1
    <3>1. f.version + 1 \in 1..Versions + 1
      BY <1>3, InstallationAssumption
    <3>2. "open" \in PCs
      BY DEF PCs
    <3> QED BY <2>1, <3>1, <3>2, MovedFrame
  <2>3. /\ run' = [run EXCEPT ![p] = g]
        /\ applied' = [applied EXCEPT ![f.version] = @ + 1]
        /\ recorded' = [recorded EXCEPT ![f.version] = TRUE]
        /\ UNCHANGED <<registry, store, files, runs, confirmed>>
    BY <1>1, <1>4, <2>1 DEF ApplyMigration, Moved
  <2>4. applied \in [1..Versions -> Nat] /\ recorded \in [1..Versions -> BOOLEAN]
    BY DEF Inv, TypeOK
  <2>5. /\ applied' \in [1..Versions -> Nat] /\ recorded' \in [1..Versions -> BOOLEAN]
        /\ recorded'[f.version] /\ applied'[f.version] = applied[f.version] + 1
        /\ \A v \in 1..Versions : v # f.version =>
              recorded'[v] = recorded[v] /\ applied'[v] = applied[v]
    BY <1>3, <2>3, <2>4
  <2>6. AppliedOnce'
    <3>1. applied[f.version] = 0
      BY <1>3, <1>4 DEF Inv, AppliedOnce, Migrates
    <3> QED BY <2>5, <3>1 DEF Inv, AppliedOnce
  <2>7. SchemaReached(g)' /\ FindingSound(g)' /\ DocumentSound(g) /\ AloneKnows(g)'
    <3>1. \A v \in 1..Versions : v < g.version => recorded'[v]
      BY <1>2, <1>3, <2>2, <2>5, InstallationAssumption DEF SchemaReached
    <3> QED BY <1>2, <2>2, <2>3, <3>1
            DEF SchemaReached, FindingSound, DocumentSound, AloneKnows, Mutates, files
  <2>8. run' \in [Programs -> Frame] /\ FramesSound' /\ AloneSound'
    BY <1>1, <1>2, <2>2, <2>3, <2>5, <2>7, FrameStep
  <2> QED BY <2>3, <2>5, <2>6, <2>8 DEF Inv, TypeOK, OkWasConfirmed, files
<1>5. CASE ~Migrates(f.version)
  <2>1. PICK g \in Frame : g = Idle
    BY LeaveFrame
  <2>2. run' = [run EXCEPT ![p] = g] /\ UNCHANGED <<database, files, runs, confirmed>>
    BY <1>1, <1>5, <2>1 DEF ApplyMigration, Leave, database
  <2> QED BY <1>1, <1>2, <2>1, <2>2, LeaveFrame, QuietStep
<1> QED BY <1>4, <1>5

LEMMA ReadSourcesSound ==
  ASSUME Inv, NEW p \in Programs, ReadSources(p)
  PROVE  Inv'
<1>1. PICK f \in Frame : f = run[p]
  BY FrameHas
<1>2. /\ f.pc = "readSources" /\ SchemaReached(f) /\ DocumentSound(f) /\ AloneKnows(f)
  BY <1>1, FrameHas DEF ReadSources
<1>3. PICK g : g = [f EXCEPT !.pc = "loadSources", !.config = sources]
  OBVIOUS
<1>4. /\ g \in Frame /\ g.alone = f.alone /\ g.command = f.command /\ g.document = f.document
      /\ g.pc = "loadSources"
  BY <1>3 DEF Frame, Inv, TypeOK
<1>5. SchemaReached(g) /\ FindingSound(g) /\ DocumentSound(g) /\ AloneKnows(g)
  BY <1>2, <1>4 DEF SchemaReached, FindingSound, DocumentSound, AloneKnows, Mutates
<1> QED BY <1>1, <1>2, <1>3, <1>4, <1>5, QuietStep DEF ReadSources

\* A start leaves a row of the registry, and no status "OK" that it has not had
\* or that its configuration does not say.
LEMMA UpsertRow ==
  ASSUME NEW row \in Row, NEW config \in Configs
  PROVE  /\ Upsert(row, config) \in Row
         /\ \/ Upsert(row, config) = row
            \/ Upsert(row, config).status = "OK" => Upsert(row, config).config.status = "OK"
         /\ Upsert(row, config).config = row.config => Upsert(row, config) = row
<1>1. /\ config \in Configuration /\ config.hint \in Maybe
      /\ config.status \in Statuses \cup {None}
  BY InstallationAssumption DEF Configuration
<1>2. /\ Fresh(config) \in Row /\ Fresh(config).config = config
      /\ Fresh(config).status = "OK" => config.status = "OK"
  BY <1>1 DEF Fresh, Row, Statuses
<1> QED BY <1>2 DEF Upsert

LEMMA LoadSourcesSound ==
  ASSUME Inv, NEW p \in Programs, LoadSources(p)
  PROVE  Inv'
<1>1. PICK f \in Frame : f = run[p]
  BY FrameHas
<1>2. /\ f.pc = "loadSources" /\ SchemaReached(f) /\ DocumentSound(f) /\ AloneKnows(f)
      /\ f.config \in Configs
  BY <1>1, FrameHas, FrameFields DEF LoadSources
<1>3. PICK g : g = [f EXCEPT !.pc = "readProfiles", !.config = FirstConfig]
  OBVIOUS
<1>4. FirstConfig \in Configs
  BY <1>2 DEF FirstConfig
<1>5. /\ g \in Frame /\ g.alone = f.alone /\ g.command = f.command /\ g.document = f.document
      /\ g.pc = "readProfiles"
  BY <1>3, <1>4 DEF Frame
<1>6. /\ run' = [run EXCEPT ![p] = g] /\ registry' = Upsert(registry, f.config)
      /\ UNCHANGED <<applied, recorded, store, files, runs, confirmed>>
  BY <1>1, <1>3 DEF LoadSources
<1>7. SchemaReached(g)' /\ FindingSound(g)' /\ DocumentSound(g) /\ AloneKnows(g)'
  BY <1>2, <1>5, <1>6
     DEF SchemaReached, FindingSound, DocumentSound, AloneKnows, Mutates, files
<1>8. run' \in [Programs -> Frame] /\ FramesSound' /\ AloneSound'
  BY <1>1, <1>2, <1>5, <1>6, <1>7, FrameStep
<1>9. registry' \in Row /\ OkWasConfirmed'
  BY <1>2, <1>6, UpsertRow DEF Inv, TypeOK, OkWasConfirmed
<1> QED BY <1>6, <1>8, <1>9 DEF Inv, TypeOK, AppliedOnce, files

LEMMA ReadProfilesSound ==
  ASSUME Inv, NEW p \in Programs, ReadProfiles(p)
  PROVE  Inv'
<1>1. PICK f \in Frame : f = run[p]
  BY FrameHas
<1>2. /\ f.pc = "readProfiles" /\ SchemaReached(f) /\ DocumentSound(f) /\ AloneKnows(f)
  BY <1>1, FrameHas DEF ReadProfiles
<1>3. PICK loads \in Documents \cup {Absent} :
        loads = StartDocument(profiles, store) /\ (profiles # Absent => loads = profiles)
  BY InstallationAssumption DEF StartDocument, Inv, TypeOK
<1>4. PICK g : g = [f EXCEPT !.pc = "loadProfiles", !.loads = loads]
  OBVIOUS
<1>5. /\ g \in Frame /\ g.alone = f.alone /\ g.command = f.command /\ g.document = f.document
      /\ g.pc = "loadProfiles" /\ g.loads = loads
  BY <1>4 DEF Frame
<1>6. SchemaReached(g) /\ FindingSound(g) /\ DocumentSound(g) /\ AloneKnows(g)
  BY <1>2, <1>3, <1>5 DEF SchemaReached, FindingSound, DocumentSound, AloneKnows, Mutates
<1> QED BY <1>1, <1>2, <1>3, <1>4, <1>5, <1>6, QuietStep DEF ReadProfiles

\* A step that writes the profile tables or the profile file, of a program that
\* then knows what is in them.
LEMMA ProfileStep ==
  ASSUME Inv, NEW p \in Programs, run[p].pc # "idle",
         NEW g \in Frame, run' = [run EXCEPT ![p] = g],
         g.alone => run[p].alone,
         SchemaReached(g), FindingSound(g), DocumentSound(g), AloneKnows(g)',
         store' \in Documents, profiles' \in Documents \cup {Absent},
         UNCHANGED <<applied, recorded, registry, sources, runs, confirmed>>
  PROVE  Inv'
<1>1. SchemaReached(g)' /\ FindingSound(g)'
  BY DEF SchemaReached, FindingSound, Confirmed
<1>2. run' \in [Programs -> Frame] /\ FramesSound' /\ AloneSound'
  BY <1>1, FrameStep
<1> QED BY <1>2 DEF Inv, TypeOK, AppliedOnce, OkWasConfirmed

LEMMA BodyFrame ==
  ASSUME NEW f \in Frame
  PROVE  /\ [f EXCEPT !.pc = Body(f.command.name), !.loads = Absent] \in Frame
         /\ [f EXCEPT !.pc = Body(f.command.name), !.loads = Absent].pc = Body(f.command.name)
         /\ [f EXCEPT !.pc = Body(f.command.name), !.loads = Absent].command = f.command
         /\ [f EXCEPT !.pc = Body(f.command.name), !.loads = Absent].document = f.document
         /\ [f EXCEPT !.pc = Body(f.command.name), !.loads = Absent].alone = f.alone
         /\ Body(f.command.name) \in {"store", "list", "ready"}
         /\ Body(f.command.name) = "store" => Mutates(f)
<1>1. PICK pc \in {"store", "list", "ready"} :
        pc = Body(f.command.name) /\ (pc = "store" => Mutates(f))
  BY DEF Body, Mutates
<1> QED BY <1>1 DEF Frame

LEMMA LoadProfilesSound ==
  ASSUME Inv, NEW p \in Programs, LoadProfiles(p)
  PROVE  Inv'
<1>1. PICK f \in Frame : f = run[p]
  BY FrameHas
<1>2. /\ f.pc = "loadProfiles" /\ SchemaReached(f) /\ DocumentSound(f) /\ AloneKnows(f)
      /\ f.loads \in Documents \cup {Absent}
  BY <1>1, FrameHas, FrameFields DEF LoadProfiles
<1>3. PICK g : g = [f EXCEPT !.pc = Body(f.command.name), !.loads = Absent]
  OBVIOUS
<1>4. /\ g \in Frame /\ g.alone = f.alone /\ g.command = f.command /\ g.document = f.document
      /\ g.pc \in {"store", "list", "ready"} /\ (g.pc = "store" => Mutates(g))
  BY <1>3, BodyFrame DEF Mutates
<1>5. /\ run' = [run EXCEPT ![p] = g] /\ store' \in Documents
      /\ UNCHANGED <<applied, recorded, registry, files, runs, confirmed>>
  BY <1>1, <1>2, <1>3 DEF LoadProfiles, Stored, Inv, TypeOK
<1>6. SchemaReached(g) /\ FindingSound(g) /\ DocumentSound(g) /\ AloneKnows(g)'
  BY <1>2, <1>4, <1>5 DEF SchemaReached, FindingSound, DocumentSound, AloneKnows, Mutates, files
<1> QED BY <1>1, <1>2, <1>4, <1>5, <1>6, ProfileStep DEF files, Inv, TypeOK

\* Goto changes the place only.
LEMMA GotoFrame ==
  ASSUME NEW f \in Frame, NEW pc \in PCs
  PROVE  /\ [f EXCEPT !.pc = pc] \in Frame /\ [f EXCEPT !.pc = pc].pc = pc
         /\ [f EXCEPT !.pc = pc].command = f.command /\ [f EXCEPT !.pc = pc].alone = f.alone
         /\ [f EXCEPT !.pc = pc].document = f.document
         /\ [f EXCEPT !.pc = pc].finding = f.finding
  BY DEF Frame, PCs

LEMMA StoreMutationSound ==
  ASSUME Inv, NEW p \in Programs, StoreMutation(p)
  PROVE  Inv'
<1>1. PICK f \in Frame : f = run[p]
  BY FrameHas
<1>2. /\ f.pc = "store" /\ SchemaReached(f) /\ DocumentSound(f) /\ AloneKnows(f)
  BY <1>1, FrameHas DEF StoreMutation
<1>3. PICK g : g = [f EXCEPT !.pc = "file"]
  OBVIOUS
<1>4. /\ g \in Frame /\ g.alone = f.alone /\ g.command = f.command /\ g.document = f.document
      /\ g.pc = "file"
  <2>1. "file" \in PCs
    BY DEF PCs
  <2> QED BY <1>3, <2>1, GotoFrame
<1>5. /\ run' = [run EXCEPT ![p] = g] /\ store' = f.document
      /\ UNCHANGED <<applied, recorded, registry, files, runs, confirmed>>
  BY <1>1, <1>3 DEF StoreMutation, Stored, Goto
<1>6. /\ SchemaReached(g) /\ FindingSound(g) /\ DocumentSound(g) /\ AloneKnows(g)'
      /\ f.document \in Documents
  BY <1>2, <1>4, <1>5 DEF SchemaReached, FindingSound, DocumentSound, AloneKnows, Mutates, files
<1> QED BY <1>1, <1>2, <1>4, <1>5, <1>6, ProfileStep DEF files, Inv, TypeOK

LEMMA WriteProfilesSound ==
  ASSUME Inv, NEW p \in Programs, WriteProfiles(p)
  PROVE  Inv' /\ profiles' \in Documents /\ Valid(profiles')
<1>1. PICK f \in Frame : f = run[p]
  BY FrameHas
<1>2. /\ f.pc = "file" /\ SchemaReached(f) /\ DocumentSound(f) /\ AloneKnows(f)
  BY <1>1, FrameHas DEF WriteProfiles
<1>3. PICK g : g = [f EXCEPT !.pc = "ready"]
  OBVIOUS
<1>4. /\ g \in Frame /\ g.alone = f.alone /\ g.command = f.command /\ g.document = f.document
      /\ g.pc = "ready"
  <2>1. "ready" \in PCs
    BY DEF PCs
  <2> QED BY <1>3, <2>1, GotoFrame
<1>5. /\ run' = [run EXCEPT ![p] = g] /\ profiles' = f.document
      /\ UNCHANGED <<database, sources, runs, confirmed>>
  BY <1>1, <1>3 DEF WriteProfiles, Goto
<1>6. /\ SchemaReached(g) /\ FindingSound(g) /\ DocumentSound(g) /\ AloneKnows(g)'
      /\ f.document \in Documents /\ Valid(f.document)
  BY <1>2, <1>4, <1>5 DEF SchemaReached, FindingSound, DocumentSound, AloneKnows, Mutates
<1>7. Inv'
  BY <1>1, <1>2, <1>4, <1>5, <1>6, ProfileStep DEF database, Inv, TypeOK
<1> QED BY <1>5, <1>6, <1>7

\* What a scan or a validation finds is a status and a table, and if the status
\* is "OK" there is a table.
LEMMA SelectType ==
  ASSUME NEW row \in Row, NEW listed \in SUBSET Tables
  PROVE  Select(row, listed) \in Maybe
<1> DEFINE hints == {row.config.hint, row.table} \ {None}
           exact == listed \cap UNION {Contains[h] : h \in hints}
           candidates == exact \cup (listed \cap Related)
           One(S) == CHOOSE t \in Tables : S = {t}
<1>1. ASSUME NEW S, \E t \in Tables : S = {t}
      PROVE  One(S) \in Tables
  BY <1>1
<1>2. Select(row, listed) =
        IF \E t \in Tables : exact = {t} THEN One(exact)
        ELSE IF \E t \in Tables : candidates = {t} THEN One(candidates) ELSE None
  BY DEF Select
<1> HIDE DEF One, exact, candidates
<1> QED BY <1>1, <1>2 DEF Maybe

LEMMA FindingTypes ==
  ASSUME NEW row \in Row, NEW listed \in SUBSET Tables,
         NEW answer \in {"OK", "ERROR", "UNRESOLVED"}
  PROVE  /\ Resolved(row, listed) \in Finding
         /\ Resolved(row, listed).status = "OK" => Resolved(row, listed).table \in Tables
         /\ Probed(row, answer) \in Finding
         /\ Probed(row, answer).status = "OK" => Probed(row, answer).table \in Tables
         /\ Validated(row, answer) \in Finding
         /\ Validated(row, answer).status = "OK" /\ Validates(row)
               => /\ Validated(row, answer).table \in Tables
                  /\ Validated(row, answer).table = row.table
<1>1. row.table \in Maybe /\ row.config.service \in Services
  BY DEF Row, Configuration
<1>2. PICK t \in Maybe : t = Select(row, listed)
  BY SelectType
<1>3. /\ Known \in Maybe /\ Known \in Tables /\ None \notin Tables
      /\ KnownService \in Services
  BY RegistryAssumption DEF Maybe
<1>4. /\ Resolved(row, listed) \in Finding
      /\ Resolved(row, listed).status = "OK" => Resolved(row, listed).table \in Tables
  <2>1. CASE ~row.config.enabled
    BY <2>1, <1>1, <1>3 DEF Resolved, Finding, Statuses, Maybe
  <2>2. CASE row.config.enabled
    <3>1. Resolved(row, listed) =
            [status |-> IF t = None THEN "UNRESOLVED" ELSE "OK", table |-> t,
             service |-> row.config.service]
      BY <1>2, <2>2 DEF Resolved
    <3> QED BY <1>1, <1>2, <3>1 DEF Finding, Statuses, Maybe
  <2> QED BY <2>1, <2>2
<1>5. /\ Probed(row, answer) \in Finding
      /\ Probed(row, answer).status = "OK" => Probed(row, answer).table \in Tables
  BY <1>3 DEF Probed, Finding, Statuses
<1>6. /\ Validated(row, answer) \in Finding
      /\ Validated(row, answer).status = "OK" /\ Validates(row)
               => /\ Validated(row, answer).table \in Tables
                  /\ Validated(row, answer).table = row.table
  BY <1>1 DEF Validated, Validates, Finding, Statuses, Maybe
<1> QED BY <1>4, <1>5, <1>6

LEMMA ListSourcesSound ==
  ASSUME Inv, NEW p \in Programs, ListSources(p)
  PROVE  Inv'
<1>1. PICK f \in Frame : f = run[p]
  BY FrameHas
<1>2. PICK listed \in SUBSET Tables, answer \in {"OK", "ERROR", "UNRESOLVED"} :
      \E finding \in IF f.command.name = "validate" THEN {Validated(registry, answer)}
                     ELSE {Resolved(registry, listed), Probed(registry, answer)} :
        /\ f.pc = "list"
        /\ IF f.command.name = "validate" /\ ~Validates(registry)
              THEN Goto(p, "ready") /\ UNCHANGED confirmed
              ELSE /\ run' = [run EXCEPT ![p].pc = "write", ![p].finding = finding]
                   /\ confirmed' = confirmed \cup
                        IF finding.status # "OK" THEN {}
                        ELSE IF f.command.name = "validate"
                                THEN {<<finding.service, registry.table>>}
                        ELSE {<<finding.service, finding.table>>}
        /\ UNCHANGED <<database, files, runs>>
  BY <1>1 DEF ListSources
<1>3. /\ f.pc = "list" /\ SchemaReached(f) /\ DocumentSound(f) /\ AloneKnows(f)
      /\ UNCHANGED <<database, files, runs>>
  BY <1>1, <1>2, FrameHas
<1>4. CASE f.command.name = "validate" /\ ~Validates(registry)
  <2>1. PICK g : g = [f EXCEPT !.pc = "ready"]
    OBVIOUS
  <2>2. /\ g \in Frame /\ g.alone = f.alone /\ g.command = f.command /\ g.document = f.document
        /\ g.pc = "ready"
    <3>1. "ready" \in PCs
      BY DEF PCs
    <3> QED BY <2>1, <3>1, GotoFrame
  <2>3. run' = [run EXCEPT ![p] = g] /\ confirmed' = confirmed
    BY <1>1, <1>2, <1>4, <2>1 DEF Goto
  <2>4. SchemaReached(g) /\ FindingSound(g) /\ DocumentSound(g) /\ AloneKnows(g)
    BY <1>3, <2>2 DEF SchemaReached, FindingSound, DocumentSound, AloneKnows, Mutates
  <2> QED BY <1>1, <1>3, <2>2, <2>3, <2>4, QuietStep
<1>5. CASE ~(f.command.name = "validate" /\ ~Validates(registry))
  <2>1. PICK finding \in Finding :
          /\ run' = [run EXCEPT ![p].pc = "write", ![p].finding = finding]
          /\ confirmed \subseteq confirmed' /\ confirmed' \subseteq Services \X Tables
          /\ finding.status = "OK" => Confirmed(finding.table)'
    <3>1. registry \in Row /\ confirmed \subseteq Services \X Tables
      BY DEF Inv, TypeOK
    <3>2. PICK finding \in IF f.command.name = "validate" THEN {Validated(registry, answer)}
                           ELSE {Resolved(registry, listed), Probed(registry, answer)} :
            /\ run' = [run EXCEPT ![p].pc = "write", ![p].finding = finding]
            /\ confirmed' = confirmed \cup
                 IF finding.status # "OK" THEN {}
                 ELSE IF f.command.name = "validate"
                         THEN {<<finding.service, registry.table>>}
                 ELSE {<<finding.service, finding.table>>}
      BY <1>2, <1>5
    <3>3. /\ finding \in Finding /\ finding.service \in Services
          /\ finding.status = "OK" => finding.table \in Tables
          /\ f.command.name = "validate" /\ finding.status = "OK" => finding.table = registry.table
      <4>1. /\ finding \in Finding
            /\ finding.status = "OK" => finding.table \in Tables
            /\ f.command.name = "validate" /\ finding.status = "OK"
                  => finding.table = registry.table
        BY <1>5, <3>1, <3>2, FindingTypes
      <4> QED BY <4>1 DEF Finding
    <3>4. confirmed' = confirmed \cup
             (IF finding.status = "OK" THEN {<<finding.service, finding.table>>} ELSE {})
      BY <3>2, <3>3
    <3>5. confirmed \subseteq confirmed' /\ confirmed' \subseteq Services \X Tables
      BY <3>1, <3>3, <3>4
    <3>6. finding.status = "OK" => Confirmed(finding.table)'
      BY <3>3, <3>4
    <3>7. run' = [run EXCEPT ![p].pc = "write", ![p].finding = finding]
      BY <3>2
    <3> QED BY <3>3, <3>5, <3>6, <3>7
  <2>2. PICK g : g = [f EXCEPT !.pc = "write", !.finding = finding]
    OBVIOUS
  <2>3. /\ g \in Frame /\ g.alone = f.alone /\ g.command = f.command /\ g.document = f.document
        /\ g.pc = "write" /\ g.finding = finding
    BY <2>2 DEF Frame
  <2>4. run' = [run EXCEPT ![p] = g]
    BY <1>1, <2>1, <2>2
  <2>5. SchemaReached(g)' /\ FindingSound(g)' /\ DocumentSound(g) /\ AloneKnows(g)'
    BY <1>3, <2>1, <2>3
       DEF SchemaReached, FindingSound, DocumentSound, AloneKnows, Mutates, files, database
  <2>6. run' \in [Programs -> Frame] /\ FramesSound' /\ AloneSound'
    <3>1. \A v \in 1..Versions : recorded[v] => recorded'[v]
      BY <1>3 DEF database
    <3> QED BY <1>1, <1>3, <2>1, <2>3, <2>4, <2>5, <3>1, FrameStep
  <2>7. AppliedOnce' /\ OkWasConfirmed'
    BY <1>3, <2>1 DEF Inv, AppliedOnce, OkWasConfirmed, database
  <2> QED BY <1>3, <2>1, <2>6, <2>7 DEF Inv, TypeOK, database, files
<1> QED BY <1>4, <1>5

\* A status is written into the row that is there: no name leaves its table.
LEMMA SetStatusRow ==
  ASSUME NEW row \in Row, NEW status \in Statuses, NEW table \in Maybe
  PROVE  /\ SetStatus(row, status, table) \in Row
         /\ SetStatus(row, status, table).status = status
         /\ SetStatus(row, status, table).table = IF table = None THEN row.table ELSE table
  BY DEF SetStatus, Row

LEMMA WriteStatusSound ==
  ASSUME Inv, NEW p \in Programs, WriteStatus(p)
  PROVE  Inv'
<1>1. PICK f \in Frame : f = run[p]
  BY FrameHas
<1>2. /\ f.pc = "write" /\ SchemaReached(f) /\ FindingSound(f) /\ DocumentSound(f)
      /\ AloneKnows(f)
  BY <1>1, FrameHas DEF WriteStatus
<1>3. PICK g : g = [f EXCEPT !.pc = "ready", !.finding = NoFinding]
  OBVIOUS
<1>4. /\ g \in Frame /\ g.alone = f.alone /\ g.command = f.command /\ g.document = f.document
      /\ g.pc = "ready"
  BY <1>3, NoFindingType DEF Frame
<1>5. /\ run' = [run EXCEPT ![p] = g]
      /\ registry' = SetStatus(registry, f.finding.status, f.finding.table)
      /\ UNCHANGED <<applied, recorded, store, files, runs, confirmed>>
  BY <1>1, <1>3 DEF WriteStatus
<1>6. SchemaReached(g)' /\ FindingSound(g)' /\ DocumentSound(g) /\ AloneKnows(g)'
  BY <1>2, <1>4, <1>5
     DEF SchemaReached, FindingSound, DocumentSound, AloneKnows, Mutates, files
<1>7. run' \in [Programs -> Frame] /\ FramesSound' /\ AloneSound'
  BY <1>1, <1>2, <1>4, <1>5, <1>6, FrameStep
<1>8. registry' \in Row /\ OkWasConfirmed'
  <2>1. f.finding.status \in Statuses /\ f.finding.table \in Maybe
    BY FrameFields DEF Finding
  <2>2. registry \in Row /\ confirmed \subseteq Services \X Tables /\ None \notin Tables
    BY RegistryAssumption DEF Inv, TypeOK
  <2>3. PICK row \in Row :
          /\ registry' = row /\ row.status = f.finding.status
          /\ row.table = IF f.finding.table = None THEN registry.table ELSE f.finding.table
    BY <1>5, <2>1, <2>2, SetStatusRow
  <2>4. ASSUME f.finding.status = "OK" PROVE Confirmed(f.finding.table) /\ f.finding.table # None
    BY <1>2, <2>2, <2>4 DEF FindingSound
  <2> QED BY <1>5, <2>3, <2>4 DEF OkWasConfirmed
<1> QED BY <1>5, <1>7, <1>8 DEF Inv, TypeOK, AppliedOnce, files

LEMMA EditSourcesSound ==
  ASSUME Inv, NEW c \in Configs, EditSources(c)
  PROVE  Inv'
  BY DEF Inv, EditSources, TypeOK, FramesSound, AloneSound, AppliedOnce, OkWasConfirmed,
         SchemaReached, FindingSound, DocumentSound, AloneKnows, Mutates, database

LEMMA InitSound == Init => Inv
<1> SUFFICES ASSUME Init PROVE Inv
  OBVIOUS
<1>1. PICK n \in 0..Versions, c \in Configs, f \in Documents \cup {Absent} :
        /\ recorded = [v \in 1..Versions |-> v <= n]
        /\ applied = [v \in 1..Versions |-> IF v <= n THEN 1 ELSE 0]
        /\ sources = c
        /\ \/ registry = Fresh(c) /\ confirmed = {}
           \/ \E t \in Tables : /\ confirmed = {<<c.service, t>>}
                               /\ registry = [config |-> c, status |-> "OK", table |-> t]
        /\ profiles = f /\ store \in (IF n = 0 THEN {{}} ELSE Documents)
        /\ run = [p \in Programs |-> Idle] /\ runs = 0
  BY DEF Init
<1>2. c \in Configuration /\ c.hint \in Maybe /\ c.service \in Services
      /\ c.status \in Statuses \cup {None}
  BY InstallationAssumption DEF Configuration
<1>3. /\ Idle \in Frame /\ Idle.pc = "idle" /\ ~Idle.alone
  BY <1>1, IdleType
<1>4. registry \in Row /\ confirmed \subseteq Services \X Tables /\ OkWasConfirmed
  BY <1>1, <1>2 DEF Row, Statuses, Maybe, OkWasConfirmed, Fresh, Confirmed
<1>5. /\ applied \in [1..Versions -> Nat] /\ recorded \in [1..Versions -> BOOLEAN]
      /\ AppliedOnce
  <2>1. applied \in [1..Versions -> Nat]
    BY <1>1
  <2>2. recorded \in [1..Versions -> BOOLEAN]
    BY <1>1
  <2>3. ASSUME NEW v \in 1..Versions PROVE applied[v] = IF recorded[v] THEN 1 ELSE 0
    <3>1. recorded[v] <=> v <= n
      BY <1>1
    <3>2. applied[v] = IF v <= n THEN 1 ELSE 0
      BY <1>1
    <3> QED BY <3>1, <3>2
  <2> QED BY <2>1, <2>2, <2>3 DEF AppliedOnce
<1>6. store \in Documents
  BY <1>1 DEF Documents
<1>7. TypeOK
  BY <1>1, <1>3, <1>4, <1>5, <1>6, InstallationAssumption DEF TypeOK
<1>8. FramesSound /\ AloneSound
  BY <1>1, <1>3
     DEF FramesSound, AloneSound, SchemaReached, FindingSound, DocumentSound, AloneKnows
<1> QED BY <1>4, <1>5, <1>7, <1>8 DEF Inv

LEMMA Inductive == Inv /\ [Next]_vars => Inv'
<1> SUFFICES ASSUME Inv, [Next]_vars PROVE Inv'
  OBVIOUS
<1>1. CASE UNCHANGED vars
  BY <1>1 DEF vars, database, files, Inv, TypeOK, FramesSound, AloneSound, AppliedOnce,
              OkWasConfirmed, SchemaReached, FindingSound, DocumentSound, AloneKnows, Mutates
<1>2. ASSUME NEW p \in Programs, NEW c \in Commands, Begin(p, c) PROVE Inv'
  BY <1>2, BeginSound
<1>3. ASSUME NEW p \in Programs, CheckMigration(p) PROVE Inv'
  BY <1>3, CheckMigrationSound
<1>4. ASSUME NEW p \in Programs, ApplyMigration(p) PROVE Inv'
  BY <1>4, ApplyMigrationSound
<1>5. ASSUME NEW p \in Programs, ReadSources(p) PROVE Inv'
  BY <1>5, ReadSourcesSound
<1>6. ASSUME NEW p \in Programs, LoadSources(p) PROVE Inv'
  BY <1>6, LoadSourcesSound
<1>7. ASSUME NEW p \in Programs, ReadProfiles(p) PROVE Inv'
  BY <1>7, ReadProfilesSound
<1>8. ASSUME NEW p \in Programs, LoadProfiles(p) PROVE Inv'
  BY <1>8, LoadProfilesSound
<1>9. ASSUME NEW p \in Programs, StoreMutation(p) PROVE Inv'
  BY <1>9, StoreMutationSound
<1>10. ASSUME NEW p \in Programs, WriteProfiles(p) PROVE Inv'
  BY <1>10, WriteProfilesSound
<1>11. ASSUME NEW p \in Programs, ListSources(p) PROVE Inv'
  BY <1>11, ListSourcesSound
<1>12. ASSUME NEW p \in Programs, WriteStatus(p) PROVE Inv'
  BY <1>12, WriteStatusSound
<1>13. ASSUME NEW p \in Programs, Exit(p) PROVE Inv'
  BY <1>13, ExitSound
<1>14. ASSUME NEW c \in Configs, EditSources(c) PROVE Inv'
  BY <1>14, EditSourcesSound
<1> QED BY <1>1, <1>2, <1>3, <1>4, <1>5, <1>6, <1>7, <1>8, <1>9, <1>10, <1>11, <1>12,
           <1>13, <1>14 DEF Next

-----------------------------------------------------------------------------
(* What a step does to the programs' places.                               *)

\* In a step in which a program goes on from one of its places, every other
\* stays where it is: the step is that program's own.
LEMMA OwnStep ==
  ASSUME Inv, NEW p \in Programs, run[p].pc \in {"loadProfiles", "file"},
         run'[p].pc \notin {"idle", run[p].pc}, [Next]_vars
  PROVE  LoadProfiles(p) \/ WriteProfiles(p)
<1>1. run \in [Programs -> Frame]
  BY DEF Inv, TypeOK
<1>2. ~UNCHANGED vars
  BY DEF vars
<1>3. ASSUME NEW q \in Programs, q # p, NEW g, run' = [run EXCEPT ![q] = g]
      PROVE  FALSE
  BY <1>1, <1>3
<1>4. ASSUME NEW q \in Programs, NEW c \in Commands, Begin(q, c)
      PROVE  FALSE
  <2>1. q # p
    BY <1>4 DEF Begin
  <2>2. run'[p] = [run[p] EXCEPT !.alone = FALSE] /\ run[p] \in Frame
    BY <1>1, <1>4, <2>1 DEF Begin
  <2> QED BY <2>2 DEF Frame
<1>5. ASSUME NEW q \in Programs, Exit(q)
      PROVE  FALSE
  <2>1. run' = [run EXCEPT ![q] = Idle] /\ Idle.pc = "idle"
    BY <1>5 DEF Exit, Leave, Idle
  <2> QED BY <1>1, <1>3, <2>1
<1>6. ASSUME NEW q \in Programs,
             \/ CheckMigration(q) \/ ApplyMigration(q) \/ ReadSources(q) \/ LoadSources(q)
             \/ ReadProfiles(q) \/ LoadProfiles(q) \/ StoreMutation(q) \/ WriteProfiles(q)
             \/ ListSources(q) \/ WriteStatus(q)
      PROVE  /\ \E g : run' = [run EXCEPT ![q] = g]
             /\ run[q].pc \in {"loadProfiles", "file"} => LoadProfiles(q) \/ WriteProfiles(q)
  BY <1>6 DEF CheckMigration, ApplyMigration, ReadSources, LoadSources, ReadProfiles,
              LoadProfiles, StoreMutation, WriteProfiles, ListSources, WriteStatus, Goto, Leave
<1>7. ASSUME NEW c \in Configs, EditSources(c)
      PROVE  FALSE
  BY <1>7 DEF EditSources
<1> QED BY <1>2, <1>3, <1>4, <1>5, <1>6, <1>7 DEF Next

\* Only the end of a profile command writes the profile file.
LEMMA FileStep ==
  ASSUME Inv, [Next]_vars, profiles' # profiles
  PROVE  \E p \in Programs : WriteProfiles(p)
<1>1. ~UNCHANGED vars
  BY DEF vars, files
<1>2. ASSUME NEW p \in Programs, NEW c \in Commands, Begin(p, c) PROVE FALSE
  BY <1>2 DEF Begin, files
<1>3. ASSUME NEW p \in Programs,
             \/ CheckMigration(p) \/ ApplyMigration(p) \/ ReadSources(p) \/ LoadSources(p)
             \/ ReadProfiles(p) \/ LoadProfiles(p) \/ StoreMutation(p)
             \/ ListSources(p) \/ WriteStatus(p) \/ Exit(p)
      PROVE  FALSE
  BY <1>3 DEF CheckMigration, ApplyMigration, ReadSources, LoadSources, ReadProfiles,
              LoadProfiles, StoreMutation, ListSources, WriteStatus, Exit, files
<1>4. ASSUME NEW c \in Configs, EditSources(c) PROVE FALSE
  BY <1>4 DEF EditSources
<1> QED BY <1>1, <1>2, <1>3, <1>4 DEF Next

\* Only a start and a catalog command write the registry.
LEMMA RegistryStep ==
  ASSUME Inv, [Next]_vars, registry' # registry
  PROVE  \E p \in Programs : LoadSources(p) \/ WriteStatus(p)
<1>1. ~UNCHANGED vars
  BY DEF vars, database
<1>2. ASSUME NEW p \in Programs, NEW c \in Commands, Begin(p, c) PROVE FALSE
  BY <1>2 DEF Begin, database
<1>3. ASSUME NEW p \in Programs,
             \/ CheckMigration(p) \/ ApplyMigration(p) \/ ReadSources(p)
             \/ ReadProfiles(p) \/ LoadProfiles(p) \/ StoreMutation(p) \/ WriteProfiles(p)
             \/ ListSources(p) \/ Exit(p)
      PROVE  FALSE
  BY <1>3 DEF CheckMigration, ApplyMigration, ReadSources, WriteProfiles, ReadProfiles,
              LoadProfiles, StoreMutation, ListSources, Exit, database
<1>4. ASSUME NEW c \in Configs, EditSources(c) PROVE FALSE
  BY <1>4 DEF EditSources, database
<1> QED BY <1>1, <1>2, <1>3, <1>4 DEF Next

-----------------------------------------------------------------------------
(* The theorems.                                                           *)

LEMMA Invariance == Spec => []Inv
  BY InitSound, Inductive, PTL DEF Spec

\* The state keeps its type: the files hold documents, the row is one of the
\* registry, every program is at one of its places (Installation).
THEOREM TypeCorrect == Spec => []TypeOK
<1>1. Inv => TypeOK
  BY DEF Inv
<1> QED BY Invariance, <1>1, PTL

\* Any number of programs may start on any older schema and be killed: each
\* migration commits once, and none gets past the schema before it is complete
\* (storage.migrate).
THEOREM SchemaIsComplete == Spec => []SchemaComplete
<1>1. Inv => SchemaComplete
  BY DEF Inv, SchemaComplete, AppliedOnce, FramesSound, SchemaReached
<1> QED BY Invariance, <1>1, PTL

\* A source that sources.yaml does not call OK is called so only with a table that
\* a catalog listed as its one match or that a probe has read, in whichever
\* service, whatever rows were replaced between the reading of a row and the
\* writing of its status (upsertSource, CatalogScan, CatalogValidate).
THEOREM OkIsConfirmed == Spec => []OkWasConfirmed
<1>1. Inv => OkWasConfirmed
  BY DEF Inv
<1> QED BY Invariance, <1>1, PTL

\* A start that overlaps no other program leaves in the tables what the file
\* says, whatever was there before (service.New, LoadProfiles).
THEOREM FileIsTruth == Spec => FileWins
<1> DEFINE Loaded(p) == run[p].pc = "loadProfiles" /\ run'[p].pc \notin {"idle", "loadProfiles"}
                       /\ run[p].alone /\ profiles # Absent
<1>1. ASSUME Inv, [Next]_vars, NEW p \in Programs, Loaded(p)
      PROVE  store' = profiles
  <2>1. LoadProfiles(p)
    BY <1>1, OwnStep DEF WriteProfiles
  <2>2. run[p].loads = profiles
    BY <1>1, FrameHas DEF AloneKnows
  <2> QED BY <1>1, <2>1, <2>2 DEF LoadProfiles, Stored
<1>2. Inv /\ [Next]_vars => [\A p \in Programs : Loaded(p) => store' = profiles]_vars
  BY <1>1
<1> QED BY <1>2, Invariance, PTL DEF Spec, FileWins

\* A profile command that ran alone has made its own change, and no other, in the
\* file and in the tables (runProfileMutation).
THEOREM MutationEffective == Spec => MutationTakesEffect
<1> DEFINE Finished(p) == run[p].pc = "file" /\ run'[p].pc = "ready" /\ run[p].alone
           Effect(p) == /\ profiles' = Changed(run[p].command, InFile(profiles))
                        /\ store' = profiles'
<1>1. ASSUME Inv, [Next]_vars, NEW p \in Programs, Finished(p)
      PROVE  Effect(p)
  <2>1. WriteProfiles(p)
    BY <1>1, OwnStep DEF LoadProfiles
  <2>2. /\ run[p].document = Changed(run[p].command, InFile(profiles))
        /\ store = run[p].document
    BY <1>1, FrameHas DEF AloneKnows, DocumentSound
  <2> QED BY <2>1, <2>2 DEF WriteProfiles, database
<1>2. Inv /\ [Next]_vars => [\A p \in Programs : Finished(p) => Effect(p)]_vars
  BY <1>1
<1> QED BY <1>2, Invariance, PTL DEF Spec, MutationTakesEffect

\* No profile command, beside whichever others, writes a document in which an
\* entry refers to one that is not there (validateProfileDocument).
THEOREM ReferencesKept == Spec => MutationsKeepReferences
<1>1. ASSUME Inv, [Next]_vars, profiles' # profiles
      PROVE  Valid(profiles')
  BY <1>1, FileStep, WriteProfilesSound
<1> QED BY <1>1, Invariance, PTL DEF Spec, MutationsKeepReferences

\* A source whose configuration is the same keeps a table once it has one
\* (upsertSource, SetSourceStatus).
THEOREM ResolutionKept == Spec => ResolutionPersists
<1>1. ASSUME Inv, [Next]_vars, registry'.config = registry.config, registry.table # None
      PROVE  registry'.table # None
  <2>1. CASE registry' = registry
    BY <1>1, <2>1
  <2>2. ASSUME NEW p \in Programs, LoadSources(p)
        PROVE  registry' = registry
    <3>1. run[p].config \in Configs /\ registry \in Row
      BY <1>1, FrameHas, FrameFields DEF Inv, TypeOK
    <3> QED BY <1>1, <2>2, <3>1, UpsertRow DEF LoadSources
  <2>3. ASSUME NEW p \in Programs, WriteStatus(p)
        PROVE  registry'.table # None
    <3>1. run[p].finding.status \in Statuses /\ run[p].finding.table \in Maybe
      BY <1>1, FrameHas, FrameFields DEF Finding
    <3>2. registry \in Row
      BY <1>1 DEF Inv, TypeOK
    <3> QED BY <1>1, <2>3, <3>1, <3>2, SetStatusRow DEF WriteStatus
  <2> QED BY <1>1, <2>1, <2>2, <2>3, RegistryStep
<1> QED BY <1>1, Invariance, PTL DEF Spec, ResolutionPersists

=============================================================================
