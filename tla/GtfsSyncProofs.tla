--------------------------- MODULE GtfsSyncProofs ----------------------------
(***************************************************************************)
(* Theorems about GtfsSync, for any number of processes, releases and local *)
(* archives, whichever of them are malformed or incomplete.                 *)
(***************************************************************************)
EXTENDS GtfsSync, TLAPS

Importing == {"beginning", "loading", "sealing", "committing"}

\* What a command's path names: never the canonical file while maintenance
\* has not published, and always a file from the comparison to the opening.
PathSound(f) ==
    /\ f.pc = "reading" => f.maintain /\ f.path # "canonical"
    /\ f.pc \in {"reading", "opening", "comparing"} /\ f.path = "local"
          => f.local \in LocalFiles
    /\ f.pc = "fetching" /\ f.maintain => f.path = "own"
    /\ f.pc = "publishing" => f.path = "own" /\ f.own = f.fetched
    /\ f.pc \in {"comparing", "publishing", "opening"} => At(f) \in Archives

\* An import is of one archive: the one its path still names, and the one
\* maintenance compared, as long as nobody replaced the file.
ImportSound(f) ==
    /\ f.pc = "opening" /\ f.maintain /\ ~f.disturbed => f.fetched = At(f)
    /\ f.pc \in {"beginning", "loading", "sealing"} /\ ~f.disturbed => f.opened = At(f)
    /\ f.pc \in Importing /\ f.maintain /\ ~f.disturbed => f.opened = f.fetched
    /\ f.pc = "committing" /\ ~f.disturbed => f.hash = f.opened

\* What is open has passed the checks made so far.
OpenedSound(f) ==
    /\ f.pc \in {"beginning", "loading"} => f.opened \in Archives \ Malformed
    /\ f.pc \in {"sealing", "committing"} => f.opened \in Loadable

\* Until another import is committed, what maintenance has read for its report
\* is of the archive it imported, which is served.
ReportSound(f) ==
    f.maintain /\ ~f.disturbed /\ ~f.overtaken =>
        /\ f.pc \in {"covering", "rereading", "reporting"}
              => db.timetable = f.fetched /\ db.active = f.fetched
        /\ f.pc \in {"rereading", "reporting"} => f.coverage = f.fetched
        /\ f.pc = "reporting" => f.active = f.fetched

FrameSound(s) ==
    PathSound(sync[s]) /\ ImportSound(sync[s]) /\ OpenedSound(sync[s]) /\ ReportSound(sync[s])

DatabaseSound == db.timetable = db.index /\ HashDescribesTimetable

Inv == TypeOK /\ (\A s \in Syncs : FrameSound(s)) /\ DatabaseSound

-----------------------------------------------------------------------------
(* Frames and the steps that rewrite one.                                  *)

LEMMA ArchivesAreFiles == Nothing \notin Archives /\ 1 .. Releases \subseteq Archives
  BY ArchiveAssumption DEF Nothing, Archives

\* A path names an archive, or a file that does not exist.
LEMMA AtType ==
  ASSUME TypeOK, NEW s \in Syncs
  PROVE  At(sync[s]) \in Archives \cup {Nothing}
  BY DEF TypeOK, Frame, At, Archives

\* Changing another field keeps the frame a frame and its status.
LEMMA FieldStatus ==
  ASSUME NEW f \in Frame, NEW a \in Archives \cup {Nothing}
  PROVE  /\ [f EXCEPT !.active = a] \in Frame /\ [f EXCEPT !.active = a].status = f.status
         /\ [f EXCEPT !.own = a] \in Frame /\ [f EXCEPT !.own = a].status = f.status
         /\ [f EXCEPT !.fetched = a] \in Frame /\ [f EXCEPT !.fetched = a].status = f.status
         /\ [f EXCEPT !.opened = a] \in Frame /\ [f EXCEPT !.opened = a].status = f.status
         /\ [f EXCEPT !.hash = a] \in Frame /\ [f EXCEPT !.hash = a].status = f.status
         /\ [f EXCEPT !.coverage = a] \in Frame /\ [f EXCEPT !.coverage = a].status = f.status
  BY DEF Frame

\* A finished command's frame is sound: it claims nothing.
LEMMA IdleFrame ==
  ASSUME NEW status \in {"none", "OK", "UNCHANGED", "DISABLED", "error", "killed"}
  PROVE  /\ [Idle EXCEPT !.status = status] \in Frame
         /\ [Idle EXCEPT !.status = status].pc = "idle"
         /\ [Idle EXCEPT !.status = status].status = status
  BY DEF Idle, Frame

LEMMA InitSound == Init => Inv
<1> SUFFICES ASSUME Init PROVE Inv
  OBVIOUS
<1>1. TypeOK
  <2>1. Idle \in Frame
    BY DEF Idle, Frame
  <2>2. \A s \in Syncs : sync[s].pc = "idle" /\ writer # s
    BY ProcessAssumption DEF Init, Idle
  <2>3. 1 \in 1 .. Releases
    BY ArchiveAssumption
  <2> QED BY <2>1, <2>2, <2>3 DEF Init, TypeOK
<1>2. \A s \in Syncs : FrameSound(s)
  BY DEF Init, FrameSound, PathSound, ImportSound, OpenedSound, ReportSound, Idle, Importing
<1>3. DatabaseSound
  BY DEF Init, DatabaseSound, HashDescribesTimetable
<1> QED BY <1>1, <1>2, <1>3 DEF Inv

\* A step that leaves a command's frame, the canonical file and the database
\* alone leaves the frame as sound as it was.
LEMMA FrameKept ==
  ASSUME NEW t \in Syncs, FrameSound(t), sync'[t] = sync[t],
         canonical' = canonical, db' = db
  PROVE  FrameSound(t)'
  BY DEF FrameSound, PathSound, ImportSound, OpenedSound, ReportSound, At

\* A step that ends a command keeps everything but that command's frame.
LEMMA ExitSound ==
  ASSUME Inv, NEW s \in Syncs,
         NEW status \in {"none", "OK", "UNCHANGED", "DISABLED", "error", "killed"},
         Exit(s, status), UNCHANGED <<upstream, canonical, db>>
  PROVE  /\ sync' \in [Syncs -> Frame]
         /\ writer' \in Syncs \cup {NoSync}
         /\ \A t \in Syncs :
              sync'[t].pc \in {"loading", "sealing", "committing"} <=> writer' = t
         /\ \A t \in Syncs : FrameSound(t)'
<1> DEFINE f == [Idle EXCEPT !.status = status]
<1>1. f \in Frame /\ f.pc = "idle"
  BY IdleFrame
<1>2. sync' = [sync EXCEPT ![s] = f] /\ writer' = IF writer = s THEN NoSync ELSE writer
  BY DEF Exit
<1> HIDE DEF f
<1>3. sync'[s] = f /\ \A t \in Syncs \ {s} : sync'[t] = sync[t]
  BY <1>2 DEF Inv, TypeOK
<1>4. sync' \in [Syncs -> Frame]
  BY <1>1, <1>2 DEF Inv, TypeOK
<1>5. writer' \in Syncs \cup {NoSync}
  BY <1>2 DEF Inv, TypeOK
<1>6. ASSUME NEW t \in Syncs
      PROVE  sync'[t].pc \in {"loading", "sealing", "committing"} <=> writer' = t
  BY <1>1, <1>2, <1>3, ProcessAssumption DEF Inv, TypeOK
<1>7. ASSUME NEW t \in Syncs PROVE FrameSound(t)'
  <2>1. CASE t = s
    BY <2>1, <1>1, <1>3
       DEF FrameSound, PathSound, ImportSound, OpenedSound, ReportSound, Importing
  <2>2. CASE t # s
    BY <2>2, <1>3, FrameKept DEF Inv
  <2> QED BY <2>1, <2>2
<1> QED BY <1>4, <1>5, <1>6, <1>7

PCs == {"idle", "reading", "fetching", "comparing", "publishing", "opening",
        "beginning", "loading", "sealing", "committing",
        "covering", "rereading", "reporting"}

\* What Goto does to a command's frame, field by field, and to the others.
LEMMA GotoEffect ==
  ASSUME TypeOK, NEW s \in Syncs, NEW p \in PCs, NEW f \in Frame, Goto(s, p, f)
  PROVE  /\ sync' \in [Syncs -> Frame]
         /\ \A t \in Syncs \ {s} : sync'[t] = sync[t]
         /\ sync'[s].pc = p
         /\ sync'[s].maintain = f.maintain /\ sync'[s].path = f.path
         /\ sync'[s].own = f.own /\ sync'[s].local = f.local
         /\ sync'[s].active = f.active /\ sync'[s].fetched = f.fetched
         /\ sync'[s].opened = f.opened /\ sync'[s].hash = f.hash
         /\ sync'[s].disturbed = f.disturbed /\ sync'[s].status = f.status
         /\ sync'[s].coverage = f.coverage /\ sync'[s].overtaken = f.overtaken
<1> DEFINE g == [f EXCEPT !.pc = p]
<1>1. g \in Frame
  BY DEF Frame, PCs
<1>2. sync' = [sync EXCEPT ![s] = g]
  BY DEF Goto
<1>3. sync'[s] = g /\ \A t \in Syncs \ {s} : sync'[t] = sync[t]
  BY <1>2 DEF TypeOK
<1>4. sync' \in [Syncs -> Frame]
  BY <1>1, <1>2 DEF TypeOK
<1> QED BY <1>3, <1>4 DEF Frame

\* What a step of one command that leaves the canonical file and the lock
\* alone has to establish: its own frame's soundness.
LEMMA OneFrame ==
  ASSUME Inv, NEW s \in Syncs, sync' \in [Syncs -> Frame],
         \A t \in Syncs \ {s} : sync'[t] = sync[t],
         UNCHANGED <<upstream, canonical, db, writer>>,
         sync'[s].pc \in {"loading", "sealing", "committing"}
            <=> sync[s].pc \in {"loading", "sealing", "committing"},
         FrameSound(s)'
  PROVE  Inv'
<1>1. \A t \in Syncs : FrameSound(t)'
  BY FrameKept DEF Inv
<1>2. TypeOK'
  BY DEF Inv, TypeOK
<1>3. DatabaseSound'
  BY DEF Inv, DatabaseSound, HashDescribesTimetable
<1> QED BY <1>1, <1>2, <1>3 DEF Inv

-----------------------------------------------------------------------------
(* The steps, one lemma each.                                              *)

LEMMA StartSound == ASSUME Inv, NEW s \in Syncs, Start(s) PROVE Inv'
<1>1. PICK maintain \in BOOLEAN, local \in LocalFiles \cup {Nothing} :
        LET path == IF local # Nothing THEN "local"
                    ELSE IF maintain THEN "own" ELSE "canonical"
            next == IF maintain THEN "reading"
                    ELSE IF local # Nothing THEN "opening" ELSE "fetching"
        IN Goto(s, next, [Idle EXCEPT !.maintain = maintain, !.local = local, !.path = path])
  BY DEF Start
<1> DEFINE path == IF local # Nothing THEN "local"
                   ELSE IF maintain THEN "own" ELSE "canonical"
           next == IF maintain THEN "reading"
                   ELSE IF local # Nothing THEN "opening" ELSE "fetching"
           f == [Idle EXCEPT !.maintain = maintain, !.local = local, !.path = path]
<1>2. f \in Frame /\ f.maintain = maintain /\ f.local = local /\ f.path = path
  BY DEF Idle, Frame
<1>3. next \in PCs /\ Goto(s, next, f)
  BY <1>1 DEF PCs
<1>4. TypeOK /\ sync[s].pc = "idle" /\ UNCHANGED <<upstream, canonical, db, writer>>
  BY DEF Start, Inv
<1> HIDE DEF f
<1>5. /\ sync' \in [Syncs -> Frame] /\ \A t \in Syncs \ {s} : sync'[t] = sync[t]
      /\ sync'[s].pc = next /\ sync'[s].maintain = maintain
      /\ sync'[s].path = path /\ sync'[s].local = local
  BY <1>2, <1>3, <1>4, GotoEffect
<1>6. FrameSound(s)'
  <2>1. PathSound(sync[s])'
    BY <1>5 DEF PathSound, At, Archives
  <2>2. ImportSound(sync[s])' /\ ReportSound(sync[s])'
    BY <1>5 DEF ImportSound, ReportSound, Importing
  <2>3. OpenedSound(sync[s])' /\ ReportSound(sync[s])'
    BY <1>5 DEF OpenedSound, ReportSound
  <2> QED BY <2>1, <2>2, <2>3 DEF FrameSound
<1> QED BY <1>4, <1>5, <1>6, OneFrame

LEMMA ReadActiveSound == ASSUME Inv, NEW s \in Syncs, ReadActive(s) PROVE Inv'
<1> DEFINE next == IF sync[s].path = "local" THEN "comparing" ELSE "fetching"
           f == [sync[s] EXCEPT !.active = db.active]
<1>1. f \in Frame
  BY DEF Inv, TypeOK, Frame
<1>2. /\ next \in PCs /\ Goto(s, next, f) /\ TypeOK /\ sync[s].pc = "reading"
      /\ UNCHANGED <<upstream, canonical, db, writer>>
  BY DEF ReadActive, PCs, Inv
<1>3. /\ f.maintain = sync[s].maintain /\ f.path = sync[s].path /\ f.local = sync[s].local
  BY DEF Inv, TypeOK, Frame
<1> HIDE DEF f
<1>4. /\ sync' \in [Syncs -> Frame] /\ \A t \in Syncs \ {s} : sync'[t] = sync[t]
      /\ sync'[s].pc = next /\ sync'[s].maintain = sync[s].maintain
      /\ sync'[s].path = sync[s].path /\ sync'[s].local = sync[s].local
  BY <1>1, <1>2, <1>3, GotoEffect
<1>5. FrameSound(s)'
  <2>1. PathSound(sync[s])
    BY DEF Inv, FrameSound
  <2>2. sync[s].path \in {"own", "canonical", "local"}
    BY DEF Inv, TypeOK, Frame
  <2>3. PathSound(sync[s])'
    BY <1>2, <1>4, <2>1, <2>2 DEF PathSound, At, Archives
  <2>4. ImportSound(sync[s])' /\ OpenedSound(sync[s])' /\ ReportSound(sync[s])'
    BY <1>4 DEF ImportSound, OpenedSound, ReportSound, Importing
  <2> QED BY <2>3, <2>4 DEF FrameSound
<1> QED BY <1>2, <1>4, <1>5, OneFrame

\* A comparison takes the hash of what the path names, and keeps the path.
LEMMA CompareDifferentSound ==
  ASSUME Inv, NEW s \in Syncs, CompareDifferent(s) PROVE Inv'
<1> DEFINE next == IF sync[s].path = "own" THEN "publishing" ELSE "opening"
           f == [sync[s] EXCEPT !.fetched = At(sync[s])]
<1>1. f \in Frame
  BY AtType, FieldStatus DEF Inv, TypeOK
<1>2. /\ next \in PCs /\ Goto(s, next, f) /\ TypeOK /\ sync[s].pc = "comparing"
      /\ UNCHANGED <<upstream, canonical, db, writer>>
  BY DEF CompareDifferent, PCs, Inv
<1>3. /\ f.maintain = sync[s].maintain /\ f.path = sync[s].path /\ f.local = sync[s].local
      /\ f.own = sync[s].own /\ f.fetched = At(sync[s])
  BY DEF Inv, TypeOK, Frame
<1> HIDE DEF f
<1>4. /\ sync' \in [Syncs -> Frame] /\ \A t \in Syncs \ {s} : sync'[t] = sync[t]
      /\ sync'[s].pc = next /\ sync'[s].maintain = sync[s].maintain
      /\ sync'[s].path = sync[s].path /\ sync'[s].local = sync[s].local
      /\ sync'[s].own = sync[s].own /\ sync'[s].fetched = At(sync[s])
  BY <1>1, <1>2, <1>3, GotoEffect
<1>5. At(sync[s])' = At(sync[s])
  BY <1>2, <1>4 DEF At
<1>6. FrameSound(s)'
  <2>1. PathSound(sync[s])
    BY DEF Inv, FrameSound
  <2>2. PathSound(sync[s])'
    <3>1. sync'[s].pc = "publishing" => sync'[s].own = sync'[s].fetched
      BY <1>4 DEF At
    <3> QED BY <1>2, <1>4, <1>5, <2>1, <3>1 DEF PathSound
  <2>3. ImportSound(sync[s])'
    BY <1>4, <1>5 DEF ImportSound, Importing
  <2>4. OpenedSound(sync[s])' /\ ReportSound(sync[s])'
    BY <1>4 DEF OpenedSound, ReportSound
  <2> QED BY <2>2, <2>3, <2>4 DEF FrameSound
<1> QED BY <1>2, <1>4, <1>6, OneFrame

\* The maintenance command's own download names an archive of its own.
LEMMA FetchOwnSound ==
  ASSUME Inv, NEW s \in Syncs, Fetch(s), sync[s].maintain PROVE Inv'
<1> DEFINE f == [sync[s] EXCEPT !.own = upstream]
<1>1. f \in Frame /\ upstream \in Archives
  BY ArchivesAreFiles DEF Inv, TypeOK, Frame
<1>2. /\ Goto(s, "comparing", f) /\ "comparing" \in PCs /\ TypeOK
      /\ sync[s].pc = "fetching" /\ UNCHANGED <<upstream, canonical, db, writer>>
  BY DEF Fetch, PCs, Inv
<1>3. f.maintain = sync[s].maintain /\ f.path = sync[s].path /\ f.own = upstream
  BY DEF Inv, TypeOK, Frame
<1> HIDE DEF f
<1>4. /\ sync' \in [Syncs -> Frame] /\ \A t \in Syncs \ {s} : sync'[t] = sync[t]
      /\ sync'[s].pc = "comparing" /\ sync'[s].path = sync[s].path
      /\ sync'[s].own = upstream
  BY <1>1, <1>2, <1>3, GotoEffect
<1>5. FrameSound(s)'
  <2>1. sync[s].path = "own"
    BY <1>2 DEF Inv, FrameSound, PathSound
  <2>2. PathSound(sync[s])'
    BY <1>1, <1>4, <2>1 DEF PathSound, At
  <2>3. ImportSound(sync[s])' /\ OpenedSound(sync[s])' /\ ReportSound(sync[s])'
    BY <1>4 DEF ImportSound, OpenedSound, ReportSound, Importing
  <2> QED BY <2>2, <2>3 DEF FrameSound
<1> QED BY <1>2, <1>4, <1>5, OneFrame

\* Replacing the canonical file spoils no other import: those that still rely
\* on it are marked.
LEMMA ReplaceCanonicalSound ==
  ASSUME Inv, NEW s \in Syncs, NEW archive \in Archives,
         ReplaceCanonical(s, archive), UNCHANGED <<upstream, db, writer>>,
         sync[s].pc \in {"fetching", "publishing"},
         sync[s].maintain /\ ~sync[s].disturbed => archive = sync[s].fetched
  PROVE  Inv'
<1> DEFINE Relies(t) == sync[t].path = "canonical"
                        /\ sync[t].pc \in {"opening", "beginning", "loading", "sealing"}
           own == [sync[s] EXCEPT !.pc = "opening", !.path = "canonical", !.own = Nothing]
           Marked(t) == [sync[t] EXCEPT !.disturbed = @ \/ Relies(t)]
<1>1. /\ canonical' = archive
      /\ sync' = [t \in Syncs |-> IF t = s THEN own ELSE Marked(t)]
  BY DEF ReplaceCanonical
<1>2. /\ own \in Frame /\ own.pc = "opening" /\ own.path = "canonical"
      /\ own.maintain = sync[s].maintain /\ own.disturbed = sync[s].disturbed
      /\ own.fetched = sync[s].fetched
  <2>1. sync[s] \in Frame
    BY DEF Inv, TypeOK
  <2>2. PICK f \in Frame : f = sync[s]
    BY <2>1
  <2>3. own = [f EXCEPT !.pc = "opening", !.path = "canonical", !.own = Nothing]
    BY <2>2
  <2> HIDE DEF own
  <2>4. /\ own \in Frame /\ own.pc = "opening" /\ own.path = "canonical"
        /\ own.maintain = f.maintain /\ own.fetched = f.fetched
    BY <2>3 DEF Frame
  <2>5. own.disturbed = f.disturbed
    BY <2>3 DEF Frame
  <2> QED BY <2>2, <2>4, <2>5
<1>3. ASSUME NEW t \in Syncs
      PROVE  /\ Marked(t) \in Frame
             /\ Marked(t).pc = sync[t].pc /\ Marked(t).path = sync[t].path
             /\ Marked(t).maintain = sync[t].maintain /\ Marked(t).own = sync[t].own
             /\ Marked(t).local = sync[t].local /\ Marked(t).fetched = sync[t].fetched
             /\ Marked(t).opened = sync[t].opened /\ Marked(t).hash = sync[t].hash
             /\ Marked(t).coverage = sync[t].coverage /\ Marked(t).active = sync[t].active
             /\ Marked(t).overtaken = sync[t].overtaken
             /\ sync[t].disturbed \/ Relies(t) => Marked(t).disturbed
  <2>1. (sync[t].disturbed \/ Relies(t)) \in BOOLEAN
    BY DEF Inv, TypeOK, Frame
  <2>2. PICK d \in BOOLEAN : d = (sync[t].disturbed \/ Relies(t))
    BY <2>1
  <2>3. Marked(t) = [sync[t] EXCEPT !.disturbed = d]
    BY <2>2
  <2>4. sync[t] \in Frame
    BY DEF Inv, TypeOK
  <2> HIDE DEF Marked, Relies
  <2>5. /\ Marked(t) \in Frame
        /\ Marked(t).pc = sync[t].pc /\ Marked(t).path = sync[t].path
        /\ Marked(t).maintain = sync[t].maintain /\ Marked(t).own = sync[t].own
        /\ Marked(t).local = sync[t].local /\ Marked(t).fetched = sync[t].fetched
        /\ Marked(t).opened = sync[t].opened /\ Marked(t).hash = sync[t].hash
        /\ Marked(t).coverage = sync[t].coverage /\ Marked(t).active = sync[t].active
        /\ Marked(t).overtaken = sync[t].overtaken /\ Marked(t).disturbed = d
    BY <2>3, <2>4 DEF Frame
  <2> QED BY <2>2, <2>5
<1> HIDE DEF own, Marked
<1>4. FrameSound(s)'
  <2>1. /\ sync'[s].pc = "opening" /\ sync'[s].path = "canonical"
        /\ sync'[s].maintain = sync[s].maintain /\ sync'[s].disturbed = sync[s].disturbed
        /\ sync'[s].fetched = sync[s].fetched
    BY <1>1, <1>2
  <2> QED BY <1>1, <2>1
       DEF FrameSound, PathSound, ImportSound, OpenedSound, ReportSound, At, Importing
<1>5. ASSUME NEW t \in Syncs \ {s} PROVE FrameSound(t)'
  <2>1. /\ sync'[t].pc = sync[t].pc /\ sync'[t].path = sync[t].path
        /\ sync'[t].maintain = sync[t].maintain /\ sync'[t].own = sync[t].own
        /\ sync'[t].local = sync[t].local /\ sync'[t].fetched = sync[t].fetched
        /\ sync'[t].opened = sync[t].opened /\ sync'[t].hash = sync[t].hash
        /\ sync'[t].coverage = sync[t].coverage /\ sync'[t].active = sync[t].active
        /\ sync'[t].overtaken = sync[t].overtaken
    BY <1>1, <1>3
  <2>2. sync[t].disturbed \/ Relies(t) => sync'[t].disturbed
    BY <1>1, <1>3
  <2>3. FrameSound(t)
    BY DEF Inv
  <2>4. sync[t].path # "canonical" => At(sync[t])' = At(sync[t])
    BY <2>1 DEF At
  <2>5. sync[t].path = "canonical" => At(sync[t])' = archive
    BY <1>1, <2>1 DEF At
  <2>6. PathSound(sync[t])'
    BY <2>1, <2>3, <2>4, <2>5 DEF FrameSound, PathSound
  <2>7. ImportSound(sync[t])'
    BY <2>1, <2>2, <2>3, <2>4 DEF FrameSound, ImportSound, Importing
  <2>8. OpenedSound(sync[t])'
    BY <2>1, <2>3 DEF FrameSound, OpenedSound
  <2>9. ReportSound(sync[t])'
    BY <2>1, <2>2, <2>3 DEF FrameSound, ReportSound
  <2> QED BY <2>6, <2>7, <2>8, <2>9 DEF FrameSound
<1>6. TypeOK'
  <2>1. \A t \in Syncs :
           sync'[t].pc \in {"loading", "sealing", "committing"}
              <=> sync[t].pc \in {"loading", "sealing", "committing"}
    BY <1>1, <1>2, <1>3
  <2>2. sync' \in [Syncs -> Frame]
    BY <1>1, <1>2, <1>3
  <2>3. canonical' \in Archives \cup {Nothing}
    BY <1>1
  <2> QED BY <2>1, <2>2, <2>3 DEF Inv, TypeOK
<1>7. DatabaseSound'
  BY DEF Inv, DatabaseSound, HashDescribesTimetable
<1> QED BY <1>4, <1>5, <1>6, <1>7 DEF Inv

LEMMA FetchSound == ASSUME Inv, NEW s \in Syncs, Fetch(s) PROVE Inv'
<1>1. CASE sync[s].maintain
  BY <1>1, FetchOwnSound
<1>2. CASE ~sync[s].maintain
  <2>1. upstream \in Archives
    BY ArchivesAreFiles DEF Inv, TypeOK
  <2> QED BY <1>2, <2>1, ReplaceCanonicalSound DEF Fetch
<1> QED BY <1>1, <1>2

LEMMA PublishSound == ASSUME Inv, NEW s \in Syncs, PublishArchive(s) PROVE Inv'
<1>1. sync[s].own \in Archives /\ sync[s].own = sync[s].fetched
  BY DEF PublishArchive, Inv, FrameSound, PathSound, At
<1> QED BY <1>1, ReplaceCanonicalSound DEF PublishArchive

LEMMA OpenSound == ASSUME Inv, NEW s \in Syncs, OpenArchive(s) PROVE Inv'
<1> DEFINE f == [sync[s] EXCEPT !.opened = At(sync[s])]
<1>1. f \in Frame
  BY AtType, FieldStatus DEF Inv, TypeOK
<1>2. /\ Goto(s, "beginning", f) /\ "beginning" \in PCs /\ TypeOK
      /\ sync[s].pc = "opening" /\ At(sync[s]) \notin Malformed
      /\ UNCHANGED <<upstream, canonical, db, writer>>
  BY DEF OpenArchive, PCs, Inv
<1>3. /\ f.maintain = sync[s].maintain /\ f.path = sync[s].path /\ f.local = sync[s].local
      /\ f.own = sync[s].own /\ f.fetched = sync[s].fetched /\ f.opened = At(sync[s])
      /\ f.disturbed = sync[s].disturbed
  BY DEF Inv, TypeOK, Frame
<1> HIDE DEF f
<1>4. /\ sync' \in [Syncs -> Frame] /\ \A t \in Syncs \ {s} : sync'[t] = sync[t]
      /\ sync'[s].pc = "beginning" /\ sync'[s].maintain = sync[s].maintain
      /\ sync'[s].path = sync[s].path /\ sync'[s].local = sync[s].local
      /\ sync'[s].own = sync[s].own /\ sync'[s].fetched = sync[s].fetched
      /\ sync'[s].opened = At(sync[s]) /\ sync'[s].disturbed = sync[s].disturbed
  BY <1>1, <1>2, <1>3, GotoEffect
<1>5. At(sync[s])' = At(sync[s])
  BY <1>2, <1>4 DEF At
<1>6. FrameSound(s)'
  <2>1. PathSound(sync[s]) /\ ImportSound(sync[s])
    BY DEF Inv, FrameSound
  <2>2. PathSound(sync[s])'
    BY <1>4 DEF PathSound
  <2>3. ImportSound(sync[s])'
    BY <1>2, <1>4, <1>5, <2>1 DEF ImportSound, Importing
  <2>4. OpenedSound(sync[s])' /\ ReportSound(sync[s])'
    BY <1>2, <1>4, <2>1 DEF OpenedSound, ReportSound, PathSound
  <2> QED BY <2>2, <2>3, <2>4 DEF FrameSound
<1> QED BY <1>2, <1>4, <1>6, OneFrame

LEMMA BeginSound == ASSUME Inv, NEW s \in Syncs, BeginImport(s) PROVE Inv'
<1>1. /\ Goto(s, "loading", sync[s]) /\ "loading" \in PCs /\ TypeOK /\ sync[s] \in Frame
      /\ sync[s].pc = "beginning" /\ writer = NoSync /\ writer' = s
      /\ UNCHANGED <<upstream, canonical, db>>
  BY DEF BeginImport, PCs, Inv, TypeOK
<1>2. /\ sync' \in [Syncs -> Frame] /\ \A t \in Syncs \ {s} : sync'[t] = sync[t]
      /\ sync'[s].pc = "loading" /\ sync'[s].maintain = sync[s].maintain
      /\ sync'[s].path = sync[s].path /\ sync'[s].local = sync[s].local
      /\ sync'[s].own = sync[s].own /\ sync'[s].fetched = sync[s].fetched
      /\ sync'[s].opened = sync[s].opened /\ sync'[s].disturbed = sync[s].disturbed
  BY <1>1, GotoEffect
<1>3. At(sync[s])' = At(sync[s])
  BY <1>1, <1>2 DEF At
<1>4. FrameSound(s)'
  <2>1. ImportSound(sync[s]) /\ OpenedSound(sync[s])
    BY DEF Inv, FrameSound
  <2>2. PathSound(sync[s])'
    BY <1>2 DEF PathSound
  <2>3. ImportSound(sync[s])'
    BY <1>1, <1>2, <1>3, <2>1 DEF ImportSound, Importing
  <2>4. OpenedSound(sync[s])' /\ ReportSound(sync[s])'
    BY <1>1, <1>2, <2>1 DEF OpenedSound, ReportSound
  <2> QED BY <2>2, <2>3, <2>4 DEF FrameSound
<1>5. \A t \in Syncs : FrameSound(t)'
  BY <1>1, <1>2, <1>4, FrameKept DEF Inv
<1>6. TypeOK'
  <2>1. \A t \in Syncs :
           sync'[t].pc \in {"loading", "sealing", "committing"} <=> writer' = t
    BY <1>1, <1>2, ProcessAssumption DEF TypeOK
  <2> QED BY <1>1, <1>2, <2>1 DEF TypeOK
<1>7. DatabaseSound'
  BY <1>1 DEF Inv, DatabaseSound, HashDescribesTimetable
<1> QED BY <1>5, <1>6, <1>7 DEF Inv

LEMMA LoadSound == ASSUME Inv, NEW s \in Syncs, Load(s) PROVE Inv'
<1>1. /\ Goto(s, "sealing", sync[s]) /\ "sealing" \in PCs /\ TypeOK /\ sync[s] \in Frame
      /\ sync[s].pc = "loading" /\ sync[s].opened \notin Incomplete
      /\ UNCHANGED <<upstream, canonical, db, writer>>
  BY DEF Load, PCs, Inv, TypeOK
<1>2. /\ sync' \in [Syncs -> Frame] /\ \A t \in Syncs \ {s} : sync'[t] = sync[t]
      /\ sync'[s].pc = "sealing" /\ sync'[s].maintain = sync[s].maintain
      /\ sync'[s].path = sync[s].path /\ sync'[s].local = sync[s].local
      /\ sync'[s].own = sync[s].own /\ sync'[s].fetched = sync[s].fetched
      /\ sync'[s].opened = sync[s].opened /\ sync'[s].disturbed = sync[s].disturbed
  BY <1>1, GotoEffect
<1>3. At(sync[s])' = At(sync[s])
  BY <1>1, <1>2 DEF At
<1>4. FrameSound(s)'
  <2>1. ImportSound(sync[s]) /\ OpenedSound(sync[s])
    BY DEF Inv, FrameSound
  <2>2. PathSound(sync[s])'
    BY <1>2 DEF PathSound
  <2>3. ImportSound(sync[s])'
    BY <1>1, <1>2, <1>3, <2>1 DEF ImportSound, Importing
  <2>4. OpenedSound(sync[s])' /\ ReportSound(sync[s])'
    BY <1>1, <1>2, <2>1 DEF OpenedSound, ReportSound, Loadable
  <2> QED BY <2>2, <2>3, <2>4 DEF FrameSound
<1> QED BY <1>1, <1>2, <1>4, OneFrame

\* The path is opened a second time: unless it was replaced in between, what
\* is hashed is what was loaded.
LEMMA HashSound == ASSUME Inv, NEW s \in Syncs, HashArchive(s) PROVE Inv'
<1> DEFINE f == [sync[s] EXCEPT !.hash = At(sync[s])]
<1>1. f \in Frame
  BY AtType, FieldStatus DEF Inv, TypeOK
<1>2. /\ Goto(s, "committing", f) /\ "committing" \in PCs /\ TypeOK
      /\ sync[s].pc = "sealing" /\ UNCHANGED <<upstream, canonical, db, writer>>
  BY DEF HashArchive, PCs, Inv
<1>3. /\ f.maintain = sync[s].maintain /\ f.fetched = sync[s].fetched
      /\ f.opened = sync[s].opened /\ f.hash = At(sync[s])
      /\ f.disturbed = sync[s].disturbed
  BY DEF Inv, TypeOK, Frame
<1> HIDE DEF f
<1>4. /\ sync' \in [Syncs -> Frame] /\ \A t \in Syncs \ {s} : sync'[t] = sync[t]
      /\ sync'[s].pc = "committing" /\ sync'[s].maintain = sync[s].maintain
      /\ sync'[s].fetched = sync[s].fetched /\ sync'[s].opened = sync[s].opened
      /\ sync'[s].hash = At(sync[s]) /\ sync'[s].disturbed = sync[s].disturbed
  BY <1>1, <1>2, <1>3, GotoEffect
<1>5. FrameSound(s)'
  <2>1. ImportSound(sync[s]) /\ OpenedSound(sync[s])
    BY DEF Inv, FrameSound
  <2>2. PathSound(sync[s])'
    BY <1>4 DEF PathSound
  <2>3. ImportSound(sync[s])'
    BY <1>2, <1>4, <2>1 DEF ImportSound, Importing
  <2>4. OpenedSound(sync[s])' /\ ReportSound(sync[s])'
    BY <1>2, <1>4, <2>1 DEF OpenedSound, ReportSound
  <2> QED BY <2>2, <2>3, <2>4 DEF FrameSound
<1> QED BY <1>2, <1>4, <1>5, OneFrame

\* A commit ends the import of one command and overtakes the reports of others;
\* their other fields stay.
LEMMA CommitEffect ==
  ASSUME TypeOK, NEW s \in Syncs, Commit(s)
  PROVE  /\ sync' \in [Syncs -> Frame]
         /\ sync'[s].pc = IF sync[s].maintain THEN "covering" ELSE "reporting"
         /\ sync'[s].opened = Nothing
         /\ sync'[s].maintain = sync[s].maintain /\ sync'[s].fetched = sync[s].fetched
         /\ sync'[s].disturbed = sync[s].disturbed
         /\ \A t \in Syncs : sync'[t].status = sync[t].status
         /\ \A t \in Syncs \ {s} :
              /\ sync'[t].pc = sync[t].pc /\ sync'[t].path = sync[t].path
              /\ sync'[t].maintain = sync[t].maintain /\ sync'[t].own = sync[t].own
              /\ sync'[t].local = sync[t].local /\ sync'[t].fetched = sync[t].fetched
              /\ sync'[t].opened = sync[t].opened /\ sync'[t].hash = sync[t].hash
              /\ sync'[t].disturbed = sync[t].disturbed
              /\ sync[t].pc \in {"covering", "rereading", "reporting"} => sync'[t].overtaken
<1> DEFINE p == IF sync[s].maintain THEN "covering" ELSE "reporting"
           own == [sync[s] EXCEPT !.pc = p, !.opened = Nothing]
           Reports(t) == sync[t].pc \in {"covering", "rereading", "reporting"}
           Marked(t) == [sync[t] EXCEPT !.overtaken = @ \/ Reports(t)]
<1>1. sync' = [t \in Syncs |-> IF t = s THEN own ELSE Marked(t)]
  BY DEF Commit, Committed
<1>2. /\ own \in Frame /\ own.pc = p /\ own.opened = Nothing
      /\ own.maintain = sync[s].maintain /\ own.fetched = sync[s].fetched
      /\ own.disturbed = sync[s].disturbed /\ own.status = sync[s].status
  <2>1. PICK f \in Frame : f = sync[s]
    BY DEF TypeOK
  <2>2. p \in PCs /\ own = [f EXCEPT !.pc = p, !.opened = Nothing]
    BY <2>1 DEF PCs
  <2>3. PICK q \in PCs : q = p
    BY <2>2
  <2>4. own = [f EXCEPT !.pc = q, !.opened = Nothing]
    BY <2>2, <2>3
  <2> HIDE DEF own, p
  <2>5. own \in Frame
    BY <2>4 DEF Frame, PCs
  <2>6. /\ own.pc = q /\ own.opened = Nothing /\ own.maintain = f.maintain
        /\ own.fetched = f.fetched /\ own.disturbed = f.disturbed /\ own.status = f.status
    BY <2>4 DEF Frame
  <2> QED BY <2>1, <2>3, <2>5, <2>6
<1>3. ASSUME NEW t \in Syncs
      PROVE  /\ Marked(t) \in Frame /\ Marked(t).status = sync[t].status
             /\ Marked(t).pc = sync[t].pc /\ Marked(t).path = sync[t].path
             /\ Marked(t).maintain = sync[t].maintain /\ Marked(t).own = sync[t].own
             /\ Marked(t).local = sync[t].local /\ Marked(t).fetched = sync[t].fetched
             /\ Marked(t).opened = sync[t].opened /\ Marked(t).hash = sync[t].hash
             /\ Marked(t).disturbed = sync[t].disturbed
             /\ Reports(t) => Marked(t).overtaken
  <2>1. PICK d \in BOOLEAN : d = (sync[t].overtaken \/ Reports(t))
    BY DEF TypeOK, Frame
  <2>2. sync[t] \in Frame /\ Marked(t) = [sync[t] EXCEPT !.overtaken = d]
    BY <2>1 DEF TypeOK
  <2> HIDE DEF Marked, Reports
  <2>3. /\ Marked(t) \in Frame /\ Marked(t).status = sync[t].status
        /\ Marked(t).pc = sync[t].pc /\ Marked(t).path = sync[t].path
        /\ Marked(t).maintain = sync[t].maintain /\ Marked(t).own = sync[t].own
        /\ Marked(t).local = sync[t].local /\ Marked(t).fetched = sync[t].fetched
        /\ Marked(t).opened = sync[t].opened /\ Marked(t).hash = sync[t].hash
        /\ Marked(t).disturbed = sync[t].disturbed /\ Marked(t).overtaken = d
    BY <2>2 DEF Frame
  <2> QED BY <2>1, <2>3
<1> HIDE DEF own, Marked
<1>4. sync'[s] = own /\ \A t \in Syncs \ {s} : sync'[t] = Marked(t)
  BY <1>1
<1>5. sync' \in [Syncs -> Frame]
  BY <1>1, <1>2, <1>3
<1> QED BY <1>2, <1>3, <1>4, <1>5

LEMMA CommitSound == ASSUME Inv, NEW s \in Syncs, Commit(s) PROVE Inv'
<1>1. /\ sync[s].pc = "committing" /\ writer' = NoSync /\ UNCHANGED <<upstream, canonical>>
      /\ db' = [timetable |-> sync[s].opened, index |-> sync[s].opened,
                active |-> sync[s].hash, disturbed |-> sync[s].disturbed]
  BY DEF Commit, Committed
<1>2. sync[s] \in Frame /\ TypeOK
  BY DEF Inv, TypeOK
<1>3. TypeOK'
  <2>1. db' \in [timetable : Archives \cup {Nothing}, index : Archives \cup {Nothing},
                 active : Archives \cup {Nothing}, disturbed : BOOLEAN]
    BY <1>1, <1>2 DEF Frame
  <2>2. \A t \in Syncs : sync'[t].pc \notin {"loading", "sealing", "committing"}
    BY <1>1, <1>2, CommitEffect DEF TypeOK
  <2>3. \A t \in Syncs : writer' # t
    BY <1>1, ProcessAssumption
  <2> QED BY <1>1, <1>2, <2>1, <2>2, <2>3, CommitEffect DEF TypeOK
<1>4. sync[s].disturbed \/ sync[s].hash = sync[s].opened
  BY <1>1 DEF Inv, FrameSound, ImportSound
<1>5. DatabaseSound'
  <2>1. /\ db'.timetable = sync[s].opened /\ db'.index = sync[s].opened
        /\ db'.active = sync[s].hash
    BY <1>1
  <2>2. sync[s].disturbed => db'.disturbed
    BY <1>1, Zenon
  <2> QED BY <1>4, <2>1, <2>2 DEF DatabaseSound, HashDescribesTimetable
<1>6. FrameSound(s)'
  <2>1. /\ sync'[s].pc = IF sync[s].maintain THEN "covering" ELSE "reporting"
        /\ sync'[s].maintain = sync[s].maintain /\ sync'[s].fetched = sync[s].fetched
        /\ sync'[s].disturbed = sync[s].disturbed
    BY <1>2, CommitEffect
  <2>2. sync[s].maintain /\ ~sync[s].disturbed
           => db'.timetable = sync[s].fetched /\ db'.active = sync[s].fetched
    BY <1>1, <1>4 DEF Inv, FrameSound, ImportSound, Importing
  <2>3. ReportSound(sync[s])'
    BY <2>1, <2>2 DEF ReportSound
  <2>4. PathSound(sync[s])' /\ ImportSound(sync[s])' /\ OpenedSound(sync[s])'
    BY <2>1 DEF PathSound, ImportSound, OpenedSound, Importing
  <2> QED BY <2>3, <2>4 DEF FrameSound
<1>7. ASSUME NEW t \in Syncs \ {s} PROVE FrameSound(t)'
  <2>1. /\ sync'[t].pc = sync[t].pc /\ sync'[t].path = sync[t].path
        /\ sync'[t].maintain = sync[t].maintain /\ sync'[t].own = sync[t].own
        /\ sync'[t].local = sync[t].local /\ sync'[t].fetched = sync[t].fetched
        /\ sync'[t].opened = sync[t].opened /\ sync'[t].hash = sync[t].hash
        /\ sync'[t].disturbed = sync[t].disturbed
        /\ sync[t].pc \in {"covering", "rereading", "reporting"} => sync'[t].overtaken
    BY <1>2, CommitEffect
  <2>2. FrameSound(t) /\ At(sync[t])' = At(sync[t])
    BY <1>1, <2>1 DEF Inv, At
  <2>3. PathSound(sync[t])' /\ OpenedSound(sync[t])'
    BY <2>1, <2>2 DEF FrameSound, PathSound, OpenedSound
  <2>4. ImportSound(sync[t])'
    BY <2>1, <2>2 DEF FrameSound, ImportSound, Importing
  <2>5. ReportSound(sync[t])'
    BY <2>1 DEF ReportSound
  <2> QED BY <2>3, <2>4, <2>5 DEF FrameSound
<1> QED BY <1>3, <1>5, <1>6, <1>7 DEF Inv

\* Maintenance reads, of a database that its own import has written last unless
\* it was overtaken.
LEMMA ReadCoverageSound == ASSUME Inv, NEW s \in Syncs, ReadCoverage(s) PROVE Inv'
<1> DEFINE f == [sync[s] EXCEPT !.coverage = db.timetable]
<1>1. /\ Goto(s, "rereading", f) /\ "rereading" \in PCs /\ TypeOK
      /\ sync[s].pc = "covering" /\ UNCHANGED <<upstream, canonical, db, writer>>
  BY DEF ReadCoverage, PCs, Inv
<1> sync[s] \in Frame /\ db.timetable \in Archives \cup {Nothing}
  BY DEF Inv, TypeOK
<1>2. /\ f \in Frame /\ f.maintain = sync[s].maintain /\ f.fetched = sync[s].fetched
      /\ f.coverage = db.timetable
      /\ f.disturbed = sync[s].disturbed /\ f.overtaken = sync[s].overtaken
  BY FieldStatus DEF Frame
<1> HIDE DEF f
<1>3. /\ sync' \in [Syncs -> Frame] /\ \A t \in Syncs \ {s} : sync'[t] = sync[t]
      /\ sync'[s].pc = "rereading" /\ sync'[s].maintain = sync[s].maintain
      /\ sync'[s].fetched = sync[s].fetched /\ sync'[s].coverage = db.timetable
      /\ sync'[s].disturbed = sync[s].disturbed /\ sync'[s].overtaken = sync[s].overtaken
  BY <1>1, <1>2, GotoEffect
<1>4. FrameSound(s)'
  <2>1. ReportSound(sync[s])
    BY DEF Inv, FrameSound
  <2>2. ReportSound(sync[s])'
    BY <1>1, <1>3, <2>1 DEF ReportSound
  <2>3. PathSound(sync[s])' /\ ImportSound(sync[s])' /\ OpenedSound(sync[s])'
    BY <1>3 DEF PathSound, ImportSound, OpenedSound, Importing
  <2> QED BY <2>2, <2>3 DEF FrameSound
<1> QED BY <1>1, <1>3, <1>4, OneFrame

LEMMA RereadActiveSound == ASSUME Inv, NEW s \in Syncs, RereadActive(s) PROVE Inv'
<1> DEFINE f == [sync[s] EXCEPT !.active = db.active]
<1>1. /\ Goto(s, "reporting", f) /\ "reporting" \in PCs /\ TypeOK
      /\ sync[s].pc = "rereading" /\ UNCHANGED <<upstream, canonical, db, writer>>
  BY DEF RereadActive, PCs, Inv
<1> sync[s] \in Frame /\ db.active \in Archives \cup {Nothing}
  BY DEF Inv, TypeOK
<1>2. /\ f \in Frame /\ f.maintain = sync[s].maintain /\ f.fetched = sync[s].fetched
      /\ f.coverage = sync[s].coverage /\ f.active = db.active
      /\ f.disturbed = sync[s].disturbed /\ f.overtaken = sync[s].overtaken
  BY FieldStatus DEF Frame
<1> HIDE DEF f
<1>3. /\ sync' \in [Syncs -> Frame] /\ \A t \in Syncs \ {s} : sync'[t] = sync[t]
      /\ sync'[s].pc = "reporting" /\ sync'[s].maintain = sync[s].maintain
      /\ sync'[s].fetched = sync[s].fetched /\ sync'[s].coverage = sync[s].coverage
      /\ sync'[s].active = db.active
      /\ sync'[s].disturbed = sync[s].disturbed /\ sync'[s].overtaken = sync[s].overtaken
  BY <1>1, <1>2, GotoEffect
<1>4. FrameSound(s)'
  <2>1. ReportSound(sync[s])
    BY DEF Inv, FrameSound
  <2>2. ReportSound(sync[s])'
    BY <1>1, <1>3, <2>1 DEF ReportSound
  <2>3. PathSound(sync[s])' /\ ImportSound(sync[s])' /\ OpenedSound(sync[s])'
    BY <1>3 DEF PathSound, ImportSound, OpenedSound, Importing
  <2> QED BY <2>2, <2>3 DEF FrameSound
<1> QED BY <1>1, <1>3, <1>4, OneFrame

\* A command that ends without a commit leaves the database as it was.
LEMMA ExitPreserves ==
  ASSUME Inv, NEW s \in Syncs,
         NEW status \in {"none", "OK", "UNCHANGED", "DISABLED", "error", "killed"},
         Exit(s, status), UNCHANGED <<upstream, canonical, db>>
  PROVE  Inv'
<1>1. TypeOK' /\ \A t \in Syncs : FrameSound(t)'
  BY ExitSound DEF Inv, TypeOK
<1>2. DatabaseSound'
  BY DEF Inv, DatabaseSound, HashDescribesTimetable
<1> QED BY <1>1, <1>2 DEF Inv

LEMMA StepSound == ASSUME Inv, NEW s \in Syncs, Step(s) PROVE Inv'
<1>1. CASE Disabled(s) \/ CompareUnchanged(s) \/ Report(s) \/ Fail(s) \/ Die(s)
  BY <1>1, ExitPreserves DEF Disabled, CompareUnchanged, Report, Fail, Die
<1> QED BY <1>1, StartSound, ReadActiveSound, FetchSound, CompareDifferentSound,
           PublishSound, OpenSound, BeginSound, LoadSound, HashSound, CommitSound,
           ReadCoverageSound, RereadActiveSound DEF Step

LEMMA ReleaseSound == ASSUME Inv, Release PROVE Inv'
<1>1. \A t \in Syncs : FrameSound(t)'
  BY FrameKept DEF Release, Inv
<1>2. TypeOK'
  <2>1. upstream' \in 1 .. Releases
    BY ArchiveAssumption DEF Release, Inv, TypeOK
  <2> QED BY <2>1 DEF Release, Inv, TypeOK
<1>3. DatabaseSound'
  BY DEF Release, Inv, DatabaseSound, HashDescribesTimetable
<1> QED BY <1>1, <1>2, <1>3 DEF Inv

\* A step that changes no variable changes no formula.
LEMMA StutterSound == ASSUME Inv, UNCHANGED vars PROVE Inv'
<1>1. \A t \in Syncs : FrameSound(t)'
  BY FrameKept DEF vars, Inv
<1>2. TypeOK' /\ DatabaseSound'
  BY DEF vars, Inv, TypeOK, DatabaseSound, HashDescribesTimetable
<1> QED BY <1>1, <1>2 DEF Inv

LEMMA Inductive == Inv /\ [Next]_vars => Inv'
  BY StepSound, ReleaseSound, StutterSound DEF Next

-----------------------------------------------------------------------------
(* The theorems.                                                           *)

\* The inductive invariant behind the others.
THEOREM Invariance == Spec => []Inv
  BY InitSound, Inductive, PTL DEF Spec

\* The variables keep their types, and the lock of the database is held by
\* exactly the command that is in its transaction.
THEOREM TypeCorrect == Spec => []TypeOK
<1>1. Inv => TypeOK
  BY DEF Inv
<1> QED BY <1>1, Invariance, PTL

\* The recorded hash is that of the archive the timetable holds, unless a
\* command replaced the file between another's opening and hashing of it.
THEOREM HashDescribes == Spec => []HashDescribesTimetable
<1>1. Inv => HashDescribesTimetable
  BY DEF Inv, DatabaseSound
<1> QED BY <1>1, Invariance, PTL

\* A step that does not touch the database is an attempt, or none at all.
LEMMA OtherStepsAttempt ==
  ASSUME Inv, Inv', db' = db
  PROVE  Timetable!Attempt
<1>1. ({sync[s].opened : s \in Syncs} \ {Nothing})' \subseteq Archives
  <2>1. \A s \in Syncs : sync'[s].opened \in Archives \cup {Nothing}
    BY DEF Inv, TypeOK, Frame
  <2> QED BY <2>1
<1> QED BY <1>1 DEF Timetable!Attempt

\* A commit puts a loaded, hence valid, archive in place, whole.
LEMMA CommitReplaces ==
  ASSUME Inv, NEW s \in Syncs, Commit(s)
  PROVE  Timetable!Replace
<1> DEFINE imports == {sync[t].opened : t \in Syncs} \ {Nothing}
<1>1. sync[s].opened \in Loadable /\ sync[s].opened \in imports
  <2>1. sync[s].opened \in Loadable
    BY DEF Commit, Inv, FrameSound, OpenedSound
  <2> QED BY <2>1, ArchivesAreFiles DEF Loadable
<1>2. db'.timetable = sync[s].opened /\ db'.index = sync[s].opened
  BY DEF Commit, Committed
<1>3. imports' \subseteq imports
  <2>1. \A t \in Syncs : sync'[t].opened = sync[t].opened \/ sync'[t].opened = Nothing
    BY CommitEffect DEF Inv
  <2> QED BY <2>1
<1> QED BY <1>1, <1>2, <1>3 DEF Timetable!Replace

\* Only a commit touches the database.
LEMMA OnlyCommitWrites ==
  ASSUME NEW s \in Syncs, Step(s)
  PROVE  db' = db \/ Commit(s)
  BY DEF Step, Start, ReadActive, Disabled, Fetch, CompareDifferent, CompareUnchanged,
         PublishArchive, OpenArchive, BeginImport, Load, HashArchive,
         ReadCoverage, RereadActive, Report, Fail, Die

\* Import of an archive is atomic: the timetable and the stop index are those
\* of one whole valid archive, or what they were, wherever commands fail.
THEOREM ImplementsAtomicTimetable == Spec => AtomicTimetableSpec
<1>1. Init => Timetable!Init
  BY DEF Init, Timetable!Init, Idle, Nothing
<1>2. Inv /\ Inv' /\ [Next]_vars => [Timetable!Next]_(Timetable!vars)
  <2> SUFFICES ASSUME Inv, Inv', [Next]_vars PROVE [Timetable!Next]_(Timetable!vars)
    OBVIOUS
  <2>1. CASE db' = db
    BY <2>1, OtherStepsAttempt DEF Timetable!Next
  <2>2. CASE db' # db
    <3>1. PICK s \in Syncs : Step(s)
      BY <2>2 DEF Next, Release, vars
    <3> QED BY <2>2, <3>1, OnlyCommitWrites, CommitReplaces DEF Timetable!Next
  <2> QED BY <2>1, <2>2
<1> QED BY <1>1, <1>2, Invariance, PTL DEF Spec, AtomicTimetableSpec, Timetable!Spec

-----------------------------------------------------------------------------
(* What maintenance reports.                                               *)

\* A command that has not finished has no status yet.
StatusSound == \A s \in Syncs : sync[s].pc # "idle" => sync[s].status = "none"

\* A command that goes on is given no status.
LEMMA GotoStatus ==
  ASSUME Inv, NEW s \in Syncs, NEW p \in PCs, NEW f \in Frame,
         f.status = "none", Goto(s, p, f)
  PROVE  /\ \A t \in Syncs \ {s} : sync'[t] = sync[t]
         /\ sync'[s].status = "none"
  BY GotoEffect DEF Inv

\* Nor are those that another one disturbs.
LEMMA ReplaceStatus ==
  ASSUME Inv, NEW s \in Syncs, NEW archive \in Archives \cup {Nothing},
         ReplaceCanonical(s, archive), NEW t \in Syncs
  PROVE  /\ sync'[t].status = sync[t].status
         /\ t # s => sync'[t].pc = sync[t].pc
<1>1. PICK f \in Frame : f = sync[t]
  BY DEF Inv, TypeOK
<1>2. CASE t = s
  <2>1. sync'[t] = [f EXCEPT !.pc = "opening", !.path = "canonical", !.own = Nothing]
    BY <1>1, <1>2 DEF ReplaceCanonical
  <2> QED BY <1>1, <1>2, <2>1 DEF Frame
<1>3. CASE t # s
  <2> DEFINE d == sync[t].disturbed \/
                    (sync[t].path = "canonical" /\
                     sync[t].pc \in {"opening", "beginning", "loading", "sealing"})
  <2>1. sync'[t] = [sync[t] EXCEPT !.disturbed = d]
    BY <1>3 DEF ReplaceCanonical
  <2> HIDE DEF d
  <2>2. sync'[t] = [f EXCEPT !.disturbed = d]
    BY <1>1, <2>1
  <2> QED BY <1>1, <2>2 DEF Frame
<1> QED BY <1>2, <1>3

LEMMA ExitStatus ==
  ASSUME Inv, NEW s \in Syncs,
         NEW status \in {"none", "OK", "UNCHANGED", "DISABLED", "error", "killed"},
         Exit(s, status)
  PROVE  /\ \A t \in Syncs \ {s} : sync'[t] = sync[t]
         /\ sync'[s].pc = "idle" /\ sync'[s].status = status
  BY IdleFrame DEF Inv, TypeOK, Exit

\* Only a report ends in "OK", and only for the command that reports.
LEMMA OnlyReportSaysOk ==
  ASSUME Inv, StatusSound, NEW s \in Syncs, Step(s)
  PROVE  /\ StatusSound'
         /\ \A t \in Syncs : sync[t].pc # "idle" /\ sync'[t].status = "OK"
                            => t = s /\ Report(s)
<1> DEFINE Goal == /\ StatusSound'
                   /\ \A t \in Syncs : sync[t].pc # "idle" /\ sync'[t].status = "OK"
                                      => t = s /\ Report(s)
<1>1. ASSUME NEW p \in PCs, NEW f \in Frame, f.status = "none", Goto(s, p, f)
      PROVE  Goal
  <2>1. /\ \A t \in Syncs \ {s} : sync'[t] = sync[t]
        /\ sync'[s].status = "none"
    BY <1>1, GotoStatus
  <2> QED BY <2>1 DEF StatusSound
<1>2. ASSUME NEW archive \in Archives \cup {Nothing}, ReplaceCanonical(s, archive),
             sync[s].pc # "idle"
      PROVE  Goal
  <2>1. ASSUME NEW t \in Syncs
        PROVE  /\ sync'[t].status = sync[t].status
               /\ t # s => sync'[t].pc = sync[t].pc
    BY <1>2, ReplaceStatus
  <2> QED BY <1>2, <2>1 DEF StatusSound
<1>3. ASSUME NEW status \in {"none", "UNCHANGED", "DISABLED", "error", "killed"},
             Exit(s, status)
      PROVE  Goal
  BY <1>3, ExitStatus DEF StatusSound
<1>4. CASE Report(s)
  <2>1. /\ \A t \in Syncs \ {s} : sync'[t] = sync[t]
        /\ sync'[s].pc = "idle"
    BY <1>4, ExitStatus DEF Report
  <2> QED BY <1>4, <2>1 DEF StatusSound
<1>9. CASE Commit(s)
  <2>1. \A t \in Syncs : sync'[t].status = sync[t].status
    BY <1>9, CommitEffect DEF Inv
  <2>2. \A t \in Syncs \ {s} : sync'[t].pc = sync[t].pc
    BY <1>9, CommitEffect DEF Inv
  <2>3. sync[s].pc # "idle"
    BY <1>9 DEF Commit
  <2> QED BY <2>1, <2>2, <2>3 DEF StatusSound
<1>5. CASE Disabled(s) \/ CompareUnchanged(s) \/ Fail(s) \/ Die(s)
  BY <1>3, <1>5 DEF Disabled, CompareUnchanged, Fail, Die
<1>6. CASE PublishArchive(s) \/ (Fetch(s) /\ ~sync[s].maintain)
  <2>1. sync[s].own \in Archives \cup {Nothing} /\ upstream \in Archives \cup {Nothing}
    BY ArchivesAreFiles DEF Inv, TypeOK, Frame
  <2> QED BY <1>2, <1>6, <2>1 DEF PublishArchive, Fetch
<1>7. CASE Start(s)
  <2>1. PICK maintain \in BOOLEAN, local \in LocalFiles \cup {Nothing} :
        LET path == IF local # Nothing THEN "local"
                    ELSE IF maintain THEN "own" ELSE "canonical"
            next == IF maintain THEN "reading"
                    ELSE IF local # Nothing THEN "opening" ELSE "fetching"
        IN Goto(s, next, [Idle EXCEPT !.maintain = maintain, !.local = local, !.path = path])
    BY <1>7 DEF Start
  <2> DEFINE path == IF local # Nothing THEN "local"
                     ELSE IF maintain THEN "own" ELSE "canonical"
             p == IF maintain THEN "reading"
                  ELSE IF local # Nothing THEN "opening" ELSE "fetching"
             f == [Idle EXCEPT !.maintain = maintain, !.local = local, !.path = path]
  <2>2. f \in Frame /\ f.status = "none"
    BY DEF Idle, Frame
  <2>3. p \in PCs /\ Goto(s, p, f)
    BY <2>1 DEF PCs
  <2> HIDE DEF p, f
  <2> QED BY <1>1, <2>2, <2>3
<1>8. ASSUME sync[s].pc # "idle",
             ReadActive(s) \/ (Fetch(s) /\ sync[s].maintain) \/ CompareDifferent(s)
             \/ OpenArchive(s) \/ BeginImport(s) \/ Load(s) \/ HashArchive(s)
             \/ ReadCoverage(s) \/ RereadActive(s)
      PROVE  Goal
  <2>1. sync[s] \in Frame /\ sync[s].status = "none"
    BY <1>8 DEF Inv, TypeOK, StatusSound
  <2>2. /\ At(sync[s]) \in Archives \cup {Nothing} /\ upstream \in Archives \cup {Nothing}
        /\ db.active \in Archives \cup {Nothing} /\ db.timetable \in Archives \cup {Nothing}
    BY AtType, ArchivesAreFiles DEF Inv, TypeOK
  <2>3. \E p \in PCs : \E f \in Frame : f.status = "none" /\ Goto(s, p, f)
    BY <1>8, <2>1, <2>2, FieldStatus
       DEF ReadActive, Fetch, CompareDifferent, OpenArchive, BeginImport, Load, HashArchive,
           ReadCoverage, RereadActive, PCs
  <2> QED BY <1>1, <2>3
<1> QED BY <1>4, <1>5, <1>6, <1>7, <1>8, <1>9
       DEF Step, ReadActive, Fetch, CompareDifferent, OpenArchive, BeginImport, Load, HashArchive,
           ReadCoverage, RereadActive

\* Maintenance serves the archive whose hash it reports, with the coverage and
\* the active import of that archive, unless another command replaced the
\* canonical file while this one imported it, or committed an import before the
\* report was out.
THEOREM ReportedServed == Spec => ReportedArchiveIsServed
<1> DEFINE Reported(s) ==
      sync[s].maintain /\ sync[s].pc # "idle" /\ sync'[s].status = "OK"
      => \/ sync[s].disturbed \/ sync[s].overtaken
         \/ {db'.timetable, db'.active, sync[s].coverage, sync[s].active} = {sync[s].fetched}
<1>1. Init => StatusSound
  BY DEF Init, StatusSound, Idle
<1>2. ASSUME Inv, StatusSound, [Next]_vars
      PROVE  StatusSound' /\ \A s \in Syncs : Reported(s)
  <2>1. CASE UNCHANGED vars \/ Release
    <3>1. sync' = sync
      BY <2>1 DEF vars, Release
    <3> QED BY <1>2, <3>1 DEF StatusSound
  <2>2. ASSUME NEW t \in Syncs, Step(t)
        PROVE  StatusSound' /\ \A s \in Syncs : Reported(s)
    <3>1. ASSUME Report(t), sync[t].maintain PROVE Reported(t)
      <4>1. sync[t].pc = "reporting" /\ db' = db
        BY <3>1 DEF Report
      <4>2. \/ sync[t].disturbed \/ sync[t].overtaken
            \/ /\ db.timetable = sync[t].fetched /\ db.active = sync[t].fetched
               /\ sync[t].coverage = sync[t].fetched /\ sync[t].active = sync[t].fetched
        BY <1>2, <3>1, <4>1 DEF Inv, FrameSound, ReportSound
      <4> QED BY <4>1, <4>2
    <3> QED BY <1>2, <2>2, <3>1, OnlyReportSaysOk
  <2> QED BY <1>2, <2>1, <2>2 DEF Next
<1>3. Inv /\ StatusSound /\ [Next]_vars => StatusSound'
  BY <1>2
<1>4. Spec => [](Inv /\ StatusSound)
  BY <1>1, <1>3, InitSound, Inductive, PTL DEF Spec
<1>5. Inv /\ StatusSound /\ [Next]_vars => [\A s \in Syncs : Reported(s)]_vars
  BY <1>2
<1> QED BY <1>4, <1>5, PTL DEF Spec, ReportedArchiveIsServed

=============================================================================
