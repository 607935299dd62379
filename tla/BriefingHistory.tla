--------------------------- MODULE BriefingHistory ---------------------------
(***************************************************************************)
(* Personal briefings and their history: App.PersonalBriefing and           *)
(* compareBriefingFacts (internal/service/briefing.go), SaveSnapshot and    *)
(* LastSnapshot (internal/storage/profiles.go), PruneHistory and            *)
(* DeleteBriefingHistory (internal/storage/retention.go).                   *)
(*                                                                         *)
(* Briefings run side by side, in one process or in several.  A briefing    *)
(* gathers facts section by section from the sources, compares them with    *)
(* the last snapshot of its profile and saves them, each in a statement of  *)
(* its own.  A section's facts are items under stable keys, each with what  *)
(* is compared of it.                                                       *)
(***************************************************************************)
EXTENDS Integers, FiniteSets, Sequences, TLC

CONSTANTS
    Briefings,      \* calls of PersonalBriefing, any number in a row each
    Profiles,       \* briefing profiles
    NoProfile,      \* the profile of a briefing that has not begun
    Sections,       \* departures, velov, journey, mobility, environment
    Items,          \* keys of briefingItems
    Values,         \* what equalBriefingValue tells apart
    Moments,        \* what input.At, or the clock in whole seconds, may say
    NoMoment,       \* the moment of a briefing that has not begun
    MaxCount,       \* BriefingMaxCount; 0 is no limit
    Second,         \* ticks of the clock in time.Second
    Units,          \* ticks in one of each digit of a second's fraction, and Second
    MaxTime,        \* bound on the clock
    MaxRows         \* bound on the snapshots held at a time

ASSUME PolicyAssumption == MaxCount \in Nat
ASSUME ClockAssumption ==
    /\ Second \in Nat \ {0} /\ MaxTime \in Nat
    /\ Units \subseteq 1 .. Second /\ {1, Second} \subseteq Units
    /\ \A u, v \in Units : u < v => v % u = 0

VARIABLES
    clock,      \* the wall clock, in ticks
    rows,       \* briefing_snapshots in the order of their ids
    brief,      \* the briefings' frames
    report,     \* the comparison that was just made, for the briefing's answer
    crowded     \* history: two saves of one profile have overlapped, or were
                \* captured at two moments whose texts are not in their order

vars == <<clock, rows, brief, report, crowded>>

\* facts[section], when it is there: its items.
Contents == [present : {TRUE}, items : UNION {[K -> Values] : K \in SUBSET Items}]
Nothing == [present |-> TRUE, items |-> <<>>]
Absent == [present |-> FALSE, items |-> <<>>]

Facts == [Sections -> Contents \cup {Absent}]
NoFacts == [s \in Sections |-> Absent]

\* The columns of a row, without its id.  "at" is a part of the payload.
Row == [profile : Profiles, captured : 0 .. MaxTime, at : Moments, facts : Facts]

Change == [section : Sections, kind : {"evidence_lost"}]
     \cup [section : Sections, kind : {"added", "updated", "removed"}, item : Items]

Idle == [pc |-> "idle", profile |-> NoProfile, at |-> NoMoment, facts |-> NoFacts,
         captured |-> 0, disturbed |-> FALSE]

NoReport == [previous |-> NoFacts, facts |-> NoFacts, answered |-> {}, changes |-> {}]

Frame == [pc : {"saving", "inserting"}, profile : Profiles, at : Moments, facts : Facts,
          captured : 0 .. MaxTime, disturbed : BOOLEAN]

Report == [previous : Facts, facts : Facts, answered : SUBSET Sections, changes : SUBSET Change]

TypeOK ==
    /\ clock \in 0 .. MaxTime
    /\ rows \in Seq(Row)
    /\ brief \in [Briefings -> Frame \cup {Idle}]
    /\ report \in Report
    /\ crowded \in BOOLEAN

Init ==
    /\ clock = 0 /\ rows = <<>> /\ report = NoReport /\ crowded = FALSE
    /\ brief = [b \in Briefings |-> Idle]

\* Some positions from the first to the last.
Ascending(positions) ==
    CHOOSE order \in [1 .. Cardinality(positions) -> positions] :
        \A m, n \in DOMAIN order : m < n => order[m] < order[n]

\* The rows at these positions, in their order.
Kept(positions) ==
    [n \in 1 .. Cardinality(positions) |-> rows[Ascending(positions)[n]]]

RowsOf(p) == {n \in DOMAIN rows : rows[n].profile = p}

\* ORDER BY id DESC LIMIT 1.
Newest(positions) == CHOOSE n \in positions : \A m \in positions : m <= n

-----------------------------------------------------------------------------
(* compareBriefingFacts.                                                   *)

ItemKind(old, new, item) ==
    IF item \notin DOMAIN new.items THEN "removed"
    ELSE IF item \notin DOMAIN old.items THEN "added"
    ELSE IF new.items[item] # old.items[item] THEN "updated"
    ELSE "same"

\* Mutant: an item under a known key is not looked into.
CompareFactsByKey(old, new) ==
    {[section |-> s, kind |-> "evidence_lost"] :
        s \in {s \in Sections : old[s].present /\ ~new[s].present}}
    \cup UNION {{[section |-> s, kind |-> ItemKind(old[s], new[s], item), item |-> item] :
                    item \in (DOMAIN old[s].items \ DOMAIN new[s].items)
                             \cup (DOMAIN new[s].items \ DOMAIN old[s].items)} :
                s \in {s \in Sections : old[s].present /\ new[s].present}}

\* Every change; the list is cut at fifty, and says so.
CompareFacts(old, new) ==
    {[section |-> s, kind |-> "evidence_lost"] :
        s \in {s \in Sections : old[s].present /\ ~new[s].present}}
    \cup UNION {{[section |-> s, kind |-> ItemKind(old[s], new[s], item), item |-> item] :
                    item \in {item \in DOMAIN old[s].items \cup DOMAIN new[s].items :
                                 ItemKind(old[s], new[s], item) # "same"}} :
                s \in {s \in Sections : old[s].present /\ new[s].present}}

-----------------------------------------------------------------------------
(* PersonalBriefing.                                                       *)

\* What ends up in facts for a section: nothing when the profile does not ask
\* for it or its place is unknown; no items when its source is down; else
\* what the source answered.
Gathered == {[content |-> Absent, answered |-> FALSE], [content |-> Nothing, answered |-> FALSE]}
            \cup [content : Contents, answered : {TRUE}]

\* The briefing as far as SaveSnapshot: profile, commute and places are read,
\* the facts gathered, and LastSnapshot and compareBriefingFacts run if asked
\* for.  LastSnapshot may fail, which is a warning.
Brief(b) ==
    /\ brief[b].pc = "idle"
    /\ \E p \in Profiles, at \in Moments, got \in [Sections -> Gathered] :
        LET facts == [s \in Sections |-> got[s].content]
            old == rows[Newest(RowsOf(p))].facts
        IN /\ brief' = [brief EXCEPT ![b] =
                            [pc |-> "saving", profile |-> p, at |-> at, facts |-> facts,
                             captured |-> 0, disturbed |-> FALSE]]
           /\ \/ report' = NoReport
              \/ /\ RowsOf(p) # {}
                 /\ report' = [previous |-> old, facts |-> facts,
                               answered |-> {s \in Sections : got[s].answered},
                               changes |-> CompareFacts(old, facts)]
    /\ UNCHANGED <<clock, rows, crowded>>

\* Mutant: the payloads are compared as they are, request times included.
AlreadySavedRaw(p, at, facts) == FALSE

\* Mutant: any profile's last snapshot will do.
AlreadySavedAnywhere(p, at, facts) ==
    /\ rows # <<>>
    /\ rows[Len(rows)].at = at /\ rows[Len(rows)].facts = facts

\* canonicalSnapshotJSON of the payload and of the last snapshot's are equal.
\* It drops what changes with every request, but not "at".
AlreadySaved(p, at, facts) ==
    /\ RowsOf(p) # {}
    /\ rows[Newest(RowsOf(p))].at = at /\ rows[Newest(RowsOf(p))].facts = facts

\* SaveSnapshot reads the last snapshot; identical facts are not saved again.
SkipSave(b) ==
    /\ brief[b].pc = "saving"
    /\ AlreadySaved(brief[b].profile, brief[b].at, brief[b].facts)
    /\ brief' = [brief EXCEPT ![b] = Idle]
    /\ report' = NoReport
    /\ UNCHANGED <<clock, rows, crowded>>

\* SaveSnapshot reads another snapshot or none, and the clock; then it waits
\* for the connection and the write lock.
BeginSave(b) ==
    /\ brief[b].pc = "saving"
    /\ ~AlreadySaved(brief[b].profile, brief[b].at, brief[b].facts)
    /\ brief' = [brief EXCEPT ![b].pc = "inserting", ![b].captured = clock]
    /\ report' = NoReport
    /\ UNCHANGED <<clock, rows, crowded>>

\* Marks the briefings that are between their read and their insert.
Disturbed(p, b) ==
    [a \in Briefings |->
        IF a = b THEN Idle
        ELSE [brief[a] EXCEPT !.disturbed =
                @ \/ (brief[a].pc = "inserting" /\ brief[a].profile = p)]]

\* The unit of the last digit in the text of a moment (time.RFC3339Nano): the
\* zeros at the end of the fraction, or all of it, are left out.
Unit(t) == CHOOSE u \in Units : t % u = 0 /\ \A v \in Units : t % v = 0 => v <= u

\* The text of t sorts after that of u.  The "Z" that ends a text sorts after
\* every digit and after the point, with which the other goes on.
Later(t, u) == IF t < u THEN u < t + Unit(t) ELSE t >= u + Unit(u)

\* Two moments whose texts are not in their order.
Near(t, u) == (t < u /\ Later(t, u)) \/ (u < t /\ Later(u, t))

\* The INSERT of SaveSnapshot.
Insert(b) ==
    /\ brief[b].pc = "inserting"
    /\ Len(rows) < MaxRows
    /\ rows' = Append(rows, [profile |-> brief[b].profile, captured |-> brief[b].captured,
                             at |-> brief[b].at, facts |-> brief[b].facts])
    /\ brief' = Disturbed(brief[b].profile, b)
    /\ crowded' = (crowded \/ brief[b].disturbed \/
                     \E n \in RowsOf(brief[b].profile) : Near(rows[n].captured, brief[b].captured))
    /\ report' = NoReport
    /\ UNCHANGED clock

\* Either statement of SaveSnapshot fails (a warning), or the process dies.
SaveFails(b) ==
    /\ brief[b].pc # "idle"
    /\ brief' = [brief EXCEPT ![b] = Idle]
    /\ report' = NoReport
    /\ UNCHANGED <<clock, rows, crowded>>

-----------------------------------------------------------------------------
(* Retention.                                                              *)

\* Captured at the cutoff or after it, by the text.
Recent(cutoff) == {n \in DOMAIN rows : ~Later(cutoff, rows[n].captured)}

\* ORDER BY captured_at DESC, id DESC: m comes before n.
Precedes(m, n) ==
    \/ Later(rows[m].captured, rows[n].captured)
    \/ rows[m].captured = rows[n].captured /\ m > n

\* Mutant: the oldest are kept.
RetainedOldest(cutoff) ==
    {n \in Recent(cutoff) : MaxCount = 0 \/
        Cardinality({m \in Recent(cutoff) :
            rows[m].profile = rows[n].profile /\ Precedes(n, m)}) < MaxCount}

\* What both limits leave, the count being one for each profile.
Retained(cutoff) ==
    {n \in Recent(cutoff) : MaxCount = 0 \/
        Cardinality({m \in Recent(cutoff) :
            rows[m].profile = rows[n].profile /\ Precedes(m, n)}) < MaxCount}

\* PruneHistory: at the start of every process, and "history prune".  The age
\* limit is in days and may be off: the cutoff is any time that has passed.
Prune ==
    \E cutoff \in 0 .. clock :
        /\ Retained(cutoff) # DOMAIN rows
        /\ rows' = Kept(Retained(cutoff))
        /\ report' = NoReport
        /\ UNCHANGED <<clock, brief, crowded>>

\* DeleteBriefingHistory: "history delete --profile".
Delete(p) ==
    /\ RowsOf(p) # {}
    /\ rows' = Kept(DOMAIN rows \ RowsOf(p))
    /\ report' = NoReport
    /\ UNCHANGED <<clock, brief, crowded>>

Tick ==
    /\ clock < MaxTime
    /\ clock' = clock + 1
    /\ report' = NoReport
    /\ UNCHANGED <<rows, brief, crowded>>

Step(b) ==
    \/ Brief(b) \/ SkipSave(b) \/ BeginSave(b) \/ Insert(b) \/ SaveFails(b)

Next ==
    \/ \E b \in Briefings : Step(b)
    \/ Prune \/ (\E p \in Profiles : Delete(p)) \/ Tick

Spec == Init /\ [][Next]_vars

Symmetry == Permutations(Briefings) \cup Permutations(Profiles)
            \cup Permutations(Values) \cup Permutations(Moments)

-----------------------------------------------------------------------------
(* Properties.                                                             *)

\* The items of a section once its reported changes are made to the baseline.
Patched(old, new, s, changes) ==
    LET of(kind) == {c.item : c \in {c \in changes : c.section = s /\ c.kind = kind}}
        gone == of("removed")
        come == of("added") \cup of("updated")
    IN [item \in (DOMAIN old.items \ gone) \cup come |->
            IF item \in come THEN new.items[item] ELSE old.items[item]]

\* The changes that a briefing reports lead from the snapshot it compared with
\* to its facts, in every section that both have; and exactly the sections it
\* has lost are reported as lost (docs/tools.md:317).
ChangesExplainDifference ==
    \A s \in Sections :
        LET old == report.previous[s]
            new == report.facts[s]
            lost == \E c \in report.changes : c.section = s /\ c.kind = "evidence_lost"
        IN /\ old.present /\ new.present => Patched(old, new, s, report.changes) = new.items
           /\ lost <=> old.present /\ ~new.present

\* Two snapshots of one profile that follow each other differ, as long as no
\* two saves of a profile were crowded: neither retention nor deletion brings
\* equal ones together.
SnapshotsAlternate ==
    crowded \/
    \A n \in DOMAIN rows :
        LET before == {m \in RowsOf(rows[n].profile) : m < n} IN
        before # {} =>
            \/ rows[Newest(before)].facts # rows[n].facts
            \/ rows[Newest(before)].at # rows[n].at

\* Retention never takes the baseline of the next comparison and leaves an
\* older snapshot in its place, although the one orders by the text of the time
\* and the other by id, as long as no two saves of a profile were crowded.
PruningKeepsNewest ==
    [][~crowded /\ rows' # rows /\ Prune =>
          \A p \in Profiles : RowsOf(p) # {} =>
             \/ \E n \in DOMAIN rows' :
                    /\ rows'[n] = rows[Newest(RowsOf(p))]
                    /\ \A m \in DOMAIN rows' : rows'[m].profile = p => m <= n
             \/ \A m \in DOMAIN rows' : rows'[m].profile # p]_vars

\* A briefing that ends without a warning about its history has its facts in
\* the last snapshot of its profile: what the user was told last is what the
\* next briefing is compared with.
ReportedFactsAreBaseline ==
    [][\A b \in Briefings :
          SkipSave(b) \/ Insert(b) =>
             LET own == {n \in DOMAIN rows' : rows'[n].profile = brief[b].profile} IN
             own # {} /\ rows'[Newest(own)].facts = brief[b].facts]_vars

\* "They distinguish additions, removals, meaningful updates, and lost
\* evidence" (docs/tools.md:317): an item is reported as removed only if the
\* source answered, and without it.
RemovalsAreObserved ==
    \A c \in report.changes : c.kind = "removed" => c.section \in report.answered

\* "Identical briefing facts do not create duplicate snapshots"
\* (docs/operations.md:130).
IdenticalFactsStoredOnce ==
    [][\A b \in Briefings :
          Insert(b) /\ ~brief[b].disturbed /\ RowsOf(brief[b].profile) # {} =>
             rows[Newest(RowsOf(brief[b].profile))].facts # brief[b].facts]_vars

=============================================================================
