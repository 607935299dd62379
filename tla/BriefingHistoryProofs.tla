------------------------ MODULE BriefingHistoryProofs -------------------------
(***************************************************************************)
(* Theorems about BriefingHistory, for any briefings, profiles, sections,   *)
(* items and values, any limit of retention and any clock.                  *)
(***************************************************************************)
EXTENDS BriefingHistory, FiniteSetTheorems, NaturalsInduction, TLAPS

-----------------------------------------------------------------------------
(* Sets of positions.                                                      *)

\* A set of natural numbers has a least one.
LEMMA Least ==
  ASSUME NEW S \in SUBSET Nat, S # {}
  PROVE  \E x \in S : \A y \in S : x <= y
<1>1. IsWellFoundedOn(OpToRel(<, Nat), Nat)
  BY NatLessThanWellFounded
<1>2. PICK x \in S : \A y \in S : ~(<<y, x>> \in OpToRel(<, Nat))
  BY <1>1, WFMin
<1>3. \A y \in S : ~(y < x)
  BY <1>2 DEF OpToRel
<1> QED  BY <1>3

\* And a bounded one a greatest.
LEMMA Greatest ==
  ASSUME NEW n \in Nat, NEW S \in SUBSET (1 .. n), S # {}
  PROVE  \E x \in S : \A y \in S : y <= x
<1> DEFINE T == {n - y : y \in S}
<1>0. \A y \in S : y \in 1 .. n /\ n - y \in Nat
  OBVIOUS
<1>1. T \in SUBSET Nat /\ T # {}
  BY <1>0
<1>2. PICK t \in T : \A u \in T : t <= u
  BY <1>1, Least
<1>3. PICK x \in S : t = n - x
  OBVIOUS
<1>4. \A y \in S : n - x <= n - y
  BY <1>2, <1>3
<1> QED  BY <1>0, <1>4

\* Newest is the last of some positions.
LEMMA NewestIsLast ==
  ASSUME NEW n \in Nat, NEW S \in SUBSET (1 .. n), S # {}
  PROVE  /\ Newest(S) \in S /\ \A y \in S : y <= Newest(S)
         /\ \A x \in S : (\A y \in S : y <= x) => Newest(S) = x
<1>1. Newest(S) \in S /\ \A y \in S : y <= Newest(S)
  BY Greatest DEF Newest
<1>2. ASSUME NEW x \in S, \A y \in S : y <= x
      PROVE  Newest(S) = x
  <2>1. PICK z : z = Newest(S)
    OBVIOUS
  <2>2. z \in 1 .. n /\ x \in 1 .. n /\ z <= x /\ x <= z
    BY <1>1, <1>2, <2>1
  <2> QED  BY <2>1, <2>2
<1> QED  BY <1>1, <1>2

Increasing(f) == \A m, n \in DOMAIN f : m < n => f[m] < f[n]

\* Some positions can be counted from the first to the last.
LEMMA AscendingExists ==
  ASSUME NEW k \in Nat, NEW P \in SUBSET (1 .. k)
  PROVE  \E f \in [1 .. Cardinality(P) -> P] : Increasing(f)
<1> DEFINE Ordered(Q) == \E f \in [1 .. Cardinality(Q) -> Q] : Increasing(f)
           Bad == {j \in Nat : \E Q \in SUBSET (1 .. j) : ~Ordered(Q)}
<1>1. Bad = {}
  <2> SUFFICES ASSUME Bad # {} PROVE FALSE
    OBVIOUS
  <2>1. PICK j \in Bad : \A i \in Bad : j <= i
    BY Least
  <2>2. PICK Q \in SUBSET (1 .. j) : ~Ordered(Q)
    BY <2>1
  <2>3. j \in Nat
    BY <2>1
  <2>4. CASE j = 0
    <3>0. Q = {}
      BY <2>4
    <3>1. Q = {} /\ Cardinality(Q) = 0
      BY <3>0, FS_EmptySet
    <3>2. [x \in {} |-> x] \in [1 .. Cardinality(Q) -> Q]
      BY <3>1
    <3>3. Increasing([x \in {} |-> x])
      BY DEF Increasing
    <3> QED  BY <2>2, <3>2, <3>3
  <2>5. CASE j # 0
    <3> DEFINE R == Q \ {j}
    <3>1. j - 1 \in Nat /\ R \in SUBSET (1 .. j - 1)
      BY <2>3, <2>5
    <3>2. Ordered(R)
      <4>1. j - 1 \notin Bad
        <5>1. ~(j <= j - 1)
          BY <2>3
        <5> QED  BY <2>1, <5>1
      <4> QED  BY <3>1, <4>1
    <3>3. IsFiniteSet(Q)
      <4>1. IsFiniteSet(1 .. j)
        BY <2>3, FS_Interval
      <4> QED  BY <4>1, FS_Subset
    <3>4. j \in Q
      <4>1. CASE j \notin Q
        BY <2>2, <3>2, <4>1
      <4> QED  BY <4>1
    <3>5. PICK c \in Nat : Cardinality(R) = c /\ Cardinality(Q) = c + 1
      <4>1. IsFiniteSet(R) /\ Cardinality(R) = Cardinality(Q) - 1
        BY <3>3, <3>4, FS_RemoveElement
      <4>2. Cardinality(R) \in Nat /\ Cardinality(Q) \in Nat
        BY <3>3, <4>1, FS_CardinalityType
      <4> QED  BY <4>1, <4>2
    <3>6. PICK f \in [1 .. c -> R] : Increasing(f)
      BY <3>2, <3>5
    <3> DEFINE g == [i \in 1 .. c + 1 |-> IF i = c + 1 THEN j ELSE f[i]]
    <3>7. g \in [1 .. c + 1 -> Q]
      BY <3>4
    <3>8. Increasing(g)
      <4> SUFFICES ASSUME NEW m \in 1 .. c + 1, NEW n \in 1 .. c + 1, m < n
                   PROVE  g[m] < g[n]
        BY DEF Increasing
      <4>0. m \in 1 .. c /\ m # c + 1
        OBVIOUS
      <4>1. f[m] \in 1 .. j - 1 /\ g[m] = f[m]
        BY <3>1, <3>6, <4>0
      <4>2. CASE n = c + 1
        BY <2>3, <4>1, <4>2
      <4>3. CASE n # c + 1
        <5>1. n \in 1 .. c /\ g[n] = f[n]
          BY <4>3
        <5> QED  BY <3>6, <4>0, <4>1, <5>1 DEF Increasing
      <4> QED  BY <4>2, <4>3
    <3> QED  BY <2>2, <3>5, <3>7, <3>8
  <2> QED  BY <2>4, <2>5
<1>2. Ordered(P)
  BY <1>1
<1> QED  BY <1>2

\* How a counting of positions behaves: it is onto, and keeps the order both ways.
Counts(f, c, P) ==
    /\ c \in Nat /\ f \in [1 .. c -> P]
    /\ \A m, n \in 1 .. c : m < n <=> f[m] < f[n]
    /\ \A k \in P : \E n \in 1 .. c : f[n] = k

LEMMA AscendingCounts ==
  ASSUME NEW k \in Nat, NEW P \in SUBSET (1 .. k)
  PROVE  Counts(Ascending(P), Cardinality(P), P)
<1>1. IsFiniteSet(P)
  <2>1. IsFiniteSet(1 .. k)
    BY FS_Interval
  <2> QED  BY <2>1, FS_Subset
<1>2. PICK c \in Nat : c = Cardinality(P)
  BY <1>1, FS_CardinalityType
<1>3. PICK f : f = Ascending(P)
  OBVIOUS
<1>4. f \in [1 .. c -> P] /\ Increasing(f)
  BY <1>2, <1>3, AscendingExists DEF Ascending, Increasing
<1>5. \A m, n \in 1 .. c : m < n <=> f[m] < f[n]
  <2> SUFFICES ASSUME NEW m \in 1 .. c, NEW n \in 1 .. c
               PROVE  m < n <=> f[m] < f[n]
    OBVIOUS
  <2>1. f[m] \in 1 .. k /\ f[n] \in 1 .. k
    BY <1>4
  <2>2. m < n => f[m] < f[n]
    BY <1>4 DEF Increasing
  <2>3. n < m => f[n] < f[m]
    BY <1>4 DEF Increasing
  <2>4. m = n => f[m] = f[n]
    OBVIOUS
  <2> QED  BY <2>1, <2>2, <2>3, <2>4
<1>6. \A m, n \in 1 .. c : f[m] = f[n] => m = n
  BY <1>4, <1>5
<1>7. IsFiniteSet(1 .. c) /\ Cardinality(1 .. c) = c
  BY FS_Interval
<1>8. f \in Injection(1 .. c, P)
  BY <1>4, <1>6 DEF Injection, IsInjective
<1>9. f \in Surjection(1 .. c, P)
  BY <1>1, <1>2, <1>7, <1>8, FS_Injection
<1>10. \A x \in P : \E n \in 1 .. c : f[n] = x
  BY <1>9 DEF Surjection
<1> QED  BY <1>2, <1>3, <1>4, <1>5, <1>10 DEF Counts

-----------------------------------------------------------------------------
(* Types.                                                                  *)

\* The rows that are kept are rows as before, counted anew.
LEMMA KeptCounts ==
  ASSUME rows \in Seq(Row), NEW P \in SUBSET DOMAIN rows
  PROVE  /\ Kept(P) \in Seq(Row)
         /\ \E f, c : /\ Counts(f, c, P) /\ DOMAIN Kept(P) = 1 .. c
                      /\ \A n \in 1 .. c : Kept(P)[n] = rows[f[n]]
<1>1. PICK k \in Nat : k = Len(rows) /\ DOMAIN rows = 1 .. k /\ rows \in [1 .. k -> Row]
  OBVIOUS
<1>2. PICK f, c : f = Ascending(P) /\ c = Cardinality(P) /\ Counts(f, c, P)
  BY <1>1, AscendingCounts
<1>3. c \in Nat /\ f \in [1 .. c -> P]
  BY <1>2 DEF Counts
<1>4. Kept(P) = [n \in 1 .. c |-> rows[f[n]]]
  BY <1>2 DEF Kept
<1>5. Kept(P) \in [1 .. c -> Row]
  BY <1>1, <1>3, <1>4
<1>6. Kept(P) \in Seq(Row)
  BY <1>3, <1>5
<1> QED  BY <1>2, <1>4, <1>6

LEMMA ContentsTyped ==
  /\ Nothing \in Contents
  /\ NoFacts \in Facts
  /\ \A content \in Contents \cup {Absent} :
       content.present \in BOOLEAN /\ DOMAIN content.items \subseteq Items
<1>1. <<>> \in [{} -> Values]
  OBVIOUS
<1>2. Nothing \in Contents
  BY <1>1 DEF Nothing, Contents
<1>3. NoFacts \in Facts
  BY DEF NoFacts, Facts
<1>4. ASSUME NEW content \in Contents \cup {Absent}
      PROVE  content.present \in BOOLEAN /\ DOMAIN content.items \subseteq Items
  <2>1. CASE content = Absent
    <3>1. DOMAIN Absent.items = {}
      BY DEF Absent
    <3> QED  BY <2>1, <3>1 DEF Absent
  <2>2. CASE content \in Contents
    BY <2>2 DEF Contents
  <2> QED  BY <2>1, <2>2
<1> QED  BY <1>2, <1>3, <1>4

LEMMA CompareFactsTyped ==
  ASSUME NEW old \in Facts, NEW new \in Facts
  PROVE  CompareFacts(old, new) \in SUBSET Change
<1> SUFFICES ASSUME NEW change \in CompareFacts(old, new) PROVE change \in Change
  OBVIOUS
<1>1. CASE \E s \in Sections : change = [section |-> s, kind |-> "evidence_lost"]
  BY <1>1 DEF Change
<1>2. CASE \E s \in Sections, item \in Items :
              /\ change = [section |-> s, kind |-> ItemKind(old[s], new[s], item), item |-> item]
              /\ ItemKind(old[s], new[s], item) # "same"
  <2>1. PICK s \in Sections, item \in Items :
              /\ change = [section |-> s, kind |-> ItemKind(old[s], new[s], item), item |-> item]
              /\ ItemKind(old[s], new[s], item) # "same"
    BY <1>2
  <2>2. PICK kind : kind = ItemKind(old[s], new[s], item)
    OBVIOUS
  <2>3. kind \in {"added", "updated", "removed"}
    BY <2>1, <2>2 DEF ItemKind
  <2> QED  BY <2>1, <2>2, <2>3 DEF Change
<1>3. \A s \in Sections : DOMAIN old[s].items \cup DOMAIN new[s].items \subseteq Items
  BY ContentsTyped DEF Facts
<1> QED  BY <1>1, <1>2, <1>3 DEF CompareFacts

LEMMA InitTyped == Init => TypeOK
<1> SUFFICES ASSUME Init PROVE TypeOK
  OBVIOUS
<1>1. clock \in 0 .. MaxTime
  BY ClockAssumption DEF Init
<1>2. report \in Report
  BY ContentsTyped DEF Init, NoReport, Report
<1>3. brief \in [Briefings -> Frame \cup {Idle}]
  BY DEF Init
<1>4. <<>> \in Seq(Row)
  OBVIOUS
<1> QED  BY <1>1, <1>2, <1>3, <1>4 DEF Init, TypeOK

\* What a frame may become: one that is idle, or one between its steps.
LEMMA FrameTyped ==
  ASSUME TypeOK, NEW b \in Briefings, NEW frame \in Frame \cup {Idle},
         brief' = [brief EXCEPT ![b] = frame]
  PROVE  brief' \in [Briefings -> Frame \cup {Idle}]
  BY DEF TypeOK

LEMMA NoReportTyped ==
  ASSUME TypeOK, \/ report' = NoReport \/ UNCHANGED report
  PROVE  report' \in Report
  BY ContentsTyped DEF NoReport, Report, TypeOK

\* The last snapshot of a profile.
LEMMA LastOfProfile ==
  ASSUME TypeOK, NEW p, RowsOf(p) # {}
  PROVE  \E n \in DOMAIN rows :
            /\ Newest(RowsOf(p)) = n /\ rows[n] \in Row /\ rows[n].profile = p
            /\ \A m \in DOMAIN rows : rows[m].profile = p => m <= n
<1>1. PICK k \in Nat : k = Len(rows) /\ DOMAIN rows = 1 .. k /\ rows \in [1 .. k -> Row]
  BY DEF TypeOK
<1>2. RowsOf(p) \in SUBSET (1 .. k)
  BY <1>1 DEF RowsOf
<1>3. Newest(RowsOf(p)) \in RowsOf(p) /\ \A m \in RowsOf(p) : m <= Newest(RowsOf(p))
  BY <1>2, NewestIsLast
<1> QED  BY <1>1, <1>3 DEF RowsOf

\* A briefing begins: its frame and its report.
LEMMA BriefEffect ==
  ASSUME TypeOK, NEW b \in Briefings, Brief(b)
  PROVE  /\ \E frame \in Frame : /\ brief' = [brief EXCEPT ![b] = frame]
                                 /\ frame.pc = "saving" /\ frame.captured = 0
         /\ \/ report' = NoReport
            \/ \E old \in Facts, new \in Facts : \E answered \in SUBSET Sections :
                  report' = [previous |-> old, facts |-> new, answered |-> answered,
                             changes |-> CompareFacts(old, new)]
         /\ UNCHANGED <<clock, rows, crowded>>
<1>1. PICK p \in Profiles, at \in Moments, got \in [Sections -> Gathered] :
        LET facts == [s \in Sections |-> got[s].content]
            old == rows[Newest(RowsOf(p))].facts
        IN /\ brief' = [brief EXCEPT ![b] =
                            [pc |-> "saving", profile |-> p, at |-> at, facts |-> facts,
                             captured |-> 0, disturbed |-> FALSE]]
           /\ \/ report' = NoReport
              \/ /\ RowsOf(p) # {}
                 /\ report' = [previous |-> old, facts |-> facts,
                               answered |-> {s \in Sections : got[s].answered},
                               changes |-> CompareFacts(old, facts)]
  BY DEF Brief
<1>2. PICK facts : facts = [s \in Sections |-> got[s].content]
  OBVIOUS
<1>3. ASSUME NEW s \in Sections PROVE got[s].content \in Contents \cup {Absent}
  <2>1. got[s] \in Gathered
    OBVIOUS
  <2>2. CASE got[s] \in [content : Contents, answered : {TRUE}]
    BY <2>2
  <2>3. CASE got[s] = [content |-> Absent, answered |-> FALSE]
    BY <2>3
  <2>4. CASE got[s] = [content |-> Nothing, answered |-> FALSE]
    BY <2>4, ContentsTyped
  <2> QED  BY <2>1, <2>2, <2>3, <2>4 DEF Gathered
<1>4. facts \in Facts
  BY <1>2, <1>3 DEF Facts
<1>5. PICK frame : frame = [pc |-> "saving", profile |-> p, at |-> at, facts |-> facts,
                            captured |-> 0, disturbed |-> FALSE]
  OBVIOUS
<1>6. frame \in Frame
  BY <1>4, <1>5, ClockAssumption DEF Frame
<1>7. brief' = [brief EXCEPT ![b] = frame]
  BY <1>1, <1>2, <1>5
<1>8. ASSUME report' # NoReport
      PROVE  \E old \in Facts, new \in Facts : \E answered \in SUBSET Sections :
                report' = [previous |-> old, facts |-> new, answered |-> answered,
                           changes |-> CompareFacts(old, new)]
  <2>1. RowsOf(p) # {}
    BY <1>1, <1>8
  <2>2. PICK old : old = rows[Newest(RowsOf(p))].facts
    OBVIOUS
  <2>3. old \in Facts
    BY <2>1, <2>2, LastOfProfile DEF Row
  <2>4. PICK answered : answered = {s \in Sections : got[s].answered}
    OBVIOUS
  <2>5. answered \in SUBSET Sections
    BY <2>4
  <2>6. report' = [previous |-> old, facts |-> facts, answered |-> answered,
                   changes |-> CompareFacts(old, facts)]
    BY <1>1, <1>2, <1>8, <2>2, <2>4
  <2> QED  BY <1>4, <2>3, <2>5, <2>6
<1> QED  BY <1>5, <1>6, <1>7, <1>8 DEF Brief

\* What is left of a frame when another of profile p has been inserted: all of it
\* but its mark, which it has had, and which is set if it waits for its insert.
Marked(frame, old, p) ==
    /\ frame.pc = old.pc /\ frame.profile = old.profile /\ frame.at = old.at
    /\ frame.facts = old.facts /\ frame.captured = old.captured
    /\ frame.disturbed = FALSE =>
         old.disturbed = FALSE /\ (old.pc = "inserting" => old.profile # p)

LEMMA DisturbedTyped ==
  ASSUME TypeOK, NEW p, NEW b
  PROVE  /\ Disturbed(p, b) \in [Briefings -> Frame \cup {Idle}]
         /\ \A a \in Briefings :
              Disturbed(p, b)[a] = Idle \/ Marked(Disturbed(p, b)[a], brief[a], p)
<1> SUFFICES ASSUME NEW a \in Briefings
             PROVE  /\ Disturbed(p, b)[a] \in Frame \cup {Idle}
                    /\ Disturbed(p, b)[a] = Idle \/ Marked(Disturbed(p, b)[a], brief[a], p)
  BY DEF Disturbed
<1>1. brief[a] \in Frame \cup {Idle}
  BY DEF TypeOK
<1>2. CASE a = b
  BY <1>2 DEF Disturbed
<1>3. CASE a # b /\ brief[a] = Idle
  <2>1. PICK d \in BOOLEAN :
           d = (Idle.disturbed \/ (Idle.pc = "inserting" /\ Idle.profile = p))
    OBVIOUS
  <2>2. Disturbed(p, b)[a] = [Idle EXCEPT !.disturbed = d]
    BY <1>3, <2>1 DEF Disturbed
  <2>3. d = FALSE
    BY <2>1 DEF Idle
  <2> QED  BY <2>2, <2>3 DEF Idle
<1>4. CASE a # b /\ brief[a] \in Frame
  <2>1. PICK mark \in BOOLEAN : mark <=> brief[a].pc = "inserting" /\ brief[a].profile = p
    OBVIOUS
  <2>2. PICK d \in BOOLEAN : d = (brief[a].disturbed \/ mark)
    OBVIOUS
  <2>3. Disturbed(p, b)[a] = [brief[a] EXCEPT !.disturbed = d]
    BY <1>4, <2>1, <2>2 DEF Disturbed
  <2>4. Disturbed(p, b)[a] = [pc |-> brief[a].pc, profile |-> brief[a].profile, at |-> brief[a].at,
                              facts |-> brief[a].facts, captured |-> brief[a].captured,
                              disturbed |-> d]
    BY <1>4, <2>3 DEF Frame
  <2> QED  BY <1>4, <2>1, <2>2, <2>4 DEF Frame, Marked
<1> QED  BY <1>1, <1>2, <1>3, <1>4

-----------------------------------------------------------------------------
(* The invariant.                                                          *)

Differ(r, t) == r.facts # t.facts \/ r.at # t.at

\* Nothing was captured later than now.
Stamped ==
    /\ \A n \in DOMAIN rows : rows[n].captured <= clock
    /\ \A b \in Briefings : brief[b].captured <= clock

ReportSound == report.changes = CompareFacts(report.previous, report.facts)

\* The ids of a profile's rows agree with their moments, and these with their
\* texts.
InOrder ==
    \A m, n \in DOMAIN rows : m < n /\ rows[m].profile = rows[n].profile =>
        rows[m].captured <= rows[n].captured /\ ~Near(rows[m].captured, rows[n].captured)

\* n is the next row of its profile after m.
Follows(m, n) ==
    /\ m < n /\ rows[m].profile = rows[n].profile
    /\ \A k \in DOMAIN rows : m < k /\ k < n => rows[k].profile # rows[n].profile

Alternate == \A m, n \in DOMAIN rows : Follows(m, n) => Differ(rows[m], rows[n])

\* What SaveSnapshot has read is still so when it inserts, unless another save
\* came between: the last row differs, and none was captured later.
ReadHolds ==
    \A b \in Briefings : brief[b].pc = "inserting" /\ ~brief[b].disturbed =>
        \A n \in DOMAIN rows : rows[n].profile = brief[b].profile =>
            /\ rows[n].captured <= brief[b].captured
            /\ (\A m \in DOMAIN rows : rows[m].profile = brief[b].profile => m <= n)
                  => Differ(rows[n], brief[b])

Inv == TypeOK /\ Stamped /\ ReportSound /\ (~crowded => InOrder /\ Alternate /\ ReadHolds)

\* With a row, the later ones of its profile.
Closed(P) ==
    \A m \in P, n \in DOMAIN rows : m < n /\ rows[m].profile = rows[n].profile => n \in P

\* Rows that are kept with all later ones of their profile stay in order, follow
\* the rows that they followed, and the last one of a profile stays the last.
LEMMA KeptInOrder ==
  ASSUME TypeOK, NEW P \in SUBSET DOMAIN rows, Closed(P), rows' = Kept(P)
  PROVE  /\ InOrder => InOrder'
         /\ Alternate => Alternate'
         /\ ReadHolds /\ UNCHANGED brief => ReadHolds'
         /\ Stamped /\ UNCHANGED <<brief, clock>> => Stamped'
         /\ \A p : \A n \in DOMAIN rows :
              rows[n].profile = p /\ (\A m \in DOMAIN rows : rows[m].profile = p => m <= n)
              => \/ \E j \in DOMAIN rows' :
                      rows'[j] = rows[n] /\ \A m \in DOMAIN rows' : rows'[m].profile = p => m <= j
                 \/ \A m \in DOMAIN rows' : rows'[m].profile # p
<1>1. PICK k \in Nat : DOMAIN rows = 1 .. k
  BY DEF TypeOK
<1>2. PICK f, c : /\ Counts(f, c, P) /\ DOMAIN rows' = 1 .. c
                  /\ \A n \in 1 .. c : rows'[n] = rows[f[n]]
  BY KeptCounts DEF TypeOK
<1>3. /\ c \in Nat /\ \A n \in 1 .. c : f[n] \in P /\ f[n] \in 1 .. k
      /\ \A m, n \in 1 .. c : m < n <=> f[m] < f[n]
      /\ \A x \in P : \E n \in 1 .. c : f[n] = x
  BY <1>1, <1>2 DEF Counts
<1>4. InOrder => InOrder'
  BY <1>1, <1>2, <1>3 DEF InOrder
<1>5. ASSUME Alternate PROVE Alternate'
  <2> SUFFICES ASSUME NEW m \in 1 .. c, NEW n \in 1 .. c, Follows(m, n)'
               PROVE  Differ(rows[f[m]], rows[f[n]])
    BY <1>2, <1>3 DEF Alternate, Differ
  <2>1. m < n /\ rows[f[m]].profile = rows[f[n]].profile
    BY <1>2 DEF Follows
  <2>2. ASSUME NEW x \in 1 .. k, f[m] < x, x < f[n], rows[x].profile = rows[f[n]].profile
        PROVE  FALSE
    <3>1. x \in P
      BY <1>1, <1>3, <2>1, <2>2 DEF Closed
    <3>2. PICK j \in 1 .. c : f[j] = x
      BY <1>3, <3>1
    <3>3. m < j /\ j < n
      BY <1>3, <2>2, <3>2
    <3> QED  BY <1>2, <2>2, <3>2, <3>3 DEF Follows
  <2>3. Follows(f[m], f[n])
    BY <1>1, <1>3, <2>1, <2>2 DEF Follows
  <2> QED  BY <1>1, <1>3, <1>5, <2>3 DEF Alternate
<1>6. ASSUME NEW p, NEW n \in 1 .. c, rows'[n].profile = p,
             \A m \in 1 .. c : rows'[m].profile = p => m <= n
      PROVE  \A x \in 1 .. k : rows[x].profile = p => x <= f[n]
  <2> SUFFICES ASSUME NEW x \in 1 .. k, rows[x].profile = p, f[n] < x PROVE FALSE
    BY <1>3
  <2>1. x \in P
    BY <1>1, <1>2, <1>3, <1>6 DEF Closed
  <2>2. PICK j \in 1 .. c : f[j] = x
    BY <1>3, <2>1
  <2>3. j <= n /\ n < j
    BY <1>2, <1>3, <1>6, <2>2
  <2> QED  BY <2>3
<1>7. ASSUME ReadHolds, UNCHANGED brief PROVE ReadHolds'
  <2> SUFFICES ASSUME NEW b \in Briefings, brief[b].pc = "inserting", ~brief[b].disturbed,
                      NEW n \in 1 .. c, rows'[n].profile = brief[b].profile
               PROVE  /\ rows'[n].captured <= brief[b].captured
                      /\ (\A m \in 1 .. c : rows'[m].profile = brief[b].profile => m <= n)
                            => Differ(rows'[n], brief[b])
    BY <1>2, <1>7 DEF ReadHolds, Differ
  <2>1. rows'[n] = rows[f[n]] /\ f[n] \in 1 .. k
    BY <1>2, <1>3
  <2>2. rows'[n].captured <= brief[b].captured
    BY <1>1, <1>7, <2>1 DEF ReadHolds
  <2>3. ASSUME \A m \in 1 .. c : rows'[m].profile = brief[b].profile => m <= n
        PROVE  Differ(rows'[n], brief[b])
    <3>1. \A x \in 1 .. k : rows[x].profile = brief[b].profile => x <= f[n]
      BY <1>6, <2>3
    <3>2. Differ(rows[f[n]], brief[b])
      BY <1>1, <1>7, <2>1, <3>1 DEF ReadHolds
    <3> QED  BY <2>1, <3>2
  <2> QED  BY <2>2, <2>3
<1>8. Stamped /\ UNCHANGED <<brief, clock>> => Stamped'
  BY <1>1, <1>2, <1>3 DEF Stamped
<1>9. ASSUME NEW p, NEW n \in 1 .. k, rows[n].profile = p,
             \A m \in 1 .. k : rows[m].profile = p => m <= n,
             NEW i \in 1 .. c, rows'[i].profile = p
      PROVE  \E j \in 1 .. c :
                rows'[j] = rows[n] /\ \A m \in 1 .. c : rows'[m].profile = p => m <= j
  <2>1. f[i] <= n /\ f[i] \in P /\ rows[f[i]].profile = p
    BY <1>2, <1>3, <1>9
  <2>2. n \in P
    BY <1>1, <1>3, <1>9, <2>1 DEF Closed
  <2>3. PICK j \in 1 .. c : f[j] = n
    BY <1>3, <2>2
  <2>4. ASSUME NEW m \in 1 .. c, rows'[m].profile = p PROVE m <= j
    <3>1. f[m] <= f[j]
      BY <1>2, <1>3, <1>9, <2>3, <2>4
    <3>2. ~(f[j] < f[m])
      BY <1>3, <3>1
    <3> QED  BY <1>3, <3>2
  <2> QED  BY <1>2, <2>3, <2>4
<1>10. ASSUME NEW p, NEW n \in DOMAIN rows, rows[n].profile = p,
              \A m \in DOMAIN rows : rows[m].profile = p => m <= n
       PROVE  \/ \E j \in DOMAIN rows' :
                   rows'[j] = rows[n] /\ \A m \in DOMAIN rows' : rows'[m].profile = p => m <= j
              \/ \A m \in DOMAIN rows' : rows'[m].profile # p
  BY <1>1, <1>2, <1>9, <1>10
<1> QED  BY <1>4, <1>5, <1>7, <1>8, <1>10

-----------------------------------------------------------------------------
(* The texts of moments.                                                   *)

LEMMA ProductGap ==
  ASSUME NEW a \in Nat \ {0}, NEW m \in Nat, NEW n \in Nat, a * m < a * n
  PROVE  a * m + a <= a * n
<1>1. CASE n <= m
  <2>1. a * n <= a * m
    BY <1>1
  <2> QED  BY <2>1
<1>2. CASE m + 1 <= n
  <2>1. a * (m + 1) <= a * n
    BY <1>2
  <2> QED  BY <2>1
<1> QED  BY <1>1, <1>2

LEMMA WholeQuotient ==
  ASSUME NEW a \in Nat \ {0}, NEW b \in Nat, b % a = 0
  PROVE  \E d \in Nat : b = a * d
<1>1. b = a * (b \div a) /\ b \div a \in Nat
  OBVIOUS
<1> QED  BY <1>1

LEMMA UnitDivides ==
  ASSUME NEW t \in Nat
  PROVE  /\ Unit(t) \in Units /\ Unit(t) \in Nat \ {0}
         /\ \E q \in Nat : t = Unit(t) * q
         /\ \A v \in Units : t % v = 0 => v <= Unit(t)
<1> DEFINE D == {u \in Units : t % u = 0}
<1>1. t % 1 = 0
  OBVIOUS
<1>2. D \in SUBSET (1 .. Second) /\ D # {} /\ Second \in Nat
  BY <1>1, ClockAssumption
<1>3. PICK x \in D : \A y \in D : y <= x
  BY <1>2, Greatest
<1>4. Unit(t) \in Units /\ t % Unit(t) = 0 /\ \A v \in Units : t % v = 0 => v <= Unit(t)
  BY <1>3 DEF Unit
<1>5. PICK u : u = Unit(t)
  OBVIOUS
<1>6. u \in Nat \ {0}
  <2>1. u \in 1 .. Second
    BY <1>4, <1>5, ClockAssumption
  <2> QED  BY <2>1, ClockAssumption
<1>7. \E q \in Nat : t = u * q
  BY <1>4, <1>5, <1>6, WholeQuotient
<1> QED  BY <1>4, <1>5, <1>6, <1>7

\* What comes while the text of t stays the last ends its own text before t's does.
LEMMA UnitsNest ==
  ASSUME NEW t \in Nat, NEW c \in Nat, t < c, c < t + Unit(t)
  PROVE  c + Unit(c) <= t + Unit(t)
<1>1. PICK a \in Nat \ {0}, q \in Nat : a = Unit(t) /\ a \in Units /\ t = a * q
  BY UnitDivides
<1>2. PICK b \in Nat \ {0}, r \in Nat : b = Unit(c) /\ b \in Units /\ c = b * r
  BY UnitDivides
<1>3. CASE a <= b
  <2>1. b % a = 0
    BY <1>1, <1>2, <1>3, ClockAssumption
  <2>2. PICK d \in Nat : b = a * d
    BY <2>1, WholeQuotient
  <2>3. c = a * (d * r) /\ d * r \in Nat
    BY <1>1, <1>2, <2>2
  <2>4. PICK e \in Nat : c = a * e
    BY <2>3
  <2>5. a * q + a <= a * e
    BY <1>1, <2>4, ProductGap
  <2>6. t + a <= c /\ c < t + a
    BY <1>1, <2>4, <2>5
  <2> QED  BY <2>6
<1>4. CASE b < a
  <2>1. a % b = 0
    BY <1>1, <1>2, <1>4, ClockAssumption
  <2>2. PICK d \in Nat : a = b * d
    BY <2>1, WholeQuotient
  <2>3. t + a = b * (d * q + d) /\ d * q + d \in Nat
    BY <1>1, <1>2, <2>2
  <2>4. PICK e \in Nat : t + a = b * e
    BY <2>3
  <2>5. b * r + b <= b * e
    BY <1>1, <1>2, <2>4, ProductGap
  <2> QED  BY <1>1, <1>2, <2>4, <2>5
<1> QED  BY <1>3, <1>4

\* A text that sorts after the later of two moments' texts, which are in their
\* order, sorts after the other's too.
LEMMA LaterThanBoth ==
  ASSUME NEW t \in Nat, NEW u \in Nat, NEW y \in Nat, t < u, ~Later(t, u), Later(y, u)
  PROVE  Later(y, t)
<1>1. PICK a \in Nat \ {0}, b \in Nat \ {0}, c \in Nat \ {0} :
         a = Unit(t) /\ b = Unit(u) /\ c = Unit(y)
  BY UnitDivides
<1>2. t + a <= u
  BY <1>1 DEF Later
<1>3. CASE y >= u
  <2>1. y >= t + a
    BY <1>1, <1>2, <1>3
  <2> QED  BY <1>1, <2>1 DEF Later
<1>4. CASE y < u
  <2>1. u < y + c
    BY <1>1, <1>4 DEF Later
  <2>2. CASE y < t
    <3>1. t < y + c
      BY <1>1, <2>1
    <3> QED  BY <1>1, <2>2, <3>1 DEF Later
  <2>3. CASE t <= y /\ y < t + a
    <3>1. CASE y = t
      BY <1>1, <1>2, <2>1, <3>1
    <3>2. CASE t < y
      <4>1. y + c <= t + a
        BY <1>1, <2>3, <3>2, UnitsNest
      <4> QED  BY <1>1, <1>2, <2>1, <4>1
    <3> QED  BY <2>3, <3>1, <3>2
  <2>4. CASE t + a <= y
    BY <1>1, <2>4 DEF Later
  <2> QED  BY <1>1, <2>2, <2>3, <2>4
<1> QED  BY <1>3, <1>4

-----------------------------------------------------------------------------
(* Retention and deletion.                                                 *)

\* What retention keeps is closed, as long as the rows are in order.
LEMMA RetainedClosed ==
  ASSUME TypeOK, InOrder, NEW cutoff \in 0 .. clock
  PROVE  Retained(cutoff) \in SUBSET DOMAIN rows /\ Closed(Retained(cutoff))
<1>1. PICK k \in Nat : DOMAIN rows = 1 .. k /\ rows \in [1 .. k -> Row]
  BY DEF TypeOK
<1>2. PICK R : R = Recent(cutoff)
  OBVIOUS
<1>3. R \in SUBSET (1 .. k)
  BY <1>1, <1>2 DEF Recent
<1>4. \A n \in 1 .. k : rows[n].captured \in Nat
  BY <1>1, ClockAssumption DEF Row
<1> DEFINE Before(n) == {m \in R : rows[m].profile = rows[n].profile /\ Precedes(m, n)}
<1>5. Retained(cutoff) = {n \in R : MaxCount = 0 \/ Cardinality(Before(n)) < MaxCount}
  BY <1>2 DEF Retained
<1>6. IsFiniteSet(R)
  <2>1. IsFiniteSet(1 .. k)
    BY FS_Interval
  <2> QED  BY <1>3, <2>1, FS_Subset
<1>7. ASSUME NEW m \in Retained(cutoff), NEW n \in DOMAIN rows,
             m < n, rows[m].profile = rows[n].profile
      PROVE  n \in Retained(cutoff)
  <2>1. m \in 1 .. k /\ n \in 1 .. k
    BY <1>1, <1>3, <1>5, <1>7
  <2>2. PICK t \in Nat, u \in Nat : t = rows[m].captured /\ u = rows[n].captured
    BY <1>4, <2>1
  <2>3. t <= u /\ ~Near(t, u)
    BY <1>1, <1>7, <2>1, <2>2 DEF InOrder
  <2>4. t = u \/ (t < u /\ ~Later(t, u))
    BY <2>2, <2>3 DEF Near
  <2>5. cutoff \in Nat
    BY ClockAssumption DEF TypeOK
  <2>6. ~Later(cutoff, t)
    BY <1>2, <1>5, <2>2 DEF Recent
  <2>7. n \in R
    <3>1. ~Later(cutoff, u)
      BY <2>2, <2>4, <2>5, <2>6, LaterThanBoth
    <3> QED  BY <1>1, <1>2, <2>1, <2>2, <3>1 DEF Recent
  <2>8. Before(n) \in SUBSET Before(m)
    <3> SUFFICES ASSUME NEW x \in R, rows[x].profile = rows[n].profile, Precedes(x, n)
                 PROVE  Precedes(x, m)
      BY <1>7
    <3>1. x \in 1 .. k /\ rows[x].captured \in Nat
      BY <1>3, <1>4
    <3>2. PICK y \in Nat : y = rows[x].captured
      BY <3>1
    <3>3. Later(y, u) \/ (y = u /\ x > n)
      BY <2>2, <3>2 DEF Precedes
    <3>4. CASE t = u
      BY <1>7, <2>1, <2>2, <3>1, <3>2, <3>3, <3>4 DEF Precedes
    <3>5. CASE t < u /\ ~Later(t, u)
      <4>1. Unit(t) \in Nat /\ Unit(u) \in Nat
        BY UnitDivides
      <4>2. Later(u, t)
        BY <3>5, <4>1 DEF Later
      <4>3. Later(y, t)
        BY <2>2, <3>2, <3>3, <3>5, <4>2, LaterThanBoth
      <4> QED  BY <2>2, <3>2, <4>3 DEF Precedes
    <3> QED  BY <2>4, <3>4, <3>5
  <2>9. Cardinality(Before(n)) \in Nat /\ Cardinality(Before(m)) \in Nat
        /\ Cardinality(Before(n)) <= Cardinality(Before(m))
    <3>1. IsFiniteSet(Before(m))
      BY <1>6, FS_Subset
    <3>2. IsFiniteSet(Before(n)) /\ Cardinality(Before(n)) <= Cardinality(Before(m))
      BY <2>8, <3>1, FS_Subset
    <3> QED  BY <3>1, <3>2, FS_CardinalityType
  <2>10. MaxCount = 0 \/ Cardinality(Before(m)) < MaxCount
    BY <1>5
  <2> HIDE DEF Before
  <2>11. MaxCount = 0 \/ Cardinality(Before(n)) < MaxCount
    BY <2>9, <2>10, PolicyAssumption
  <2> QED  BY <1>5, <2>7, <2>11
<1> QED  BY <1>1, <1>3, <1>5, <1>7 DEF Closed

\* What a deletion leaves is.
LEMMA DeletedClosed ==
  ASSUME TypeOK, NEW p
  PROVE  DOMAIN rows \ RowsOf(p) \in SUBSET DOMAIN rows /\ Closed(DOMAIN rows \ RowsOf(p))
  BY DEF Closed, RowsOf

LEMMA InitSound == Init => Inv
<1> SUFFICES ASSUME Init PROVE Inv
  OBVIOUS
<1>1. TypeOK
  BY InitTyped
<1>2. DOMAIN rows = {}
  BY DEF Init
<1>3. Stamped
  BY <1>2 DEF Init, Stamped, Idle
<1>4. InOrder /\ Alternate
  BY <1>2 DEF InOrder, Alternate
<1>5. ReadHolds
  BY <1>2 DEF ReadHolds
<1>6. ReportSound
  <2>1. CompareFacts(NoFacts, NoFacts) = {}
    BY DEF CompareFacts, NoFacts, Absent
  <2> QED  BY <2>1 DEF Init, ReportSound, NoReport
<1> QED  BY <1>1, <1>3, <1>4, <1>5, <1>6 DEF Inv

\* Without a report there is nothing to explain.
LEMMA NoReportSound ==
  ASSUME report' = NoReport
  PROVE  ReportSound'
<1>1. CompareFacts(NoFacts, NoFacts) = {}
  BY DEF CompareFacts, NoFacts, Absent
<1> QED  BY <1>1 DEF ReportSound, NoReport

\* A step that touches no row, and at most a frame that does not wait for its
\* insert afterwards.
LEMMA FrameStep ==
  ASSUME Inv, NEW b \in Briefings, NEW frame \in Frame \cup {Idle},
         brief' = [brief EXCEPT ![b] = frame], frame.pc # "inserting", frame.captured = 0,
         ReportSound', report' \in Report, UNCHANGED <<clock, rows, crowded>>
  PROVE  Inv'
<1>1. brief' \in [Briefings -> Frame \cup {Idle}]
  BY FrameTyped DEF Inv
<1>2. TypeOK'
  BY <1>1 DEF Inv, TypeOK
<1>3. \A a \in Briefings : brief'[a] = brief[a] \/ brief'[a] = frame
  BY DEF Inv, TypeOK
<1>4. clock \in Nat
  BY ClockAssumption DEF Inv, TypeOK
<1>5. Stamped'
  BY <1>3, <1>4 DEF Inv, Stamped
<1>6. ReadHolds => ReadHolds'
  BY <1>3 DEF ReadHolds, Differ
<1>7. (InOrder => InOrder') /\ (Alternate => Alternate')
  BY DEF InOrder, Alternate, Follows, Differ
<1> QED  BY <1>2, <1>5, <1>6, <1>7 DEF Inv

LEMMA BriefSound ==
  ASSUME Inv, NEW b \in Briefings, Brief(b)
  PROVE  Inv'
<1>1. TypeOK
  BY DEF Inv
<1>2. PICK frame \in Frame : /\ brief' = [brief EXCEPT ![b] = frame]
                              /\ frame.pc = "saving" /\ frame.captured = 0
  BY <1>1, BriefEffect
<1>3. ReportSound' /\ report' \in Report
  <2>1. CASE report' = NoReport
    BY <1>1, <2>1, NoReportSound, NoReportTyped
  <2>2. CASE \E old \in Facts, new \in Facts : \E answered \in SUBSET Sections :
                report' = [previous |-> old, facts |-> new, answered |-> answered,
                           changes |-> CompareFacts(old, new)]
    BY <2>2, CompareFactsTyped DEF Report, ReportSound
  <2> QED  BY <1>1, <2>1, <2>2, BriefEffect
<1> QED  BY <1>1, <1>2, <1>3, FrameStep, BriefEffect

LEMMA LeaveSound ==
  ASSUME Inv, NEW b \in Briefings, SkipSave(b) \/ SaveFails(b)
  PROVE  Inv'
<1>1. ReportSound' /\ report' \in Report
  BY NoReportSound, NoReportTyped DEF SkipSave, SaveFails, Inv
<1>2. brief' = [brief EXCEPT ![b] = Idle] /\ UNCHANGED <<clock, rows, crowded>>
  BY DEF SkipSave, SaveFails
<1>3. PICK frame : frame = Idle
  OBVIOUS
<1>4. frame.pc # "inserting" /\ frame.captured = 0
  BY <1>3 DEF Idle
<1> QED  BY <1>1, <1>2, <1>3, <1>4, FrameStep

\* What has been read differs from the last snapshot, and no row of the profile
\* was captured later than now.
LEMMA BeginSaveSound ==
  ASSUME Inv, NEW b \in Briefings, BeginSave(b)
  PROVE  Inv'
<1>1. TypeOK
  BY DEF Inv
<1>2. PICK old : old = brief[b]
  OBVIOUS
<1>3. old \in Frame
  BY <1>1, <1>2 DEF BeginSave, TypeOK, Idle
<1>4. PICK frame : frame = [pc |-> "inserting", profile |-> old.profile, at |-> old.at,
                            facts |-> old.facts, captured |-> clock, disturbed |-> old.disturbed]
  OBVIOUS
<1>5. brief' = [brief EXCEPT ![b] = frame]
  <2>1. brief' = [brief EXCEPT ![b] = [old EXCEPT !.pc = "inserting", !.captured = clock]]
    BY <1>1, <1>2 DEF BeginSave, TypeOK
  <2>2. [old EXCEPT !.pc = "inserting", !.captured = clock] = frame
    <3>1. PICK half : half = [old EXCEPT !.pc = "inserting"]
      OBVIOUS
    <3>2. [old EXCEPT !.pc = "inserting", !.captured = clock] = [half EXCEPT !.captured = clock]
      BY <3>1
    <3>3. half = [pc |-> "inserting", profile |-> old.profile, at |-> old.at, facts |-> old.facts,
                  captured |-> old.captured, disturbed |-> old.disturbed]
      BY <1>3, <3>1 DEF Frame
    <3> QED  BY <1>4, <3>2, <3>3
  <2> QED  BY <2>1, <2>2
<1>6. frame \in Frame
  BY <1>1, <1>3, <1>4 DEF Frame, TypeOK
<1>7. /\ report' \in Report /\ ReportSound'
      /\ UNCHANGED <<clock, rows, crowded>>
  BY <1>1, NoReportSound, NoReportTyped DEF BeginSave
<1>8. TypeOK'
  BY <1>1, <1>5, <1>6, <1>7, FrameTyped DEF TypeOK
<1>9. \A a \in Briefings : brief'[a] = brief[a] \/ (a = b /\ brief'[a] = frame)
  BY <1>1, <1>5 DEF TypeOK
<1>10. clock \in Nat
  BY <1>1, ClockAssumption DEF TypeOK
<1>11. Stamped'
  BY <1>4, <1>7, <1>9, <1>10 DEF Inv, Stamped
<1>12. (InOrder => InOrder') /\ (Alternate => Alternate')
  BY <1>7 DEF InOrder, Alternate, Follows, Differ
<1>13. ASSUME NEW n \in DOMAIN rows, rows[n].profile = frame.profile
       PROVE  /\ rows[n].captured <= frame.captured
              /\ (\A m \in DOMAIN rows : rows[m].profile = frame.profile => m <= n)
                    => Differ(rows[n], frame)
  <2>1. rows[n].captured <= frame.captured
    BY <1>4 DEF Inv, Stamped
  <2>2. ASSUME \A m \in DOMAIN rows : rows[m].profile = frame.profile => m <= n
        PROVE  Differ(rows[n], frame)
    <3>1. RowsOf(frame.profile) # {}
      BY <1>13 DEF RowsOf
    <3>2. PICK x \in DOMAIN rows :
             /\ Newest(RowsOf(frame.profile)) = x /\ rows[x].profile = frame.profile
             /\ \A m \in DOMAIN rows : rows[m].profile = frame.profile => m <= x
      BY <1>1, <3>1, LastOfProfile
    <3>3. x = n
      BY <1>1, <1>13, <2>2, <3>2 DEF TypeOK
    <3>4. ~AlreadySaved(frame.profile, frame.at, frame.facts)
      BY <1>2, <1>4 DEF BeginSave
    <3> QED  BY <3>1, <3>2, <3>3, <3>4 DEF AlreadySaved, Differ
  <2> QED  BY <2>1, <2>2
<1>14. ReadHolds => ReadHolds'
  BY <1>7, <1>9, <1>13 DEF ReadHolds, Differ
<1> QED  BY <1>7, <1>8, <1>11, <1>12, <1>14 DEF Inv

\* The inserted row is the last of its profile and differs from the one before.
LEMMA InsertSound ==
  ASSUME Inv, NEW b \in Briefings, Insert(b)
  PROVE  Inv'
<1>1. TypeOK
  BY DEF Inv
<1>2. PICK old : old = brief[b]
  OBVIOUS
<1>3. old \in Frame /\ old.pc = "inserting"
  BY <1>1, <1>2 DEF Insert, TypeOK, Idle
<1>4. PICK row : row = [profile |-> old.profile, captured |-> old.captured,
                        at |-> old.at, facts |-> old.facts]
  OBVIOUS
<1>5. row \in Row
  BY <1>3, <1>4 DEF Row, Frame
<1>6. PICK k \in Nat : Len(rows) = k /\ DOMAIN rows = 1 .. k
  BY <1>1 DEF TypeOK
<1>7. /\ rows' = Append(rows, row) /\ DOMAIN rows' = 1 .. k + 1 /\ rows' \in Seq(Row)
      /\ rows'[k + 1] = row /\ \A n \in 1 .. k : rows'[n] = rows[n]
  BY <1>1, <1>2, <1>4, <1>5, <1>6 DEF Insert, TypeOK
<1>8. /\ brief' = Disturbed(old.profile, b) /\ report' = NoReport /\ UNCHANGED clock
      /\ crowded' = (crowded \/ old.disturbed \/
                      \E n \in RowsOf(old.profile) : Near(rows[n].captured, old.captured))
  BY <1>2 DEF Insert
<1>9. brief' \in [Briefings -> Frame \cup {Idle}]
  BY <1>1, <1>8, DisturbedTyped
<1>10. crowded' \in BOOLEAN
  BY <1>8
<1>11. TypeOK' /\ ReportSound'
  BY <1>1, <1>7, <1>8, <1>9, <1>10, NoReportTyped, NoReportSound DEF TypeOK
<1>12. ASSUME NEW a \in Briefings
       PROVE  brief'[a] = Idle \/ Marked(brief'[a], brief[a], old.profile)
  BY <1>1, <1>8, DisturbedTyped
<1>13. Stamped'
  <2>1. clock \in Nat
    BY <1>1, ClockAssumption DEF TypeOK
  <2>2. ASSUME NEW a \in Briefings PROVE brief'[a].captured <= clock
    <3>1. brief[a].captured <= clock
      BY DEF Inv, Stamped
    <3>2. Idle.captured <= clock
      BY <2>1 DEF Idle
    <3>3. brief'[a] = Idle \/ brief'[a].captured = brief[a].captured
      BY <1>12 DEF Marked
    <3> QED  BY <3>1, <3>2, <3>3
  <2>3. row.captured <= clock
    BY <1>2, <1>4 DEF Inv, Stamped
  <2>4. \A n \in 1 .. k + 1 : n \in 1 .. k \/ n = k + 1
    BY <1>6
  <2>5. \A n \in 1 .. k + 1 : rows'[n].captured <= clock
    BY <1>6, <1>7, <2>3, <2>4 DEF Inv, Stamped
  <2> QED  BY <1>7, <1>8, <2>2, <2>5 DEF Stamped
<1>14. ASSUME ~crowded'
       PROVE  InOrder' /\ Alternate' /\ ReadHolds'
  <2>1. /\ InOrder /\ Alternate /\ ReadHolds /\ old.disturbed = FALSE
        /\ \A n \in RowsOf(old.profile) : ~Near(rows[n].captured, old.captured)
    BY <1>3, <1>8, <1>14 DEF Inv, Frame
  <2>2. ASSUME NEW n \in 1 .. k, rows[n].profile = old.profile
        PROVE  /\ rows[n].captured <= old.captured /\ ~Near(rows[n].captured, old.captured)
               /\ (\A m \in 1 .. k : rows[m].profile = old.profile => m <= n)
                     => Differ(rows[n], old)
    BY <1>2, <1>3, <1>6, <2>1, <2>2 DEF ReadHolds, RowsOf
  <2>3. \A n \in 1 .. k + 1 : n \in 1 .. k \/ n = k + 1
    BY <1>6
  <2>4. InOrder'
    <3> SUFFICES ASSUME NEW m \in 1 .. k + 1, NEW n \in 1 .. k + 1,
                        m < n, rows'[m].profile = rows'[n].profile
                 PROVE  /\ rows'[m].captured <= rows'[n].captured
                        /\ ~Near(rows'[m].captured, rows'[n].captured)
      BY <1>7 DEF InOrder
    <3>1. m \in 1 .. k
      BY <1>6
    <3>2. CASE n \in 1 .. k
      BY <1>6, <1>7, <2>1, <3>1, <3>2 DEF InOrder
    <3>3. CASE n = k + 1
      BY <1>4, <1>7, <2>2, <3>1, <3>3
    <3> QED  BY <2>3, <3>2, <3>3
  <2>5. Alternate'
    <3> SUFFICES ASSUME NEW m \in 1 .. k + 1, NEW n \in 1 .. k + 1, Follows(m, n)'
                 PROVE  Differ(rows'[m], rows'[n])
      BY <1>7 DEF Alternate, Differ
    <3>1. /\ m < n /\ rows'[m].profile = rows'[n].profile
          /\ \A x \in 1 .. k + 1 : m < x /\ x < n => rows'[x].profile # rows'[n].profile
      BY <1>7 DEF Follows
    <3>2. m \in 1 .. k
      BY <1>6, <3>1
    <3>3. CASE n \in 1 .. k
      <4>1. Follows(m, n)
        BY <1>6, <1>7, <3>1, <3>2, <3>3 DEF Follows
      <4> QED  BY <1>6, <1>7, <2>1, <3>2, <3>3, <4>1 DEF Alternate
    <3>4. CASE n = k + 1
      <4>1. rows[m].profile = old.profile
        BY <1>4, <1>7, <3>1, <3>2, <3>4
      <4>2. \A x \in 1 .. k : rows[x].profile = old.profile => x <= m
        BY <1>4, <1>6, <1>7, <3>1, <3>2, <3>4
      <4>3. Differ(rows[m], old)
        BY <2>2, <3>2, <4>1, <4>2
      <4> QED  BY <1>4, <1>7, <3>2, <3>4, <4>3 DEF Differ
    <3> QED  BY <2>3, <3>3, <3>4
  <2>6. ReadHolds'
    <3> SUFFICES ASSUME NEW a \in Briefings, brief'[a].pc = "inserting", ~brief'[a].disturbed,
                        NEW n \in 1 .. k + 1, rows'[n].profile = brief'[a].profile
                 PROVE  /\ rows'[n].captured <= brief'[a].captured
                        /\ (\A m \in 1 .. k + 1 : rows'[m].profile = brief'[a].profile => m <= n)
                              => Differ(rows'[n], brief'[a])
      BY <1>7 DEF ReadHolds, Differ
    <3>1. brief'[a] \in Frame
      BY <1>9 DEF Idle
    <3>2. brief'[a].disturbed = FALSE
      BY <3>1 DEF Frame
    <3>3. /\ brief[a].pc = "inserting" /\ brief'[a].profile = brief[a].profile
          /\ brief'[a].at = brief[a].at /\ brief'[a].facts = brief[a].facts
          /\ brief'[a].captured = brief[a].captured
          /\ ~brief[a].disturbed /\ brief[a].profile # old.profile
      <4>1. brief'[a] # Idle
        BY DEF Idle
      <4> QED  BY <1>12, <3>2, <4>1 DEF Marked
    <3>4. n \in 1 .. k
      BY <1>4, <1>7, <2>3, <3>3
    <3>5. rows'[n] = rows[n] /\ rows[n].profile = brief[a].profile
      BY <1>7, <3>3, <3>4
    <3>6. ASSUME \A m \in 1 .. k + 1 : rows'[m].profile = brief'[a].profile => m <= n
          PROVE  \A m \in 1 .. k : rows[m].profile = brief[a].profile => m <= n
      BY <1>6, <1>7, <3>3, <3>6
    <3>7. /\ rows[n].captured <= brief[a].captured
          /\ (\A m \in 1 .. k : rows[m].profile = brief[a].profile => m <= n)
                => Differ(rows[n], brief[a])
      BY <1>6, <2>1, <3>3, <3>4, <3>5 DEF ReadHolds
    <3> QED  BY <3>3, <3>5, <3>6, <3>7 DEF Differ
  <2> QED  BY <2>4, <2>5, <2>6
<1> QED  BY <1>11, <1>13, <1>14 DEF Inv

\* Retention and deletion.
LEMMA KeepSound ==
  ASSUME Inv, NEW P, P \in SUBSET DOMAIN rows, InOrder => Closed(P), Closed(P) \/ crowded,
         rows' = Kept(P), report' = NoReport, UNCHANGED <<clock, brief, crowded>>
  PROVE  Inv'
<1>1. TypeOK
  BY DEF Inv
<1>2. rows' \in Seq(Row)
  BY <1>1, KeptCounts DEF TypeOK
<1>3. TypeOK' /\ ReportSound'
  BY <1>1, <1>2, NoReportTyped, NoReportSound DEF TypeOK
<1>4. Stamped'
  <2>1. PICK f, c : /\ Counts(f, c, P) /\ DOMAIN rows' = 1 .. c
                    /\ \A n \in 1 .. c : rows'[n] = rows[f[n]]
    BY <1>1, KeptCounts DEF TypeOK
  <2>2. \A n \in 1 .. c : f[n] \in DOMAIN rows
    BY <2>1 DEF Counts
  <2> QED  BY <2>1, <2>2 DEF Inv, Stamped
<1>5. ASSUME ~crowded' PROVE InOrder' /\ Alternate' /\ ReadHolds'
  <2>1. ~crowded /\ Closed(P)
    BY <1>5
  <2> QED  BY <1>1, <2>1, KeptInOrder DEF Inv
<1> QED  BY <1>3, <1>4, <1>5 DEF Inv

LEMMA PruneSound ==
  ASSUME Inv, Prune
  PROVE  Inv'
<1>1. PICK cutoff \in 0 .. clock : rows' = Kept(Retained(cutoff))
  BY DEF Prune
<1>2. PICK P : P = Retained(cutoff)
  OBVIOUS
<1>3. P \in SUBSET DOMAIN rows
  BY <1>2 DEF Retained, Recent
<1>4. InOrder => Closed(P)
  BY <1>2, RetainedClosed DEF Inv
<1>5. Closed(P) \/ crowded
  BY <1>4 DEF Inv
<1>6. rows' = Kept(P) /\ report' = NoReport /\ UNCHANGED <<clock, brief, crowded>>
  BY <1>1, <1>2 DEF Prune
<1> QED  BY <1>3, <1>4, <1>5, <1>6, KeepSound

LEMMA DeleteSound ==
  ASSUME Inv, NEW p, Delete(p)
  PROVE  Inv'
<1>1. PICK P : P = DOMAIN rows \ RowsOf(p)
  OBVIOUS
<1>2. P \in SUBSET DOMAIN rows /\ Closed(P)
  BY <1>1, DeletedClosed DEF Inv
<1>3. rows' = Kept(P) /\ report' = NoReport /\ UNCHANGED <<clock, brief, crowded>>
  BY <1>1 DEF Delete
<1> QED  BY <1>2, <1>3, KeepSound

LEMMA TickSound ==
  ASSUME Inv, Tick
  PROVE  Inv'
<1>1. clock \in Nat /\ clock' \in 0 .. MaxTime /\ clock <= clock'
  BY ClockAssumption DEF Inv, Tick, TypeOK
<1>2. TypeOK' /\ ReportSound'
  BY <1>1, NoReportTyped, NoReportSound DEF Inv, Tick, TypeOK
<1>3. ASSUME NEW n \in DOMAIN rows PROVE rows[n].captured <= clock'
  <2>1. rows[n] \in Row
    BY DEF Inv, TypeOK
  <2>2. rows[n].captured \in Nat
    BY <2>1, ClockAssumption DEF Row
  <2>3. rows[n].captured <= clock
    BY DEF Inv, Stamped
  <2> QED  BY <1>1, <2>2, <2>3, ClockAssumption
<1>4. ASSUME NEW b \in Briefings PROVE brief[b].captured <= clock'
  <2>1. brief[b] \in Frame \cup {Idle}
    BY DEF Inv, TypeOK
  <2>2. brief[b].captured \in Nat
    <3>1. CASE brief[b] \in Frame
      BY <3>1, ClockAssumption DEF Frame
    <3>2. CASE brief[b] = Idle
      BY <3>2 DEF Idle
    <3> QED  BY <2>1, <3>1, <3>2
  <2>3. brief[b].captured <= clock
    BY DEF Inv, Stamped
  <2> QED  BY <1>1, <2>2, <2>3, ClockAssumption
<1>5. (InOrder => InOrder') /\ (Alternate => Alternate') /\ (ReadHolds => ReadHolds')
  BY DEF Tick, InOrder, Alternate, Follows, ReadHolds, Differ
<1>6. Stamped'
  BY <1>3, <1>4 DEF Tick, Stamped
<1> QED  BY <1>2, <1>5, <1>6 DEF Inv, Tick

LEMMA Inductive == Inv /\ [Next]_vars => Inv'
<1> SUFFICES ASSUME Inv, [Next]_vars PROVE Inv'
  OBVIOUS
<1>1. ASSUME NEW b \in Briefings, Step(b) PROVE Inv'
  BY <1>1, BriefSound, LeaveSound, BeginSaveSound, InsertSound DEF Step
<1>2. CASE UNCHANGED vars
  <2>1. TypeOK' /\ Stamped' /\ ReportSound'
    BY <1>2 DEF vars, Inv, TypeOK, Stamped, ReportSound
  <2>2. (InOrder => InOrder') /\ (Alternate => Alternate') /\ (ReadHolds => ReadHolds')
    BY <1>2 DEF vars, InOrder, Alternate, Follows, ReadHolds, Differ
  <2> QED  BY <1>2, <2>1, <2>2 DEF vars, Inv
<1> QED  BY <1>1, <1>2, PruneSound, DeleteSound, TickSound DEF Next

LEMMA Invariance == Spec => []Inv
  BY InitSound, Inductive, PTL DEF Spec

-----------------------------------------------------------------------------
(* The theorems.                                                           *)

\* Every briefing is idle or between two of its steps with a frame of the
\* profile it is for, and the snapshots and the report are what they should be.
THEOREM TypeCorrect == Spec => []TypeOK
<1>1. Inv => TypeOK
  BY DEF Inv
<1> QED  BY Invariance, <1>1, PTL

\* Two snapshots of a profile that follow each other always differ, whatever is
\* pruned or deleted between them, as long as no two saves of a profile overlap
\* or are captured at moments whose texts are not in their order.
THEOREM SnapshotsDiffer == Spec => []SnapshotsAlternate
<1>1. ASSUME Inv PROVE SnapshotsAlternate
  <2> SUFFICES ASSUME ~crowded, NEW n \in DOMAIN rows,
                      {m \in RowsOf(rows[n].profile) : m < n} # {}
               PROVE  LET before == {m \in RowsOf(rows[n].profile) : m < n}
                      IN Differ(rows[Newest(before)], rows[n])
    BY DEF SnapshotsAlternate, Differ
  <2>1. PICK k \in Nat : DOMAIN rows = 1 .. k
    BY <1>1 DEF Inv, TypeOK
  <2>2. PICK before : before = {m \in RowsOf(rows[n].profile) : m < n}
    OBVIOUS
  <2>3. before \in SUBSET (1 .. k) /\ before # {}
    BY <2>1, <2>2 DEF RowsOf
  <2>4. PICK m : m = Newest(before)
    OBVIOUS
  <2>5. m \in before /\ \A x \in before : x <= m
    BY <2>3, <2>4, NewestIsLast
  <2>6. ASSUME NEW x \in DOMAIN rows, m < x, x < n
        PROVE  rows[x].profile # rows[n].profile
    <3>1. m \in 1 .. k /\ x \in 1 .. k /\ ~(x <= m)
      BY <2>1, <2>3, <2>5, <2>6
    <3>2. x \notin before
      BY <2>5, <3>1
    <3> QED  BY <2>2, <2>6, <3>2 DEF RowsOf
  <2>7. m \in DOMAIN rows /\ Follows(m, n)
    BY <2>2, <2>5, <2>6 DEF Follows, RowsOf
  <2> QED  BY <1>1, <2>2, <2>4, <2>7 DEF Inv, Alternate
<1> QED  BY Invariance, <1>1, PTL

\* The items of a section that are reported with a kind, and those that are of it.
Reported(changes, s, kind) ==
    {c.item : c \in {c \in changes : c.section = s /\ c.kind = kind}}

OfKind(old, new, kind) ==
    {item \in DOMAIN old.items \cup DOMAIN new.items : ItemKind(old, new, item) = kind}

LEMMA ItemsOfKind ==
  ASSUME NEW old, NEW new, NEW s \in Sections, old[s].present, new[s].present,
         NEW kind \in {"added", "updated", "removed"}
  PROVE  Reported(CompareFacts(old, new), s, kind) = OfKind(old[s], new[s], kind)
<1> DEFINE Of == {c \in CompareFacts(old, new) : c.section = s /\ c.kind = kind}
           All(t) == DOMAIN old[t].items \cup DOMAIN new[t].items
<1>1. ASSUME NEW c \in Of
      PROVE  c.item \in All(s) /\ ItemKind(old[s], new[s], c.item) = kind
  <2>1. CASE \E t \in Sections : c = [section |-> t, kind |-> "evidence_lost"]
    BY <2>1
  <2>2. CASE \E t \in Sections : \E item \in All(t) :
                c = [section |-> t, kind |-> ItemKind(old[t], new[t], item), item |-> item]
    BY <2>2
  <2>3. c \in CompareFacts(old, new)
    OBVIOUS
  <2> QED  BY <2>1, <2>2, <2>3 DEF CompareFacts
<1>2. ASSUME NEW item \in All(s), ItemKind(old[s], new[s], item) = kind
      PROVE  \E c \in Of : c.item = item
  <2>1. PICK c : c = [section |-> s, kind |-> ItemKind(old[s], new[s], item), item |-> item]
    OBVIOUS
  <2>2. c \in CompareFacts(old, new)
    BY <1>2, <2>1 DEF CompareFacts
  <2> QED  BY <1>2, <2>1, <2>2
<1> QED  BY <1>1, <1>2 DEF Reported, OfKind

\* The comparison of two briefings' facts, whatever they are.
LEMMA ChangesLead ==
  ASSUME NEW old \in Facts, NEW new \in Facts, NEW s \in Sections
  PROVE  /\ old[s].present /\ new[s].present =>
              Patched(old[s], new[s], s, CompareFacts(old, new)) = new[s].items
         /\ (\E c \in CompareFacts(old, new) : c.section = s /\ c.kind = "evidence_lost")
              <=> old[s].present /\ ~new[s].present
<1>1. ASSUME old[s].present, new[s].present
      PROVE  Patched(old[s], new[s], s, CompareFacts(old, new)) = new[s].items
  <2> DEFINE of(kind) == Reported(CompareFacts(old, new), s, kind)
             here == DOMAIN old[s].items
             there == DOMAIN new[s].items
             come == of("added") \cup of("updated")
  <2>1. /\ of("added") = OfKind(old[s], new[s], "added")
        /\ of("updated") = OfKind(old[s], new[s], "updated")
        /\ of("removed") = OfKind(old[s], new[s], "removed")
    BY <1>1, ItemsOfKind
  <2>2. of("removed") = here \ there
    BY <2>1 DEF ItemKind, OfKind
  <2>3. come = {item \in there : item \in here => new[s].items[item] # old[s].items[item]}
    BY <2>1 DEF ItemKind, OfKind
  <2>4. Patched(old[s], new[s], s, CompareFacts(old, new))
          = [item \in (here \ of("removed")) \cup come |->
               IF item \in come THEN new[s].items[item] ELSE old[s].items[item]]
    BY DEF Patched, Reported
  <2>5. new[s].items = [item \in there |-> new[s].items[item]]
    <3>1. new[s] \in Contents
      BY <1>1 DEF Facts, Absent
    <3> QED  BY <3>1 DEF Contents
  <2> HIDE DEF of, here, there, come
  <2>6. (here \ of("removed")) \cup come = there
    BY <2>2, <2>3
  <2>7. \A item \in there : item \notin come => old[s].items[item] = new[s].items[item]
    BY <2>3
  <2> QED  BY <2>4, <2>5, <2>6, <2>7
<1>2. ASSUME NEW c \in CompareFacts(old, new), c.section = s, c.kind = "evidence_lost"
      PROVE  old[s].present /\ ~new[s].present
  <2>1. CASE \E t \in Sections : /\ old[t].present /\ ~new[t].present
                                 /\ c = [section |-> t, kind |-> "evidence_lost"]
    BY <1>2, <2>1
  <2>2. CASE \E t \in Sections, item \in Items :
                c = [section |-> t, kind |-> ItemKind(old[t], new[t], item), item |-> item]
    BY <1>2, <2>2 DEF ItemKind
  <2>3. \A t \in Sections : DOMAIN old[t].items \cup DOMAIN new[t].items \subseteq Items
    BY ContentsTyped DEF Facts
  <2> QED  BY <2>1, <2>2, <2>3 DEF CompareFacts
<1>3. ASSUME old[s].present, ~new[s].present
      PROVE  \E c \in CompareFacts(old, new) : c.section = s /\ c.kind = "evidence_lost"
  <2>1. PICK c : c = [section |-> s, kind |-> "evidence_lost"]
    OBVIOUS
  <2>2. c \in CompareFacts(old, new)
    BY <1>3, <2>1 DEF CompareFacts
  <2> QED  BY <2>1, <2>2
<1> QED  BY <1>1, <1>2, <1>3

\* The changes a briefing reports turn the snapshot it compared with into its
\* own facts, in every section that both have, and the sections reported as
\* lost are those that only the snapshot has.
THEOREM ChangesAreExact == Spec => []ChangesExplainDifference
<1>1. ASSUME Inv PROVE ChangesExplainDifference
  <2>1. report.previous \in Facts /\ report.facts \in Facts
    BY <1>1 DEF Inv, TypeOK, Report
  <2>2. report.changes = CompareFacts(report.previous, report.facts)
    BY <1>1 DEF Inv, ReportSound
  <2> QED  BY <2>1, <2>2, ChangesLead DEF ChangesExplainDifference
<1> QED  BY Invariance, <1>1, PTL

\* Retention leaves the last snapshot of every profile the last one, or leaves
\* none of that profile: what the next briefing is compared with is never an
\* older snapshot, although retention goes by the text of the time.
THEOREM NewestIsKept == Spec => PruningKeepsNewest
<1>1. ASSUME Inv, ~crowded, Prune, NEW p \in Profiles, RowsOf(p) # {}
      PROVE  \/ \E n \in DOMAIN rows' :
                    /\ rows'[n] = rows[Newest(RowsOf(p))]
                    /\ \A m \in DOMAIN rows' : rows'[m].profile = p => m <= n
             \/ \A m \in DOMAIN rows' : rows'[m].profile # p
  <2>1. PICK cutoff \in 0 .. clock : rows' = Kept(Retained(cutoff))
    BY <1>1 DEF Prune
  <2>2. PICK P : P = Retained(cutoff)
    OBVIOUS
  <2>3. P \in SUBSET DOMAIN rows /\ Closed(P)
    BY <1>1, <2>2, RetainedClosed DEF Inv
  <2>4. TypeOK /\ rows' = Kept(P)
    BY <1>1, <2>1, <2>2 DEF Inv
  <2>5. PICK n \in DOMAIN rows : /\ Newest(RowsOf(p)) = n /\ rows[n].profile = p
                                 /\ \A m \in DOMAIN rows : rows[m].profile = p => m <= n
    BY <1>1, <2>4, LastOfProfile
  <2>6. \/ \E j \in DOMAIN rows' :
             rows'[j] = rows[n] /\ \A m \in DOMAIN rows' : rows'[m].profile = p => m <= j
        \/ \A m \in DOMAIN rows' : rows'[m].profile # p
    BY <2>3, <2>4, <2>5, KeptInOrder
  <2> QED  BY <2>5, <2>6
<1>2. Inv => (~crowded /\ rows' # rows /\ Prune =>
          \A p \in Profiles : RowsOf(p) # {} =>
             \/ \E n \in DOMAIN rows' :
                    /\ rows'[n] = rows[Newest(RowsOf(p))]
                    /\ \A m \in DOMAIN rows' : rows'[m].profile = p => m <= n
             \/ \A m \in DOMAIN rows' : rows'[m].profile # p)
  BY <1>1
<1> QED  BY Invariance, <1>2, PTL DEF PruningKeepsNewest

\* A briefing that ends without a warning about its history leaves its facts in
\* the last snapshot of its profile, whether it has saved them or found them
\* there, and whatever other briefings have saved meanwhile.
THEOREM ReportIsBaseline == Spec => ReportedFactsAreBaseline
<1>1. ASSUME Inv, NEW b \in Briefings, SkipSave(b)
      PROVE  LET own == {n \in DOMAIN rows' : rows'[n].profile = brief[b].profile} IN
             own # {} /\ rows'[Newest(own)].facts = brief[b].facts
  BY <1>1 DEF SkipSave, AlreadySaved, RowsOf
<1>2. ASSUME Inv, NEW b \in Briefings, Insert(b)
      PROVE  LET own == {n \in DOMAIN rows' : rows'[n].profile = brief[b].profile} IN
             own # {} /\ rows'[Newest(own)].facts = brief[b].facts
  <2>1. PICK row : row = [profile |-> brief[b].profile, captured |-> brief[b].captured,
                          at |-> brief[b].at, facts |-> brief[b].facts]
    OBVIOUS
  <2>2. PICK k \in Nat : k = Len(rows)
    BY <1>2 DEF Inv, TypeOK
  <2>3. DOMAIN rows' = 1 .. k + 1 /\ rows'[k + 1] = row
    BY <1>2, <2>1, <2>2 DEF Insert, Inv, TypeOK
  <2>4. PICK own : own = {n \in DOMAIN rows' : rows'[n].profile = brief[b].profile}
    OBVIOUS
  <2>5. own \in SUBSET (1 .. k + 1) /\ k + 1 \in own /\ k + 1 \in Nat
    BY <2>1, <2>3, <2>4
  <2>6. \A n \in own : n <= k + 1
    BY <2>5
  <2>7. Newest(own) = k + 1
    BY <2>5, <2>6, NewestIsLast
  <2> QED  BY <2>1, <2>3, <2>4, <2>5, <2>7
<1>3. Inv => \A b \in Briefings :
          SkipSave(b) \/ Insert(b) =>
             LET own == {n \in DOMAIN rows' : rows'[n].profile = brief[b].profile} IN
             own # {} /\ rows'[Newest(own)].facts = brief[b].facts
  BY <1>1, <1>2
<1> QED  BY Invariance, <1>3, PTL DEF ReportedFactsAreBaseline

=============================================================================
