-------------------------- MODULE LiveCachesProofs ---------------------------
(***************************************************************************)
(* Theorems about LiveCaches, for any number of callers, any periods and    *)
(* any bound on time.                                                       *)
(***************************************************************************)
EXTENDS LiveCaches, TLAPS

\* What is kept was retrieved in the past, and expires a period later.
CacheSound ==
    cache.answer.retrieved # Never =>
        /\ cache.answer.retrieved <= now
        /\ cache.expires \in {cache.answer.retrieved + RegistryTtl,
                              cache.answer.retrieved + FallbackTtl}

\* Nothing but a store brings entries, and stations come to it complete.
RefreshSound ==
    /\ cache.answer.retrieved = Never => cache.answer.origin = "nowhere"
    /\ \A c \in Callers : kind = "velov" /\ call[c].pc = "storing" => call[c].read = {"none"}

Inv == TypeOK /\ CacheSound /\ RefreshSound

PCs == {"idle", "locking", "reading", "storing", "listing", "returning"}

LEMMA NoFrameType == NoAnswer \in Answer /\ NoFrame \in Frame /\ NoFrame.pc = "idle"
  BY DEF NoAnswer, Answer, NoFrame, Frame, Errors, Origins

LEMMA InitSound == Init => Inv
<1> SUFFICES ASSUME Init PROVE Inv
  OBVIOUS
<1>1. TypeOK
  <2>1. NoCache \in [expires : 0 .. MaxTime + RegistryTtl + FallbackTtl, answer : Answer]
    BY NoFrameType, TimeAssumption DEF NoCache
  <2> QED BY <2>1, NoFrameType, TimeAssumption DEF Init, TypeOK, Times
<1>2. CacheSound /\ RefreshSound
  BY NoFrameType DEF Init, CacheSound, RefreshSound, NoCache, NoAnswer
<1> QED BY <1>1, <1>2 DEF Inv

\* What Goto does to a caller's frame and to the others.
LEMMA GotoEffect ==
  ASSUME TypeOK, NEW c \in Callers, NEW p \in PCs, NEW f \in Frame, Goto(c, p, f)
  PROVE  /\ call' \in [Callers -> Frame]
         /\ \A d \in Callers \ {c} : call'[d] = call[d]
         /\ call'[c].pc = p /\ call'[c].read = f.read /\ call'[c].answer = f.answer
<1> DEFINE g == [f EXCEPT !.pc = p]
<1>1. g \in Frame
  BY DEF Frame, PCs
<1>2. call' = [call EXCEPT ![c] = g]
  BY DEF Goto
<1>3. g.pc = p /\ g.read = f.read /\ g.answer = f.answer
  BY DEF Frame
<1> HIDE DEF g
<1> QED BY <1>1, <1>2, <1>3 DEF TypeOK

\* A caller that has an answer is done with the cache.
LEMMA AnsweredEffect ==
  ASSUME TypeOK, NEW c \in Callers, NEW a \in Answer, Answered(c, a)
  PROVE  /\ call' \in [Callers -> Frame]
         /\ \A d \in Callers \ {c} : call'[d] = call[d]
         /\ call'[c].pc \in {"listing", "returning"} /\ call'[c].answer = a
<1>1. PICK ended \in BOOLEAN, stamps \in SUBSET (Times \cup {Never}) :
        /\ ended = call[c].ended
        /\ stamps = IF a.origin = "features" THEN {now} ELSE {}
  BY DEF TypeOK, Frame
<1> DEFINE f == [NoFrame EXCEPT !.ended = ended, !.answer = a, !.stamps = stamps]
           p == IF kind = "velov" THEN "returning" ELSE "listing"
<1>2. f \in Frame /\ f.answer = a
  BY NoFrameType DEF Frame
<1>3. Goto(c, p, f)
  BY <1>1 DEF Answered
<1>4. p \in PCs
  BY DEF PCs
<1> HIDE DEF f
<1> QED BY <1>2, <1>3, <1>4, GotoEffect

\* What a step of one caller has to establish when it keeps the cache.
LEMMA FrameStep ==
  ASSUME Inv, NEW c \in Callers, call' \in [Callers -> Frame],
         \A d \in Callers \ {c} : call'[d] = call[d],
         UNCHANGED <<kind, now, cache>>,
         mutex' \in Callers \cup {Nobody},
         \A d \in Callers : mutex' = d <=> call'[d].pc \in {"reading", "storing"},
         kind = "velov" /\ call'[c].pc = "storing" => call'[c].read = {"none"}
  PROVE  Inv'
<1>1. TypeOK'
  BY DEF Inv, TypeOK
<1>2. CacheSound'
  BY DEF Inv, CacheSound
<1>3. RefreshSound'
  BY DEF Inv, RefreshSound
<1> QED BY <1>1, <1>2, <1>3 DEF Inv

-----------------------------------------------------------------------------
(* The steps, one lemma each.                                              *)

LEMMA EnterSound == ASSUME Inv, NEW c \in Callers, Enter(c) PROVE Inv'
<1>1. /\ call' \in [Callers -> Frame] /\ \A d \in Callers \ {c} : call'[d] = call[d]
      /\ call'[c].pc = "locking"
  BY NoFrameType, GotoEffect DEF Enter, PCs, Inv
<1> QED BY <1>1, FrameStep DEF Enter, Inv, TypeOK

LEMMA EndContextSound == ASSUME Inv, NEW c \in Callers, EndContext(c) PROVE Inv'
<1>1. PICK f \in Frame : f = call[c]
  BY DEF Inv, TypeOK
<1>2. call' = [call EXCEPT ![c] = [f EXCEPT !.ended = TRUE]]
  BY <1>1 DEF EndContext
<1>3. /\ [f EXCEPT !.ended = TRUE] \in Frame
      /\ [f EXCEPT !.ended = TRUE].pc = f.pc /\ [f EXCEPT !.ended = TRUE].read = f.read
  BY DEF Frame
<1>4. /\ call' \in [Callers -> Frame] /\ \A d \in Callers \ {c} : call'[d] = call[d]
      /\ call'[c].pc = call[c].pc /\ call'[c].read = call[c].read
  BY <1>1, <1>2, <1>3 DEF Inv, TypeOK
<1> QED BY <1>4, FrameStep DEF EndContext, Inv, TypeOK, RefreshSound

\* What the cache holds is an answer, error included.
LEMMA HitSound == ASSUME Inv, NEW c \in Callers, Hit(c) PROVE Inv'
<1>1. cache.answer \in Answer
  BY DEF Inv, TypeOK
<1>2. /\ call' \in [Callers -> Frame] /\ \A d \in Callers \ {c} : call'[d] = call[d]
      /\ call'[c].pc \in {"listing", "returning"}
  BY <1>1, AnsweredEffect DEF Hit, Inv
<1> QED BY <1>2, FrameStep DEF Hit, Inv, TypeOK

LEMMA RefreshStepSound == ASSUME Inv, NEW c \in Callers, Refresh(c) PROVE Inv'
<1>1. call[c] \in Frame
  BY DEF Inv, TypeOK
<1>2. /\ call' \in [Callers -> Frame] /\ \A d \in Callers \ {c} : call'[d] = call[d]
      /\ call'[c].pc = "reading"
  BY <1>1, GotoEffect DEF Refresh, PCs, Inv
<1>3. \A d \in Callers : mutex' = d <=> call'[d].pc \in {"reading", "storing"}
  BY <1>2, TimeAssumption DEF Refresh, Inv, TypeOK
<1> QED BY <1>2, <1>3, FrameStep DEF Refresh, Inv, TypeOK

\* A refused or failed refresh answers with an error and no entries.
LEMMA ErrorAnswer ==
  ASSUME NEW e \in Errors
  PROVE  /\ [NoAnswer EXCEPT !.error = e] \in Answer
         /\ [NoAnswer EXCEPT !.error = e].origin = "nowhere"
  BY NoFrameType DEF Answer, NoAnswer

LEMMA RefuseSound == ASSUME Inv, NEW c \in Callers, Refuse(c) PROVE Inv'
<1>1. "failed" \in Errors
  BY DEF Errors
<1>2. /\ call' \in [Callers -> Frame] /\ \A d \in Callers \ {c} : call'[d] = call[d]
      /\ call'[c].pc \in {"listing", "returning"}
  BY <1>1, ErrorAnswer, AnsweredEffect DEF Refuse, Inv
<1> QED BY <1>2, FrameStep DEF Refuse, Inv, TypeOK

LEMMA ReadStationsSound == ASSUME Inv, NEW c \in Callers, ReadStations(c) PROVE Inv'
<1>1. PICK r \in Result(c) :
        IF r.error = "none"
           THEN /\ Goto(c, "storing", [call[c] EXCEPT !.read = {"none"},
                            !.origin = IF r.useful THEN "table" ELSE "nowhere"])
                /\ UNCHANGED mutex
           ELSE /\ Answered(c, [NoAnswer EXCEPT !.error = r.error])
                /\ Unlocked
  BY DEF ReadStations
<1>2. r.error \in Errors
  BY DEF Result
<1>3. call[c].pc = "reading" /\ UNCHANGED <<kind, now, cache>> /\ TypeOK /\ mutex = c
  BY DEF ReadStations, Inv, TypeOK
<1>4. CASE r.error = "none"
  <2>1. PICK f \in Frame : f = call[c]
    BY <1>3 DEF TypeOK
  <2> DEFINE origin == IF r.useful THEN "table" ELSE "nowhere"
             g == [f EXCEPT !.read = {"none"}, !.origin = origin]
  <2>2. g \in Frame /\ g.read = {"none"}
    BY DEF Frame, Origins
  <2>3. Goto(c, "storing", g) /\ "storing" \in PCs
    BY <1>1, <1>4, <2>1 DEF PCs
  <2> HIDE DEF g
  <2>4. /\ call' \in [Callers -> Frame] /\ \A d \in Callers \ {c} : call'[d] = call[d]
        /\ call'[c].pc = "storing" /\ call'[c].read = {"none"}
    BY <1>3, <2>2, <2>3, GotoEffect
  <2> QED BY <1>1, <1>3, <1>4, <2>4, FrameStep DEF TypeOK
<1>5. CASE r.error # "none"
  <2>1. /\ call' \in [Callers -> Frame] /\ \A d \in Callers \ {c} : call'[d] = call[d]
        /\ call'[c].pc \in {"listing", "returning"}
    BY <1>1, <1>2, <1>3, <1>5, ErrorAnswer, AnsweredEffect
  <2>2. mutex' = Nobody
    BY <1>1, <1>5 DEF Unlocked
  <2>3. \A d \in Callers : mutex' = d <=> call'[d].pc \in {"reading", "storing"}
    BY <1>3, <2>1, <2>2, TimeAssumption DEF TypeOK
  <2> QED BY <1>3, <2>1, <2>2, <2>3, FrameStep
<1> QED BY <1>4, <1>5

\* The next source is asked, or what there is will be kept.
LEMMA ReadAvailabilityEffect ==
  ASSUME Inv, NEW c \in Callers, ReadAvailability(c)
  PROVE  /\ call' \in [Callers -> Frame] /\ \A d \in Callers \ {c} : call'[d] = call[d]
         /\ call'[c].pc \in {"reading", "storing"} /\ call'[c].answer = call[c].answer
<1>1. PICK r \in Result(c) :
        LET frame == [call[c] EXCEPT
                !.read = @ \cup ({r.error} \ {"failed"}),
                !.origin = IF ~r.useful THEN "nowhere"
                           ELSE IF call[c].rung < 3 THEN "features" ELSE "table"]
        IN \/ /\ r.useful \/ call[c].rung >= 3
              /\ Goto(c, "storing", frame)
           \/ /\ ~r.useful /\ call[c].rung < 4
              /\ Goto(c, "reading", [frame EXCEPT !.rung = @ + 1])
  BY DEF ReadAvailability
<1>2. r.error \in Errors
  BY DEF Result
<1>3. /\ call[c].pc = "reading" /\ kind = "parking" /\ UNCHANGED <<kind, now, cache, mutex>>
      /\ TypeOK
  BY DEF ReadAvailability, Inv
<1> DEFINE origin == IF ~r.useful THEN "nowhere"
                     ELSE IF call[c].rung < 3 THEN "features" ELSE "table"
           read == call[c].read \cup ({r.error} \ {"failed"})
           f == [call[c] EXCEPT !.read = read, !.origin = origin]
           g == [f EXCEPT !.rung = @ + 1]
<1>4. call[c] \in Frame /\ read \in SUBSET {"none", "truncated"} /\ origin \in Origins
  BY <1>2, <1>3 DEF TypeOK, Frame, Errors, Origins
<1>5. f \in Frame /\ f.rung = call[c].rung /\ f.answer = call[c].answer
  <2> HIDE DEF read, origin
  <2> QED BY <1>4 DEF Frame
<1>6. call[c].rung < 4 => g \in Frame /\ g.answer = call[c].answer
  <2> HIDE DEF f
  <2>1. call[c].rung \in 1 .. 4
    BY <1>4 DEF Frame
  <2> QED BY <1>5, <2>1 DEF Frame
<1>7. Goto(c, "storing", f) \/ (call[c].rung < 4 /\ Goto(c, "reading", g))
  BY <1>1
<1> HIDE DEF f, g, read, origin
<1> QED BY <1>3, <1>5, <1>6, <1>7, GotoEffect DEF PCs

LEMMA ReadAvailabilitySound ==
  ASSUME Inv, NEW c \in Callers, ReadAvailability(c) PROVE Inv'
<1>1. /\ call[c].pc = "reading" /\ kind = "parking" /\ UNCHANGED <<kind, now, cache, mutex>>
      /\ TypeOK
  BY DEF ReadAvailability, Inv
<1> QED BY <1>1, ReadAvailabilityEffect, FrameStep DEF TypeOK

\* What a refresh keeps is retrieved now, for a period, and is its answer.
LEMMA StoreEffect ==
  ASSUME Inv, NEW c \in Callers, Store(c)
  PROVE  /\ call' \in [Callers -> Frame] /\ \A d \in Callers \ {c} : call'[d] = call[d]
         /\ call'[c].pc \in {"listing", "returning"}
         /\ call'[c].answer = [origin |-> call[c].origin, retrieved |-> now,
                               error |-> ErrorOf(call[c])]
         /\ cache' \in [expires : 0 .. MaxTime + RegistryTtl + FallbackTtl, answer : Answer]
         /\ call'[c].answer.retrieved = now /\ cache'.answer.retrieved = now
         /\ call'[c].answer.error = ErrorOf(call[c])
         /\ cache'.expires \in {now + RegistryTtl, now + FallbackTtl}
<1> DEFINE a == [origin |-> call[c].origin, retrieved |-> now, error |-> ErrorOf(call[c])]
<1>1. /\ Answered(c, a) /\ TypeOK
      /\ \E ttl \in IF call[c].ended THEN {FallbackTtl} ELSE {RegistryTtl, FallbackTtl} :
            cache' = [expires |-> now + ttl, answer |-> a]
  BY DEF Store, Inv
<1>2. PICK ttl \in {RegistryTtl, FallbackTtl} : cache' = [expires |-> now + ttl, answer |-> a]
  BY <1>1
<1>3. ErrorOf(call[c]) \in Errors
  BY DEF ErrorOf, Errors
<1>4. a \in Answer /\ a.retrieved = now
  BY <1>1, <1>3 DEF TypeOK, Frame, Answer
<1>5. now + ttl \in 0 .. MaxTime + RegistryTtl + FallbackTtl
  BY <1>1, TimeAssumption DEF TypeOK, Times
<1> HIDE DEF a
<1>6. /\ call' \in [Callers -> Frame] /\ \A d \in Callers \ {c} : call'[d] = call[d]
      /\ call'[c].pc \in {"listing", "returning"} /\ call'[c].answer = a
  BY <1>1, <1>4, AnsweredEffect
<1>7. /\ cache' \in [expires : 0 .. MaxTime + RegistryTtl + FallbackTtl, answer : Answer]
      /\ cache'.answer = a /\ cache'.expires = now + ttl
  BY <1>2, <1>4, <1>5
<1> QED BY <1>4, <1>6, <1>7 DEF a

LEMMA StoreSound == ASSUME Inv, NEW c \in Callers, Store(c) PROVE Inv'
<1>1. /\ call[c].pc = "storing" /\ mutex' = Nobody /\ UNCHANGED <<kind, now>>
  BY DEF Store, Unlocked
<1>2. \A d \in Callers : mutex' = d <=> call'[d].pc \in {"reading", "storing"}
  BY <1>1, StoreEffect, TimeAssumption DEF Inv, TypeOK
<1>3. TypeOK'
  BY <1>1, <1>2, StoreEffect DEF Inv, TypeOK
<1>4. now \in Nat
  BY TimeAssumption DEF Inv, TypeOK, Times
<1>5. /\ cache'.answer.retrieved = now
      /\ cache'.expires \in {now + RegistryTtl, now + FallbackTtl}
      /\ call'[c].pc # "storing" /\ \A d \in Callers \ {c} : call'[d] = call[d]
  BY StoreEffect
<1>6. CacheSound'
  BY <1>1, <1>4, <1>5 DEF CacheSound
<1>7. RefreshSound'
  <2>1. cache'.answer.retrieved # Never
    BY <1>4, <1>5 DEF Never
  <2> QED BY <1>1, <1>5, <2>1 DEF Inv, RefreshSound
<1> QED BY <1>3, <1>6, <1>7 DEF Inv

LEMMA ListTableSound == ASSUME Inv, NEW c \in Callers, ListTable(c) PROVE Inv'
<1>1. PICK stamps \in SUBSET (Times \cup {Never}) :
        Goto(c, "returning", [call[c] EXCEPT !.stamps = @ \cup stamps])
  <2>1. {cache.answer.retrieved} \in SUBSET (Times \cup {Never})
    BY DEF Inv, TypeOK, Answer
  <2> QED BY <2>1 DEF ListTable
<1>2. /\ call[c].pc = "listing" /\ UNCHANGED <<kind, now, cache, mutex>> /\ TypeOK
      /\ call[c] \in Frame
  BY DEF ListTable, Inv, TypeOK
<1> DEFINE f == [call[c] EXCEPT !.stamps = @ \cup stamps]
<1>3. f \in Frame
  BY <1>2 DEF Frame
<1> HIDE DEF f
<1>4. /\ call' \in [Callers -> Frame] /\ \A d \in Callers \ {c} : call'[d] = call[d]
      /\ call'[c].pc = "returning"
  BY <1>1, <1>2, <1>3, GotoEffect DEF PCs, f
<1> QED BY <1>2, <1>4, FrameStep DEF TypeOK

LEMMA ReturnSound == ASSUME Inv, NEW c \in Callers, Return(c) PROVE Inv'
<1>1. /\ call' \in [Callers -> Frame] /\ \A d \in Callers \ {c} : call'[d] = call[d]
      /\ call'[c].pc = "idle"
  BY NoFrameType DEF Return, Inv, TypeOK
<1> QED BY <1>1, FrameStep DEF Return, Inv, TypeOK

LEMMA TickSound == ASSUME Inv, Tick PROVE Inv'
<1>1. now' \in Times /\ now <= now'
  BY TimeAssumption DEF Tick, Inv, TypeOK, Times
<1>2. TypeOK' /\ RefreshSound'
  BY <1>1 DEF Tick, Inv, TypeOK, RefreshSound
<1>3. CacheSound'
  <2>1. cache.answer.retrieved # Never => cache.answer.retrieved \in Times
    BY DEF Inv, TypeOK, Answer
  <2> QED BY <1>1, <2>1, TimeAssumption DEF Tick, Inv, TypeOK, CacheSound, Times
<1> QED BY <1>2, <1>3 DEF Inv

LEMMA Inductive == Inv /\ [Next]_vars => Inv'
<1> SUFFICES ASSUME Inv, [Next]_vars PROVE Inv'
  OBVIOUS
<1>1. CASE UNCHANGED vars
  BY <1>1 DEF vars, Inv, TypeOK, CacheSound, RefreshSound
<1>2. CASE Next
  BY <1>2, EnterSound, EndContextSound, HitSound, RefreshStepSound, RefuseSound,
     ReadStationsSound, ReadAvailabilitySound, StoreSound, ListTableSound, ReturnSound,
     TickSound DEF Next, Step
<1> QED BY <1>1, <1>2

-----------------------------------------------------------------------------
(* What a step does to the callers.                                        *)

Moves(c) == Step(c) \/ EndContext(c) \/ Enter(c)

LEMMA OthersKept ==
  ASSUME TypeOK, NEW c \in Callers, Moves(c)
  PROVE  \A d \in Callers \ {c} : call'[d] = call[d]
<1>1. \E f : call' = [call EXCEPT ![c] = f]
  BY DEF Moves, Step, EndContext, Enter, Hit, Refresh, Refuse, ReadStations,
         ReadAvailability, Store, ListTable, Return, Answered, Goto
<1> QED BY <1>1 DEF TypeOK

\* From the lock a caller goes on to an answer that is kept or refused, to a
\* refresh, or only loses its context.
LEMMA LockingCases ==
  ASSUME NEW c \in Callers, Moves(c), call[c].pc = "locking"
  PROVE  Hit(c) \/ Refresh(c) \/ Refuse(c) \/ EndContext(c)
  BY DEF Moves, Step, Enter, ReadStations, ReadAvailability, Store, ListTable, Return

LEMMA EndContextEffect ==
  ASSUME TypeOK, NEW c \in Callers, EndContext(c)
  PROVE  call'[c].pc = call[c].pc /\ call'[c].answer = call[c].answer
<1>1. PICK f \in Frame : f = call[c]
  BY DEF TypeOK
<1>2. call'[c] = [f EXCEPT !.ended = TRUE]
  BY <1>1 DEF EndContext, TypeOK
<1> QED BY <1>1, <1>2 DEF Frame

\* Only Refresh begins one.
LEMMA OnlyRefreshReads ==
  ASSUME Inv, NEW c \in Callers, Moves(c), call[c].pc = "locking", call'[c].pc = "reading"
  PROVE  Refresh(c)
<1>1. ~Hit(c)
  <2>1. cache.answer \in Answer
    BY DEF Inv, TypeOK
  <2> QED BY <2>1, AnsweredEffect DEF Hit, Inv
<1>2. ~Refuse(c)
  <2>1. "failed" \in Errors
    BY DEF Errors
  <2> QED BY <2>1, ErrorAnswer, AnsweredEffect DEF Refuse, Inv
<1>3. ~EndContext(c)
  BY EndContextEffect DEF Inv
<1> QED BY <1>1, <1>2, <1>3, LockingCases

-----------------------------------------------------------------------------
(* The theorems.                                                           *)

\* The inductive invariant behind the others.
THEOREM Invariance == Spec => []Inv
  BY InitSound, Inductive, PTL DEF Spec

\* The variables keep their types, and a mutex is held by exactly the caller
\* that refreshes the cache.
THEOREM TypeCorrect == Spec => []TypeOK
<1>1. Inv => TypeOK
  BY DEF Inv
<1> QED BY <1>1, Invariance, PTL

\* Nobody begins a refresh within a period of the last one that was kept.
THEOREM RefreshesSpaced == Spec => OneRefreshPerPeriod
<1> DEFINE Spaced(c) ==
      call[c].pc = "locking" /\ call'[c].pc = "reading" /\ cache.answer.retrieved # Never
      => now - cache.answer.retrieved >= Shortest
<1>1. ASSUME Inv, [Next]_vars, NEW c \in Callers PROVE Spaced(c)
  <2> SUFFICES ASSUME call[c].pc = "locking", call'[c].pc = "reading",
                      cache.answer.retrieved # Never
               PROVE  now - cache.answer.retrieved >= Shortest
    OBVIOUS
  <2>1. now >= cache.expires
    <3>1. PICK d \in Callers : Moves(d)
      BY <1>1 DEF Next, Tick, vars, Moves
    <3>2. d = c
      BY <1>1, <3>1, OthersKept DEF Inv
    <3> QED BY <1>1, <3>1, <3>2, OnlyRefreshReads DEF Refresh
  <2>2. now \in Nat /\ cache.answer.retrieved \in Nat
    BY <1>1, TimeAssumption DEF Inv, TypeOK, Times, Answer
  <2> QED BY <1>1, <2>1, <2>2, TimeAssumption DEF Inv, CacheSound, Shortest
<1>2. Inv /\ [Next]_vars => [\A c \in Callers : Spaced(c)]_vars
  BY <1>1
<1> QED BY <1>2, Invariance, PTL DEF Spec, OneRefreshPerPeriod

\* The steps that bring a caller no answer leave the one it has, or none.
LEMMA AnswerKept ==
  ASSUME Inv, NEW c \in Callers,
         Enter(c) \/ EndContext(c) \/ Refresh(c) \/ ReadAvailability(c)
           \/ ListTable(c) \/ Return(c)
  PROVE  call'[c].answer \in {call[c].answer, NoAnswer}
<1>1. PICK f \in Frame : f = call[c]
  BY DEF Inv, TypeOK
<1>2. CASE Enter(c)
  BY <1>2, NoFrameType, GotoEffect DEF Enter, Inv, PCs, NoFrame
<1>3. CASE EndContext(c)
  BY <1>3, EndContextEffect DEF Inv
<1>4. CASE Refresh(c)
  BY <1>1, <1>4, GotoEffect DEF Refresh, Inv, PCs
<1>5. CASE ReadAvailability(c)
  BY <1>5, ReadAvailabilityEffect
<1>6. CASE ListTable(c)
  <2>1. PICK stamps :
          call' = [call EXCEPT ![c] = [[f EXCEPT !.stamps = @ \cup stamps] EXCEPT !.pc = "returning"]]
    BY <1>1, <1>6 DEF ListTable, Goto
  <2>2. [[f EXCEPT !.stamps = @ \cup stamps] EXCEPT !.pc = "returning"].answer = f.answer
    BY DEF Frame
  <2> QED BY <1>1, <2>1, <2>2 DEF Inv, TypeOK
<1>7. CASE Return(c)
  BY <1>7 DEF Return, Inv, TypeOK, NoFrame
<1> QED BY <1>2, <1>3, <1>4, <1>5, <1>6, <1>7

\* Whatever fails, a caller without an answer gets entries only from a retrieval
\* of now, or of less than a period ago.
THEOREM AnswersRecent == Spec => AnswersAreRecent
<1> DEFINE Recent(c) ==
      call[c].answer = NoAnswer /\ call'[c].answer.origin # "nowhere"
      => \/ now = call'[c].answer.retrieved
         \/ now - call'[c].answer.retrieved < Longest
<1>1. ASSUME Inv, [Next]_vars, NEW c \in Callers PROVE Recent(c)
  <2> SUFFICES ASSUME call[c].answer = NoAnswer, call'[c].answer.origin # "nowhere"
               PROVE  \/ now = call'[c].answer.retrieved
                      \/ now - call'[c].answer.retrieved < Longest
    OBVIOUS
  <2>1. NoAnswer.origin = "nowhere"
    BY DEF NoAnswer
  <2>2. PICK d \in Callers : Moves(d)
    BY <1>1, <2>1 DEF Next, Tick, vars, Moves
  <2>3. d = c
    BY <1>1, <2>1, <2>2, OthersKept DEF Inv
  <2>4. CASE Hit(c)
    <3>1. cache.answer \in Answer
      BY <1>1 DEF Inv, TypeOK
    <3>2. call'[c].answer = cache.answer /\ now < cache.expires
      BY <1>1, <2>4, <3>1, AnsweredEffect DEF Hit, Inv
    <3>3. cache.answer.retrieved # Never
      BY <1>1, <3>2 DEF Inv, RefreshSound
    <3>4. now \in Nat /\ cache.answer.retrieved \in Nat
      BY <1>1, <3>1, <3>3, TimeAssumption DEF Inv, TypeOK, Times, Answer
    <3> QED BY <1>1, <3>2, <3>3, <3>4, TimeAssumption DEF Inv, CacheSound, Longest
  <2>5. CASE Refuse(c)
    <3>1. "failed" \in Errors
      BY DEF Errors
    <3> QED BY <1>1, <2>5, <3>1, ErrorAnswer, AnsweredEffect DEF Refuse, Inv
  <2>6. CASE ReadStations(c)
    <3>1. PICK r \in Result(c) :
            IF r.error = "none"
               THEN Goto(c, "storing", [call[c] EXCEPT !.read = {"none"},
                            !.origin = IF r.useful THEN "table" ELSE "nowhere"])
               ELSE Answered(c, [NoAnswer EXCEPT !.error = r.error])
      BY <2>6 DEF ReadStations
    <3>2. CASE r.error = "none"
      <4>1. PICK f \in Frame : f = call[c]
        BY <1>1 DEF Inv, TypeOK
      <4> DEFINE origin == IF r.useful THEN "table" ELSE "nowhere"
                 g == [f EXCEPT !.read = {"none"}, !.origin = origin]
      <4>2. g \in Frame /\ g.answer = f.answer
        BY DEF Frame, Origins
      <4>3. Goto(c, "storing", g)
        BY <3>1, <3>2, <4>1
      <4> HIDE DEF g
      <4> QED BY <1>1, <2>1, <4>1, <4>2, <4>3, GotoEffect DEF Inv, PCs
    <3>3. CASE r.error # "none"
      <4>1. r.error \in Errors
        BY DEF Result
      <4> QED BY <1>1, <3>1, <3>3, <4>1, ErrorAnswer, AnsweredEffect DEF Inv
    <3> QED BY <3>2, <3>3
  <2>7. CASE Store(c)
    <3>1. call'[c].answer.retrieved = now
      BY <1>1, <2>7, StoreEffect
    <3> QED BY <3>1
  <2> QED BY <1>1, <2>1, <2>2, <2>3, <2>4, <2>5, <2>6, <2>7, AnswerKept DEF Moves, Step
<1>2. Inv /\ [Next]_vars => [\A c \in Callers : Recent(c)]_vars
  BY <1>1
<1> QED BY <1>2, Invariance, PTL DEF Spec, AnswersAreRecent

\* No refresh that was kept without an error hides one: some source succeeded,
\* none was cut short, and stations come from complete reads.
THEOREM FailuresShown == Spec => FailuresSurface
<1> DEFINE Shown(c) ==
      call[c].pc = "storing" /\ call'[c].pc # "storing" /\ call'[c].answer.error = "none"
      => IF kind = "velov" THEN call[c].read = {"none"}
         ELSE "none" \in call[c].read /\ "truncated" \notin call[c].read
<1>1. ASSUME Inv, [Next]_vars, NEW c \in Callers PROVE Shown(c)
  <2> SUFFICES ASSUME call[c].pc = "storing", call'[c].pc # "storing",
                      call'[c].answer.error = "none"
               PROVE  IF kind = "velov" THEN call[c].read = {"none"}
                      ELSE "none" \in call[c].read /\ "truncated" \notin call[c].read
    OBVIOUS
  <2>1. PICK d \in Callers : Moves(d)
    BY <1>1 DEF Next, Tick, vars, Moves
  <2>2. d = c
    BY <1>1, <2>1, OthersKept DEF Inv
  <2>3. ~EndContext(c)
    BY <1>1, EndContextEffect DEF Inv
  <2>4. Store(c)
    BY <2>1, <2>2, <2>3 DEF Moves, Step, Enter, Hit, Refresh, Refuse, ReadStations,
                            ReadAvailability, ListTable, Return
  <2>5. call'[c].answer.error = ErrorOf(call[c])
    BY <1>1, <2>4, StoreEffect
  <2> QED BY <1>1, <2>5 DEF Inv, RefreshSound, ErrorOf
<1>2. Inv /\ [Next]_vars => [\A c \in Callers : Shown(c)]_vars
  BY <1>1
<1> QED BY <1>2, Invariance, PTL DEF Spec, FailuresSurface

=============================================================================
