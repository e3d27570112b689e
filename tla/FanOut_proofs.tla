---------------------------- MODULE FanOut_proofs ----------------------------
(***************************************************************************)
(* Proofs about FanOut, for any plan of any size, any declared concurrency *)
(* and any stop and restart before the plan is recorded.                   *)
(*                                                                         *)
(* The decisions are a plan of the result, so each of them carries the     *)
(* dependencies of its own item.  A slot is HELD by every run that started *)
(* and is not done; held slots never exceed the bound, and a run that is   *)
(* running holds one.  That a failed run keeps its slot is what keeps the  *)
(* bound when it is re-run.                                                *)
(***************************************************************************)
EXTENDS FanOut, Handoffs_proofs, FunctionTheorems

\* Recorded decisions are the plan of the result.
PlanRecorded ==
  /\ result \in Results
  /\ planned => decisions = Plan

THEOREM TypeCorrect == Spec => [](TypeOK /\ PlanRecorded)
<1>1. Init => TypeOK /\ PlanRecorded
  BY DEF Init, TypeOK, PlanRecorded
<1>2. TypeOK /\ PlanRecorded /\ [Next]_vars => TypeOK' /\ PlanRecorded'
  <2> SUFFICES ASSUME TypeOK, PlanRecorded, [Next]_vars PROVE TypeOK' /\ PlanRecorded'
    OBVIOUS
  <2>1. CASE RecordHandoffs
    BY <2>1 DEF RecordHandoffs, TypeOK, PlanRecorded, FileDecisions, Plan
  <2>2. ASSUME NEW some, StopWhileFiling(some) PROVE TypeOK' /\ PlanRecorded'
    BY <2>2 DEF StopWhileFiling, TypeOK, PlanRecorded, FileDecisions
  <2>3. ASSUME NEW keys, StartRuns(keys) PROVE TypeOK' /\ PlanRecorded'
    <3>1. keys \subseteq {d.key : d \in FileDecisions} /\ keys \cap started = {}
      BY <2>3 DEF StartRuns, Startable, FanoutStartable, FileDecisions
    <3> QED
      BY <2>3, <3>1 DEF StartRuns, TypeOK, PlanRecorded, FileDecisions, Plan
  <2>4. ASSUME NEW k, Finish(k) \/ Fail(k) \/ Rerun(k) PROVE TypeOK' /\ PlanRecorded'
    BY <2>4 DEF Finish, Fail, Rerun, Ended, TypeOK, PlanRecorded, FileDecisions, Plan
  <2>5. CASE UNCHANGED vars
    BY <2>5 DEF vars, TypeOK, PlanRecorded, FileDecisions, Plan
  <2> QED
    BY <2>1, <2>2, <2>3, <2>4, <2>5 DEF Next
<1> QED
  BY <1>1, <1>2, PTL DEF Spec

\* What the plan decided about a run of the fan-out.
LEMMA FanDecision ==
  ASSUME PlanRecorded, TypeOK, NEW d \in decisions, Filing(d), d.handoff = Fan
  PROVE  \E s \in Yielded(Fan, result) :
           /\ s \in Subject
           /\ d = FileUnit(Fan, s, 1, RunInputs, result, ActiveVersions, existing)
           /\ d.key = FanKey(s) /\ d.key.subject = s
           /\ d.action = "file" => d.dependsOn = DependsOn(Fan, s, 1, result.out)
           /\ HandoffRefusal(Fan, result, ActiveVersions) = "none"
<1>1. d \in Plan
  BY DEF PlanRecorded, TypeOK
<1>2. PICK h : d \in FileHandoff(h, 1, RunInputs, result, ActiveVersions, existing)
  BY <1>1, PlanFilings DEF Plan
<1>3. h = Fan
  BY <1>2, HandoffFilings
<1>4. PICK s \in Units(Fan, result) :
        d = FileUnit(Fan, s, 1, RunInputs, result, ActiveVersions, existing)
  BY <1>2, <1>3, HandoffFilings
<1>5. HandoffRefusal(Fan, result, ActiveVersions) = "none"
  BY <1>2, <1>3, HandoffFilings
<1>6. /\ d.key = FanKey(s)
      /\ d.action = "file" => d.dependsOn = DependsOn(Fan, s, 1, result.out)
  BY <1>4, UnitDecision DEF Filing, FanKey
<1>7. s \in Yielded(Fan, result)
  BY FanOutAssumptions DEF Units, Accepted
<1>8. s \in DOMAIN result.out.items
  BY <1>7 DEF Yielded, ExpandSubjects
<1>9. s \in Subject
  BY <1>8, FanOutAssumptions DEF PlanRecorded
<1>10. d.key.subject = s
  BY <1>6 DEF FanKey, NaturalKey
<1> QED
  BY <1>4, <1>5, <1>6, <1>7, <1>9, <1>10

\* Only subjects that an approval of exactly this output keeps are filed.
THEOREM OnlyApprovedAlwaysStart == Spec => []OnlyApprovedStart
<1>1. TypeOK /\ PlanRecorded => OnlyApprovedStart
  <2> SUFFICES ASSUME TypeOK, PlanRecorded, Decl[Fan].approvedSubset,
                      NEW d \in decisions, Filing(d), d.handoff = Fan
               PROVE  /\ result.approval.digest = result.out.digest
                      /\ result.approval.subset # None => d.key.subject \in result.approval.subset
    BY DEF OnlyApprovedStart
  <2>1. PICK s \in Yielded(Fan, result) :
          d.key.subject = s /\ HandoffRefusal(Fan, result, ActiveVersions) = "none"
    BY FanDecision
  <2>2. ApprovalUsable(result)
    BY <2>1, FanOutAssumptions DEF HandoffRefusal
  <2> QED
    BY <2>1, <2>2 DEF ApprovalUsable, Yielded
<1> QED
  BY <1>1, TypeCorrect, PTL

\* No run starts before every subject its item lists is done.
THEOREM DependenciesAlwaysFirst == Spec => []DependenciesFirst
<1>1. Init => DependenciesFirst
  BY DEF Init, DependenciesFirst
<1>2. TypeOK /\ PlanRecorded /\ DependenciesFirst /\ [Next]_vars => DependenciesFirst'
  <2> SUFFICES ASSUME TypeOK, PlanRecorded, DependenciesFirst, [Next]_vars,
                      NEW k \in started', Decl[Fan].ordered,
                      NEW s \in result'.out.items[k.subject].deps
               PROVE  FanKey(s) \in done'
    BY DEF DependenciesFirst
  <2>1. done \subseteq done' /\ result' = result
    BY DEF Next, RecordHandoffs, StopWhileFiling, StartRuns, Finish, Fail, Rerun, vars
  <2>2. CASE k \in started
    BY <2>1, <2>2 DEF DependenciesFirst
  <2>3. CASE k \notin started
    <3>1. PICK keys : StartRuns(keys) /\ k \in keys
      BY <2>3 DEF Next, RecordHandoffs, StopWhileFiling, StartRuns, Finish, Fail, Rerun, vars
    <3>2. PICK d \in decisions : /\ d.action = "file" /\ d.handoff = Fan
                                 /\ d.key = k /\ d.dependsOn \subseteq done
      BY <3>1 DEF StartRuns, Startable, FanoutStartable
    <3>3. d.dependsOn = DependsOn(Fan, k.subject, 1, result.out)
      BY <3>2, FanDecision DEF Filing
    <3>4. FanKey(s) \in d.dependsOn
      BY <2>1, <3>3 DEF DependsOn, FanKey
    <3> QED
      BY <2>1, <3>2, <3>4
  <2> QED
    BY <2>2, <2>3
<1> QED
  BY <1>1, <1>2, TypeCorrect, PTL DEF Spec

-----------------------------------------------------------------------------
\* The runs of the fan-out that hold a slot: started, and not done.
Held == {d \in FileDecisions : d.key \in started /\ d.key \notin done}

HeldWithinConcurrency ==
  Decl[Fan].concurrency # None => Cardinality(Held) <= Decl[Fan].concurrency

\* A fan-out files finitely many runs, one per subject.
LEMMA FilesFinite ==
  ASSUME TypeOK, PlanRecorded
  PROVE  /\ IsFiniteSet(FileDecisions)
         /\ \A d \in FileDecisions : d.key.subject \in Subject
         /\ \A d, e \in FileDecisions : d.key.subject = e.key.subject => d = e
<1>1. \A d \in FileDecisions : \E s \in Subject :
        /\ d = FileUnit(Fan, s, 1, RunInputs, result, ActiveVersions, existing)
        /\ d.key.subject = s
  BY FanDecision DEF FileDecisions, Filing
<1> DEFINE f == [d \in FileDecisions |-> d.key.subject]
<1>2. f \in Injection(FileDecisions, Subject)
  BY <1>1 DEF Injection, IsInjective
<1>3. IsFiniteSet(FileDecisions)
  BY <1>2, FS_Injection, HandoffAssumptions
<1> QED
  BY <1>1, <1>3

\* If fewer than `room` elements of E come before each element of New, in an
\* order that tells elements apart, New has at most `room` elements.
LEMMA FittingSet ==
  ASSUME NEW E, IsFiniteSet(E), NEW place \in [E -> Nat],
         \A d, e \in E : place[d] = place[e] => d = e,
         NEW New \in SUBSET E, NEW room \in Nat,
         \A d \in New : Cardinality({e \in E : place[e] < place[d]}) < room
  PROVE  Cardinality(New) <= room
<1> DEFINE before(d) == {e \in E : place[e] < place[d]}
           size == [d \in E |-> Cardinality(before(d))]
<1>1. \A d \in E : IsFiniteSet(before(d)) /\ before(d) \in SUBSET E
  BY FS_Subset
<1>2. \A d \in E : size[d] = Cardinality(before(d)) /\ size[d] \in Nat
  BY <1>1, FS_CardinalityType
<1>3. \A d \in New : d \in E /\ size[d] \in Nat /\ size[d] < room
  BY <1>2
<1>4. ASSUME NEW d \in E, NEW e \in E, place[e] < place[d] PROVE size[e] + 1 <= size[d]
  <2>1. \A x \in E : place[x] \in Nat
    OBVIOUS
  <2>2. before(e) \cup {e} \in SUBSET before(d) /\ e \notin before(e)
    BY <1>4, <2>1
  <2> HIDE DEF before
  <2>3. Cardinality(before(e) \cup {e}) = Cardinality(before(e)) + 1
    BY <1>1, <2>2, FS_AddElement
  <2>4. Cardinality(before(e) \cup {e}) <= Cardinality(before(d))
    BY <1>1, <2>2, FS_Subset
  <2> QED
    BY <1>2, <2>3, <2>4
<1>5. CASE New = {}
  BY <1>5, FS_EmptySet
<1>6. CASE New # {}
  <2> DEFINE Gaps == {g \in Nat : \E d \in New : g = room - size[d]}
  <2> HIDE DEF size
  <2>0. \A d \in New : room - size[d] \in Nat
    BY <1>3
  <2>1. \A d \in New : room - size[d] \in Gaps
    BY <2>0
  <2>2. Gaps \in SUBSET Nat /\ Gaps # {}
    BY <1>6, <2>1
  <2>3. PICK g \in Gaps : \A x \in Gaps : g <= x
    <3> HIDE DEF Gaps
    <3> QED
      BY <2>2, LeastNumber
  <2>4. PICK last \in New : g = room - size[last]
    BY <2>3
  <2>5. \A d \in New : size[d] <= size[last]
    <3>1. \A d \in New : room - size[last] <= room - size[d]
      BY <2>1, <2>3, <2>4
    <3> QED
      BY <1>3, <3>1
  <2>6. New \in SUBSET (before(last) \cup {last})
    <3> SUFFICES ASSUME NEW d \in New, d # last PROVE place[d] < place[last]
      OBVIOUS
    <3>1. place[d] # place[last] /\ place[d] \in Nat /\ place[last] \in Nat
      OBVIOUS
    <3>2. ~(place[last] < place[d])
      BY <1>3, <1>4, <2>5
    <3> QED
      BY <3>1, <3>2
  <2> HIDE DEF before
  <2>7. /\ IsFiniteSet(before(last) \cup {last})
        /\ Cardinality(before(last) \cup {last}) <= size[last] + 1
    <3>1. IsFiniteSet(before(last)) /\ size[last] = Cardinality(before(last)) /\ size[last] \in Nat
      BY <1>1, <1>2
    <3>2. /\ IsFiniteSet(before(last) \cup {last})
          /\ Cardinality(before(last) \cup {last})
               = IF last \in before(last) THEN Cardinality(before(last))
                                          ELSE Cardinality(before(last)) + 1
      BY <3>1, FS_AddElement, Zenon
    <3> QED
      BY <3>1, <3>2
  <2>8. /\ Cardinality(New) <= Cardinality(before(last) \cup {last})
        /\ IsFiniteSet(New)
    BY <2>6, <2>7, FS_Subset
  <2>9. Cardinality(New) \in Nat /\ Cardinality(before(last) \cup {last}) \in Nat
    BY <2>7, <2>8, FS_CardinalityType
  <2> QED
    BY <1>2, <1>3, <2>7, <2>8, <2>9
<1> QED
  BY <1>5, <1>6

\* The elements of E with fewer than `room` elements before them are all of E
\* or exactly `room`.
LEMMA FillingSet ==
  ASSUME NEW E, IsFiniteSet(E), NEW place \in [E -> Nat],
         \A d, e \in E : place[d] = place[e] => d = e, NEW room \in Nat,
         NEW New, New = {d \in E : Cardinality({e \in E : place[e] < place[d]}) < room}
  PROVE  New = E \/ Cardinality(New) = room
<1> DEFINE before(d) == {e \in E : place[e] < place[d]}
<1>1. Cardinality(New) <= room
  BY FittingSet
<1> SUFFICES ASSUME New # E PROVE Cardinality(New) >= room
  <2>1. IsFiniteSet(New)
    BY FS_Subset
  <2>2. Cardinality(New) \in Nat
    BY <2>1, FS_CardinalityType
  <2> QED
    BY <1>1, <2>2
<1> DEFINE left == {n \in Nat : \E d \in E \ New : n = place[d]}
<1>2. left \in SUBSET Nat /\ left # {}
  <2>1. PICK d \in E : d \notin New
    OBVIOUS
  <2>2. place[d] \in left
    BY <2>1
  <2> QED
    BY <2>2
<1>3. PICK n \in left : \A m \in left : n <= m
  <2> HIDE DEF left
  <2> QED
    BY <1>2, LeastNumber
<1>4. PICK x \in E : x \notin New /\ n = place[x]
  BY <1>3
<1>5. before(x) \subseteq New
  <2> SUFFICES ASSUME NEW e \in E, place[e] < place[x], e \notin New PROVE FALSE
    OBVIOUS
  <2>1. place[e] \in left /\ place[e] \in Nat /\ place[x] \in Nat
    OBVIOUS
  <2> QED
    BY <1>3, <1>4, <2>1
<1>6. ~(Cardinality(before(x)) < room)
  BY <1>4
<1>7. /\ IsFiniteSet(New) /\ Cardinality(New) \in Nat /\ Cardinality(before(x)) \in Nat
      /\ Cardinality(before(x)) <= Cardinality(New)
  <2>1. New \in SUBSET E /\ before(x) \in SUBSET New
    BY <1>5
  <2> HIDE DEF before
  <2>2. IsFiniteSet(New)
    BY <2>1, FS_Subset
  <2>3. IsFiniteSet(before(x)) /\ Cardinality(before(x)) <= Cardinality(New)
    BY <2>1, <2>2, FS_Subset
  <2> QED
    BY <2>2, <2>3, FS_CardinalityType
<1> HIDE DEF before
<1> QED
  BY <1>6, <1>7

\* Whatever the engine starts of what it is told may start fits.
LEMMA StartableFit ==
  ASSUME TypeOK, PlanRecorded, Decl[Fan].concurrency # None,
         Cardinality(Held) <= Decl[Fan].concurrency,
         NEW keys, keys \subseteq Startable,
         NEW New, New = {d \in FileDecisions : d.key \in keys}
  PROVE  /\ Cardinality(Held) + Cardinality(New) <= Decl[Fan].concurrency
         /\ IsFiniteSet(Held) /\ IsFiniteSet(New)
         /\ Cardinality(Held) \in Nat /\ Cardinality(New) \in Nat
<1> DEFINE c == Decl[Fan].concurrency
           E == {d \in FileDecisions : d.key \notin started /\ d.dependsOn \subseteq done}
           place == [d \in E |-> OutputOrder[d.key.subject]]
<1>1. /\ c \in Nat /\ Held \in SUBSET FileDecisions /\ New \in SUBSET FileDecisions
      /\ E \in SUBSET FileDecisions
  BY FanOutAssumptions DEF Held
<1>2. /\ IsFiniteSet(Held) /\ IsFiniteSet(New) /\ IsFiniteSet(E)
      /\ Cardinality(Held) \in Nat /\ Cardinality(New) \in Nat
  BY <1>1, FilesFinite, FS_Subset, FS_CardinalityType
<1>3. place \in [E -> Nat] /\ \A d, e \in E : place[d] = place[e] => d = e
  BY FilesFinite, HandoffAssumptions, FanOutAssumptions
<1>4. \A d \in New : d \in E /\ Cardinality(Held) + Cardinality({e \in E : place[e] < place[d]}) < c
  <2> SUFFICES ASSUME NEW d \in New
               PROVE  /\ d \in E
                      /\ Cardinality(Held) + Cardinality({e \in E : place[e] < place[d]}) < c
    OBVIOUS
  <2>1. PICK x \in E :
          /\ x.key = d.key
          /\ Cardinality(Held)
               + Cardinality({e \in E : OutputOrder[e.key.subject] < OutputOrder[x.key.subject]}) < c
    BY DEF Startable, FanoutStartable, FileDecisions, Held
  <2>2. d = x
    BY <2>1, FilesFinite
  <2>3. {e \in E : OutputOrder[e.key.subject] < OutputOrder[x.key.subject]}
          = {e \in E : place[e] < place[d]}
    BY <2>1, <2>2
  <2> QED
    BY <2>1, <2>2, <2>3
<1> HIDE DEF c, E, place
<1>5. \A d \in New : Cardinality({e \in E : place[e] < place[d]}) \in Nat
  <2>1. \A d \in New : {e \in E : place[e] < place[d]} \in SUBSET E
    OBVIOUS
  <2> QED
    BY <1>2, <2>1, FS_Subset, FS_CardinalityType
<1>6. /\ c - Cardinality(Held) \in Nat
      /\ \A d \in New : Cardinality({e \in E : place[e] < place[d]}) < c - Cardinality(Held)
  BY <1>1, <1>2, <1>4, <1>5 DEF c
<1>7. Cardinality(New) <= c - Cardinality(Held)
  <2>1. New \in SUBSET E
    BY <1>4
  <2> QED
    BY <1>2, <1>3, <1>6, <2>1, FittingSet
<1> QED
  BY <1>1, <1>2, <1>7 DEF c

\* The runs that run at once never exceed the declared concurrency.
THEOREM AlwaysWithinConcurrency == Spec => [](HeldWithinConcurrency /\ WithinConcurrency)
<1>1. Init => HeldWithinConcurrency
  <2> SUFFICES ASSUME Init, Decl[Fan].concurrency # None
               PROVE  Cardinality(Held) <= Decl[Fan].concurrency
    BY DEF HeldWithinConcurrency
  <2>1. Held = {}
    BY DEF Init, Held
  <2> QED
    BY <2>1, FS_EmptySet, FanOutAssumptions
<1>2. TypeOK /\ PlanRecorded /\ HeldWithinConcurrency /\ [Next]_vars => HeldWithinConcurrency'
  <2> SUFFICES ASSUME TypeOK, PlanRecorded, HeldWithinConcurrency, [Next]_vars,
                      Decl[Fan].concurrency # None
               PROVE  Cardinality(Held') <= Decl[Fan].concurrency
    BY DEF HeldWithinConcurrency
  <2>1. IsFiniteSet(Held) /\ Cardinality(Held) \in Nat /\ Cardinality(Held) <= Decl[Fan].concurrency
    BY FilesFinite, FS_Subset, FS_CardinalityType DEF Held, HeldWithinConcurrency
  <2>2. CASE Held' \in SUBSET Held
    <3>1. Cardinality(Held') <= Cardinality(Held) /\ IsFiniteSet(Held')
      BY <2>1, <2>2, FS_Subset
    <3>2. Cardinality(Held') \in Nat
      BY <3>1, FS_CardinalityType
    <3> QED
      BY <2>1, <3>1, <3>2, FanOutAssumptions
  <2>3. ASSUME NEW keys, StartRuns(keys) PROVE Cardinality(Held') <= Decl[Fan].concurrency
    <3> DEFINE New == {d \in FileDecisions : d.key \in keys}
    <3>1. keys \subseteq Startable
      BY <2>3 DEF StartRuns
    <3>2. /\ Cardinality(Held) + Cardinality(New) <= Decl[Fan].concurrency
          /\ IsFiniteSet(New) /\ Cardinality(New) \in Nat
      BY <2>1, <3>1, StartableFit
    <3>3. Held' \in SUBSET (Held \cup New)
      BY <2>3 DEF StartRuns, Held, FileDecisions
    <3> HIDE DEF New
    <3>4. /\ IsFiniteSet(Held \cup New)
          /\ Cardinality(Held \cup New) = Cardinality(Held) + Cardinality(New) - Cardinality(Held \cap New)
      BY <2>1, <3>2, FS_Union
    <3>5. Cardinality(Held \cap New) \in Nat
      BY <2>1, FS_Subset, FS_CardinalityType
    <3>6. Cardinality(Held') <= Cardinality(Held \cup New) /\ IsFiniteSet(Held')
      BY <3>3, <3>4, FS_Subset
    <3>7. Cardinality(Held') \in Nat
      BY <3>6, FS_CardinalityType
    <3> QED
      BY <2>1, <3>2, <3>4, <3>5, <3>6, <3>7, FanOutAssumptions
  <2>4. \/ \E keys : StartRuns(keys)
        \/ Held' \in SUBSET Held
    <3>1. CASE RecordHandoffs
      BY <3>1 DEF RecordHandoffs, TypeOK, FileDecisions, Held
    <3>2. CASE UNCHANGED <<decisions, started>> /\ done \subseteq done'
      BY <3>2 DEF FileDecisions, Held
    <3> QED
      BY <3>1, <3>2 DEF Next, StopWhileFiling, Finish, Fail, Rerun, vars
  <2> QED
    BY <2>2, <2>3, <2>4
<1>3. TypeOK /\ PlanRecorded /\ HeldWithinConcurrency => WithinConcurrency
  <2> SUFFICES ASSUME TypeOK, PlanRecorded, HeldWithinConcurrency, Decl[Fan].concurrency # None
               PROVE  Cardinality(running) <= Decl[Fan].concurrency
    BY DEF WithinConcurrency
  <2> DEFINE holder == [k \in running |-> CHOOSE d \in Held : d.key = k]
  <2>1. \A k \in running : \E d \in Held : d.key = k
    BY DEF TypeOK, Held
  <2>2. holder \in Injection(running, Held)
    BY <2>1 DEF Injection, IsInjective
  <2>3. IsFiniteSet(Held) /\ Cardinality(Held) \in Nat
    BY FilesFinite, FS_Subset, FS_CardinalityType DEF Held
  <2>4. IsFiniteSet(running) /\ Cardinality(running) <= Cardinality(Held)
    BY <2>2, <2>3, FS_Injection
  <2>5. Cardinality(running) \in Nat
    BY <2>4, FS_CardinalityType
  <2> QED
    BY <2>3, <2>4, <2>5, FanOutAssumptions DEF HeldWithinConcurrency
<1> QED
  BY <1>1, <1>2, <1>3, TypeCorrect, PTL DEF Spec

\* The runs whose dependencies are done and which have not started, and those
\* of them that may start.
Due == {d \in FileDecisions : d.key \notin started /\ d.dependsOn \subseteq done}
MayStart == {d \in FileDecisions : d.key \in Startable}

\* fanout_startable leaves no slot free that is not held: every run that is due
\* may start, or those that may start take exactly the slots that are left.
EverySlotIsTaken ==
  \/ MayStart = Due
  \/ /\ Decl[Fan].concurrency # None
     /\ MayStart \subseteq Due
     /\ Cardinality(Held) + Cardinality(MayStart) = Decl[Fan].concurrency

\* The bound costs no run that could start: only held slots make a due run wait.
THEOREM SlotsAlwaysTaken == Spec => []EverySlotIsTaken
<1>1. TypeOK /\ PlanRecorded /\ HeldWithinConcurrency => EverySlotIsTaken
  <2> SUFFICES ASSUME TypeOK, PlanRecorded, HeldWithinConcurrency PROVE EverySlotIsTaken
    OBVIOUS
  <2> DEFINE c == Decl[Fan].concurrency
             place == [d \in Due |-> OutputOrder[d.key.subject]]
             before(d) == {e \in Due : OutputOrder[e.key.subject] < OutputOrder[d.key.subject]}
  <2>1. \A d, e \in FileDecisions : d.key = e.key => d = e
    BY FilesFinite
  <2>2. Startable = {d.key : d \in {e \in Due : c # None => Cardinality(Held) + Cardinality(before(e)) < c}}
    BY DEF Startable, FanoutStartable, FileDecisions, Held, Due
  <2>3. MayStart = {d \in Due : c # None => Cardinality(Held) + Cardinality(before(d)) < c}
    <3>1. Due \subseteq FileDecisions
      BY DEF Due
    <3> HIDE DEF c, before
    <3> QED
      BY <2>1, <2>2, <3>1 DEF MayStart
  <2>4. CASE c = None
    BY <2>3, <2>4 DEF EverySlotIsTaken
  <2>5. CASE c # None
    <3>1. /\ Due \in SUBSET FileDecisions /\ Held \in SUBSET FileDecisions /\ IsFiniteSet(FileDecisions)
      BY FilesFinite DEF Due, Held
    <3>2. IsFiniteSet(Due) /\ IsFiniteSet(Held) /\ Cardinality(Held) \in Nat
      BY <3>1, FS_Subset, FS_CardinalityType
    <3>3. c \in Nat /\ Cardinality(Held) <= c
      BY <2>5, FanOutAssumptions DEF HeldWithinConcurrency
    <3>4. place \in [Due -> Nat] /\ \A d, e \in Due : place[d] = place[e] => d = e
      BY <3>1, FilesFinite, HandoffAssumptions, FanOutAssumptions
    <3>5. \A d \in Due : before(d) = {e \in Due : place[e] < place[d]} /\ Cardinality(before(d)) \in Nat
      <4>1. \A d \in Due : before(d) \in SUBSET Due
        OBVIOUS
      <4>2. \A d \in Due : Cardinality(before(d)) \in Nat
        <5> HIDE DEF before
        <5> QED
          BY <3>2, <4>1, FS_Subset, FS_CardinalityType
      <4> QED
        BY <4>2
    <3> DEFINE room == c - Cardinality(Held)
    <3> HIDE DEF before, place, c
    <3>6. MayStart = {d \in Due : Cardinality({e \in Due : place[e] < place[d]}) < room}
      <4>1. \A d \in Due : Cardinality(Held) + Cardinality(before(d)) < c <=> Cardinality(before(d)) < room
        BY <3>2, <3>3, <3>5
      <4>2. MayStart = {d \in Due : Cardinality(before(d)) < room}
        BY <2>3, <2>5, <4>1
      <4> QED
        BY ONLY <3>5, <4>2
    <3>7. room \in Nat
      BY <3>2, <3>3
    <3> HIDE DEF room
    <3>8. MayStart = Due \/ Cardinality(MayStart) = room
      BY <3>2, <3>4, <3>6, <3>7, FillingSet
    <3> QED
      BY <2>5, <3>2, <3>3, <3>6, <3>8 DEF EverySlotIsTaken, room, c
  <2> QED
    BY <2>4, <2>5
<1> QED
  BY <1>1, TypeCorrect, AlwaysWithinConcurrency, PTL

-----------------------------------------------------------------------------
\* When a fan-out planned once filed anything and none of it was refused, every
\* unit was filed, with the dependencies of its item, and these can be ordered.
LEMMA FanOutFiled ==
  ASSUME TypeOK, PlanRecorded, planned, ~Replayed,
         \E d \in decisions : Filing(d) /\ d.handoff = Fan,
         \A d \in decisions : ~(Blocking(d) /\ d.handoff = Fan)
  PROVE  /\ ~OrderProblem(Fan, Units(Fan, result), result.out)
         /\ \A s \in Units(Fan, result) : \E d \in FileDecisions :
              /\ d.key = FanKey(s) /\ d.key.subject = s
              /\ d.dependsOn = DependsOn(Fan, s, 1, result.out)
<1>1. PICK any \in decisions : Filing(any) /\ any.handoff = Fan
  OBVIOUS
<1>2. decisions = Plan
  BY DEF PlanRecorded
<1>3. /\ OutcomeAccepted(Decl[Fan].of, result.outcome)
      /\ Fan \in HandoffsOf(Decl[Fan].of) /\ Fires(Fan, result.outcome) /\ Decl[Fan].after = {}
  <2>1. any \in Plan
    BY <1>2
  <2>2. /\ OutcomeAccepted(Decl[Fan].of, result.outcome)
        /\ \E h \in HandoffsOf(Decl[Fan].of) :
             /\ Fires(h, result.outcome) /\ Decl[h].after = {}
             /\ any \in FileHandoff(h, 1, RunInputs, result, ActiveVersions, existing)
    BY <1>1, <2>1, PlanFilings DEF Plan
  <2>3. PICK h \in HandoffsOf(Decl[Fan].of) :
          /\ Fires(h, result.outcome) /\ Decl[h].after = {}
          /\ any \in FileHandoff(h, 1, RunInputs, result, ActiveVersions, existing)
    BY <2>2
  <2>4. any.handoff = h
    BY <2>3, HandoffFilings
  <2> QED
    BY <1>1, <2>2, <2>3, <2>4
<1>4. FileHandoff(Fan, 1, RunInputs, result, ActiveVersions, existing) \subseteq decisions
  BY <1>2, <1>3, PlanCovers DEF Plan
<1>5. \A s \in Units(Fan, result) :
        \E d \in decisions : Filing(d) /\ d.handoff = Fan /\ d.key = FanKey(s)
  <2>1. \/ \E d \in FileHandoff(Fan, 1, RunInputs, result, ActiveVersions, existing) :
              Blocking(d) /\ d.handoff = Fan
        \/ \A s \in Units(Fan, result) :
              \E d \in FileHandoff(Fan, 1, RunInputs, result, ActiveVersions, existing) :
                Filing(d) /\ d.handoff = Fan /\ d.key = NaturalKey(Decl[Fan].to, s, 1)
    BY HandoffCovers
  <2> QED
    BY <1>4, <2>1 DEF FanKey
<1>6. \A d \in decisions : Filing(d) /\ d.handoff = Fan => d.action = "file"
  <2> SUFFICES ASSUME NEW d \in decisions, Filing(d), d.handoff = Fan PROVE d.action = "file"
    OBVIOUS
  <2>1. PICK s : d = FileUnit(Fan, s, 1, RunInputs, result, ActiveVersions, existing)
    BY FanDecision
  <2>2. d.action = "duplicate" => d.key \in DOMAIN existing
    BY <2>1, UnitDecision
  <2> QED
    BY <2>2 DEF Replayed, Filing
<1>7. ASSUME NEW s \in Units(Fan, result)
      PROVE  \E d \in FileDecisions : /\ d.key = FanKey(s) /\ d.key.subject = s
                                      /\ d.dependsOn = DependsOn(Fan, s, 1, result.out)
  <2>1. PICK d \in decisions : Filing(d) /\ d.handoff = Fan /\ d.key = FanKey(s)
    BY <1>5
  <2>2. d.action = "file"
    BY <1>6, <2>1
  <2>3. PICK t : d.key.subject = t /\ d.dependsOn = DependsOn(Fan, t, 1, result.out)
    BY <2>1, <2>2, FanDecision
  <2>4. d.key.subject = s
    BY <2>1 DEF FanKey, NaturalKey
  <2> QED
    BY <2>1, <2>2, <2>3, <2>4 DEF FileDecisions
<1>8. HandoffRefusal(Fan, result, ActiveVersions) = "none"
  BY <1>1, FanDecision
<1>9. ~OrderProblem(Fan, Units(Fan, result), result.out)
  BY <1>8, FanOutAssumptions DEF HandoffRefusal
<1> QED
  BY <1>7, <1>9

\* When every run that started is done, the first in output order of the runs
\* whose dependencies are done may start.
LEMMA FirstMayStart ==
  ASSUME TypeOK, PlanRecorded,
         \A d \in FileDecisions : d.key \in started => d.key \in done,
         \E d \in FileDecisions : d.key \notin started /\ d.dependsOn \subseteq done
  PROVE  Startable # {}
<1> DEFINE E == {d \in FileDecisions : d.key \notin started /\ d.dependsOn \subseteq done}
           place(d) == OutputOrder[d.key.subject]
           places == {p \in Nat : \E d \in E : p = place(d)}
<1>1. \A d \in E : place(d) \in Nat
  BY FilesFinite, HandoffAssumptions
<1>2. places \in SUBSET Nat /\ places # {}
  <2> HIDE DEF place
  <2> QED
    BY <1>1
<1>3. PICK p \in places : \A q \in places : p <= q
  <2> HIDE DEF places
  <2> QED
    BY <1>2, LeastNumber
<1>4. PICK first \in E : p = place(first)
  OBVIOUS
<1>5. {e \in E : place(e) < place(first)} = {}
  <2> SUFFICES ASSUME NEW e \in E, place(e) < place(first) PROVE FALSE
    OBVIOUS
  <2> HIDE DEF place, E
  <2>1. place(e) \in places
    BY <1>1
  <2> QED
    BY <1>1, <1>3, <1>4, <2>1
<1>6. Held = {}
  BY DEF Held
<1>7. Decl[Fan].concurrency # None =>
        Cardinality(Held) + Cardinality({e \in E : place(e) < place(first)}) < Decl[Fan].concurrency
  <2> HIDE DEF E, place
  <2>1. Cardinality(Held) = 0 /\ Cardinality({e \in E : place(e) < place(first)}) = 0
    BY <1>5, <1>6, FS_EmptySet, Zenon
  <2> QED
    BY <2>1, FanOutAssumptions
<1>8. first.key \in Startable
  BY <1>4, <1>7 DEF Startable, FanoutStartable, FileDecisions, Held
<1> QED
  BY <1>8

\* A fan-out that was planned once never stops silently: while the join over it
\* waits and nothing runs, some run may start.  The units that did not start
\* are no cycle, so one of them depends on none of them.
THEOREM NeverStallsSilently == Spec => []NoSilentStall
<1>1. TypeOK /\ PlanRecorded => NoSilentStall
  <2> SUFFICES ASSUME TypeOK, PlanRecorded, ~Replayed, planned, running = {},
                      ~(WaitedKeys({Fan}, decisions) \subseteq done),
                      JoinState({Fan}, decisions, done, Ended) # "blocked"
               PROVE  Startable # {}
    BY DEF NoSilentStall, StalledSilently
  <2>1. ~JoinBlocked({Fan}, decisions, done, Ended)
    BY DEF JoinState
  <2>2. \A d \in decisions : ~(Blocking(d) /\ d.handoff = Fan)
    BY <2>1 DEF JoinBlocked
  <2>3. PICK due \in decisions : Filing(due) /\ due.handoff = Fan /\ due.key \notin done
    BY DEF WaitedKeys
  <2>4. \A d \in FileDecisions : d.key \in started => d.key \in done
    <3>1. \A d \in FileDecisions : d.key \in WaitedKeys({Fan}, decisions)
      BY DEF FileDecisions, WaitedKeys, Filing
    <3>2. \A k \in WaitedKeys({Fan}, decisions) : k \in Ended => k \in done
      BY <2>1 DEF JoinBlocked
    <3> QED
      BY <3>1, <3>2 DEF Ended
  <2> DEFINE units == Units(Fan, result)
             rest == {s \in units : FanKey(s) \notin started}
  <2>5. /\ ~OrderProblem(Fan, units, result.out)
        /\ \A s \in units : \E d \in FileDecisions :
             /\ d.key = FanKey(s) /\ d.key.subject = s
             /\ d.dependsOn = DependsOn(Fan, s, 1, result.out)
    BY <2>2, <2>3, FanOutFiled
  <2>6. rest # {}
    <3>1. PICK h : due \in FileHandoff(h, 1, RunInputs, result, ActiveVersions, existing)
      BY <2>3, PlanFilings DEF PlanRecorded, Plan
    <3>2. PICK s \in units : due = FileUnit(Fan, s, 1, RunInputs, result, ActiveVersions, existing)
      BY <2>3, <3>1, HandoffFilings
    <3>3. due.key = FanKey(s)
      BY <2>3, <3>2, UnitDecision DEF Filing, FanKey
    <3>4. PICK d \in FileDecisions : d.key = FanKey(s)
      BY <2>5
    <3> QED
      BY <2>3, <2>4, <3>2, <3>3, <3>4
  <2>7. \E s \in rest : DependsOn(Fan, s, 1, result.out) \subseteq done
    <3>1. CASE ~Decl[Fan].ordered
      BY <2>6, <3>1 DEF DependsOn
    <3>2. CASE Decl[Fan].ordered
      <4>1. /\ \A s \in units : result.out.items[s].deps \subseteq units
            /\ \A S \in SUBSET units : S # {} => \E s \in S : result.out.items[s].deps \cap S = {}
        BY <2>5, <3>2 DEF OrderProblem
      <4>2. PICK s \in rest : result.out.items[s].deps \cap rest = {}
        BY <2>6, <4>1
      <4>3. \A t \in result.out.items[s].deps : FanKey(t) \in done
        <5> SUFFICES ASSUME NEW t \in result.out.items[s].deps PROVE FanKey(t) \in done
          OBVIOUS
        <5>1. t \in units /\ FanKey(t) \in started
          BY <4>1, <4>2
        <5> QED
          BY <2>4, <2>5, <5>1
      <4> QED
        BY <3>2, <4>3 DEF DependsOn, FanKey
    <3> QED
      BY <3>1, <3>2
  <2>8. \E d \in FileDecisions : d.key \notin started /\ d.dependsOn \subseteq done
    BY <2>5, <2>7
  <2> QED
    BY <2>4, <2>8, FirstMayStart
<1> QED
  BY <1>1, TypeCorrect, PTL

\* What the engine does by itself while its fan-out goes on.
Engine ==
  \/ RecordHandoffs
  \/ \E keys \in SUBSET Startable : StartRuns(keys)
  \/ \E k \in started : Finish(k) \/ Fail(k)

\* None of it is possible: the plan is recorded, nothing runs or may start.
AtRest == planned /\ running = {} /\ Startable = {}

\* At rest only a stop or the re-run of a failed run could move the fan-out.
THEOREM RestIsRest == Spec => [][AtRest => ~Engine]_vars
<1>1. AtRest => ~Engine
  BY DEF AtRest, Engine, RecordHandoffs, StartRuns, Finish, Fail
<1> QED
  BY <1>1, PTL

\* What FanOutSettles rests on: where the engine has come to rest with a plan
\* made once, the join over the fan-out is ready, or blocked and shown.
RestIsSettled ==
  AtRest => Replayed \/ JoinState({Fan}, decisions, done, Ended) \in {"ready", "blocked"}

THEOREM RestMeansSettled == Spec => []RestIsSettled
<1>1. PlanRecorded /\ NoSilentStall => RestIsSettled
  <2> SUFFICES ASSUME PlanRecorded, NoSilentStall, AtRest, ~Replayed,
                      ~JoinBlocked({Fan}, decisions, done, Ended)
               PROVE  ~JoinPending({Fan}, decisions, done)
    BY DEF RestIsSettled, JoinState
  <2>1. WaitedKeys({Fan}, decisions) \subseteq done
    <3>1. JoinState({Fan}, decisions, done, Ended) # "blocked"
      BY DEF JoinState
    <3> QED
      BY <3>1 DEF NoSilentStall, StalledSilently, AtRest
  <2>2. ASSUME NEW d \in decisions, d.action = "wait", d.handoff = Fan PROVE FALSE
    <3>1. d \in PlanHandoffs(Decl[Fan].of, 1, RunInputs, result, ActiveVersions, existing)
      BY DEF AtRest, PlanRecorded, Plan
    <3>2. PICK j \in HandoffsOf(Decl[Fan].of) : Decl[j].after # {} /\ d = Wait(j)
      BY <2>2, <3>1, PlanWaits
    <3>3. j = Fan
      BY <2>2, <3>2 DEF Wait
    <3> QED
      BY <3>2, <3>3, HandoffAssumptions, FanOutAssumptions
         DEF JoinsWaitOnEarlierHandoffs
  <2> QED
    BY <2>1, <2>2 DEF JoinPending
<1> QED
  BY <1>1, TypeCorrect, NeverStallsSilently, PTL

\* The planner's search for a cycle finds one exactly where there is one, for
\* every dependency graph and every selection of its units.
THEOREM OrderSearchAlwaysExact == Spec => []OrderSearchIsExact
<1>1. PlanRecorded => OrderSearchIsExact
  <2> SUFFICES ASSUME PlanRecorded, NEW units \in SUBSET DOMAIN result.out.items
               PROVE  OrderSearch(Fan, units, result.out) <=> OrderProblem(Fan, units, result.out)
    BY DEF OrderSearchIsExact
  <2>1. units \in SUBSET Subject
    BY FanOutAssumptions DEF PlanRecorded
  <2> QED
    BY <2>1, OrderSearchExact
<1> QED
  BY <1>1, TypeCorrect, PTL

-----------------------------------------------------------------------------
(* A stop while the plan is filed. *)

\* The plan as it is made when nothing was filed before, and what the engine
\* had filed of it when it stopped.
NothingFiled == [k \in {} |-> None]
FirstPlan == PlanHandoffs(Decl[Fan].of, 1, RunInputs, result, ActiveVersions, NothingFiled)
FiledThen == {d \in FirstPlan : d.action = "file" /\ d.key \in DOMAIN existing}

FiledOfFirst ==
  /\ existing = NothingFiled \/ DOMAIN existing # {}
  /\ FiledSince(NothingFiled, FiledThen, existing)

\* Wherever the engine stopped while it filed, the decisions it records after
\* are those of the plan it would have recorded, each run it had filed found
\* filed; so every join reads them as it would have read that plan.
ReplayIsTheFirstPlan ==
  planned => /\ decisions = {Replanned(d, FiledThen) : d \in FirstPlan}
             /\ \A after \in SUBSET HandoffId :
                  JoinState(after, decisions, done, Ended) = JoinState(after, FirstPlan, done, Ended)

THEOREM ReplayAlwaysTheFirstPlan == Spec => []ReplayIsTheFirstPlan
<1>1. Init => FiledOfFirst
  BY DEF Init, FiledOfFirst, FiledThen, FiledSince, NothingFiled
<1>2. PlanRecorded /\ FiledOfFirst /\ [Next]_vars => FiledOfFirst'
  <2> SUFFICES ASSUME FiledOfFirst, [Next]_vars PROVE FiledOfFirst'
    OBVIOUS
  <2>1. CASE UNCHANGED <<result, existing>>
    BY <2>1 DEF FiledOfFirst, FiledThen, FirstPlan
  <2>2. ASSUME NEW some, StopWhileFiling(some) PROVE FiledOfFirst'
    <3> DEFINE files == {d \in Plan : d.action = "file" /\ d.key.subject \in some}
    <3>1. Plan = FirstPlan /\ result' = result
      BY <2>2 DEF StopWhileFiling, FiledOfFirst, Plan, FirstPlan
    <3>2. PICK kept \in {{}, files} :
            /\ existing' = [k \in {d.key : d \in files} |->
                              {d.inputs : d \in {e \in kept : e.key = k}}]
            /\ files # {}
      BY <2>2 DEF StopWhileFiling
    <3>3. FirstPlan' = FirstPlan
      BY <3>1 DEF FirstPlan, NothingFiled
    <3>4. \A d, e \in FirstPlan : d.action = "file" /\ e.action = "file" /\ d.key = e.key => d = e
      BY OneFilingPerKey DEF FirstPlan, Filing
    <3>5. files \subseteq FirstPlan /\ \A d \in files : d.action = "file"
      BY <3>1
    <3>6. DOMAIN existing' = {d.key : d \in files}
      BY <3>2
    <3> HIDE DEF files
    <3>7. FiledThen' = files
      BY <3>3, <3>4, <3>5, <3>6 DEF FiledThen
    <3>8. \A d \in files : existing'[d.key] \subseteq {d.inputs}
      <4> SUFFICES ASSUME NEW d \in files, NEW e \in kept, e.key = d.key PROVE e.inputs = d.inputs
        BY <3>2
      <4>1. e \in files
        BY <3>2
      <4> QED
        BY <3>4, <3>5, <4>1
    <3>9. DOMAIN existing' # {}
      BY <3>2, <3>6
    <3>10. DOMAIN NothingFiled = {} /\ NothingFiled' = NothingFiled
      BY DEF NothingFiled
    <3> QED
      BY <3>6, <3>7, <3>8, <3>9, <3>10 DEF FiledOfFirst, FiledSince
  <2> QED
    BY <2>1, <2>2 DEF Next, RecordHandoffs, StartRuns, Finish, Fail, Rerun, vars
<1>3. PlanRecorded /\ FiledOfFirst => ReplayIsTheFirstPlan
  <2> SUFFICES ASSUME PlanRecorded, FiledOfFirst, planned
               PROVE  /\ decisions = {Replanned(d, FiledThen) : d \in FirstPlan}
                      /\ \A after \in SUBSET HandoffId :
                           JoinState(after, decisions, done, Ended)
                             = JoinState(after, FirstPlan, done, Ended)
    BY DEF ReplayIsTheFirstPlan
  <2>1. decisions = Plan /\ FiledSince(NothingFiled, FiledThen, existing)
    BY DEF PlanRecorded, FiledOfFirst
  <2>2. FiledThen \subseteq {d \in FirstPlan : d.action = "file"}
    BY DEF FiledThen
  <2>3. Plan = {Replanned(d, FiledThen) : d \in FirstPlan}
    BY <2>1, <2>2, ReplanFindsTheFiled DEF Plan, FirstPlan
  <2>4. \A after : JoinState(after, Plan, done, Ended) = JoinState(after, FirstPlan, done, Ended)
    BY <2>1, <2>2, ReplayChangesNoJoin DEF Plan, FirstPlan
  <2> QED
    BY <2>1, <2>3, <2>4
<1> QED
  BY <1>1, <1>2, <1>3, TypeCorrect, PTL DEF Spec
=============================================================================
