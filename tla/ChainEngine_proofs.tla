------------------------- MODULE ChainEngine_proofs -------------------------
(***************************************************************************)
(* Proofs about ChainEngine, for any procedures, hand-offs, subjects,      *)
(* attempts, results and activations, ordered hand-offs included.          *)
(*                                                                         *)
(* The argument has one idea: a plan or a join files only keys that were   *)
(* not filed before (FileOrDup), and files no key twice (OneHandoffPer-    *)
(* Target), so a step that files adds runs and leaves every filed run as   *)
(* it was.  What a decision said when it was ledgered stays true.          *)
(***************************************************************************)
EXTENDS ChainEngine, Handoffs_proofs

\* Each done run has a result its procedure can have.
ResultsKnown == \A k \in Done : result[k] \in ResultsOf[k.asop]

\* Hand-off h fired for run k, and s is one of the units it files.
FiredUnit(k, h, s) ==
  /\ OutcomeAccepted(k.asop, result[k].outcome)
  /\ h \in HandoffsOf(k.asop) /\ Fires(h, result[k].outcome)
  /\ s \in Units(h, result[k])

\* d is the decision of unit s of hand-off h, planned for run k now.
UnitOf(k, d, h, s) ==
  /\ FiredUnit(k, h, s)
  /\ d = FileUnit(h, s, k.attempt, inputs[k], result[k], active, Existing)

\* Every filing among these decisions is one of a unit of k.
FilingsOfUnits(k, decisions) ==
  \A d \in decisions : Filing(d) => \E h, s : UnitOf(k, d, h, s)

\* A set of decisions the engine files at once: each key is new, none twice.
FreshFiles(files) ==
  /\ \A d \in files : d.key \in Key /\ d.key \notin Filed
  /\ \A d, e \in files : d.key = e.key => d = e

\* Every unit of a hand-off has a natural key.
LEMMA UnitKeys ==
  ASSUME NEW k \in Key, NEW res \in ResultsOf[k.asop],
         NEW h \in HandoffsOf(k.asop), NEW s \in Units(h, res)
  PROVE  NaturalKey(Decl[h].to, s, k.attempt) \in Key
<1> USE HandoffAssumptions, ChainEngineAssumptions
<1>1. /\ h \in HandoffId /\ Decl[h].to \in Asop /\ k.attempt \in Attempt /\ k.asop \in Asop
  BY DEF HandoffsOf, OutcomesAreDeclared, Key
<1>2. s \in SubjectsOf(Decl[h].to)
  <2>1. CASE Decl[h].many
    <3>1. s \in Yielded(h, res)
      BY <2>1 DEF Units, Accepted
    <3>2. s \in DOMAIN res.out.items
      BY <3>1 DEF Yielded, ExpandSubjects
    <3>3. s \in Subject
      BY <3>2, <1>1
    <3> QED
      BY <2>1, <3>3, <1>1 DEF SubjectsOf
  <2>2. CASE ~Decl[h].many
    <3>1. s = Chain
      BY <2>2 DEF Units
    <3> QED
      BY <2>2, <3>1, <1>1 DEF SubjectsOf
  <2> QED
    BY <2>1, <2>2
<1>3. s \in Subject \cup {Chain}
  BY <1>2 DEF SubjectsOf
<1> QED
  BY <1>1, <1>2, <1>3 DEF NaturalKey, Key

\* The files among the decisions of a run's units are fresh.
LEMMA UnitFilesAreFresh ==
  ASSUME NEW k \in Key, result[k] \in ResultsOf[k.asop], NEW decisions,
         FilingsOfUnits(k, decisions)
  PROVE  FreshFiles(FilesOf(decisions))
<1>1. DOMAIN Existing = Filed
  BY DEF Existing
<1>2. ASSUME NEW d \in FilesOf(decisions), NEW h, NEW s, UnitOf(k, d, h, s)
      PROVE  d.key = NaturalKey(Decl[h].to, s, k.attempt) /\ d.key \in Key /\ d.key \notin Filed
  <2>1. d.action = "file"
    BY DEF FilesOf
  <2>2. d.key = NaturalKey(Decl[h].to, s, k.attempt) /\ d.key \notin DOMAIN Existing
    BY <1>2, <2>1, UnitDecision DEF UnitOf, FiredUnit
  <2> QED
    BY <1>1, <1>2, <2>2, UnitKeys DEF UnitOf, FiredUnit
<1>3. \A d \in FilesOf(decisions) : \E h, s : UnitOf(k, d, h, s)
  BY DEF FilesOf, Filing, FilingsOfUnits
<1>4. \A d \in FilesOf(decisions) : d.key \in Key /\ d.key \notin Filed
  BY <1>2, <1>3
<1>5. ASSUME NEW d \in FilesOf(decisions), NEW e \in FilesOf(decisions), d.key = e.key
      PROVE  d = e
  <2>1. PICK g, s : UnitOf(k, d, g, s)
    BY <1>3
  <2>2. PICK h, t : UnitOf(k, e, h, t)
    BY <1>3
  <2>3. NaturalKey(Decl[g].to, s, k.attempt) = NaturalKey(Decl[h].to, t, k.attempt)
    BY <1>2, <1>5, <2>1, <2>2
  <2>4. Decl[g].to = Decl[h].to /\ s = t
    BY <2>3 DEF NaturalKey
  <2>5. g = h
    BY <2>1, <2>2, <2>4, HandoffAssumptions DEF OneHandoffPerTarget, HandoffsOf, UnitOf, FiredUnit
  <2> QED
    BY <2>1, <2>2, <2>4, <2>5 DEF UnitOf
<1> QED
  BY <1>4, <1>5 DEF FreshFiles

\* Every filing of a plan, and of a join's plan, is one of a unit.
LEMMA PlansFileUnits ==
  ASSUME NEW k \in Key
  PROVE  /\ FilingsOfUnits(k, Plan(k))
         /\ \A j \in JoinsOf(k.asop) : FilingsOfUnits(k, JoinPlan(k, j))
<1>1. ASSUME NEW d \in Plan(k), Filing(d) PROVE \E h, s : UnitOf(k, d, h, s)
  <2>1. PICK h \in HandoffsOf(k.asop) :
          /\ OutcomeAccepted(k.asop, result[k].outcome) /\ Fires(h, result[k].outcome)
          /\ d \in FileHandoff(h, k.attempt, inputs[k], result[k], active, Existing)
    BY <1>1, PlanFilings DEF Plan
  <2> QED
    BY <1>1, <2>1, HandoffFilings DEF UnitOf, FiredUnit
<1>2. ASSUME NEW j \in JoinsOf(k.asop), NEW d \in JoinPlan(k, j), Filing(d)
      PROVE  \E h, s : UnitOf(k, d, h, s)
  <2>1. /\ j \in HandoffsOf(k.asop)
        /\ OutcomeAccepted(k.asop, result[k].outcome) /\ Fires(j, result[k].outcome)
        /\ d \in FileHandoff(j, k.attempt, inputs[k], result[k], active, Existing)
    BY <1>2 DEF JoinPlan, PlanJoin, JoinsOf, HandoffsOf
  <2> QED
    BY <1>2, <2>1, HandoffFilings DEF UnitOf, FiredUnit
<1> QED
  BY <1>1, <1>2 DEF FilingsOfUnits

\* What the engine files opens exactly the runs of those decisions, with their
\* inputs at their versions, and touches no run that was filed before.
LEMMA FilingAdds ==
  ASSUME TypeOK, NEW files, FreshFiles(files), FileRuns(files)
  PROVE  /\ status' \in [Key -> {"none", "open", "done", "failed"}]
         /\ DOMAIN inputs' = Key /\ DOMAIN version' = Key
         /\ \A k \in Key : \/ \E d \in files : d.key = k
                           \/ /\ status'[k] = status[k] /\ inputs'[k] = inputs[k]
                              /\ version'[k] = version[k]
         /\ \A k \in Filed : \A d \in files : d.key # k
         /\ \A d \in files : /\ status'[d.key] = "open" /\ inputs'[d.key] = d.inputs
                             /\ version'[d.key] = d.version
         /\ Filed \subseteq Filed' /\ Done' = Done
<1> DEFINE keys == {d.key : d \in files}
           of(k) == CHOOSE d \in files : d.key = k
<1>1. /\ status' = [k \in Key |-> IF k \in keys THEN "open" ELSE status[k]]
      /\ inputs' = [k \in Key |-> IF k \in keys THEN of(k).inputs ELSE inputs[k]]
      /\ version' = [k \in Key |-> IF k \in keys THEN of(k).version ELSE version[k]]
  BY DEF FileRuns
<1>2. \A d \in files : d.key \in Key /\ d.key \in keys /\ of(d.key) = d
  BY DEF FreshFiles
<1>3. \A k \in Filed : k \in Key /\ k \notin keys
  BY DEF FreshFiles, Filed
<1>4. \A k \in Key : k \in keys => \E d \in files : d.key = k
  OBVIOUS
<1> HIDE DEF keys, of
<1>5. status' \in [Key -> {"none", "open", "done", "failed"}]
  BY <1>1 DEF TypeOK
<1>6. \A k \in Key : k \in keys => status[k] = "none"
  BY <1>3, <1>4 DEF Filed
<1>7. Filed \subseteq Filed' /\ Done' = Done
  BY <1>1, <1>6 DEF Filed, Done
<1>8. \A k \in Key : \/ \E d \in files : d.key = k
                     \/ /\ status'[k] = status[k] /\ inputs'[k] = inputs[k]
                        /\ version'[k] = version[k]
  BY <1>1, <1>4
<1>9. \A d \in files : /\ status'[d.key] = "open" /\ inputs'[d.key] = d.inputs
                       /\ version'[d.key] = d.version
  BY <1>1, <1>2
<1> QED
  BY <1>1, <1>2, <1>3, <1>5, <1>7, <1>8, <1>9

-----------------------------------------------------------------------------
\* The steps with which the engine files runs for run k.
EngineStep(k) ==
  \/ RecordHandoffs(k) \/ StopWhileFiling(k)
  \/ \E j \in JoinsOf(k.asop) : FileJoin(k, j) \/ StopWhileJoining(k, j)

\* Whatever the engine files for a run, it files fresh runs of its units.
LEMMA EngineFiles ==
  ASSUME TypeOK, ResultsKnown, NEW k \in Key, EngineStep(k)
  PROVE  /\ k \in Done /\ result' = result
         /\ active' = active /\ keepsInputs' = keepsInputs
         /\ \E files : /\ FreshFiles(files) /\ FileRuns(files)
                       /\ \A d \in files : d.action = "file" /\ \E h, s : UnitOf(k, d, h, s)
<1>1. k \in Done
  <2>1. \A j : Waiting(k, j) => k \in recorded
    BY DEF Waiting, TypeOK
  <2> QED
    BY <2>1 DEF EngineStep, RecordHandoffs, StopWhileFiling, FileJoin, StopWhileJoining, Done, TypeOK
<1>2. result' = result /\ active' = active /\ keepsInputs' = keepsInputs
  BY DEF EngineStep, RecordHandoffs, StopWhileFiling, FileJoin, StopWhileJoining
<1>3. PICK decisions : /\ FilingsOfUnits(k, decisions)
                       /\ \E files \in SUBSET FilesOf(decisions) : FileRuns(files)
  <2>1. CASE RecordHandoffs(k) \/ StopWhileFiling(k)
    BY <2>1, PlansFileUnits DEF RecordHandoffs, StopWhileFiling
  <2>2. CASE \E j \in JoinsOf(k.asop) : FileJoin(k, j) \/ StopWhileJoining(k, j)
    BY <2>2, PlansFileUnits DEF FileJoin, StopWhileJoining
  <2> QED
    BY <2>1, <2>2 DEF EngineStep
<1>4. PICK files \in SUBSET FilesOf(decisions) : FileRuns(files)
  BY <1>3
<1>5. FreshFiles(FilesOf(decisions))
  BY <1>1, <1>3, UnitFilesAreFresh DEF ResultsKnown
<1>6. FreshFiles(files)
  BY <1>4, <1>5 DEF FreshFiles
<1>7. \A d \in files : d.action = "file" /\ \E h, s : UnitOf(k, d, h, s)
  BY <1>3, <1>4 DEF FilesOf, FilingsOfUnits, Filing
<1> QED
  BY <1>1, <1>2, <1>4, <1>6, <1>7

\* Types, and results known: the inductive invariant all else rests on.
THEOREM TypeCorrect == Spec => [](TypeOK /\ ResultsKnown)
<1> USE HandoffAssumptions, ChainEngineAssumptions
<1>1. Init => TypeOK /\ ResultsKnown
  BY DEF Init, TypeOK, ResultsKnown, Done
<1>2. TypeOK /\ ResultsKnown /\ [Next]_vars => TypeOK' /\ ResultsKnown'
  <2> SUFFICES ASSUME TypeOK, ResultsKnown, [Next]_vars PROVE TypeOK' /\ ResultsKnown'
    OBVIOUS
  <2>1. ASSUME NEW k \in Key, Finish(k) PROVE TypeOK' /\ ResultsKnown'
    <3>1. TypeOK'
      BY <2>1 DEF Finish, TypeOK, Done
    <3>2. ResultsKnown'
      BY <2>1 DEF Finish, TypeOK, Done, ResultsKnown
    <3> QED
      BY <3>1, <3>2
  <2>2. ASSUME NEW k \in Key, Fail(k) PROVE TypeOK' /\ ResultsKnown'
    BY <2>2 DEF Fail, TypeOK, Done, ResultsKnown
  <2>3. ASSUME NEW k \in Key, Reattempt(k) PROVE TypeOK' /\ ResultsKnown'
    BY <2>3 DEF Reattempt, TypeOK, Done, ResultsKnown
  <2>4. ASSUME NEW k \in Key, EngineStep(k) PROVE TypeOK' /\ ResultsKnown'
    <3>1. PICK files : FreshFiles(files) /\ FileRuns(files)
      BY <2>4, EngineFiles
    <3>2. /\ status' \in [Key -> {"none", "open", "done", "failed"}]
          /\ DOMAIN inputs' = Key /\ DOMAIN version' = Key /\ Done' = Done
      BY <3>1, FilingAdds
    <3>3. k \in Done /\ result' = result /\ active' = active /\ keepsInputs' = keepsInputs
      BY <2>4, EngineFiles
    <3>4. \A j : Waiting(k, j) => k \in recorded
      BY DEF Waiting, TypeOK
    <3>5. /\ recorded' \subseteq Done /\ DOMAIN ledger' = Key
          /\ \A i \in Key \ recorded' : ledger'[i] = {}
      BY <2>4, <3>3, <3>4
         DEF EngineStep, RecordHandoffs, StopWhileFiling, FileJoin, StopWhileJoining, TypeOK
    <3> QED
      BY <3>2, <3>3, <3>5 DEF TypeOK, ResultsKnown
  <2>5. CASE Activate
    BY <2>5 DEF Activate, TypeOK, Done, ResultsKnown
  <2>6. CASE UNCHANGED vars
    BY <2>6 DEF vars, TypeOK, Done, ResultsKnown
  <2> QED
    BY <2>1, <2>2, <2>3, <2>4, <2>5, <2>6 DEF Next, EngineStep
<1> QED
  BY <1>1, <1>2, PTL DEF Spec

-----------------------------------------------------------------------------
\* What FilingIsFinal says of one step, in the parts later proofs use.
LEMMA StepsKeepRuns ==
  ASSUME TypeOK, ResultsKnown, [Next]_vars
  PROVE  \A k \in Filed : /\ k \in Filed'
                          /\ inputs'[k] = inputs[k] /\ version'[k] = version[k]
                          /\ k \in Done => k \in Done' /\ result'[k] = result[k]
<1>1. ASSUME NEW i \in Key, EngineStep(i), NEW k \in Filed
      PROVE  /\ k \in Filed'
             /\ inputs'[k] = inputs[k] /\ version'[k] = version[k]
             /\ k \in Done => k \in Done' /\ result'[k] = result[k]
  <2>1. PICK files : FreshFiles(files) /\ FileRuns(files)
    BY <1>1, EngineFiles
  <2>2. k \in Key
    BY DEF Filed
  <2>3. inputs'[k] = inputs[k] /\ version'[k] = version[k] /\ k \in Filed' /\ Done' = Done
    BY <2>1, <2>2, FilingAdds
  <2>4. result' = result
    BY <1>1, EngineFiles
  <2> QED
    BY <2>3, <2>4
<1>2. ASSUME NEW i \in Key, Finish(i) \/ Fail(i), NEW k \in Filed
      PROVE  /\ k \in Filed'
             /\ inputs'[k] = inputs[k] /\ version'[k] = version[k]
             /\ k \in Done => k \in Done' /\ result'[k] = result[k]
  BY <1>2 DEF Finish, Fail, TypeOK, Filed, Done
<1>3. ASSUME NEW i \in Key, Reattempt(i), NEW k \in Filed
      PROVE  /\ k \in Filed'
             /\ inputs'[k] = inputs[k] /\ version'[k] = version[k]
             /\ k \in Done => k \in Done' /\ result'[k] = result[k]
  BY <1>3 DEF Reattempt, TypeOK, Filed, Done
<1>4. ASSUME UNCHANGED <<status, inputs, version, result>>, NEW k \in Filed
      PROVE  /\ k \in Filed'
             /\ inputs'[k] = inputs[k] /\ version'[k] = version[k]
             /\ k \in Done => k \in Done' /\ result'[k] = result[k]
  BY <1>4 DEF Filed, Done
<1>5. \/ \E i \in Key : EngineStep(i) \/ Finish(i) \/ Fail(i) \/ Reattempt(i)
      \/ UNCHANGED <<status, inputs, version, result>>
  BY DEF Next, EngineStep, Activate, vars
<1> QED
  BY <1>1, <1>2, <1>3, <1>4, <1>5

\* Filing is idempotent: no plan, join, restart or re-attempt changes what a
\* filed run was given, or takes a done run back.
THEOREM FilingIsAlwaysFinal == Spec => FilingIsFinal
<1>1. TypeOK /\ ResultsKnown /\ [Next]_vars
      => [\A k \in Filed : /\ status'[k] # "none"
                           /\ inputs'[k] = inputs[k] /\ version'[k] = version[k]
                           /\ k \in Done => status'[k] = "done" /\ result'[k] = result[k]]_vars
  BY StepsKeepRuns DEF Filed, Done
<1> QED
  BY <1>1, TypeCorrect, PTL DEF Spec, FilingIsFinal

\* Every run has exactly the inputs of its version, whatever is activated when.
THEOREM RunInputsAreDeclared == Spec => []RunInputsDeclared
<1>1. Init => RunInputsDeclared
  BY ChainEngineAssumptions DEF Init, RunInputsDeclared, Filed, NaturalKey
<1>2. TypeOK /\ ResultsKnown /\ RunInputsDeclared /\ [Next]_vars => RunInputsDeclared'
  <2> SUFFICES ASSUME TypeOK, ResultsKnown, RunInputsDeclared, [Next]_vars, NEW k \in Filed'
               PROVE  DOMAIN inputs'[k] = DeclaredInputs[k.asop][version'[k]]
    BY DEF RunInputsDeclared
  <2>k. k \in Key
    BY DEF Filed
  <2>1. CASE k \in Filed
    BY <2>1, StepsKeepRuns DEF RunInputsDeclared
  <2>2. ASSUME k \notin Filed, NEW i \in Key, EngineStep(i)
        PROVE  DOMAIN inputs'[k] = DeclaredInputs[k.asop][version'[k]]
    <3>1. PICK files : /\ FreshFiles(files) /\ FileRuns(files)
                       /\ \A d \in files : d.action = "file" /\ \E h, s : UnitOf(i, d, h, s)
      BY <2>2, EngineFiles
    <3>2. PICK d \in files : d.key = k
      <4>1. status'[k] # "none" /\ status[k] = "none"
        BY <2>k, <2>2 DEF Filed
      <4> QED
        BY <2>k, <3>1, <4>1, FilingAdds
    <3>3. inputs'[k] = d.inputs /\ version'[k] = d.version
      BY <3>1, <3>2, FilingAdds
    <3>4. PICK h, s : UnitOf(i, d, h, s)
      BY <3>1
    <3>5. /\ d.key = NaturalKey(Decl[h].to, s, i.attempt)
          /\ DOMAIN d.inputs = DeclaredInputs[Decl[h].to][active[Decl[h].to]]
          /\ d.version = active[Decl[h].to]
      BY <3>1, <3>4, UnitDecision DEF UnitOf, FiredUnit
    <3>6. k.asop = Decl[h].to
      BY <3>2, <3>5 DEF NaturalKey
    <3> QED
      BY <3>3, <3>5, <3>6
  <2>3. ASSUME k \notin Filed, NEW i \in Key, Reattempt(i)
        PROVE  DOMAIN inputs'[k] = DeclaredInputs[k.asop][version'[k]]
    <3> DEFINE next == [i EXCEPT !.attempt = @ + 1]
    <3>1. /\ i \in Filed /\ next \in Key
          /\ status' = [status EXCEPT ![next] = "open"]
          /\ version' = [version EXCEPT ![next] = version[i]]
          /\ \E in \in InputsOf[i.asop] : /\ DOMAIN in = DOMAIN inputs[i]
                                          /\ inputs' = [inputs EXCEPT ![next] = in]
      BY <2>3 DEF Reattempt, Filed
    <3>2. next.asop = i.asop
      BY DEF Key
    <3> HIDE DEF next
    <3>3. k = next
      BY <2>3, <3>1 DEF Filed, TypeOK
    <3> QED
      BY <3>1, <3>2, <3>3 DEF RunInputsDeclared, TypeOK
  <2>4. \/ k \in Filed
        \/ \E i \in Key : EngineStep(i) \/ Reattempt(i)
    BY DEF Next, EngineStep, Finish, Fail, Activate, vars, Filed, TypeOK
  <2> QED
    BY <2>1, <2>2, <2>3, <2>4
<1> QED
  BY <1>1, <1>2, TypeCorrect, PTL DEF Spec

-----------------------------------------------------------------------------
\* Decisions ledgered with a run: filings of its units, as they were planned.
LedgeredUnits ==
  \A k \in recorded : \A d \in ledger[k] : Filing(d) =>
    \E s : FiredUnit(k, d.handoff, s) /\ d.key = NaturalKey(Decl[d.handoff].to, s, k.attempt)

\* The steps that ledger decisions: all decisions but the old ones are a plan's.
LEMMA LedgerSteps ==
  ASSUME TypeOK, [Next]_vars, NEW k \in recorded', NEW d \in ledger'[k]
  PROVE  \/ k \in recorded /\ d \in ledger[k]
         \/ k \in Key /\ RecordHandoffs(k) /\ d \in Plan(k)
         \/ k \in Key /\ \E j \in JoinsOf(k.asop) : FileJoin(k, j) /\ d \in JoinPlan(k, j)
<1>1. ASSUME NEW i \in Key, RecordHandoffs(i)
      PROVE  \/ k \in recorded /\ d \in ledger[k]
             \/ k \in Key /\ RecordHandoffs(k) /\ d \in Plan(k)
  BY <1>1 DEF RecordHandoffs, TypeOK, Done
<1>2. ASSUME NEW i \in Key, NEW j \in JoinsOf(i.asop), FileJoin(i, j)
      PROVE  \/ k \in recorded /\ d \in ledger[k]
             \/ k \in Key /\ FileJoin(k, j) /\ j \in JoinsOf(k.asop) /\ d \in JoinPlan(k, j)
  BY <1>2 DEF FileJoin, TypeOK, Done
<1>3. CASE UNCHANGED <<recorded, ledger>>
  BY <1>3
<1>4. \/ UNCHANGED <<recorded, ledger>>
      \/ \E i \in Key : \/ RecordHandoffs(i)
                        \/ \E j \in JoinsOf(i.asop) : FileJoin(i, j)
  BY DEF Next, Finish, Fail, Reattempt, StopWhileFiling, StopWhileJoining, Activate, vars
<1> QED
  BY <1>1, <1>2, <1>3, <1>4

\* A decision a step ledgers files a unit of its run with the inputs the run
\* computes for it, or finds it filed, with these inputs if they were kept.
LEMMA NewFilings ==
  ASSUME TypeOK, ResultsKnown, [Next]_vars, NEW k \in recorded', NEW d \in ledger'[k],
         Filing(d), ~(k \in recorded /\ d \in ledger[k])
  PROVE  /\ k \in Done
         /\ \E h, s : /\ FiredUnit(k, h, s)
                      /\ d.handoff = h /\ d.key = NaturalKey(Decl[h].to, s, k.attempt)
                      /\ d.key \in Filed'
                      /\ (keepsInputs \/ d.action = "file")
                           => inputs'[d.key] = UnitInputs(h, s, inputs[k], result[k])
<1>1. /\ k \in Key
      /\ \E D : /\ d \in D /\ FilingsOfUnits(k, D)
                /\ FileRuns(FilesOf(D)) /\ EngineStep(k)
  <2>1. CASE k \in Key /\ RecordHandoffs(k) /\ d \in Plan(k)
    BY <2>1, PlansFileUnits DEF RecordHandoffs, EngineStep
  <2>2. ASSUME k \in Key, NEW j \in JoinsOf(k.asop), FileJoin(k, j), d \in JoinPlan(k, j)
        PROVE  /\ d \in JoinPlan(k, j) /\ FilingsOfUnits(k, JoinPlan(k, j))
               /\ FileRuns(FilesOf(JoinPlan(k, j))) /\ EngineStep(k)
    BY <2>2, PlansFileUnits DEF FileJoin, EngineStep
  <2> QED
    BY <2>1, <2>2, LedgerSteps
<1>2. PICK D : /\ d \in D /\ FilingsOfUnits(k, D)
               /\ FileRuns(FilesOf(D)) /\ EngineStep(k)
  BY <1>1
<1>3. k \in Done
  BY <1>1, <1>2, EngineFiles
<1>4. FreshFiles(FilesOf(D))
  BY <1>1, <1>2, <1>3, UnitFilesAreFresh DEF ResultsKnown
<1>5. PICK h, s : UnitOf(k, d, h, s)
  BY <1>2 DEF FilingsOfUnits
<1>6. d.handoff = h /\ d.key = NaturalKey(Decl[h].to, s, k.attempt)
  BY <1>5, UnitDecision DEF UnitOf, FiredUnit, Filing
<1>7. /\ d.key \in Filed'
      /\ (keepsInputs \/ d.action = "file")
           => inputs'[d.key] = UnitInputs(h, s, inputs[k], result[k])
  <2>1. CASE d.action = "file"
    <3>1. d \in FilesOf(D) /\ d.inputs = UnitInputs(h, s, inputs[k], result[k])
      BY <1>2, <1>5, <2>1, UnitDecision DEF UnitOf, FilesOf
    <3>2. d.key \in Key /\ status'[d.key] = "open" /\ inputs'[d.key] = d.inputs
      BY <1>2, <1>4, <3>1, FilingAdds DEF FreshFiles
    <3> QED
      BY <3>1, <3>2 DEF Filed
  <2>2. CASE d.action = "duplicate"
    <3>1. /\ d.key \in DOMAIN Existing
          /\ Existing[d.key] \subseteq {UnitInputs(h, s, inputs[k], result[k])}
      BY <1>5, <2>2, UnitDecision DEF UnitOf, FiredUnit
    <3>2. /\ d.key \in Filed
          /\ keepsInputs => inputs[d.key] = UnitInputs(h, s, inputs[k], result[k])
      BY <3>1 DEF Existing
    <3> QED
      BY <2>2, <3>2, StepsKeepRuns
  <2> QED
    BY <2>1, <2>2 DEF Filing
<1> QED
  BY <1>3, <1>5, <1>6, <1>7 DEF UnitOf

\* Recorded runs stay done, with the inputs and the result they had.
LEMMA RecordedRunsKeep ==
  ASSUME TypeOK, ResultsKnown, [Next]_vars, NEW k \in Done
  PROVE  k \in Filed /\ inputs'[k] = inputs[k] /\ result'[k] = result[k]
<1>1. k \in Filed
  BY DEF Done, Filed
<1> QED
  BY <1>1, StepsKeepRuns

\* An engine keeps inputs or does not, for good.
LEMMA EngineKeepsItsMode == ASSUME [Next]_vars PROVE keepsInputs' = keepsInputs
  BY DEF Next, Finish, Fail, Reattempt, RecordHandoffs, StopWhileFiling, FileJoin,
         StopWhileJoining, Activate, vars

\* What every filing recorded says of the run it names, which a later step
\* leaves true: it is a unit of a declared hand-off, and has the inputs the
\* hand-off computes unless it was found filed by an engine that keeps none.
THEOREM HandedInputsAlwaysAgree == Spec => [](LedgeredUnits /\ HandedInputsAgree)
<1>1. Init => LedgeredUnits /\ HandedInputsAgree
  BY DEF Init, LedgeredUnits, HandedInputsAgree
<1>2. TypeOK /\ ResultsKnown /\ LedgeredUnits /\ HandedInputsAgree /\ [Next]_vars
      => LedgeredUnits' /\ HandedInputsAgree'
  <2> SUFFICES ASSUME TypeOK, ResultsKnown, LedgeredUnits, HandedInputsAgree, [Next]_vars,
                      NEW k \in recorded', NEW d \in ledger'[k], Filing(d)
               PROVE  /\ \E s : /\ FiredUnit(k, d.handoff, s)'
                                /\ d.key = NaturalKey(Decl[d.handoff].to, s, k.attempt)
                      /\ d.key \in Filed'
                      /\ (keepsInputs' \/ d.action = "file") =>
                           inputs'[d.key]
                             = UnitInputs(d.handoff, d.key.subject, inputs'[k], result'[k])
    BY DEF LedgeredUnits, HandedInputsAgree
  <2>m. keepsInputs' = keepsInputs
    BY EngineKeepsItsMode
  <2>1. CASE k \in recorded /\ d \in ledger[k]
    <3>1. k \in Done
      BY <2>1 DEF TypeOK
    <3>2. inputs'[k] = inputs[k] /\ result'[k] = result[k]
      BY <3>1, RecordedRunsKeep
    <3>3. /\ d.key \in Filed
          /\ (keepsInputs \/ d.action = "file") =>
               inputs[d.key] = UnitInputs(d.handoff, d.key.subject, inputs[k], result[k])
      BY <2>1 DEF HandedInputsAgree
    <3>4. d.key \in Filed' /\ inputs'[d.key] = inputs[d.key]
      BY <3>3, StepsKeepRuns
    <3> QED
      BY <2>1, <2>m, <3>2, <3>3, <3>4 DEF LedgeredUnits, FiredUnit
  <2>2. CASE ~(k \in recorded /\ d \in ledger[k])
    <3>1. PICK h, s : /\ FiredUnit(k, h, s)
                      /\ d.handoff = h /\ d.key = NaturalKey(Decl[h].to, s, k.attempt)
                      /\ d.key \in Filed'
                      /\ (keepsInputs \/ d.action = "file")
                           => inputs'[d.key] = UnitInputs(h, s, inputs[k], result[k])
      BY <2>2, NewFilings
    <3>2. inputs'[k] = inputs[k] /\ result'[k] = result[k]
      BY <2>2, NewFilings, RecordedRunsKeep
    <3>3. d.key.subject = s
      BY <3>1 DEF NaturalKey
    <3> QED
      BY <2>m, <3>1, <3>2, <3>3 DEF FiredUnit
  <2> QED
    BY <2>1, <2>2
<1> QED
  BY <1>1, <1>2, TypeCorrect, PTL DEF Spec

-----------------------------------------------------------------------------
\* The planner looks for a cycle, the promise asks for an order: subjects can
\* be run in order exactly when none depends on one that is not filed and no
\* set of them waits on itself.
LEMMA OrderableUnlessProblem ==
  ASSUME NEW h, Decl[h].ordered, NEW S, IsFiniteSet(S), NEW out
  PROVE  Orderable(S, out) <=> ~OrderProblem(h, S, out)
<1> DEFINE deps(s) == out.items[s].deps
           Ranks(U, rank) == /\ rank \in [U -> 1 .. Cardinality(U)]
                             /\ \A s \in U : \A d \in deps(s) : d \in U /\ rank[d] < rank[s]
<1>1. ASSUME NEW rank, Ranks(S, rank) PROVE ~OrderProblem(h, S, out)
  <2>1. \A s \in S : deps(s) \subseteq S
    BY <1>1
  <2>2. ASSUME NEW T \in SUBSET S, T # {} PROVE \E s \in T : deps(s) \cap T = {}
    <3> DEFINE R == {rank[s] : s \in T}
    <3>1. R \in SUBSET Nat /\ R # {}
      BY <1>1, <2>2, FS_CardinalityType
    <3>2. PICK x \in R : \A y \in R : x <= y
      <4> HIDE DEF R
      <4> QED
        BY <3>1, LeastNumber
    <3>3. PICK s \in T : rank[s] = x
      BY <3>2
    <3>4. \A d \in T : rank[s] <= rank[d] /\ rank[s] \in Nat /\ rank[d] \in Nat
      BY <3>1, <3>2, <3>3
    <3>5. \A d \in T : ~(rank[d] < rank[s])
      BY <3>4
    <3> QED
      BY <1>1, <3>5
  <2> QED
    BY <2>1, <2>2 DEF OrderProblem
<1>2. ASSUME ~OrderProblem(h, S, out) PROVE \E rank : Ranks(S, rank)
  <2>1. /\ \A s \in S : deps(s) \subseteq S
        /\ \A T \in SUBSET S : T # {} => \E s \in T : deps(s) \cap T = {}
    BY <1>2 DEF OrderProblem
  <2> DEFINE Left == {n \in Nat : \E U \in SUBSET S : /\ n = Cardinality(S) - Cardinality(U)
                                                     /\ \E rank : Ranks(U, rank)}
  <2>2. \A U \in SUBSET S : /\ IsFiniteSet(U) /\ Cardinality(U) \in Nat
                            /\ Cardinality(S) - Cardinality(U) \in Nat
    <3>1. \A U \in SUBSET S : IsFiniteSet(U) /\ Cardinality(U) <= Cardinality(S)
      BY FS_Subset
    <3>2. \A U \in SUBSET S : Cardinality(U) \in Nat
      BY <3>1, FS_CardinalityType
    <3>3. Cardinality(S) \in Nat
      BY FS_CardinalityType
    <3> QED
      BY <3>1, <3>2, <3>3
  <2>3. Left \in SUBSET Nat /\ Left # {}
    <3>1. Ranks({}, [s \in {} |-> 0])
      OBVIOUS
    <3>2. Cardinality(S) - Cardinality({}) \in Left
      <4> HIDE DEF Ranks
      <4> QED
        BY <2>2, <3>1
    <3> QED
      BY <3>2
  <2>4. PICK n \in Left : \A m \in Left : n <= m
    <3> HIDE DEF Left
    <3> QED
      BY <2>3, LeastNumber
  <2>5. PICK U \in SUBSET S : n = Cardinality(S) - Cardinality(U) /\ \E rank : Ranks(U, rank)
    BY <2>4
  <2>6. PICK rank : Ranks(U, rank)
    BY <2>5
  <2>7. CASE U = S
    BY <2>6, <2>7
  <2>8. CASE U # S
    <3>1. PICK s \in S \ U : deps(s) \cap (S \ U) = {}
      BY <2>1, <2>8
    <3> DEFINE V == U \cup {s}
               longer == [t \in V |-> IF t = s THEN Cardinality(V) ELSE rank[t]]
    <3>2. V \in SUBSET S /\ Cardinality(V) = Cardinality(U) + 1
      BY <2>2, <3>1, FS_AddElement
    <3>3. deps(s) \subseteq U
      BY <2>1, <3>1
    <3>4. \A t \in U : rank[t] \in 1 .. Cardinality(U) /\ t # s
      BY <2>6, <3>1
    <3>5. Cardinality(U) \in Nat
      BY <2>2
    <3>6. \A t \in U : longer[t] = rank[t]
      BY <3>4
    <3>7. longer[s] = Cardinality(V)
      OBVIOUS
    <3>8. \A t \in V : longer[t] \in 1 .. Cardinality(V)
      <4> HIDE DEF V, longer
      <4> QED
        BY <3>2, <3>4, <3>5, <3>6, <3>7 DEF V
    <3>9. \A t \in V : \A d \in deps(t) : d \in V /\ longer[d] < longer[t]
      <4>1. ASSUME NEW t \in U, NEW d \in deps(t) PROVE d \in U /\ longer[d] < longer[t]
        BY <2>6, <3>6, <4>1
      <4>2. ASSUME NEW d \in deps(s) PROVE d \in U /\ longer[d] < longer[s]
        BY <3>2, <3>3, <3>4, <3>5, <3>6, <3>7, <4>2
      <4> QED
        BY <4>1, <4>2
    <3>10. Ranks(V, longer)
      BY <3>8, <3>9
    <3>11. Cardinality(S) - Cardinality(V) \in Left
      <4> HIDE DEF Ranks, V, longer
      <4> QED
        BY <2>2, <3>2, <3>10
    <3>12. Cardinality(S) \in Nat
      BY FS_CardinalityType
    <3> HIDE DEF Left, V
    <3> QED
      BY <2>4, <2>5, <3>2, <3>5, <3>11, <3>12
  <2> QED
    BY <2>7, <2>8
<1> QED
  BY <1>1, <1>2 DEF Orderable

-----------------------------------------------------------------------------
\* What a done run promises is what the planner files for it.
LEMMA PromisedAreUnits ==
  ASSUME NEW k \in Key, result[k] \in ResultsOf[k.asop], NEW h
  PROVE  Promised(k, h) = Units(h, result[k])
<1> DEFINE out == result[k].out
           approval == result[k].approval.subset
           yielded == {s \in DOMAIN out.items :
                         /\ h \in out.items[s].keptBy
                         /\ Decl[h].approvedSubset => approval = None \/ s \in approval}
           asked == {s \in yielded : \E req \in result[k].requests :
                       req.handoff = h /\ req.to = Decl[h].to /\ req.subject = s}
<1>1. yielded = Yielded(h, result[k])
  BY DEF Yielded, ExpandSubjects
<1>2. asked = Accepted(h, result[k])
  BY <1>1 DEF Accepted, NamesHandoff
<1>3. IsFiniteSet(asked)
  <2>1. asked \in SUBSET Subject
    BY ChainEngineAssumptions DEF Key
  <2> HIDE DEF asked
  <2> QED
    BY <2>1, HandoffAssumptions, FS_Subset
<1>4. (Decl[h].ordered => Orderable(asked, out)) <=> ~OrderProblem(h, asked, out)
  <2> HIDE DEF asked, out
  <2>1. CASE Decl[h].ordered
    BY <1>3, <2>1, OrderableUnlessProblem
  <2>2. CASE ~Decl[h].ordered
    BY <2>2 DEF OrderProblem
  <2> QED
    BY <2>1, <2>2
<1>5. Promised(k, h) = IF ~Decl[h].many THEN {Chain}
                       ELSE IF asked # {} /\ (Decl[h].ordered => Orderable(asked, out))
                            THEN asked ELSE yielded
  BY DEF Promised
<1> HIDE DEF asked, yielded
<1> QED
  BY <1>1, <1>2, <1>4, <1>5 DEF Units

\* Decisions with run k that account for every unit of hand-off h.
Covered(k, h) ==
  \A s \in Units(h, result[k]) :
    \E d \in ledger[k] : /\ Filing(d) /\ d.handoff = h
                         /\ d.key = NaturalKey(Decl[h].to, s, k.attempt)

\* The decisions ledgered with a run are complete: each hand-off that fired is
\* covered, or refused, or waits; an undeclared outcome leaves refusals only.
LedgerComplete ==
  \A k \in recorded :
    IF OutcomeAccepted(k.asop, result[k].outcome)
    THEN \A h \in HandoffsOf(k.asop) : Fires(h, result[k].outcome) =>
           IF Decl[h].after = {}
           THEN (\E d \in ledger[k] : Blocking(d) /\ d.handoff = h) \/ Covered(k, h)
           ELSE Wait(h) \in ledger[k]
    ELSE \A d \in ledger[k] : d.action = "refuse"

\* A filed join found its hand-offs covered, and the runs that cover them done.
JoinSeesUnits ==
  \A k \in recorded : \A j \in JoinsOf(k.asop) :
    (\E d \in ledger[k] : Filing(d) /\ d.handoff = j) =>
      \A h \in Decl[j].after : Fires(h, result[k].outcome) =>
        \A s \in Units(h, result[k]) :
          \E d \in ledger[k] : /\ Filing(d) /\ d.handoff = h /\ d.key \in Done
                               /\ d.key = NaturalKey(Decl[h].to, s, k.attempt)

\* The ledger only grows, and a recorded run keeps its result.
LEMMA LedgerGrows ==
  ASSUME TypeOK, ResultsKnown, [Next]_vars, NEW k \in recorded
  PROVE  /\ k \in recorded' /\ ledger[k] \subseteq ledger'[k]
         /\ k \in Key /\ k \in Done /\ result'[k] = result[k]
         /\ Done \subseteq Done'
<1>1. k \in Done /\ k \in Key
  BY DEF TypeOK, Done
<1>2. result'[k] = result[k]
  BY <1>1, RecordedRunsKeep
<1>3. Done \subseteq Done'
  BY StepsKeepRuns DEF Done, Filed
<1>4. ASSUME NEW i \in Key, RecordHandoffs(i)
      PROVE  k \in recorded' /\ ledger[k] \subseteq ledger'[k]
  BY <1>1, <1>4 DEF RecordHandoffs, TypeOK
<1>5. ASSUME NEW i \in Key, NEW j, FileJoin(i, j)
      PROVE  k \in recorded' /\ ledger[k] \subseteq ledger'[k]
  BY <1>1, <1>5 DEF FileJoin, TypeOK
<1>6. \/ UNCHANGED <<recorded, ledger>>
      \/ \E i \in Key : RecordHandoffs(i) \/ \E j : FileJoin(i, j)
  BY DEF Next, Finish, Fail, Reattempt, StopWhileFiling, StopWhileJoining, Activate, vars
<1> QED
  BY <1>1, <1>2, <1>3, <1>4, <1>5, <1>6

\* A recorded plan is complete when it is recorded, and stays so.
LEMMA LedgerStaysComplete ==
  ASSUME TypeOK, ResultsKnown, LedgerComplete, [Next]_vars
  PROVE  LedgerComplete'
<1>1. ASSUME NEW k \in recorded, NEW h,
             (\E d \in ledger[k] : Blocking(d) /\ d.handoff = h) \/ Covered(k, h)
      PROVE  (\E d \in ledger'[k] : Blocking(d) /\ d.handoff = h) \/ Covered(k, h)'
  BY <1>1, LedgerGrows DEF Covered
<1>2. ASSUME NEW k \in recorded, OutcomeAccepted(k.asop, result[k].outcome),
             NEW h \in HandoffsOf(k.asop), Fires(h, result'[k].outcome)
      PROVE  IF Decl[h].after = {}
             THEN (\E d \in ledger'[k] : Blocking(d) /\ d.handoff = h) \/ Covered(k, h)'
             ELSE Wait(h) \in ledger'[k]
  BY <1>1, <1>2, LedgerGrows DEF LedgerComplete
<1>3. ASSUME NEW k \in recorded, ~OutcomeAccepted(k.asop, result[k].outcome), NEW d \in ledger'[k]
      PROVE  d.action = "refuse"
  <2>1. \A e \in ledger[k] : e.action = "refuse"
    BY <1>3 DEF LedgerComplete
  <2>2. \A j : ~FileJoin(k, j)
    BY <2>1 DEF FileJoin, Waiting, Wait
  <2>3. ~RecordHandoffs(k)
    BY DEF RecordHandoffs
  <2>4. k \in recorded'
    BY LedgerGrows
  <2> QED
    BY <2>1, <2>2, <2>3, <2>4, LedgerSteps
<1>4. ASSUME NEW k \in recorded', k \notin recorded
      PROVE  k \in Key /\ RecordHandoffs(k) /\ ledger'[k] = Plan(k) /\ result' = result
  BY <1>4 DEF Next, Finish, Fail, Reattempt, RecordHandoffs, StopWhileFiling, FileJoin,
              StopWhileJoining, Activate, vars, TypeOK
<1>5. ASSUME NEW k \in recorded', k \notin recorded, OutcomeAccepted(k.asop, result'[k].outcome),
             NEW h \in HandoffsOf(k.asop), Fires(h, result'[k].outcome)
      PROVE  IF Decl[h].after = {}
             THEN (\E d \in ledger'[k] : Blocking(d) /\ d.handoff = h) \/ Covered(k, h)'
             ELSE Wait(h) \in ledger'[k]
  <2>1. /\ OutcomeAccepted(k.asop, result[k].outcome) /\ Fires(h, result[k].outcome)
        /\ ledger'[k] = Plan(k) /\ result'[k] = result[k]
    BY <1>4, <1>5
  <2>2. CASE Decl[h].after # {}
    BY <2>1, <2>2, PlanCovers DEF Plan
  <2>3. CASE Decl[h].after = {}
    <3>1. FileHandoff(h, k.attempt, inputs[k], result[k], active, Existing) \subseteq ledger'[k]
      BY <2>1, <2>3, PlanCovers DEF Plan
    <3>2. \/ \E d \in ledger'[k] : Blocking(d) /\ d.handoff = h
          \/ \A s \in Units(h, result[k]) :
               \E d \in ledger'[k] :
                 Filing(d) /\ d.handoff = h /\ d.key = NaturalKey(Decl[h].to, s, k.attempt)
      BY <3>1, HandoffCovers
    <3> QED
      BY <2>1, <2>3, <3>2 DEF Covered
  <2> QED
    BY <2>2, <2>3
<1>6. ASSUME NEW k \in recorded', k \notin recorded, ~OutcomeAccepted(k.asop, result'[k].outcome),
             NEW d \in ledger'[k]
      PROVE  d.action = "refuse"
  BY <1>4, <1>6, PlanCovers DEF Plan
<1>7. \A k \in recorded : result'[k] = result[k]
  BY LedgerGrows
<1> QED
  BY <1>2, <1>3, <1>5, <1>6, <1>7 DEF LedgerComplete

\* A join that is ready finds each of its hand-offs that fired covered by runs
\* that are done.
LEMMA ReadyJoinsSeeUnits ==
  ASSUME TypeOK, LedgerComplete, LedgeredUnits,
         NEW k \in recorded, NEW j \in JoinsOf(k.asop), Waiting(k, j), StateOfJoin(k, j) = "ready",
         NEW h \in Decl[j].after, Fires(h, result[k].outcome), NEW s \in Units(h, result[k])
  PROVE  \E d \in ledger[k] : /\ Filing(d) /\ d.handoff = h /\ d.key \in Done
                              /\ d.key = NaturalKey(Decl[h].to, s, k.attempt)
<1>1. /\ ~JoinBlocked(Decl[j].after, ledger[k], Done, Failed)
      /\ ~JoinPending(Decl[j].after, ledger[k], Done)
  BY DEF StateOfJoin, JoinState
<1>2. h \in HandoffsOf(k.asop) /\ (Decl[h].after # {} => ~Decl[h].many)
  BY HandoffAssumptions DEF JoinsOf, HandoffsOf, JoinsWaitOnEarlierHandoffs
<1>3. OutcomeAccepted(k.asop, result[k].outcome)
  BY DEF LedgerComplete, Waiting, Wait
<1>4. \A d \in ledger[k] : Filing(d) /\ d.handoff = h => d.key \in Done
  BY <1>1 DEF JoinPending, WaitedKeys
<1>5. CASE Decl[h].after = {}
  <2>1. ~\E d \in ledger[k] : Blocking(d) /\ d.handoff = h
    BY <1>1 DEF JoinBlocked
  <2>2. Covered(k, h)
    BY <1>2, <1>3, <1>5, <2>1 DEF LedgerComplete
  <2> QED
    BY <1>4, <2>2 DEF Covered
<1>6. CASE Decl[h].after # {}
  <2>1. Wait(h) \in ledger[k]
    BY <1>2, <1>3, <1>6 DEF LedgerComplete
  <2>2. PICK d \in ledger[k] : Filing(d) /\ d.handoff = h
    BY <1>1, <2>1 DEF JoinPending, Wait
  <2>3. PICK t \in Units(h, result[k]) : d.key = NaturalKey(Decl[h].to, t, k.attempt)
    BY <2>2 DEF LedgeredUnits, FiredUnit
  <2>4. s = t
    BY <1>2, <1>6 DEF Units
  <2> QED
    BY <1>4, <2>2, <2>3, <2>4
<1> QED
  BY <1>5, <1>6

\* Only a join's own plan files it, and the join is ready then.
LEMMA JoinsStaySeen ==
  ASSUME TypeOK, ResultsKnown, LedgeredUnits, LedgerComplete, JoinSeesUnits, [Next]_vars
  PROVE  JoinSeesUnits'
<1> SUFFICES ASSUME NEW k \in recorded', NEW j \in JoinsOf(k.asop),
                    NEW d \in ledger'[k], Filing(d), d.handoff = j,
                    NEW h \in Decl[j].after, Fires(h, result'[k].outcome),
                    NEW s \in Units(h, result'[k])
             PROVE  \E e \in ledger'[k] : /\ Filing(e) /\ e.handoff = h /\ e.key \in Done'
                                          /\ e.key = NaturalKey(Decl[h].to, s, k.attempt)
  BY DEF JoinSeesUnits
<1>1. ASSUME k \in recorded,
             \E e \in ledger[k] : /\ Filing(e) /\ e.handoff = h /\ e.key \in Done
                                  /\ e.key = NaturalKey(Decl[h].to, s, k.attempt)
      PROVE  \E e \in ledger'[k] : /\ Filing(e) /\ e.handoff = h /\ e.key \in Done'
                                   /\ e.key = NaturalKey(Decl[h].to, s, k.attempt)
  BY <1>1, LedgerGrows
<1>2. CASE k \in recorded /\ d \in ledger[k]
  <2>1. result'[k] = result[k]
    BY <1>2, LedgerGrows
  <2> QED
    BY <1>1, <1>2, <2>1 DEF JoinSeesUnits
<1>3. CASE k \in Key /\ RecordHandoffs(k) /\ d \in Plan(k)
  <2>1. PICK g \in HandoffsOf(k.asop) :
          /\ Decl[g].after = {}
          /\ d \in FileHandoff(g, k.attempt, inputs[k], result[k], active, Existing)
    BY <1>3, PlanFilings DEF Plan
  <2>2. d.handoff = g
    BY <2>1, HandoffFilings
  <2> QED
    BY <2>1, <2>2 DEF JoinsOf
<1>4. ASSUME k \in Key, NEW i \in JoinsOf(k.asop), FileJoin(k, i), d \in JoinPlan(k, i)
      PROVE  \E e \in ledger'[k] : /\ Filing(e) /\ e.handoff = h /\ e.key \in Done'
                                   /\ e.key = NaturalKey(Decl[h].to, s, k.attempt)
  <2>1. i = j
    BY <1>4, HandoffFilings DEF JoinPlan, PlanJoin
  <2>2. k \in recorded /\ Waiting(k, j) /\ StateOfJoin(k, j) = "ready"
    BY <1>4, <2>1 DEF FileJoin
  <2>3. result'[k] = result[k]
    BY <2>2, LedgerGrows
  <2> QED
    BY <1>1, <2>2, <2>3, ReadyJoinsSeeUnits
<1> QED
  BY <1>2, <1>3, <1>4, LedgerSteps

\* A join is filed only when every unit its hand-offs promised has a run that
\* is done and, where the engine keeps inputs, was given the ones this parent
\* computes for it.
THEOREM JoinsAlwaysSeeWholeFanOut == Spec => [](LedgerComplete /\ JoinSeesWholeFanOut)
<1>1. Init => LedgerComplete /\ JoinSeesUnits
  BY DEF Init, LedgerComplete, JoinSeesUnits
<1>2. TypeOK /\ ResultsKnown /\ LedgeredUnits /\ LedgerComplete /\ JoinSeesUnits /\ [Next]_vars
      => LedgerComplete' /\ JoinSeesUnits'
  BY LedgerStaysComplete, JoinsStaySeen
<1>3. TypeOK /\ ResultsKnown /\ HandedInputsAgree /\ JoinSeesUnits => JoinSeesWholeFanOut
  <2> SUFFICES ASSUME TypeOK, ResultsKnown, HandedInputsAgree, JoinSeesUnits,
                      NEW k \in recorded, NEW j \in JoinsOf(k.asop),
                      \E d \in ledger[k] : Filing(d) /\ d.handoff = j,
                      NEW h \in Decl[j].after, Fires(h, result[k].outcome),
                      NEW s \in Promised(k, h)
               PROVE  LET key == NaturalKey(Decl[h].to, s, k.attempt)
                      IN  /\ key \in Done
                          /\ keepsInputs => inputs[key] = UnitInputs(h, s, inputs[k], result[k])
    BY DEF JoinSeesWholeFanOut
  <2>1. k \in Key /\ result[k] \in ResultsOf[k.asop]
    BY DEF TypeOK, Done, ResultsKnown
  <2>2. s \in Units(h, result[k])
    BY <2>1, PromisedAreUnits
  <2>3. PICK d \in ledger[k] : /\ Filing(d) /\ d.handoff = h /\ d.key \in Done
                               /\ d.key = NaturalKey(Decl[h].to, s, k.attempt)
    BY <2>2 DEF JoinSeesUnits
  <2>4. keepsInputs => inputs[d.key] = UnitInputs(h, d.key.subject, inputs[k], result[k])
    BY <2>3 DEF HandedInputsAgree
  <2>5. d.key.subject = s
    BY <2>3 DEF NaturalKey
  <2> QED
    BY <2>3, <2>4, <2>5
<1> QED
  BY <1>1, <1>2, <1>3, TypeCorrect, HandedInputsAlwaysAgree, PTL DEF Spec

\* The filings recorded of a hand-off are exactly what its procedure declares,
\* unless a refusal says that they are fewer.
THEOREM FiledAlwaysExactlyPromised == Spec => []FiledExactlyPromised
<1>1. TypeOK /\ ResultsKnown /\ LedgeredUnits /\ LedgerComplete => FiledExactlyPromised
  <2> SUFFICES ASSUME TypeOK, ResultsKnown, LedgeredUnits, LedgerComplete,
                      NEW k \in recorded, NEW h \in HandoffsOf(k.asop), Decl[h].after = {}
               PROVE  LET filed    == {d.key : d \in {e \in ledger[k] : Filing(e) /\ e.handoff = h}}
                          promised == {NaturalKey(Decl[h].to, s, k.attempt) : s \in Promised(k, h)}
                          fired    == OutcomeAccepted(k.asop, result[k].outcome)
                                        /\ Fires(h, result[k].outcome)
                          refused  == \E d \in ledger[k] : Blocking(d) /\ d.handoff = h
                      IN  IF ~fired THEN filed = {}
                          ELSE IF refused THEN filed \subseteq promised
                          ELSE filed = promised
    BY DEF FiledExactlyPromised
  <2> DEFINE filed    == {d.key : d \in {e \in ledger[k] : Filing(e) /\ e.handoff = h}}
             promised == {NaturalKey(Decl[h].to, s, k.attempt) : s \in Units(h, result[k])}
             fired    == OutcomeAccepted(k.asop, result[k].outcome) /\ Fires(h, result[k].outcome)
             refused  == \E d \in ledger[k] : Blocking(d) /\ d.handoff = h
  <2>1. Promised(k, h) = Units(h, result[k])
    BY PromisedAreUnits DEF TypeOK, Done, ResultsKnown
  <2>2. ~fired => filed = {}
    BY DEF LedgeredUnits, FiredUnit
  <2>3. filed \subseteq promised
    BY DEF LedgeredUnits, FiredUnit
  <2>4. fired /\ ~refused => promised \subseteq filed
    BY DEF LedgerComplete, Covered
  <2> QED
    BY <2>1, <2>2, <2>3, <2>4
<1> QED
  BY <1>1, TypeCorrect, HandedInputsAlwaysAgree, JoinsAlwaysSeeWholeFanOut, PTL

\* Once a join may be filed nothing takes that back: the hand-offs it waits on
\* are decided, and their runs stay done.
THEOREM ReadinessIsStable == Spec => ReadyIsStable
<1>1. ASSUME TypeOK, ResultsKnown, [Next]_vars, NEW k \in recorded, NEW j \in JoinsOf(k.asop),
             Waiting(k, j), StateOfJoin(k, j) = "ready"
      PROVE  StateOfJoin(k, j)' = "ready"
  <2> DEFINE after == Decl[j].after
  <2>1. /\ ~JoinBlocked(after, ledger[k], Done, Failed)
        /\ ~JoinPending(after, ledger[k], Done)
    BY <1>1 DEF StateOfJoin, JoinState
  <2>2. ASSUME NEW d \in ledger'[k], d \notin ledger[k]
        PROVE  d.handoff \notin after /\ d.handoff # None
    <3>1. PICK i \in JoinsOf(k.asop) : FileJoin(k, i) /\ d \in JoinPlan(k, i)
      BY <1>1, <2>2, LedgerGrows, LedgerSteps DEF RecordHandoffs
    <3>2. d.handoff = i /\ Waiting(k, i) /\ i \in HandoffId
      BY <3>1, HandoffFilings DEF FileJoin, JoinPlan, PlanJoin, JoinsOf, HandoffsOf
    <3>3. i \notin after
      BY <2>1, <3>2 DEF JoinPending, Waiting, Wait
    <3> QED
      BY <3>2, <3>3, HandoffAssumptions
  <2>3. ledger[k] \subseteq ledger'[k] /\ Done \subseteq Done'
    BY <1>1, LedgerGrows
  <2>4. WaitedKeys(after, ledger'[k]) \subseteq Done'
    BY <2>1, <2>2, <2>3 DEF JoinPending, WaitedKeys
  <2>5. ~JoinPending(after, ledger'[k], Done')
    BY <2>1, <2>2, <2>3, <2>4 DEF JoinPending
  <2>6. ~JoinBlocked(after, ledger'[k], Done', Failed')
    BY <2>1, <2>2, <2>4 DEF JoinBlocked
  <2> QED
    BY <2>5, <2>6 DEF StateOfJoin, JoinState
<1>2. TypeOK /\ ResultsKnown /\ [Next]_vars
      => [\A k \in recorded : \A j \in JoinsOf(k.asop) :
            Waiting(k, j) /\ StateOfJoin(k, j) = "ready" => StateOfJoin(k, j)' = "ready"]_vars
  BY <1>1
<1> QED
  BY <1>2, TypeCorrect, PTL DEF Spec, ReadyIsStable

-----------------------------------------------------------------------------
\* Decisions are added to the ledger of a recorded run by its joins alone.
LEMMA LedgerGrowsByJoins ==
  ASSUME TypeOK, ResultsKnown, [Next]_vars, NEW k \in recorded,
         NEW d \in ledger'[k], d \notin ledger[k]
  PROVE  /\ d.action # "wait"
         /\ \E i \in JoinsOf(k.asop) : FileJoin(k, i) /\ d.handoff = i
<1>1. PICK i \in JoinsOf(k.asop) : FileJoin(k, i) /\ d \in JoinPlan(k, i)
  BY LedgerGrows, LedgerSteps DEF RecordHandoffs
<1>2. d.handoff = i /\ d.action \in {"file", "duplicate", "refuse"}
  BY <1>1, HandoffFilings DEF JoinPlan, PlanJoin
<1> QED
  BY <1>1, <1>2

\* The joins a decided join waited on were decided before it.
ListedJoinsFirst ==
  \A k \in recorded : \A j \in JoinsOf(k.asop) : JoinStage(k, j) = "decided" =>
    \A i \in Decl[j].after : Wait(i) \in ledger[k] => ~Waiting(k, i)

\* A step leaves a recorded run's joins as they are, or decides one of them.
LEMMA RecordedJoinsStep ==
  ASSUME TypeOK, ResultsKnown, [Next]_vars, NEW k \in recorded, NEW j
  PROVE  /\ Wait(j) \in ledger'[k] <=> Wait(j) \in ledger[k]
         /\ Waiting(k, j)' => Waiting(k, j)
         /\ Waiting(k, j) /\ ~Waiting(k, j)' => j \in JoinsOf(k.asop) /\ FileJoin(k, j)
         /\ JoinStage(k, j)' # JoinStage(k, j)
              => /\ JoinStage(k, j) = "waiting" /\ JoinStage(k, j)' = "decided"
                 /\ Waiting(k, j) /\ ~Waiting(k, j)'
<1>1. ledger[k] \subseteq ledger'[k]
  BY LedgerGrows
<1>2. Wait(j) \in ledger'[k] <=> Wait(j) \in ledger[k]
  BY <1>1, LedgerGrowsByJoins DEF Wait
<1>3. Waiting(k, j)' => Waiting(k, j)
  BY <1>1, <1>2 DEF Waiting
<1>4. ASSUME Waiting(k, j), ~Waiting(k, j)'
      PROVE  j \in JoinsOf(k.asop) /\ FileJoin(k, j)
  <2>1. PICK d \in ledger'[k] : d.handoff = j /\ d \notin ledger[k]
    BY <1>2, <1>4 DEF Waiting
  <2> QED
    BY <2>1, LedgerGrowsByJoins
<1> QED
  BY <1>2, <1>3, <1>4 DEF JoinStage, Waiting

\* The joins of a run that is recorded now start to wait, or stay idle.
LEMMA NewJoinsStep ==
  ASSUME TypeOK, ResultsKnown, TypeOK', [Next]_vars, NEW k \in Key, k \notin recorded,
         NEW j \in JoinsOf(k.asop)
  PROVE  JoinStage(k, j) = "idle" /\ JoinStage(k, j)' \in {"idle", "waiting"}
<1>1. ledger[k] = {} /\ JoinStage(k, j) = "idle"
  <2>1. ledger[k] = {}
    BY DEF TypeOK
  <2> QED
    BY <2>1 DEF JoinStage
<1>2. CASE k \notin recorded'
  BY <1>2 DEF TypeOK, JoinStage
<1>3. CASE k \in recorded'
  <2>1. \A d \in ledger'[k] : d \in Plan(k)
    BY <1>1, <1>3, LedgerSteps DEF FileJoin, Waiting
  <2>2. \A d \in ledger'[k] : d.handoff = j => ~Filing(d) /\ ~Blocking(d)
    BY <2>1, PlanLeavesJoins DEF Plan, JoinsOf, HandoffsOf
  <2> QED
    BY <1>1, <2>2 DEF JoinStage, Waiting
<1> QED
  BY <1>1, <1>2, <1>3

LEMMA ListedJoinsStayFirst ==
  ASSUME TypeOK, ResultsKnown, ListedJoinsFirst, TypeOK', [Next]_vars
  PROVE  ListedJoinsFirst'
<1> SUFFICES ASSUME NEW k \in recorded', NEW j \in JoinsOf(k.asop), JoinStage(k, j)' = "decided",
                    NEW i \in Decl[j].after, Wait(i) \in ledger'[k], Waiting(k, i)'
             PROVE  FALSE
  BY DEF ListedJoinsFirst
<1>1. k \in Key
  BY DEF TypeOK, Done
<1>2. k \in recorded
  BY <1>1, NewJoinsStep
<1>3. Wait(i) \in ledger[k] /\ Waiting(k, i)
  BY <1>2, RecordedJoinsStep
<1>4. JoinStage(k, j) # "decided"
  BY <1>2, <1>3 DEF ListedJoinsFirst
<1>5. FileJoin(k, j)
  BY <1>2, <1>4, RecordedJoinsStep
<1>6. ~JoinPending(Decl[j].after, ledger[k], Done)
  BY <1>5 DEF FileJoin, StateOfJoin, JoinState
<1>7. \E e \in ledger[k] : Filing(e) /\ e.handoff = i
  BY <1>3, <1>6 DEF JoinPending, Wait
<1> QED
  BY <1>3, <1>7 DEF Waiting

\* A join that is ready waits on nothing that has not finished.
LEMMA ReadyJoinsAwaitNothing ==
  ASSUME TypeOK, ResultsKnown, LedgeredUnits, LedgerComplete,
         NEW k \in recorded, NEW j \in JoinsOf(k.asop), Waiting(k, j), StateOfJoin(k, j) = "ready"
  PROVE  Awaited(k, j) \subseteq
           Done \cup {x \in JoinsOfRuns : JoinStage(x.run, x.join) = "decided"}
<1>1. k \in Key /\ result[k] \in ResultsOf[k.asop]
  BY DEF TypeOK, Done, ResultsKnown
<1>2. /\ ~JoinBlocked(Decl[j].after, ledger[k], Done, Failed)
      /\ ~JoinPending(Decl[j].after, ledger[k], Done)
  BY DEF StateOfJoin, JoinState
<1>3. ASSUME NEW h \in Decl[j].after, Fires(h, result[k].outcome), NEW s \in Promised(k, h)
      PROVE  NaturalKey(Decl[h].to, s, k.attempt) \in Done
  BY <1>1, <1>3, PromisedAreUnits, ReadyJoinsSeeUnits
<1>4. ASSUME NEW i \in Decl[j].after, Fires(i, result[k].outcome), Decl[i].after # {}
      PROVE  [run |-> k, join |-> i] \in {x \in JoinsOfRuns : JoinStage(x.run, x.join) = "decided"}
  <2>1. i \in HandoffsOf(k.asop)
    BY HandoffAssumptions DEF JoinsOf, HandoffsOf, JoinsWaitOnEarlierHandoffs
  <2>2. Wait(i) \in ledger[k]
    BY <1>4, <2>1 DEF LedgerComplete, Waiting, Wait
  <2>3. PICK e \in ledger[k] : Filing(e) /\ e.handoff = i
    BY <1>2, <1>4, <2>2 DEF JoinPending, Wait
  <2>4. JoinStage(k, i) = "decided"
    BY <2>2, <2>3 DEF JoinStage, Waiting
  <2>5. [run |-> k, join |-> i] \in JoinsOfRuns
    BY <1>1, <1>4, <2>1 DEF JoinsOfRuns, JoinsOf
  <2> QED
    BY <2>4, <2>5
<1>5. {d \in ledger[k] : Blocking(d) /\ d.handoff \in Decl[j].after} = {}
  BY <1>2 DEF JoinBlocked
<1> QED
  BY <1>3, <1>4, <1>5 DEF Awaited

\* The engine implements FanIn: every step of the chain is a step of each of
\* its joins, or leaves it alone.
THEOREM JoinsImplementFanIn == Spec => JoinsAreFanIns
<1> DEFINE Inv == /\ TypeOK /\ ResultsKnown /\ LedgeredUnits /\ LedgerComplete /\ ListedJoinsFirst
           awaits(k, j) == IF JoinStage(k, j) = "idle" THEN {} ELSE Awaited(k, j)
           finished == Done \cup {x \in JoinsOfRuns : JoinStage(x.run, x.join) = "decided"}
<1>1. Init => Joins!Init /\ ListedJoinsFirst
  <2> SUFFICES ASSUME Init PROVE Joins!Init /\ ListedJoinsFirst
    OBVIOUS
  <2>1. \A x \in JoinsOfRuns : x.run \in Key /\ JoinStage(x.run, x.join) = "idle"
    BY DEF Init, JoinStage, JoinsOfRuns
  <2>2. Done = {}
    BY DEF Init, Done
  <2> QED
    BY <2>1, <2>2 DEF Joins!Init, ListedJoinsFirst, Init
<1>2. ASSUME Inv, TypeOK', [Next]_vars, NEW k \in Key, NEW j \in JoinsOf(k.asop)
      PROVE  \/ JoinStage(k, j)' = JoinStage(k, j) /\ awaits(k, j)' = awaits(k, j)
             \/ JoinStage(k, j) = "idle" /\ JoinStage(k, j)' = "waiting"
             \/ /\ JoinStage(k, j) = "waiting" /\ JoinStage(k, j)' = "waiting"
                /\ awaits(k, j) \subseteq awaits(k, j)'
             \/ /\ JoinStage(k, j) = "waiting" /\ awaits(k, j) \subseteq finished
                /\ ~Superseded(k)
                /\ JoinStage(k, j)' = "decided" /\ awaits(k, j)' = awaits(k, j)
  <2>1. CASE k \notin recorded
    BY <1>2, <2>1, NewJoinsStep
  <2>2. CASE k \in recorded
    <3>1. result'[k] = result[k] /\ ledger[k] \subseteq ledger'[k]
      BY <1>2, <2>2, LedgerGrows
    <3>p. \A h : Promised(k, h)' = Promised(k, h)
      BY <3>1 DEF Promised
    <3>q. {d \in ledger[k] : Blocking(d) /\ d.handoff \in Decl[j].after}
            \subseteq {d \in ledger'[k] : Blocking(d) /\ d.handoff \in Decl[j].after}
      BY <3>1
    <3>2. Awaited(k, j) \subseteq Awaited(k, j)'
      BY <3>1, <3>p, <3>q DEF Awaited
    <3>3. ASSUME \A d \in ledger'[k] : d \in ledger[k] \/ d.handoff \notin Decl[j].after
          PROVE  Awaited(k, j)' = Awaited(k, j)
      <4>1. {d \in ledger[k] : Blocking(d) /\ d.handoff \in Decl[j].after}
              = {d \in ledger'[k] : Blocking(d) /\ d.handoff \in Decl[j].after}
        BY <3>1, <3>3
      <4> QED
        BY <3>1, <3>p, <4>1 DEF Awaited
    <3>4. CASE JoinStage(k, j) = "idle"
      BY <1>2, <2>2, <3>4, RecordedJoinsStep
    <3>5. CASE JoinStage(k, j) = "waiting" /\ JoinStage(k, j)' = "waiting"
      BY <3>2, <3>5
    <3>6. CASE JoinStage(k, j) = "waiting" /\ JoinStage(k, j)' # "waiting"
      <4>1. JoinStage(k, j)' = "decided" /\ FileJoin(k, j)
        BY <1>2, <2>2, <3>6, RecordedJoinsStep
      <4>2. Waiting(k, j) /\ StateOfJoin(k, j) = "ready" /\ ~Superseded(k)
        BY <4>1 DEF FileJoin
      <4>3. Awaited(k, j) \subseteq finished
        BY <1>2, <2>2, <4>2, ReadyJoinsAwaitNothing
      <4>4. StateOfJoin(k, j) = "ready" => ~JoinPending(Decl[j].after, ledger[k], Done)
        BY DEF StateOfJoin, JoinState
      <4>5. \A d \in ledger'[k] : d \in ledger[k] \/ d.handoff \notin Decl[j].after
        <5> SUFFICES ASSUME NEW d \in ledger'[k], d \notin ledger[k], d.handoff \in Decl[j].after
                     PROVE  FALSE
          OBVIOUS
        <5>1. Waiting(k, d.handoff)
          BY <1>2, <2>2, LedgerGrowsByJoins DEF FileJoin
        <5> QED
          BY <4>2, <4>4, <5>1 DEF JoinPending, Waiting, Wait
      <4> QED
        BY <3>3, <3>6, <4>1, <4>2, <4>3, <4>5
    <3>7. CASE JoinStage(k, j) = "decided"
      <4>1. JoinStage(k, j)' = "decided"
        BY <1>2, <2>2, <3>7, RecordedJoinsStep
      <4>2. \A d \in ledger'[k] : d \in ledger[k] \/ d.handoff \notin Decl[j].after
        <5> SUFFICES ASSUME NEW d \in ledger'[k], d \notin ledger[k], d.handoff \in Decl[j].after
                     PROVE  FALSE
          OBVIOUS
        <5>1. Waiting(k, d.handoff)
          BY <1>2, <2>2, LedgerGrowsByJoins DEF FileJoin
        <5> QED
          BY <1>2, <2>2, <3>7, <5>1 DEF ListedJoinsFirst, Waiting
      <4> QED
        BY <3>3, <3>7, <4>1, <4>2
    <3> QED
      BY <3>4, <3>5, <3>6, <3>7 DEF JoinStage
  <2> QED
    BY <2>1, <2>2
<1>3. Inv /\ TypeOK' /\ [Next]_vars => [Joins!Next]_(Joins!vars) /\ ListedJoinsFirst'
  <2> SUFFICES ASSUME Inv, TypeOK', [Next]_vars PROVE Joins!Next /\ ListedJoinsFirst'
    OBVIOUS
  <2>1. Done \subseteq Done' /\ Filed \subseteq Filed'
    BY StepsKeepRuns DEF Done, Filed
  <2>2. \A x \in JoinsOfRuns : Superseded(x.run) => Superseded(x.run)'
    BY <2>1 DEF Superseded
  <2>3. \A x \in JoinsOfRuns : x.run \in Key /\ x.join \in JoinsOf(x.run.asop)
    BY DEF JoinsOfRuns
  <2>4. \A x \in JoinsOfRuns : JoinStage(x.run, x.join) = "decided" => JoinStage(x.run, x.join)' = "decided"
    BY <1>2, <2>3
  <2>5. ListedJoinsFirst'
    BY ListedJoinsStayFirst
  <2> HIDE DEF awaits
  <2>6. \A x \in JoinsOfRuns : \/ Joins!Begin(x) \/ Joins!Learn(x) \/ Joins!Decide(x) \/ Joins!Keep(x)
    BY <1>2, <2>3 DEF Joins!Begin, Joins!Learn, Joins!Decide, Joins!Keep, awaits
  <2> QED
    BY <2>1, <2>2, <2>4, <2>5, <2>6 DEF Joins!Next
<1> QED
  BY <1>1, <1>3, TypeCorrect, HandedInputsAlwaysAgree, JoinsAlwaysSeeWholeFanOut,
     PTL DEF Spec, JoinsAreFanIns, Joins!Spec

-----------------------------------------------------------------------------
\* What waits among the recorded decisions of a run is a join of its own that
\* fired.
WaitsAreOfJoins ==
  \A k \in recorded : \A d \in ledger[k] : d.action = "wait" =>
    /\ OutcomeAccepted(k.asop, result[k].outcome)
    /\ \E j \in JoinsOf(k.asop) : Fires(j, result[k].outcome) /\ d = Wait(j)

LEMMA WaitsStayOfJoins ==
  ASSUME TypeOK, ResultsKnown, WaitsAreOfJoins, [Next]_vars
  PROVE  WaitsAreOfJoins'
<1> SUFFICES ASSUME NEW k \in recorded', NEW d \in ledger'[k], d.action = "wait"
             PROVE  /\ OutcomeAccepted(k.asop, result'[k].outcome)
                    /\ \E j \in JoinsOf(k.asop) : Fires(j, result'[k].outcome) /\ d = Wait(j)
  BY DEF WaitsAreOfJoins
<1>1. CASE k \in recorded
  <2>1. d \in ledger[k] /\ result'[k] = result[k]
    BY <1>1, LedgerGrows, LedgerGrowsByJoins
  <2> QED
    BY <1>1, <2>1 DEF WaitsAreOfJoins
<1>2. CASE k \notin recorded
  <2>1. k \in Key
    BY <1>2, LedgerSteps
  <2>2. ledger[k] = {}
    BY <1>2, <2>1 DEF TypeOK
  <2>3. RecordHandoffs(k) /\ d \in Plan(k)
    BY <1>2, <2>2, LedgerSteps DEF FileJoin, Waiting
  <2>4. result' = result
    BY <2>3 DEF RecordHandoffs
  <2> QED
    BY <2>3, <2>4, PlanWaits DEF Plan, JoinsOf
<1> QED
  BY <1>1, <1>2

LEMMA WaitsAlwaysOfJoins == Spec => [](TypeOK /\ ResultsKnown /\ WaitsAreOfJoins)
<1>1. Init => WaitsAreOfJoins
  BY DEF Init, WaitsAreOfJoins
<1>2. TypeOK /\ ResultsKnown /\ WaitsAreOfJoins /\ [Next]_vars => WaitsAreOfJoins'
  BY WaitsStayOfJoins
<1> QED
  BY <1>1, <1>2, TypeCorrect, PTL DEF Spec

\* What the settling of joins rests on, for every tree of hand-offs and joins.
THEOREM JoinsNeverStarve == Spec => []JoinsCanBeDecided
<1>1. WaitsAreOfJoins => JoinsCanBeDecided
  <2> SUFFICES ASSUME WaitsAreOfJoins, NEW k \in recorded,
                      \E j \in JoinsOf(k.asop) : Waiting(k, j),
                      \A d \in ledger[k] : Filing(d) => d.key \in Done \cup Failed
               PROVE  \E j \in JoinsOf(k.asop) :
                        Waiting(k, j) /\ StateOfJoin(k, j) \in {"ready", "blocked"}
    BY DEF JoinsCanBeDecided
  <2> DEFINE P == {Decl[j].position : j \in {i \in JoinsOf(k.asop) : Waiting(k, i)}}
  <2>1. P \in SUBSET Nat /\ P # {}
    BY HandoffAssumptions DEF JoinsOf, HandoffsOf, JoinsWaitOnEarlierHandoffs
  <2>2. PICK p \in P : \A q \in P : p <= q
    <3> HIDE DEF P
    <3> QED
      BY <2>1, LeastNumber
  <2>3. PICK j \in JoinsOf(k.asop) : Waiting(k, j) /\ Decl[j].position = p
    BY <2>2
  <2> DEFINE after == Decl[j].after
  <2>4. ASSUME ~JoinBlocked(after, ledger[k], Done, Failed) PROVE ~JoinPending(after, ledger[k], Done)
    <3>1. WaitedKeys(after, ledger[k]) \subseteq Done
      BY <2>4 DEF JoinBlocked, WaitedKeys
    <3>2. ASSUME NEW d \in ledger[k], d.action = "wait", d.handoff \in after,
                 \A e \in ledger[k] : Filing(e) => e.handoff # d.handoff
          PROVE  FALSE
      <4>1. PICK i \in JoinsOf(k.asop) : d = Wait(i)
        BY <3>2 DEF WaitsAreOfJoins
      <4>2. i = d.handoff
        BY <4>1 DEF Wait
      <4>3. \A e \in ledger[k] : e.handoff = i => ~Blocking(e)
        BY <2>4, <3>2, <4>2 DEF JoinBlocked
      <4>4. Waiting(k, i)
        BY <3>2, <4>1, <4>2, <4>3 DEF Waiting
      <4>5. i \in HandoffId /\ j \in HandoffId
        BY DEF JoinsOf, HandoffsOf
      <4>6. Decl[i].position < Decl[j].position /\ Decl[i].position \in Nat /\ Decl[j].position \in Nat
        BY <3>2, <4>2, <4>5, HandoffAssumptions DEF JoinsWaitOnEarlierHandoffs
      <4>7. p <= Decl[i].position
        BY <2>2, <4>4
      <4> QED
        BY <2>3, <4>6, <4>7
    <3> QED
      BY <3>1, <3>2 DEF JoinPending
  <2>5. StateOfJoin(k, j) \in {"ready", "blocked"}
    BY <2>4 DEF StateOfJoin, JoinState
  <2> QED
    BY <2>3, <2>5
<1> QED
  BY <1>1, WaitsAlwaysOfJoins, PTL

\* A join that is filed has stopped to wait: its one unit was filed, or found
\* filed, or the join was refused toward its target (plan_join).
THEOREM FilingDecidesTheJoin ==
  Spec => [][\A k \in Key : \A j \in JoinsOf(k.asop) : FileJoin(k, j) => ~Waiting(k, j)']_vars
<1>1. ASSUME TypeOK, ResultsKnown, WaitsAreOfJoins,
             NEW k \in Key, NEW j \in JoinsOf(k.asop), FileJoin(k, j)
      PROVE  ~Waiting(k, j)'
  <2>1. Wait(j) \in ledger[k] /\ ledger'[k] = ledger[k] \cup JoinPlan(k, j)
    BY <1>1 DEF FileJoin, Waiting, TypeOK
  <2>2. k \in recorded
    BY <1>1, <2>1 DEF TypeOK
  <2>3. PICK i \in JoinsOf(k.asop) : /\ OutcomeAccepted(k.asop, result[k].outcome)
                                     /\ Fires(i, result[k].outcome) /\ Wait(j) = Wait(i)
    BY <1>1, <2>1, <2>2 DEF WaitsAreOfJoins, Wait
  <2>4. i = j /\ Decl[j].of = k.asop /\ ~Decl[j].many
    BY <2>3, HandoffAssumptions DEF Wait, JoinsOf, HandoffsOf, JoinsWaitOnEarlierHandoffs
  <2>5. JoinPlan(k, j) = FileHandoff(j, k.attempt, inputs[k], result[k], active, Existing)
    BY <2>3, <2>4 DEF JoinPlan, PlanJoin
  <2>6. Chain \in Units(j, result[k])
    BY <2>4 DEF Units
  <2>7. \E d \in JoinPlan(k, j) : d.handoff = j /\ (Filing(d) \/ Blocking(d))
    BY <2>5, <2>6, HandoffCovers
  <2> QED
    BY <2>1, <2>7 DEF Waiting
<1>2. TypeOK /\ ResultsKnown /\ WaitsAreOfJoins /\ [Next]_vars
      => [\A k \in Key : \A j \in JoinsOf(k.asop) : FileJoin(k, j) => ~Waiting(k, j)']_vars
  BY <1>1
<1> QED
  BY <1>2, WaitsAlwaysOfJoins, PTL DEF Spec

\* What a recorded decision filed, or found filed, is a run.
FilingsAreRuns == \A k \in recorded : \A d \in ledger[k] : Filing(d) => d.key \in Filed

LEMMA FilingsAlwaysRuns == Spec => []FilingsAreRuns
<1>1. Init => FilingsAreRuns
  BY DEF Init, FilingsAreRuns
<1>2. ASSUME TypeOK, ResultsKnown, NEW k \in Done, NEW decisions,
             FilingsOfUnits(k, decisions), FileRuns(FilesOf(decisions)),
             NEW d \in decisions, Filing(d)
      PROVE  d.key \in Filed'
  <2>1. k \in Key /\ FreshFiles(FilesOf(decisions))
    BY <1>2, UnitFilesAreFresh DEF ResultsKnown, Done
  <2>2. CASE d.action = "file"
    <3>1. d \in FilesOf(decisions)
      BY <2>2 DEF FilesOf
    <3>2. d.key \in Key /\ status'[d.key] = "open"
      BY <1>2, <2>1, <3>1, FilingAdds DEF FreshFiles
    <3> QED
      BY <3>2 DEF Filed
  <2>3. CASE d.action = "duplicate"
    <3>1. PICK h, s : UnitOf(k, d, h, s)
      BY <1>2 DEF FilingsOfUnits
    <3>2. d.key \in Filed
      BY <2>3, <3>1, UnitDecision DEF UnitOf, Existing
    <3> QED
      BY <1>2, <2>1, <3>2, FilingAdds
  <2> QED
    BY <1>2, <2>2, <2>3 DEF Filing
<1>3. TypeOK /\ ResultsKnown /\ FilingsAreRuns /\ [Next]_vars => FilingsAreRuns'
  <2> SUFFICES ASSUME TypeOK, ResultsKnown, FilingsAreRuns, [Next]_vars,
                      NEW k \in recorded', NEW d \in ledger'[k], Filing(d)
               PROVE  d.key \in Filed'
    BY DEF FilingsAreRuns
  <2>1. CASE k \in recorded /\ d \in ledger[k]
    <3>1. d.key \in Filed
      BY <2>1 DEF FilingsAreRuns
    <3> QED
      BY <3>1, StepsKeepRuns
  <2>2. CASE k \in Key /\ RecordHandoffs(k) /\ d \in Plan(k)
    <3>1. k \in Done /\ FilingsOfUnits(k, Plan(k)) /\ FileRuns(FilesOf(Plan(k)))
      BY <2>2, PlansFileUnits DEF RecordHandoffs, Done
    <3> QED
      BY <1>2, <2>2, <3>1
  <2>3. ASSUME k \in Key, NEW j \in JoinsOf(k.asop), FileJoin(k, j), d \in JoinPlan(k, j)
        PROVE  d.key \in Filed'
    <3>1. k \in Done
      BY <2>3 DEF FileJoin, Waiting, TypeOK
    <3>2. FilingsOfUnits(k, JoinPlan(k, j)) /\ FileRuns(FilesOf(JoinPlan(k, j)))
      BY <2>3, PlansFileUnits DEF FileJoin
    <3> QED
      BY <1>2, <2>3, <3>1, <3>2
  <2> QED
    BY <2>1, <2>2, <2>3, LedgerSteps
<1> QED
  BY <1>1, <1>3, TypeCorrect, PTL DEF Spec

\* What happens without a person: open runs end, the engine plans and joins.
Engine ==
  \E k \in Key :
    \/ status[k] = "open" /\ (Finish(k) \/ Fail(k))
    \/ RecordHandoffs(k)
    \/ \E j \in JoinsOf(k.asop) : FileJoin(k, j)

\* Every run has ended, every done one was planned, no join may be filed.
AtRest ==
  \A k \in Key :
    /\ status[k] # "open"
    /\ status[k] = "done" => k \in recorded
    /\ \A j \in JoinsOf(k.asop) :
         ~(Waiting(k, j) /\ ~Superseded(k) /\ StateOfJoin(k, j) = "ready")

\* At rest only re-runs, re-attempts and activations could move the chain.
THEOREM RestIsRest == Spec => [][AtRest => ~Engine]_vars
<1>1. AtRest => ~Engine
  BY DEF AtRest, Engine, RecordHandoffs, FileJoin
<1> QED
  BY <1>1, PTL

\* What WaitingJoinSettles rests on, for every tree of hand-offs and joins:
\* where the chain has come to rest, no join waits but those of a run that was
\* re-attempted and those beside a join that is blocked, shown to a person.
RestIsDecided ==
  AtRest =>
    \A k \in Key : \A j \in JoinsOf(k.asop) :
      Waiting(k, j) => \/ Superseded(k)
                       \/ \E i \in JoinsOf(k.asop) : Waiting(k, i) /\ StateOfJoin(k, i) = "blocked"

THEOREM RestMeansDecided == Spec => []RestIsDecided
<1>1. TypeOK /\ FilingsAreRuns /\ JoinsCanBeDecided => RestIsDecided
  <2> SUFFICES ASSUME TypeOK, FilingsAreRuns, JoinsCanBeDecided, AtRest,
                      NEW k \in Key, NEW j \in JoinsOf(k.asop), Waiting(k, j), ~Superseded(k)
               PROVE  \E i \in JoinsOf(k.asop) : Waiting(k, i) /\ StateOfJoin(k, i) = "blocked"
    BY DEF RestIsDecided
  <2>1. k \in recorded
    BY DEF Waiting, TypeOK
  <2>2. \A l \in Filed : l \in Done \cup Failed
    BY DEF AtRest, TypeOK, Filed, Done, Failed
  <2>3. \A d \in ledger[k] : Filing(d) => d.key \in Done \cup Failed
    BY <2>1, <2>2 DEF FilingsAreRuns
  <2>4. PICK i \in JoinsOf(k.asop) : Waiting(k, i) /\ StateOfJoin(k, i) \in {"ready", "blocked"}
    BY <2>1, <2>3 DEF JoinsCanBeDecided
  <2> QED
    BY <2>4 DEF AtRest
<1> QED
  BY <1>1, TypeCorrect, FilingsAlwaysRuns, JoinsNeverStarve, PTL
=============================================================================
