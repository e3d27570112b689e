---------------------------- MODULE Rework_proofs ----------------------------
(***************************************************************************)
(* For every chain, every record of gates, predicates and edges, and every *)
(* bound: the loops keep their types, no run that read what the chain      *)
(* holds was let in on contents a gate refuses, and findings reach the     *)
(* attempt after the one they are about.                                   *)
(*                                                                         *)
(* Where the loops end: the states are named in which the engine has       *)
(* nothing left to do, and in each of them every run is current and what   *)
(* was sent back is forward, unless a person, the bound or a taken key     *)
(* stops it.  That the engine gets there is for TLC to check; that it is   *)
(* right when it does holds for every chain.                               *)
(***************************************************************************)
EXTENDS Rework, TLAPS, WellFoundedInduction

\* What a gate that passed saw passes it.
PassedVerdicts ==
  \A g \in DOMAIN EntryGate : verdict[g] # None /\ verdict[g].outcome = "passed" =>
    /\ DOMAIN verdict[g].seen = EntryGate[g].over
    /\ \A a \in EntryGate[g].over : verdict[g].seen[a] \in Passes[g]

\* What a run read when it started passed each of its gates.
LetInOnPassing ==
  \A k \in Key : Started(k) =>
    \A g \in GatesOf(k.node) : \A a \in EntryGate[g].over :
      a \in DOMAIN read[k] /\ read[k][a] \in Passes[g]

\* Who sent findings is done, and done runs stay as they are.
FindingsOfDoneRuns ==
  \A k \in Key : prior[k] # None => prior[k] \in Key /\ status[prior[k]] = "done"

LoopsInv == TypeOK /\ PassedVerdicts /\ LetInOnPassing /\ FindingsOfDoneRuns /\ FindingsAreFresh

-----------------------------------------------------------------------------
\* Filing keeps the types, and what was filed (File).
LEMMA FileKeeps ==
  ASSUME TypeOK, NEW keys \in SUBSET Key, File(keys)
  PROVE  /\ status' \in [Key -> {"none", "filed", "running", "done", "failed"}]
         /\ verdict' \in [DOMAIN EntryGate -> Verdict \cup {None}]
         /\ \A k \in Key : status[k] # "none" => status'[k] = status[k]
         /\ \A k \in Key : status'[k] \in {status[k], "filed"}
         /\ \A g \in DOMAIN EntryGate : verdict'[g] \in {None, verdict[g]}
BY DEF File, TypeOK

\* What a run reads is a function on what its lineage records (Seen,
\* Lineage).
LEMMA SeenIsRead ==
  ASSUME TypeOK, NEW over \in SUBSET Artefact
  PROVE  Seen(over) \in [over -> Digest \cup {None}]
BY DEF Seen, TypeOK

LEMMA LineageOfArtefacts ==
  ASSUME NEW n \in Node
  PROVE  Lineage(n) \in SUBSET Artefact /\ Reads[n] \subseteq Lineage(n)
BY ReworkAssumptions DEF Lineage, Artefact

\* The verdict of a gate over what it reads (EvaluateGate).
LEMMA VerdictTyped ==
  ASSUME TypeOK, NEW g \in DOMAIN EntryGate,
         NEW got \in {"passed", "failed", "cannot_evaluate"}
  PROVE  [outcome |-> got, seen |-> Seen(EntryGate[g].over)] \in Verdict
<1>1. EntryGate[g].over \in SUBSET Artefact
  BY ReworkAssumptions DEF EntryGatesDeclared
<1>2. Seen(EntryGate[g].over) \in [EntryGate[g].over -> Digest \cup {None}]
  BY <1>1, SeenIsRead
<1>3. Seen(EntryGate[g].over) \in UNION {[over -> Digest \cup {None}] : over \in SUBSET Artefact}
  BY <1>1, <1>2
<1> QED BY <1>3 DEF Verdict

\* A step keeps the types: one lemma for every action of the engine.
LEMMA EngineKeepsTypes ==
  ASSUME TypeOK, Engine
  PROVE  TypeOK'
<1>1. ASSUME NEW k \in Key, Start(k) PROVE TypeOK'
  <2>1. Lineage(k.node) \in SUBSET Artefact
    BY LineageOfArtefacts DEF Key
  <2>2. Seen(Lineage(k.node)) \in UNION {[over -> Digest \cup {None}] : over \in SUBSET Artefact}
    BY <2>1, SeenIsRead
  <2>3. read' \in [Key -> UNION {[over -> Digest \cup {None}] : over \in SUBSET Artefact}]
    BY <1>1, <2>2 DEF Start, TypeOK
  <2>4. \A n \in Node : Writer(n) \in SUBSET Key
    BY DEF Writer
  <2>5. built' \in [Key -> SUBSET Key]
    BY <1>1, <2>4 DEF Start, TypeOK
  <2>6. status' \in [Key -> {"none", "filed", "running", "done", "failed"}]
    BY <1>1 DEF Start, TypeOK
  <2> QED BY <1>1, <2>3, <2>5, <2>6 DEF Start, TypeOK
<1>2. ASSUME NEW k \in Key, Finish(k) PROVE TypeOK'
  <2>1. k.node \in Artefact /\ Writes[k.node] \subseteq Digest
    BY DEF Key, Artefact, Digest
  <2>2. content' \in [Artefact -> Digest \cup {None}]
    BY <1>2, <2>1 DEF Finish, TypeOK
  <2>3. outcome' \in [Key -> DOMAIN Edge \cup {None}]
    BY <1>2 DEF Finish, TypeOK
  <2>4. status' \in [Key -> {"none", "filed", "running", "done", "failed"}]
    BY <1>2 DEF Finish, TypeOK
  <2> QED BY <1>2, <2>2, <2>3, <2>4 DEF Finish, TypeOK
<1>3. ASSUME NEW k \in Key, Fail(k) PROVE TypeOK'
  BY <1>3 DEF Fail, TypeOK
<1>4. ASSUME NEW k \in Key, HandOff(k) PROVE TypeOK'
  <2>1. PICK keys \in SUBSET Key : File(keys)
    BY <1>4 DEF HandOff
  <2> QED BY <1>4, <2>1, FileKeeps DEF HandOff, TypeOK
<1>5. ASSUME NEW k \in Key, SendBack(k) PROVE TypeOK'
  <2>1. PICK u \in Owner(k) :
          /\ Again(u) \in Key
          /\ File({Again(u)})
          /\ spent' = [spent EXCEPT ![<<outcome[k], u.node>>] = @ + 1]
          /\ prior' = IF status[Again(u)] = "none" THEN [prior EXCEPT ![Again(u)] = k] ELSE prior
    BY <1>5 DEF SendBack
  <2>2. prior' \in [Key -> Key \cup {None}]
    BY <2>1 DEF TypeOK
  <2>3. spent' \in [(DOMAIN Edge) \X Node -> Nat]
    <3>1. outcome[k] \in DOMAIN Edge
      BY <1>5 DEF SendBack, TypeOK
    <3>2. built[k] \in SUBSET Key
      BY DEF TypeOK
    <3>3. u.node \in Node
      BY <3>2 DEF Owner, Key
    <3> QED BY <2>1, <3>1, <3>3 DEF TypeOK
  <2>4. {Again(u)} \in SUBSET Key
    BY <2>1
  <2> QED BY <1>5, <2>1, <2>2, <2>3, <2>4, FileKeeps DEF SendBack, TypeOK
<1>6. ASSUME NEW k \in Key, SendToPerson(k) PROVE TypeOK'
  BY <1>6 DEF SendToPerson, TypeOK
<1>7. ASSUME NEW k \in Key, RefuseEntry(k) PROVE TypeOK'
  <2> DEFINE again == {Again(u) : u \in RefusedProducers(k.node)} \cap Key
  <2>1. File(again) /\ again \in SUBSET Key
    BY <1>7 DEF RefuseEntry
  <2>2. person' \subseteq Key
    BY <1>7 DEF RefuseEntry, TypeOK
  <2> HIDE DEF again
  <2> QED BY <1>7, <2>1, <2>2, FileKeeps DEF RefuseEntry, TypeOK
<1>8. ASSUME NEW k \in Key, RefileStale(k) PROVE TypeOK'
  <2>1. File({Again(k)}) /\ {Again(k)} \in SUBSET Key
    BY <1>8 DEF RefileStale
  <2> QED BY <1>8, <2>1, FileKeeps DEF RefileStale, TypeOK
<1>9. ASSUME NEW g \in DOMAIN EntryGate, EvaluateGate(g) PROVE TypeOK'
  <2>1. PICK got \in {"passed", "failed", "cannot_evaluate"} :
          verdict' = [verdict EXCEPT ![g] = [outcome |-> got, seen |-> Seen(EntryGate[g].over)]]
    BY <1>9 DEF EvaluateGate
  <2>2. verdict' \in [DOMAIN EntryGate -> Verdict \cup {None}]
    BY <2>1, VerdictTyped DEF TypeOK
  <2> QED BY <1>9, <2>2 DEF EvaluateGate, TypeOK
<1> QED BY <1>1, <1>2, <1>3, <1>4, <1>5, <1>6, <1>7, <1>8, <1>9 DEF Engine

LEMMA StepKeepsTypes ==
  ASSUME TypeOK, [Next]_vars
  PROVE  TypeOK'
<1>1. ASSUME NEW s \in Source, ChangeSource(s) PROVE TypeOK'
  <2>1. s \in Artefact /\ Contents[s] \subseteq Digest
    BY DEF Artefact, Digest
  <2>2. content' \in [Artefact -> Digest \cup {None}]
    BY <1>1, <2>1 DEF ChangeSource, TypeOK
  <2>3. changes' \in 0 .. MaxChanges
    BY <1>1, ReworkAssumptions DEF ChangeSource, TypeOK
  <2> QED BY <1>1, <2>2, <2>3 DEF ChangeSource, TypeOK
<1>2. ASSUME NEW n \in Node, Approve(n) PROVE TypeOK'
  <2>1. content[n] \in Digest
    BY <1>2 DEF Approve, TypeOK, Artefact
  <2>2. approval' \in [Node -> Digest \cup {None}]
    BY <1>2, <2>1 DEF Approve, TypeOK
  <2> QED BY <1>2, <2>2 DEF Approve, TypeOK
<1>3. CASE UNCHANGED vars
  BY <1>3 DEF vars, TypeOK
<1> QED BY <1>1, <1>2, <1>3, EngineKeepsTypes DEF Next, People

\* Every variable keeps its type, for every chain and every bound.
THEOREM TypeCorrect == Spec => []TypeOK
<1>1. Init => TypeOK
  <2> SUFFICES ASSUME Init PROVE TypeOK
    OBVIOUS
  <2>1. [a \in {} |-> None] \in [{} -> Digest \cup {None}] /\ {} \in SUBSET Artefact
    OBVIOUS
  <2>2. [a \in {} |-> None] \in UNION {[over -> Digest \cup {None}] : over \in SUBSET Artefact}
    BY <2>1
  <2>3. read \in [Key -> UNION {[over -> Digest \cup {None}] : over \in SUBSET Artefact}]
    BY <2>2 DEF Init
  <2>4. changes \in 0 .. MaxChanges
    BY ReworkAssumptions DEF Init
  <2> QED BY <2>3, <2>4 DEF Init, TypeOK
<1>2. TypeOK /\ [Next]_vars => TypeOK'
  BY StepKeepsTypes
<1> QED BY <1>1, <1>2, PTL DEF Spec

-----------------------------------------------------------------------------
\* Files, starts and verdicts, as the other invariants see them.
LEMMA VerdictsStayPassed ==
  ASSUME TypeOK, PassedVerdicts, Next
  PROVE  PassedVerdicts'
<1>1. CASE \A g \in DOMAIN EntryGate : verdict'[g] \in {None, verdict[g]}
  BY <1>1 DEF PassedVerdicts
<1>2. ASSUME NEW g \in DOMAIN EntryGate, EvaluateGate(g) PROVE PassedVerdicts'
  <2> DEFINE over == EntryGate[g].over
             says == IF \A a \in over : content[a] \in Passes[g] THEN "passed" ELSE "failed"
  <2>1. PICK got \in {says, "cannot_evaluate"} :
          verdict' = [verdict EXCEPT ![g] = [outcome |-> got, seen |-> Seen(over)]]
    BY <1>2 DEF EvaluateGate
  <2>2. got = "passed" => \A a \in over : content[a] \in Passes[g]
    BY <2>1
  <2>3. verdict'[g] = [outcome |-> got, seen |-> Seen(over)]
    BY <2>1 DEF TypeOK
  <2>4. DOMAIN Seen(over) = over /\ \A a \in over : Seen(over)[a] = content[a]
    BY DEF Seen
  <2>5. verdict'[g].outcome = "passed" =>
          /\ DOMAIN verdict'[g].seen = over
          /\ \A a \in over : verdict'[g].seen[a] \in Passes[g]
    BY <2>2, <2>3, <2>4
  <2>6. \A h \in DOMAIN EntryGate : h # g => verdict'[h] = verdict[h]
    BY <2>1 DEF TypeOK
  <2> QED BY <2>5, <2>6 DEF PassedVerdicts
<1>3. ASSUME NEW keys \in SUBSET Key, File(keys) PROVE PassedVerdicts'
  BY <1>3, <1>1, FileKeeps
<1>4. ASSUME verdict' = verdict PROVE PassedVerdicts'
  BY <1>4, <1>1
<1>5. ASSUME NEW k \in Key, RefuseEntry(k) PROVE PassedVerdicts'
  <2>1. PICK keys \in SUBSET Key : File(keys)
    BY <1>5 DEF RefuseEntry
  <2> QED BY <2>1, <1>3
<1>6. ASSUME NEW k \in Key, HandOff(k) \/ SendBack(k) \/ RefileStale(k) PROVE PassedVerdicts'
  <2>1. PICK keys \in SUBSET Key : File(keys)
    BY <1>6 DEF HandOff, SendBack, RefileStale
  <2> QED BY <2>1, <1>3
<1>7. ASSUME NEW k \in Key, Start(k) \/ Finish(k) \/ Fail(k) \/ SendToPerson(k) PROVE PassedVerdicts'
  BY <1>7, <1>4 DEF Start, Finish, Fail, SendToPerson
<1>8. ASSUME People PROVE PassedVerdicts'
  BY <1>8, <1>4 DEF People, ChangeSource, Approve
<1> QED BY <1>2, <1>5, <1>6, <1>7, <1>8 DEF Next, Engine

\* The gates of a run that may start passed on what the chain holds.
LEMMA StartsOnPassing ==
  ASSUME TypeOK, PassedVerdicts, NEW k \in Key, Start(k),
         NEW g \in GatesOf(k.node), NEW a \in EntryGate[g].over
  PROVE  a \in Lineage(k.node) /\ content[a] \in Passes[g]
<1>1. g \in DOMAIN EntryGate /\ EntryGate[g].of = k.node
  BY DEF GatesOf
<1>2. Current(g) /\ verdict[g].outcome = "passed"
  BY DEF Start, EntryStarts
<1>3. verdict[g].seen[a] \in Passes[g] /\ verdict[g].seen = Seen(EntryGate[g].over)
  BY <1>1, <1>2 DEF PassedVerdicts, Current
<1>4. content[a] \in Passes[g]
  BY <1>3 DEF Seen
<1>5. a \in Reads[k.node] /\ k.node \in Node
  BY <1>1, ReworkAssumptions DEF EntryGatesDeclared, Key
<1> QED BY <1>4, <1>5, LineageOfArtefacts

\* Only Start adds a run to those that started, and it alone writes what a
\* run read.
LEMMA OthersLetNobodyIn ==
  ASSUME TypeOK, Next, \A k \in Key : ~Start(k)
  PROVE  read' = read /\ \A k \in Key : Started(k)' => Started(k)
<1>1. ASSUME NEW k \in Key, Finish(k) \/ Fail(k) PROVE \A l \in Key : Started(l)' => Started(l)
  BY <1>1 DEF Finish, Fail, Started, TypeOK
<1>2. ASSUME NEW keys \in SUBSET Key, File(keys) PROVE \A l \in Key : Started(l)' => Started(l)
  <2>1. \A l \in Key : status'[l] \in {status[l], "filed"}
    BY <1>2, FileKeeps
  <2> QED BY <2>1 DEF Started
<1>3. ASSUME status' = status PROVE \A l \in Key : Started(l)' => Started(l)
  BY <1>3 DEF Started
<1>4. ASSUME NEW k \in Key, RefuseEntry(k) PROVE read' = read /\ \E keys \in SUBSET Key : File(keys)
  BY <1>4 DEF RefuseEntry
<1>5. ASSUME NEW k \in Key, HandOff(k) \/ SendBack(k) \/ RefileStale(k)
      PROVE  read' = read /\ \E keys \in SUBSET Key : File(keys)
  BY <1>5 DEF HandOff, SendBack, RefileStale
<1>6. ASSUME NEW k \in Key, SendToPerson(k) PROVE read' = read /\ status' = status
  BY <1>6 DEF SendToPerson
<1>7. ASSUME NEW g \in DOMAIN EntryGate, EvaluateGate(g) PROVE read' = read /\ status' = status
  BY <1>7 DEF EvaluateGate
<1>8. ASSUME People PROVE read' = read /\ status' = status
  BY <1>8 DEF People, ChangeSource, Approve
<1>9. ASSUME NEW k \in Key, Finish(k) \/ Fail(k) PROVE read' = read
  BY <1>9 DEF Finish, Fail
<1>10. CASE People
  BY <1>10, <1>8, <1>3
<1>11. CASE \E k \in Key : Finish(k) \/ Fail(k)
  BY <1>11, <1>1, <1>9
<1>12. CASE \E k \in Key : RefuseEntry(k) \/ HandOff(k) \/ SendBack(k) \/ RefileStale(k)
  BY <1>12, <1>2, <1>4, <1>5
<1>13. CASE (\E k \in Key : SendToPerson(k)) \/ (\E g \in DOMAIN EntryGate : EvaluateGate(g))
  BY <1>13, <1>3, <1>6, <1>7
<1> QED BY <1>10, <1>11, <1>12, <1>13 DEF Next, Engine

LEMMA RunsStayLetIn ==
  ASSUME TypeOK, PassedVerdicts, LetInOnPassing, Next
  PROVE  LetInOnPassing'
<1>1. CASE \A k \in Key : ~Start(k)
  <2>1. read' = read /\ \A k \in Key : Started(k)' => Started(k)
    BY <1>1, OthersLetNobodyIn
  <2> QED BY <2>1 DEF LetInOnPassing, GatesOf
<1>2. ASSUME NEW l \in Key, Start(l) PROVE LetInOnPassing'
  <2>1. \A k \in Key : k # l => (Started(k)' => Started(k)) /\ read'[k] = read[k]
    BY <1>2 DEF Start, Started, TypeOK
  <2>2. read'[l] = Seen(Lineage(l.node))
    BY <1>2 DEF Start, TypeOK
  <2>3. \A g \in GatesOf(l.node) : \A a \in EntryGate[g].over :
          a \in Lineage(l.node) /\ content[a] \in Passes[g]
    BY <1>2, StartsOnPassing
  <2>4. \A g \in GatesOf(l.node) : \A a \in EntryGate[g].over :
          a \in DOMAIN read'[l] /\ read'[l][a] \in Passes[g]
    BY <2>2, <2>3 DEF Seen
  <2>5. ASSUME NEW k \in Key, Started(k)', NEW g \in GatesOf(k.node), NEW a \in EntryGate[g].over
        PROVE  a \in DOMAIN read'[k] /\ read'[k][a] \in Passes[g]
    <3>1. CASE k = l
      BY <3>1, <2>4, <2>5
    <3>2. CASE k # l
      BY <3>2, <2>1, <2>5 DEF LetInOnPassing
    <3> QED BY <3>1, <3>2
  <2> QED BY <2>5 DEF LetInOnPassing, GatesOf
<1> QED BY <1>1, <1>2

\* A done run stays done, with the outcome it had and what it was built on.
LEMMA DoneRunsStay ==
  ASSUME TypeOK, Next, NEW c \in Key, status[c] = "done"
  PROVE  status'[c] = "done" /\ outcome'[c] = outcome[c] /\ built'[c] = built[c]
<1>1. ASSUME NEW keys \in SUBSET Key, File(keys) PROVE status'[c] = "done"
  BY <1>1, FileKeeps
<1>2. ASSUME NEW k \in Key, Start(k) \/ Finish(k) \/ Fail(k)
      PROVE  status'[c] = "done" /\ outcome'[c] = outcome[c] /\ built'[c] = built[c]
  <2>1. k # c
    BY <1>2 DEF Start, Finish, Fail
  <2> QED BY <1>2, <2>1 DEF Start, Finish, Fail, TypeOK
<1>3. ASSUME NEW k \in Key, RefuseEntry(k) \/ HandOff(k) \/ SendBack(k) \/ RefileStale(k)
      PROVE  status'[c] = "done" /\ outcome'[c] = outcome[c] /\ built'[c] = built[c]
  <2>1. \E keys \in SUBSET Key : File(keys)
    <3>1. CASE RefuseEntry(k)
      BY <3>1 DEF RefuseEntry
    <3>2. CASE HandOff(k) \/ SendBack(k) \/ RefileStale(k)
      BY <3>2 DEF HandOff, SendBack, RefileStale
    <3> QED BY <1>3, <3>1, <3>2
  <2>2. outcome' = outcome /\ built' = built
    BY <1>3 DEF RefuseEntry, HandOff, SendBack, RefileStale
  <2> QED BY <2>1, <2>2, <1>1
<1>4. ASSUME NEW k \in Key, SendToPerson(k)
      PROVE  status'[c] = "done" /\ outcome'[c] = outcome[c] /\ built'[c] = built[c]
  BY <1>4 DEF SendToPerson
<1>5. ASSUME NEW g \in DOMAIN EntryGate, EvaluateGate(g)
      PROVE  status'[c] = "done" /\ outcome'[c] = outcome[c] /\ built'[c] = built[c]
  BY <1>5 DEF EvaluateGate
<1>6. CASE People
  BY <1>6 DEF People, ChangeSource, Approve
<1> QED BY <1>2, <1>3, <1>4, <1>5, <1>6 DEF Next, Engine

\* Only SendBack writes findings: those of a done run, to the attempt after
\* one that run was built on.
LEMMA FindingsAreSentBack ==
  ASSUME TypeOK, Next, NEW k \in Key, prior'[k] # prior[k]
  PROVE  \E c \in Key : /\ prior'[k] = c /\ status[c] = "done" /\ outcome[c] # None
                        /\ \E u \in built[c] : k = Again(u) /\ Asop[u.node] = Edge[outcome[c]].to
<1>1. PICK c \in Key : SendBack(c)
  BY DEF Next, Engine, People, Start, Finish, Fail, HandOff, SendToPerson, RefuseEntry,
         RefileStale, EvaluateGate, ChangeSource, Approve
<1>2. PICK u \in Owner(c) :
        /\ Again(u) \in Key
        /\ prior' = IF status[Again(u)] = "none" THEN [prior EXCEPT ![Again(u)] = c] ELSE prior
  BY <1>1 DEF SendBack
<1>3. k = Again(u) /\ prior'[k] = c
  BY <1>2 DEF TypeOK
<1>4. u \in built[c] /\ Asop[u.node] = Edge[outcome[c]].to
  BY DEF Owner
<1> QED BY <1>1, <1>3, <1>4 DEF SendBack

LEMMA FindingsStayFresh ==
  ASSUME TypeOK, FindingsOfDoneRuns, FindingsAreFresh, Next
  PROVE  FindingsOfDoneRuns' /\ FindingsAreFresh'
<1> SUFFICES ASSUME NEW k \in Key, prior'[k] # None
             PROVE  /\ prior'[k] \in Key /\ status'[prior'[k]] = "done"
                    /\ \E u \in built'[prior'[k]] : k = Again(u)
                    /\ outcome'[prior'[k]] # None
                    /\ Edge[outcome'[prior'[k]]].to = Asop[k.node]
  BY DEF FindingsOfDoneRuns, FindingsAreFresh, Again
<1>1. CASE prior'[k] = prior[k]
  <2>1. prior[k] \in Key /\ status[prior[k]] = "done"
    BY <1>1 DEF FindingsOfDoneRuns
  <2>2. /\ status'[prior[k]] = "done" /\ outcome'[prior[k]] = outcome[prior[k]]
        /\ built'[prior[k]] = built[prior[k]]
    BY <2>1, DoneRunsStay
  <2> QED BY <1>1, <2>1, <2>2 DEF FindingsAreFresh
<1>2. CASE prior'[k] # prior[k]
  <2>1. PICK c \in Key : /\ prior'[k] = c /\ status[c] = "done" /\ outcome[c] # None
                         /\ \E u \in built[c] : k = Again(u) /\ Asop[u.node] = Edge[outcome[c]].to
    BY <1>2, FindingsAreSentBack
  <2>2. status'[c] = "done" /\ outcome'[c] = outcome[c] /\ built'[c] = built[c]
    BY <2>1, DoneRunsStay
  <2>3. PICK u \in built[c] : k = Again(u) /\ Asop[u.node] = Edge[outcome[c]].to
    BY <2>1
  <2>4. u \in Key
    BY <2>3 DEF TypeOK
  <2>5. k.node = u.node
    BY <2>3, <2>4 DEF Again, Key
  <2> QED BY <2>1, <2>2, <2>3, <2>5
<1> QED BY <1>1, <1>2

\* The inductive invariant of the loops.
LEMMA LoopsStep ==
  ASSUME LoopsInv, [Next]_vars
  PROVE  LoopsInv'
<1>1. TypeOK'
  BY StepKeepsTypes DEF LoopsInv
<1>2. CASE Next
  BY <1>1, <1>2, VerdictsStayPassed, RunsStayLetIn, FindingsStayFresh DEF LoopsInv
<1>3. CASE UNCHANGED vars
  <2>1. PassedVerdicts'
    BY <1>3 DEF LoopsInv, PassedVerdicts, vars
  <2>2. LetInOnPassing'
    BY <1>3 DEF LoopsInv, LetInOnPassing, Started, GatesOf, vars
  <2>3. FindingsOfDoneRuns' /\ FindingsAreFresh'
    BY <1>3 DEF LoopsInv, FindingsOfDoneRuns, FindingsAreFresh, Again, vars
  <2> QED BY <1>1, <2>1, <2>2, <2>3 DEF LoopsInv
<1> QED BY <1>2, <1>3

LEMMA LoopsInvariant == Spec => []LoopsInv
<1>1. Init /\ TypeOK => LoopsInv
  <2> SUFFICES ASSUME Init, TypeOK PROVE LoopsInv
    OBVIOUS
  <2>1. PassedVerdicts
    BY DEF Init, PassedVerdicts
  <2>2. LetInOnPassing
    BY DEF Init, LetInOnPassing, Started
  <2>3. FindingsOfDoneRuns /\ FindingsAreFresh
    BY DEF Init, FindingsOfDoneRuns, FindingsAreFresh
  <2> QED BY <2>1, <2>2, <2>3 DEF LoopsInv
<1>2. LoopsInv /\ [Next]_vars => LoopsInv'
  BY LoopsStep
<1> QED BY <1>1, <1>2, TypeCorrect, PTL DEF Spec

\* No entry gate lets a run in on what it refuses, whatever changed, was
\* written again or was evaluated before the run started (plan_entry).
THEOREM NothingUnreadyIsEverTrusted == Spec => []NothingUnreadyIsTrusted
<1>1. LoopsInv => NothingUnreadyIsTrusted
  BY DEF LoopsInv, LetInOnPassing, NothingUnreadyIsTrusted, Stale
<1> QED BY <1>1, LoopsInvariant, PTL

\* Whatever was re-filed in the meantime, findings reach the attempt after
\* the one they are about, of the procedure the edge names (plan_rework).
THEOREM FindingsAreAlwaysFresh == Spec => []FindingsAreFresh
<1>1. LoopsInv => FindingsAreFresh
  BY DEF LoopsInv
<1> QED BY <1>1, LoopsInvariant, PTL

-----------------------------------------------------------------------------
(***************************************************************************)
(* The tree of hand-offs.                                                  *)
(***************************************************************************)

\* A node leads to what its filer leads to, and to itself (Line, Above).
LEMMA AboveByFiler ==
  ASSUME NEW n \in Node
  PROVE  /\ Above(n) \subseteq Node /\ Line(n) = {n} \cup Above(n)
         /\ Filer[n] = None => Above(n) = {}
         /\ Filer[n] # None =>
              Filer[n] \in Node /\ Above(n) = {Filer[n]} \cup Above(Filer[n])
<1>1. \A m \in Node : Line(m) \subseteq Node /\ m \in Line(m)
  BY DEF Line
<1>2. Filer[n] = None \/ Filer[n] \in Node
  BY ReworkAssumptions
<1>3. None \notin Node
  BY ReworkAssumptions
<1>4. ASSUME NEW m \in Node PROVE Line(m) \subseteq {m} \cup Above(m)
  <2> DEFINE S == {m} \cup Above(m)
  <2>1. CASE Filer[m] = None
    <3>1. S \in SUBSET Node /\ m \in S /\ \A x \in S : Filer[x] \in S \cup {None}
      BY <2>1 DEF Above
    <3> QED
      BY <3>1 DEF Line
  <2>2. CASE Filer[m] # None
    <3>1. Filer[m] \in Node /\ Above(m) = Line(Filer[m])
      BY <2>2, ReworkAssumptions DEF Above
    <3>2. ASSUME NEW x \in Line(Filer[m]) PROVE Filer[x] \in Line(Filer[m]) \cup {None}
      <4>1. x \in Node /\ Filer[x] \in Node \cup {None}
        BY ReworkAssumptions DEF Line
      <4> SUFFICES ASSUME Filer[x] \in Node, NEW T \in SUBSET Node, Filer[m] \in T,
                          \A y \in T : Filer[y] \in T \cup {None}
                   PROVE  Filer[x] \in T
        BY <4>1 DEF Line
      <4>2. x \in T
        BY DEF Line
      <4> QED
        BY <4>2, <1>3
    <3>3. S \in SUBSET Node /\ m \in S /\ \A x \in S : Filer[x] \in S \cup {None}
      BY <1>1, <3>1, <3>2
    <3> QED
      BY <3>3 DEF Line
  <2> QED
    BY <2>1, <2>2
<1>5. ASSUME NEW m \in Node PROVE Above(m) \subseteq Line(m)
  <2>1. CASE Filer[m] = None
    BY <2>1 DEF Above
  <2>2. CASE Filer[m] # None
    <3>1. Above(m) = Line(Filer[m])
      BY <2>2 DEF Above
    <3> SUFFICES ASSUME NEW x \in Line(Filer[m]), NEW T \in SUBSET Node, m \in T,
                        \A y \in T : Filer[y] \in T \cup {None}
                 PROVE  x \in T
      BY <3>1, <1>1 DEF Line
    <3>2. Filer[m] \in T
      BY <2>2
    <3> QED
      BY <3>2 DEF Line
  <2> QED
    BY <2>1, <2>2
<1>6. \A m \in Node : Line(m) = {m} \cup Above(m)
  BY <1>1, <1>4, <1>5
<1>7. Above(n) \subseteq Node
  BY <1>1, <1>2 DEF Above
<1> QED
  BY <1>2, <1>3, <1>6, <1>7 DEF Above

\* What leads to what leads to a node leads to the node.
LEMMA AboveIsClosed ==
  ASSUME NEW n \in Node, NEW m \in Above(n)
  PROVE  Above(m) \subseteq Above(n)
<1>1. Filer[n] \in Node /\ Above(n) = Line(Filer[n]) /\ m \in Node
  BY AboveByFiler DEF Above
<1>2. Above(m) \subseteq Line(m)
  BY <1>1, AboveByFiler
<1>3. Line(m) \subseteq Line(Filer[n])
  <2> SUFFICES ASSUME NEW x \in Line(m), NEW T \in SUBSET Node, Filer[n] \in T,
                      \A y \in T : Filer[y] \in T \cup {None}
               PROVE  x \in T
    BY DEF Line
  <2>1. m \in T
    BY <1>1 DEF Line
  <2> QED
    BY <2>1 DEF Line
<1> QED
  BY <1>1, <1>2, <1>3

\* Of some nodes, one comes first: no other leads to it (HandedOn).
LEMMA TopOfLine ==
  ASSUME NEW S \in SUBSET Node, S # {}
  PROVE  \E n \in S : Above(n) \cap S = {}
<1> SUFFICES ASSUME \A n \in S : Above(n) \cap S # {}
             PROVE  FALSE
  OBVIOUS
<1> DEFINE T == {n \in Node : Above(n) \cap S # {}}
<1>1. T \in (SUBSET Node) \ {{}} /\ S \subseteq T
  OBVIOUS
<1>2. ASSUME NEW n \in T PROVE Filer[n] \in T
  <2>1. n \in Node /\ Above(n) # {}
    OBVIOUS
  <2>2. Filer[n] \in Node /\ Above(n) = {Filer[n]} \cup Above(Filer[n])
    BY <2>1, AboveByFiler
  <2>3. Filer[n] \in S \/ Above(Filer[n]) \cap S # {}
    BY <2>2
  <2> QED
    BY <1>1, <2>2, <2>3
<1> HIDE DEF T
<1> QED
  BY <1>1, <1>2, ReworkAssumptions DEF HandedOn

\* No node leads to itself.
LEMMA NotAboveItself ==
  ASSUME NEW n \in Node
  PROVE  n \notin Above(n)
BY TopOfLine, {n} \in SUBSET Node

\* What a set is closed under, going up, holds the whole line.
LEMMA AboveIn ==
  ASSUME NEW n \in Node, NEW S \in SUBSET Node,
         Filer[n] \in S \cup {None}, \A x \in S : Filer[x] \in S \cup {None}
  PROVE  Above(n) \subseteq S
BY AboveByFiler, ReworkAssumptions DEF Above, Line

-----------------------------------------------------------------------------
\* Some attempts have a last one.
LEMMA LastAttempt ==
  ASSUME NEW A \in SUBSET (1 .. MaxAttempt), A # {}
  PROVE  \E a \in A : \A b \in A : b <= a
<1> DEFINE left == {MaxAttempt - a : a \in A}
<1>1. MaxAttempt \in Nat /\ left \in SUBSET Nat /\ left # {}
  <2>1. MaxAttempt \in Nat /\ A # {}
    BY ReworkAssumptions
  <2>2. \A a \in A : MaxAttempt - a \in Nat
    BY <2>1
  <2> QED
    BY <2>1, <2>2
<1>2. PICK x \in left : \A y \in left : <<y, x>> \notin OpToRel(<, Nat)
  BY <1>1, WFMin, NatLessThanWellFounded
<1>3. \A y \in left : y \in Nat /\ x \in Nat /\ ~(y < x)
  BY <1>1, <1>2 DEF OpToRel
<1>4. PICK a \in A : x = MaxAttempt - a
  OBVIOUS
<1>5. \A b \in A : b \in Nat /\ a \in Nat /\ ~(MaxAttempt - b < MaxAttempt - a)
  BY <1>3, <1>4
<1> QED
  BY <1>1, <1>5

\* A node with a filed run has a latest run, not before it (Latest).
LEMMA SomeLatest ==
  ASSUME NEW k \in Key, status[k] # "none"
  PROVE  \E l \in Key : l.node = k.node /\ Latest(l) /\ k.attempt <= l.attempt
<1>1. k.node \in Node /\ k.attempt \in 1 .. MaxAttempt /\ k = [node |-> k.node, attempt |-> k.attempt]
  BY DEF Key
<1>2. k.attempt \in Filed(k.node) /\ Filed(k.node) \in SUBSET (1 .. MaxAttempt)
  BY <1>1 DEF Filed
<1>3. PICK a \in Filed(k.node) : \A b \in Filed(k.node) : b <= a
  BY <1>2, LastAttempt
<1> DEFINE l == [node |-> k.node, attempt |-> a]
<1>4. l \in Key /\ l.node = k.node /\ l.attempt = a /\ status[l] # "none"
  BY <1>1, <1>2 DEF Key, Filed
<1> HIDE DEF l
<1> QED
  BY <1>2, <1>3, <1>4 DEF Latest

\* A node with a done run has a last one, which is done (Writer).
LEMMA SomeWriter ==
  ASSUME NEW n \in Node, NEW k \in Key, k.node = n, status[k] = "done"
  PROVE  \E w \in Key : /\ Writer(n) = {w} /\ w.node = n /\ status[w] = "done"
                        /\ \A l \in Key : l.node = n /\ status[l] = "done" => l.attempt <= w.attempt
<1> DEFINE A == {a \in 1 .. MaxAttempt : status[[node |-> n, attempt |-> a]] = "done"}
<1>1. k.attempt \in 1 .. MaxAttempt /\ k = [node |-> n, attempt |-> k.attempt]
  BY DEF Key
<1>2. A \in SUBSET (1 .. MaxAttempt) /\ A # {}
  BY <1>1
<1>3. PICK a \in A : \A b \in A : b <= a
  BY <1>2, LastAttempt
<1> DEFINE w == [node |-> n, attempt |-> a]
<1>4. w \in Key /\ w.node = n /\ w.attempt = a /\ status[w] = "done"
  BY DEF Key
<1>5. ASSUME NEW l \in Key, l.node = n, status[l] = "done" PROVE l.attempt \in A
  <2>1. l.attempt \in 1 .. MaxAttempt /\ l = [node |-> n, attempt |-> l.attempt]
    BY <1>5 DEF Key
  <2> QED
    BY <2>1, <1>5
<1>6. \A l \in Key : l.node = n /\ status[l] = "done" => l.attempt <= w.attempt
  BY <1>3, <1>4, <1>5
<1>7. ASSUME NEW l \in Writer(n) PROVE l = w
  <2>1. l \in Key /\ l.node = n /\ w.attempt <= l.attempt /\ l.attempt <= w.attempt
    BY <1>4, <1>6 DEF Writer
  <2> QED
    BY <2>1, <1>4 DEF Key
<1>8. w \in Writer(n)
  BY <1>4, <1>6 DEF Writer
<1> HIDE DEF w
<1> QED
  BY <1>4, <1>6, <1>7, <1>8

-----------------------------------------------------------------------------
(***************************************************************************)
(* What the runs were filed by, built on and handed on.                    *)
(***************************************************************************)

\* Who handed on or sent back is done, and who failed is with a person.
EndsAreKept ==
  /\ \A k \in planned : status[k] = "done"
  /\ \A k \in Key : status[k] = "failed" => k \in person

\* Work sent back had the attempt after a run of its lineage filed, unless a
\* person was asked.
SentBackIsFiled ==
  \A k \in planned : outcome[k] # None /\ k \notin person =>
    \E u \in built[k] : Again(u) \in Key /\ status[Again(u)] # "none"

\* Work handed on has its hand-offs filed at its own attempt.
HandedOnIsFiled ==
  \A k \in planned : outcome[k] = None =>
    \A l \in Key : Filer[l.node] = k.node /\ l.attempt = k.attempt => status[l] # "none"

\* What is filed has a filer that was done once.
FilerWasDone ==
  \A k \in Key : status[k] # "none" /\ Filer[k.node] # None =>
    \E u \in Key : u.node = Filer[k.node] /\ status[u] = "done"

\* A run that started records its lineage, and was built on a done run of each
\* node above it: one of its filer, and what that was built on.
BuiltOnTheLine ==
  \A k \in Key : Started(k) =>
    /\ DOMAIN read[k] = Lineage(k.node)
    /\ \A v \in built[k] : status[v] = "done" /\ built[v] \subseteq built[k]
    /\ {v.node : v \in built[k]} = Above(k.node)
    /\ Filer[k.node] # None =>
         \E u \in built[k] : u.node = Filer[k.node] /\ built[k] = {u} \cup built[u]

RestInv == EndsAreKept /\ SentBackIsFiled /\ HandedOnIsFiled /\ FilerWasDone /\ BuiltOnTheLine

\* Filing, as the invariants see it: nothing filed is unfiled (File).
LEMMA FilingAdds ==
  ASSUME TypeOK, NEW keys \in SUBSET Key, File(keys)
  PROVE  /\ \A k \in keys : status'[k] # "none"
         /\ \A k \in Key : status[k] = "none" /\ status'[k] # "none" => k \in keys
         /\ \A k \in Key : status[k] # "none" => status'[k] = status[k]
BY DEF File, TypeOK

\* No step undoes a filing, a start, a plan or a question to a person, nor
\* what a run read and was built on.
LEMMA NothingIsUndone ==
  ASSUME TypeOK, Next
  PROVE  /\ planned \subseteq planned' /\ person \subseteq person'
         /\ \A k \in Key : status[k] # "none" => status'[k] # "none"
         /\ \A k \in Key : Started(k) => Started(k)' /\ built'[k] = built[k] /\ read'[k] = read[k]
<1> DEFINE Kept ==
      /\ planned \subseteq planned' /\ person \subseteq person'
      /\ \A k \in Key : status[k] # "none" => status'[k] # "none"
      /\ \A k \in Key : Started(k) => Started(k)' /\ built'[k] = built[k] /\ read'[k] = read[k]
<1>1. ASSUME NEW k \in Key, Start(k) PROVE Kept
  BY <1>1 DEF Start, Started, TypeOK
<1>2. ASSUME NEW k \in Key, Finish(k) \/ Fail(k) PROVE Kept
  BY <1>2 DEF Finish, Fail, Started, TypeOK
<1>3. ASSUME NEW keys \in SUBSET Key, File(keys), planned \subseteq planned', person \subseteq person',
             built' = built, read' = read
      PROVE  Kept
  BY <1>3, FilingAdds DEF Started
<1>4. ASSUME NEW k \in Key, RefuseEntry(k) PROVE Kept
  BY <1>4, <1>3 DEF RefuseEntry
<1>5. ASSUME NEW k \in Key, HandOff(k) \/ SendBack(k) \/ RefileStale(k) PROVE Kept
  <2>1. /\ planned \subseteq planned' /\ person' = person /\ built' = built /\ read' = read
        /\ \E keys \in SUBSET Key : File(keys)
    BY <1>5 DEF HandOff, SendBack, RefileStale
  <2> QED
    BY <2>1, <1>3
<1>6. ASSUME status' = status, built' = built, read' = read, planned \subseteq planned',
             person \subseteq person'
      PROVE  Kept
  BY <1>6 DEF Started
<1>7. ASSUME NEW k \in Key, SendToPerson(k) PROVE Kept
  BY <1>7, <1>6 DEF SendToPerson
<1>8. ASSUME NEW g \in DOMAIN EntryGate, EvaluateGate(g) PROVE Kept
  BY <1>8, <1>6 DEF EvaluateGate
<1>9. ASSUME People PROVE Kept
  BY <1>9, <1>6 DEF People, ChangeSource, Approve
<1> HIDE DEF Kept
<1>10. Kept
  BY <1>1, <1>2, <1>4, <1>5, <1>7, <1>8, <1>9 DEF Next, Engine
<1> QED
  BY <1>10 DEF Kept

\* What a step files has a filed run of its node, or a done run of its filer.
LEMMA WhoIsFiled ==
  ASSUME TypeOK, BuiltOnTheLine, Next, NEW l \in Key, status[l] = "none", status'[l] # "none"
  PROVE  \E k \in Key : \/ status[k] # "none" /\ k.node = l.node
                        \/ status[k] = "done" /\ k.node = Filer[l.node]
<1>1. ASSUME NEW k \in Key, Start(k) \/ Finish(k) \/ Fail(k) PROVE FALSE
  BY <1>1 DEF Start, Finish, Fail, TypeOK
<1>2. ASSUME status' = status PROVE FALSE
  BY <1>2
<1>3. ASSUME NEW k \in Key, HandOff(k) PROVE status[k] = "done" /\ k.node = Filer[l.node]
  BY <1>3, FilingAdds DEF HandOff
<1>4. ASSUME NEW k \in Key, SendBack(k) PROVE \E u \in Key : status[u] # "none" /\ u.node = l.node
  <2>1. PICK u \in Owner(k) : Again(u) \in Key /\ File({Again(u)})
    BY <1>4 DEF SendBack
  <2>2. u \in built[k] /\ u \in Key
    BY <2>1 DEF Owner, TypeOK
  <2>3. status[u] = "done"
    BY <1>4, <2>2 DEF SendBack, BuiltOnTheLine, Started
  <2>4. l = Again(u)
    BY <2>1, FilingAdds
  <2> QED
    BY <2>2, <2>3, <2>4 DEF Again, Key
<1>5. ASSUME NEW k \in Key, RefuseEntry(k) PROVE \E u \in Key : status[u] # "none" /\ u.node = l.node
  <2>1. l \in {Again(u) : u \in RefusedProducers(k.node)}
    BY <1>5, FilingAdds DEF RefuseEntry
  <2>2. PICK u \in RefusedProducers(k.node) : l = Again(u)
    BY <2>1
  <2>3. u \in Key /\ status[u] = "done"
    BY DEF RefusedProducers, Writer
  <2> QED
    BY <2>2, <2>3 DEF Again, Key
<1>6. ASSUME NEW k \in Key, RefileStale(k) PROVE status[k] # "none" /\ k.node = l.node
  <2>1. l = Again(k)
    BY <1>6, FilingAdds DEF RefileStale
  <2> QED
    BY <1>6, <2>1 DEF RefileStale, Again, Key
<1>7. ASSUME NEW k \in Key, SendToPerson(k) PROVE status' = status
  BY <1>7 DEF SendToPerson
<1>8. ASSUME NEW g \in DOMAIN EntryGate, EvaluateGate(g) PROVE status' = status
  BY <1>8 DEF EvaluateGate
<1>9. ASSUME People PROVE status' = status
  BY <1>9 DEF People, ChangeSource, Approve
<1> QED
  BY <1>1, <1>2, <1>3, <1>4, <1>5, <1>6, <1>7, <1>8, <1>9 DEF Next, Engine

\* A filed run has a filed run of its filer that was done.
LEMMA FilerStaysDone ==
  ASSUME TypeOK, BuiltOnTheLine, FilerWasDone, Next
  PROVE  FilerWasDone'
<1> SUFFICES ASSUME NEW l \in Key, status'[l] # "none", Filer[l.node] # None
             PROVE  \E u \in Key : u.node = Filer[l.node] /\ status'[u] = "done"
  BY DEF FilerWasDone
<1>1. \E u \in Key : u.node = Filer[l.node] /\ status[u] = "done"
  BY WhoIsFiled DEF FilerWasDone
<1> QED
  BY <1>1, DoneRunsStay

\* Only Start adds to the runs that started.
LEMMA BuiltStaysOnTheLine ==
  ASSUME TypeOK, BuiltOnTheLine, FilerWasDone, Next
  PROVE  BuiltOnTheLine'
<1> DEFINE Line1(k, r, b) ==
      /\ DOMAIN r[k] = Lineage(k.node)
      /\ \A v \in b[k] : status'[v] = "done" /\ b[v] \subseteq b[k]
      /\ {v.node : v \in b[k]} = Above(k.node)
      /\ Filer[k.node] # None =>
           \E u \in b[k] : u.node = Filer[k.node] /\ b[k] = {u} \cup b[u]
<1>1. ASSUME NEW k \in Key, Started(k) PROVE Line1(k, read', built')
  <2>1. /\ built'[k] = built[k] /\ read'[k] = read[k]
    BY <1>1, NothingIsUndone
  <2>2. \A v \in built[k] : v \in Key /\ status[v] = "done"
    BY <1>1 DEF BuiltOnTheLine, TypeOK
  <2>3. \A v \in built[k] : status'[v] = "done" /\ built'[v] = built[v]
    BY <2>2, DoneRunsStay
  <2>4. \A v \in built[k] : built[v] \subseteq built[k]
    BY <1>1 DEF BuiltOnTheLine
  <2>5. Filer[k.node] # None =>
          \E u \in built[k] : u.node = Filer[k.node] /\ built[k] = {u} \cup built[u]
    BY <1>1 DEF BuiltOnTheLine
  <2>6. DOMAIN read[k] = Lineage(k.node) /\ {v.node : v \in built[k]} = Above(k.node)
    BY <1>1 DEF BuiltOnTheLine
  <2> QED
    BY <2>1, <2>3, <2>4, <2>5, <2>6
<1>2. ASSUME NEW k \in Key, Start(k) PROVE Line1(k, read', built')
  <2> DEFINE upstream == UNION {Writer(n) : n \in Node \cap {Filer[k.node]}}
  <2>1. status[k] = "filed" /\ k.node \in Node /\ Filer[k.node] \in Node \cup {None}
    BY <1>2, ReworkAssumptions DEF Start, Key
  <2>2. /\ read'[k] = Seen(Lineage(k.node))
        /\ built'[k] = upstream \cup UNION {built[u] : u \in upstream}
    BY <1>2 DEF Start, TypeOK
  <2>3. DOMAIN read'[k] = Lineage(k.node)
    BY <2>2 DEF Seen
  <2>4. CASE Filer[k.node] = None
    <3>1. upstream = {}
      BY <2>4, ReworkAssumptions
    <3>2. built'[k] = {}
      BY <2>2, <3>1
    <3>3. Above(k.node) = {}
      BY <2>4, <2>1, AboveByFiler
    <3> QED
      BY <2>3, <2>4, <3>2, <3>3
  <2>5. CASE Filer[k.node] # None
    <3>1. Filer[k.node] \in Node /\ Above(k.node) = {Filer[k.node]} \cup Above(Filer[k.node])
      BY <2>1, <2>5, AboveByFiler
    <3>2. PICK d \in Key : d.node = Filer[k.node] /\ status[d] = "done"
      BY <2>1, <2>5 DEF FilerWasDone
    <3>3. PICK u \in Key : Writer(Filer[k.node]) = {u} /\ u.node = Filer[k.node] /\ status[u] = "done"
      BY <3>1, <3>2, SomeWriter
    <3>4. upstream = {u}
      BY <3>1, <3>3
    <3>5. built'[k] = {u} \cup built[u]
      BY <2>2, <3>4
    <3>6. Started(u) /\ u # k
      BY <2>1, <3>3 DEF Started
    <3>7. \A v \in built[u] : v \in Key /\ status[v] = "done" /\ built[v] \subseteq built[u]
      BY <3>6 DEF BuiltOnTheLine, TypeOK
    <3>8. \A v \in {u} \cup built[u] :
            status'[v] = "done" /\ built'[v] = built[v] /\ built[v] \subseteq built'[k]
      BY <3>3, <3>5, <3>7, DoneRunsStay
    <3>9. {v.node : v \in built[u]} = Above(u.node)
      BY <3>6 DEF BuiltOnTheLine
    <3>10. {v.node : v \in built'[k]} = Above(k.node)
      BY <3>1, <3>3, <3>5, <3>9
    <3> HIDE DEF upstream
    <3> QED
      BY <2>3, <3>3, <3>5, <3>8, <3>10
  <2> QED
    BY <2>4, <2>5
<1>3. ASSUME NEW k \in Key, Started(k)', ~Started(k) PROVE Start(k)
  <2>1. \E j \in Key : Start(j)
    BY <1>3, OthersLetNobodyIn
  <2>2. PICK j \in Key : Start(j)
    BY <2>1
  <2> QED
    BY <1>3, <2>2 DEF Start, Started, TypeOK
<1>4. \A k \in Key : Started(k)' => Line1(k, read', built')
  BY <1>1, <1>2, <1>3
<1> QED
  BY <1>4 DEF BuiltOnTheLine, Lineage, Above, Line

\* A run is handed on, sent back or given to a person by its own step.
LEMMA WhoIsPlanned ==
  ASSUME TypeOK, Next, NEW k \in planned', k \notin planned
  PROVE  k \in Key /\ status[k] = "done" /\ (HandOff(k) \/ SendBack(k) \/ SendToPerson(k))
<1>1. \E j \in Key : HandOff(j) \/ SendBack(j) \/ SendToPerson(j)
  BY DEF Next, Engine, People, Start, Finish, Fail, RefuseEntry, RefileStale, EvaluateGate,
         ChangeSource, Approve
<1>2. PICK j \in Key : HandOff(j) \/ SendBack(j) \/ SendToPerson(j)
  BY <1>1
<1>3. planned' = planned \cup {j} /\ status[j] = "done"
  BY <1>2 DEF HandOff, SendBack, SendToPerson
<1> QED
  BY <1>2, <1>3

\* Who ends done or failed, and who is asked about it, stays so.
LEMMA EndsStayKept ==
  ASSUME TypeOK, EndsAreKept, Next
  PROVE  EndsAreKept'
<1>1. ASSUME NEW k \in planned' PROVE status'[k] = "done"
  <2>1. k \in Key /\ status[k] = "done"
    BY <1>1, WhoIsPlanned DEF EndsAreKept, TypeOK
  <2> QED
    BY <2>1, DoneRunsStay
<1>2. ASSUME NEW k \in Key, status'[k] = "failed" PROVE k \in person'
  <2>1. CASE status[k] = "failed"
    BY <2>1, NothingIsUndone DEF EndsAreKept
  <2>2. CASE status[k] # "failed"
    <3>1. ASSUME NEW keys \in SUBSET Key, File(keys) PROVE FALSE
      BY <1>2, <2>2, <3>1, FileKeeps
    <3>2. ASSUME NEW j \in Key, Start(j) \/ Finish(j) PROVE FALSE
      BY <1>2, <2>2, <3>2 DEF Start, Finish, TypeOK
    <3>3. ASSUME NEW j \in Key, RefuseEntry(j) PROVE FALSE
      BY <3>1, <3>3 DEF RefuseEntry
    <3>4. ASSUME NEW j \in Key, HandOff(j) \/ SendBack(j) \/ RefileStale(j) PROVE FALSE
      BY <3>1, <3>4 DEF HandOff, SendBack, RefileStale
    <3>5. ASSUME NEW j \in Key, SendToPerson(j) PROVE FALSE
      BY <1>2, <2>2, <3>5 DEF SendToPerson
    <3>6. ASSUME NEW g \in DOMAIN EntryGate, EvaluateGate(g) PROVE FALSE
      BY <1>2, <2>2, <3>6 DEF EvaluateGate
    <3>7. ASSUME People PROVE FALSE
      BY <1>2, <2>2, <3>7 DEF People, ChangeSource, Approve
    <3>8. PICK j \in Key : Fail(j)
      BY <3>2, <3>3, <3>4, <3>5, <3>6, <3>7 DEF Next, Engine
    <3> QED
      BY <1>2, <2>2, <3>8 DEF Fail, TypeOK
  <2> QED
    BY <2>1, <2>2
<1> QED
  BY <1>1, <1>2 DEF EndsAreKept

\* Work that was sent back or handed on keeps what it had filed.
LEMMA PlansStayFiled ==
  ASSUME TypeOK, EndsAreKept, SentBackIsFiled, HandedOnIsFiled, Next
  PROVE  SentBackIsFiled' /\ HandedOnIsFiled'
<1>1. ASSUME NEW k \in planned', outcome'[k] # None, k \notin person'
      PROVE  \E u \in built'[k] : Again(u) \in Key /\ status'[Again(u)] # "none"
  <2>1. k \in Key /\ status[k] = "done" /\ k \notin person
    BY <1>1, WhoIsPlanned, NothingIsUndone DEF EndsAreKept, TypeOK
  <2>2. outcome[k] = outcome'[k] /\ built'[k] = built[k]
    BY <2>1, DoneRunsStay
  <2>3. CASE k \in planned
    <3>1. PICK u \in built[k] : Again(u) \in Key /\ status[Again(u)] # "none"
      BY <1>1, <2>1, <2>2, <2>3 DEF SentBackIsFiled
    <3> QED
      BY <2>2, <3>1, NothingIsUndone
  <2>4. CASE k \notin planned
    <3>1. SendBack(k)
      BY <1>1, <2>2, <2>4, WhoIsPlanned DEF HandOff, SendToPerson
    <3>2. PICK u \in Owner(k) : Again(u) \in Key /\ File({Again(u)})
      BY <3>1 DEF SendBack
    <3>3. u \in built[k] /\ status'[Again(u)] # "none"
      BY <3>2, FilingAdds DEF Owner
    <3> QED
      BY <2>2, <3>2, <3>3
  <2> QED
    BY <2>3, <2>4
<1>2. ASSUME NEW k \in planned', outcome'[k] = None, NEW l \in Key,
             Filer[l.node] = k.node, l.attempt = k.attempt
      PROVE  status'[l] # "none"
  <2>1. k \in Key /\ status[k] = "done"
    BY <1>2, WhoIsPlanned DEF EndsAreKept, TypeOK
  <2>2. outcome[k] = outcome'[k]
    BY <2>1, DoneRunsStay
  <2>3. CASE k \in planned
    BY <1>2, <2>2, <2>3, NothingIsUndone DEF HandedOnIsFiled
  <2>4. CASE k \notin planned
    <3>1. HandOff(k) \/ SendToPerson(k)
      BY <1>2, <2>2, <2>4, WhoIsPlanned DEF SendBack
    <3>2. HandOff(k)
      BY <1>2, <2>2, <3>1 DEF SendToPerson
    <3> QED
      BY <1>2, <3>2, FilingAdds DEF HandOff
  <2> QED
    BY <2>3, <2>4
<1> QED
  BY <1>1, <1>2 DEF SentBackIsFiled, HandedOnIsFiled, Again

\* The inductive invariant of rest, for every chain and every bound.
LEMMA RestInvariant == Spec => [](TypeOK /\ RestInv)
<1>1. Init /\ TypeOK => RestInv
  <2> SUFFICES ASSUME Init, TypeOK PROVE RestInv
    OBVIOUS
  <2>1. EndsAreKept /\ SentBackIsFiled /\ HandedOnIsFiled
    BY DEF Init, EndsAreKept, SentBackIsFiled, HandedOnIsFiled
  <2>2. FilerWasDone /\ BuiltOnTheLine
    BY DEF Init, FilerWasDone, BuiltOnTheLine, Started
  <2> QED
    BY <2>1, <2>2 DEF RestInv
<1>2. TypeOK /\ RestInv /\ [Next]_vars => RestInv'
  <2> SUFFICES ASSUME TypeOK, RestInv, [Next]_vars PROVE RestInv'
    OBVIOUS
  <2>1. CASE Next
    BY <2>1, EndsStayKept, PlansStayFiled, FilerStaysDone, BuiltStaysOnTheLine DEF RestInv
  <2>2. CASE UNCHANGED vars
    <3>1. EndsAreKept' /\ SentBackIsFiled' /\ HandedOnIsFiled'
      BY <2>2 DEF RestInv, vars, EndsAreKept, SentBackIsFiled, HandedOnIsFiled, Again
    <3>2. FilerWasDone'
      BY <2>2 DEF RestInv, vars, FilerWasDone
    <3>3. status' = status /\ read' = read /\ built' = built /\ BuiltOnTheLine
      BY <2>2 DEF RestInv, vars
    <3>4. BuiltOnTheLine'
      BY <3>3 DEF BuiltOnTheLine, Started
    <3> QED
      BY <3>1, <3>2, <3>4 DEF RestInv
  <2> QED
    BY <2>1, <2>2
<1> QED
  BY <1>1, <1>2, TypeCorrect, PTL DEF Spec

-----------------------------------------------------------------------------
(***************************************************************************)
(* Where the engine comes to rest.                                         *)
(***************************************************************************)

\* There is nothing the engine can do with the latest run of a node.
Idle(k) ==
  /\ status[k] # "running"
  /\ status[k] = "done" => k \in planned
  /\ status[k] = "filed" =>
       /\ ~(EntryStarts(k.node) /\ RequiresSatisfied(k.node))
       /\ \A g \in GatesOf(k.node) : Current(g)
       /\ Refusing(k.node) # {} =>
            /\ \A u \in RefusedProducers(k.node) : Again(u) \in Key => status[Again(u)] # "none"
            /\ Holding(k.node) => k \in person
  /\ Started(k) /\ Stale(k) => Again(k) \notin Key
AtRest == \A k \in Key : Latest(k) => Idle(k)

\* At rest the engine takes no step: what is left waits for a person or for a
\* change, or the bound on attempts stops it.
THEOREM RestIsRest == Spec => [][AtRest => ~Engine]_vars
<1>1. ASSUME AtRest, Engine PROVE FALSE
  <2>1. ASSUME NEW k \in Key, Start(k) PROVE FALSE
    BY <1>1, <2>1 DEF AtRest, Idle, Start
  <2>2. ASSUME NEW k \in Key, Finish(k) \/ Fail(k) PROVE FALSE
    BY <1>1, <2>2 DEF AtRest, Idle, Finish, Fail
  <2>3. ASSUME NEW k \in Key, HandOff(k) \/ SendBack(k) \/ SendToPerson(k) PROVE FALSE
    BY <1>1, <2>3 DEF AtRest, Idle, HandOff, SendBack, SendToPerson
  <2>4. ASSUME NEW k \in Key, RefileStale(k) PROVE FALSE
    <3>1. Latest(k) /\ Started(k) /\ Stale(k) /\ Again(k) \in Key
      BY <2>4 DEF RefileStale, Started
    <3> QED
      BY <1>1, <3>1 DEF AtRest, Idle
  <2>5. ASSUME NEW k \in Key, RefuseEntry(k) PROVE FALSE
    <3> DEFINE again == {Again(u) : u \in RefusedProducers(k.node)} \cap Key
               asked == IF Holding(k.node) THEN {k} ELSE {}
    <3>1. /\ status[k] = "filed" /\ Latest(k) /\ Refusing(k.node) # {}
          /\ (\E l \in again : status[l] = "none") \/ ~(asked \subseteq person)
      BY <2>5 DEF RefuseEntry
    <3>2. /\ \A u \in RefusedProducers(k.node) : Again(u) \in Key => status[Again(u)] # "none"
          /\ Holding(k.node) => k \in person
      BY <1>1, <3>1 DEF AtRest, Idle
    <3> QED
      BY <3>1, <3>2
  <2>6. ASSUME NEW g \in DOMAIN EntryGate, EvaluateGate(g) PROVE FALSE
    <3>1. PICK k \in Key : k.node = EntryGate[g].of /\ Latest(k) /\ status[k] = "filed"
      BY <2>6 DEF EvaluateGate
    <3>2. ~Current(g) /\ g \in GatesOf(k.node)
      BY <2>6, <3>1 DEF EvaluateGate, GatesOf
    <3> QED
      BY <1>1, <3>1, <3>2 DEF AtRest, Idle
  <2> QED
    BY <1>1, <2>1, <2>2, <2>3, <2>4, <2>5, <2>6 DEF Engine
<1> QED
  BY <1>1, PTL

\* The nodes above a filed one have all been done.
LEMMA AboveWasDone ==
  ASSUME FilerWasDone, NEW k \in Key, status[k] # "none"
  PROVE  \A n \in Above(k.node) : n \in Node /\ \E u \in Key : u.node = n /\ status[u] = "done"
<1> DEFINE S == {n \in Node : \E u \in Key : u.node = n /\ status[u] = "done"}
<1>1. ASSUME NEW l \in Key, status[l] # "none" PROVE Filer[l.node] \in S \cup {None}
  <2>1. Filer[l.node] \in Node \cup {None}
    BY ReworkAssumptions DEF Key
  <2> QED
    BY <1>1, <2>1 DEF FilerWasDone
<1>2. \A x \in S : Filer[x] \in S \cup {None}
  BY <1>1
<1>3. k.node \in Node /\ S \in SUBSET Node
  BY DEF Key
<1> HIDE DEF S
<1>4. Above(k.node) \subseteq S
  BY <1>1, <1>2, <1>3, AboveIn
<1> QED
  BY <1>4 DEF S

\* At rest a filed run waits for a person, or for a run above it that a person
\* or the bound on attempts stops: what its gates refuse was re-filed, and of
\* the filed runs one is first.
LEMMA FiledRunsWait ==
  ASSUME TypeOK, EndsAreKept, FilerWasDone, AtRest, NEW k \in Key, Latest(k), status[k] = "filed"
  PROVE  \E n \in {k.node} \cup Above(k.node) : WithPerson(n) \/ AtBound(n)
<1> DEFINE S == {n \in {k.node} \cup Above(k.node) :
                   \E l \in Key : l.node = n /\ Latest(l) /\ status[l] = "filed"}
<1>1. k.node \in Node /\ Above(k.node) \subseteq Node
  BY AboveByFiler DEF Key
<1>2. S \in SUBSET Node /\ S # {}
  BY <1>1
<1>3. PICK n \in S : Above(n) \cap S = {}
  BY <1>2, TopOfLine
<1>4. PICK l \in Key : l.node = n /\ Latest(l) /\ status[l] = "filed"
  OBVIOUS
<1>5. n \in Node /\ n \in {k.node} \cup Above(k.node) /\ Above(n) \subseteq {k.node} \cup Above(k.node)
  BY <1>1, AboveIsClosed
<1>6. Idle(l)
  BY <1>4 DEF AtRest
<1>7. CASE ~RequiresSatisfied(n)
  BY <1>4, <1>5, <1>7 DEF WithPerson
<1>8. CASE RequiresSatisfied(n)
  <2>1. ~EntryStarts(n)
    BY <1>4, <1>6, <1>8 DEF Idle
  <2>2. PICK g \in GatesOf(n) : Current(g) /\ verdict[g].outcome # "passed"
    BY <1>4, <1>6, <2>1 DEF Idle, EntryStarts
  <2>3. /\ g \in Refusing(n) /\ g \in DOMAIN EntryGate /\ EntryGate[g].of = n
    BY <2>2 DEF Refusing, GatesOf
  <2>4. PICK a \in EntryGate[g].over : a \in Reads[n]
    BY <2>3, ReworkAssumptions DEF EntryGatesDeclared
  <2>5. a \in Node \/ a \in Source
    BY <1>5, <2>4, ReworkAssumptions DEF Artefact
  <2>6. CASE a \in Source
    <3>1. Holding(n)
      BY <2>3, <2>6 DEF Holding
    <3>2. l \in person
      BY <1>4, <1>6, <2>3, <3>1 DEF Idle
    <3> QED
      BY <1>4, <1>5, <3>2 DEF WithPerson
  <2>7. CASE a \in Node
    <3>1. a \in Above(n)
      BY <1>5, <2>4, <2>7, ReworkAssumptions DEF HandedOn
    <3>2. PICK d \in Key : d.node = a /\ status[d] = "done"
      BY <1>4, <3>1, AboveWasDone
    <3>3. PICK w \in Key : /\ Writer(a) = {w} /\ w.node = a /\ status[w] = "done"
                           /\ \A x \in Key : x.node = a /\ status[x] = "done" => x.attempt <= w.attempt
      BY <2>7, <3>2, SomeWriter
    <3>4. w \in RefusedProducers(n)
      BY <2>3, <2>7, <3>3 DEF RefusedProducers
    <3>5. Again(w) \in Key => status[Again(w)] # "none"
      BY <1>4, <1>6, <2>3, <3>4 DEF Idle
    <3>6. w.attempt \in 1 .. MaxAttempt /\ w = [node |-> a, attempt |-> w.attempt]
      BY <3>3 DEF Key
    <3>7. CASE Again(w) \notin Key
      <4>1. w.attempt = MaxAttempt
        BY <2>7, <3>6, <3>7, ReworkAssumptions DEF Again, Key
      <4>2. MaxAttempt \in Filed(a)
        BY <3>3, <3>6, <4>1 DEF Filed
      <4> QED
        BY <1>5, <3>1, <4>2 DEF AtBound
    <3>8. CASE Again(w) \in Key
      <4>1. Again(w).node = a /\ Again(w).attempt = w.attempt + 1
        BY <3>6 DEF Again
      <4>2. PICK x \in Key : x.node = a /\ Latest(x) /\ w.attempt + 1 <= x.attempt
        BY <3>5, <3>8, <4>1, SomeLatest
      <4>3. x.attempt \in Nat /\ w.attempt \in Nat
        BY <3>6 DEF Key
      <4>4. status[x] # "done"
        BY <3>3, <4>2, <4>3
      <4>5. status[x] # "filed"
        BY <1>3, <1>5, <3>1, <4>2
      <4>6. status[x] = "failed"
        BY <4>2, <4>4, <4>5 DEF AtRest, Idle, Latest, TypeOK
      <4>7. WithPerson(a)
        BY <4>2, <4>6 DEF WithPerson, EndsAreKept
      <4> QED
        BY <1>5, <3>1, <4>7
    <3> QED
      BY <3>7, <3>8
  <2> QED
    BY <2>5, <2>6, <2>7
<1> QED
  BY <1>7, <1>8

\* At rest every filed run ran on what the chain holds, unless a person or the
\* bound on attempts stops it, or stops a run it waits for (stale_runs,
\* plan_entry): the changes reach the runs as soon as the engine has nothing
\* left to do.
THEOREM RestMeansCurrent == Spec => [](AtRest => RunsAreCurrent)
<1>1. TypeOK /\ RestInv => (AtRest => RunsAreCurrent)
  <2> SUFFICES ASSUME TypeOK, RestInv, AtRest, NEW k \in Key, Latest(k),
                      ~(Started(k) /\ read[k] = Seen(Lineage(k.node)))
               PROVE  \/ AtBound(k.node)
                      \/ status[k] = "filed" /\ \E n \in Line(k.node) : WithPerson(n) \/ AtBound(n)
    BY DEF RunsAreCurrent
  <2>1. CASE Started(k)
    <3>1. DOMAIN read[k] = Lineage(k.node) /\ read[k] # Seen(Lineage(k.node))
      BY <2>1 DEF RestInv, BuiltOnTheLine
    <3>2. read[k] = [a \in DOMAIN read[k] |-> read[k][a]]
      BY DEF TypeOK
    <3>3. \E a \in Lineage(k.node) : read[k][a] # content[a]
      BY <3>1, <3>2 DEF Seen
    <3>4. Again(k) \notin Key
      BY <2>1, <3>1, <3>3 DEF AtRest, Idle, Stale
    <3>5. k.attempt = MaxAttempt /\ k = [node |-> k.node, attempt |-> k.attempt] /\ k.node \in Node
      BY <3>4, ReworkAssumptions DEF Again, Key
    <3>6. MaxAttempt \in Filed(k.node)
      BY <3>5 DEF Filed, Latest, Key
    <3> QED
      BY <3>6 DEF AtBound
  <2>2. CASE ~Started(k)
    <3>1. status[k] = "filed"
      BY <2>2 DEF Started, Latest, TypeOK
    <3>2. \E n \in {k.node} \cup Above(k.node) : WithPerson(n) \/ AtBound(n)
      BY <3>1, FiledRunsWait DEF RestInv
    <3>3. Line(k.node) = {k.node} \cup Above(k.node)
      BY AboveByFiler DEF Key
    <3> QED
      BY <3>1, <3>2, <3>3
  <2> QED
    BY <2>1, <2>2
<1> QED
  BY <1>1, RestInvariant, PTL

\* A later attempt of this run's node was filed: the node is ahead of it.
Ahead(v) == \E l \in Key : l.node = v.node /\ v.attempt < l.attempt /\ status[l] # "none"

\* Nothing stops what comes down to this node: no run above it is with a
\* person, at the bound or met a taken key, nor did its own, and none above
\* sent its work back.
NothingStops(n) ==
  /\ ~HandedToTaken(n)
  /\ \A m \in Above(n) : ~WithPerson(m) /\ ~AtBound(m) /\ ~HandedToTaken(m)
  /\ \A l \in Key : l.node \in Above(n) /\ Latest(l) /\ status[l] = "done" => outcome[l] = None

\* A run and what it was built on: all started, each built on part of that.
LEMMA BuiltOn ==
  ASSUME TypeOK, RestInv, NEW k \in Key, Started(k), NEW v \in built[k] \cup {k}
  PROVE  /\ v \in Key /\ v.node \in Node /\ Started(v) /\ built[v] \subseteq built[k]
         /\ v.node \in {k.node} \cup Above(k.node)
         /\ v \in built[k] => v.node \in Above(k.node)
<1>1. \A x \in Key : x.node \in Node
  BY DEF Key
<1>2. CASE v = k
  <2>1. v \notin built[k] \/ v.node \in Above(k.node)
    BY <1>2 DEF RestInv, BuiltOnTheLine
  <2> QED
    BY <1>1, <1>2, <2>1
<1>3. CASE v \in built[k]
  <2>1. built[k] \subseteq Key
    BY DEF TypeOK
  <2>2. status[v] = "done" /\ built[v] \subseteq built[k]
    BY <1>3 DEF RestInv, BuiltOnTheLine
  <2>3. v.node \in Above(k.node)
    BY <1>3 DEF RestInv, BuiltOnTheLine
  <2> QED
    BY <1>1, <1>3, <2>1, <2>2, <2>3 DEF Started
<1> QED
  BY <1>2, <1>3

\* A node above, at rest, has handed on at its latest attempt, if nothing
\* stops it: what it files is ahead once it is.
LEMMA AheadComesDown ==
  ASSUME TypeOK, RestInv, AtRest, NEW k \in Key, Latest(k), Started(k), NothingStops(k.node),
         NEW v \in built[k] \cup {k}, NEW w \in built[v], w.node = Filer[v.node],
         built[v] = {w} \cup built[w], Ahead(w)
  PROVE  Ahead(v)
<1>1. /\ v \in Key /\ Started(v) /\ built[v] \subseteq built[k]
      /\ v.node \in {k.node} \cup Above(k.node)
  BY BuiltOn
<1>2. w \in Key /\ w.node \in Above(k.node) /\ w.node \in Node /\ Started(w)
  <2>1. w \in built[k]
    BY <1>1
  <2> QED
    BY <2>1, BuiltOn
<1>3. PICK a \in Key : a.node = w.node /\ w.attempt < a.attempt /\ status[a] # "none"
  BY DEF Ahead
<1>4. PICK l \in Key : l.node = w.node /\ Latest(l) /\ a.attempt <= l.attempt
  BY <1>3, SomeLatest
<1>5. l.attempt \in 1 .. MaxAttempt /\ w.attempt < l.attempt /\ l # w
  BY <1>2, <1>3, <1>4 DEF Key
<1>6. ~WithPerson(l.node) /\ ~AtBound(l.node) /\ l.node \in Above(k.node)
  BY <1>2, <1>4 DEF NothingStops
<1>7. status[l] = "done"
  <2>1. status[l] \notin {"none", "running"}
    BY <1>4 DEF AtRest, Idle, Latest
  <2>2. status[l] # "failed"
    BY <1>4, <1>6 DEF WithPerson, RestInv, EndsAreKept
  <2>3. ASSUME status[l] = "filed" PROVE FALSE
    <3>1. PICK n \in {l.node} \cup Above(l.node) : WithPerson(n) \/ AtBound(n)
      BY <1>4, <2>3, FiledRunsWait DEF RestInv
    <3>2. n \in Above(k.node)
      BY <1>6, AboveIsClosed DEF Key
    <3> QED
      BY <3>1, <3>2 DEF NothingStops
  <2> QED
    BY <2>1, <2>2, <2>3 DEF TypeOK
<1>8. l \in planned /\ outcome[l] = None
  BY <1>4, <1>6, <1>7 DEF AtRest, Idle, NothingStops
<1> DEFINE c == [node |-> v.node, attempt |-> l.attempt]
<1>9. c \in Key /\ c.node = v.node /\ c.attempt = l.attempt
  BY <1>1, <1>5 DEF Key
<1>10. status[c] # "none"
  BY <1>4, <1>8, <1>9 DEF RestInv, HandedOnIsFiled
<1> HIDE DEF c
<1>11. SUFFICES ASSUME ~Ahead(v) PROVE FALSE
  OBVIOUS
<1>12. Latest(v)
  <2>1. \A b \in Filed(v.node) : b <= v.attempt
    <3> SUFFICES ASSUME NEW b \in Filed(v.node), ~(b <= v.attempt) PROVE FALSE
      OBVIOUS
    <3> DEFINE x == [node |-> v.node, attempt |-> b]
    <3>1. x \in Key /\ x.node = v.node /\ x.attempt = b /\ status[x] # "none"
      BY <1>1 DEF Filed, Key
    <3>2. b \in Int /\ v.attempt \in Int
      BY <1>1 DEF Filed, Key
    <3> HIDE DEF x
    <3> QED
      BY <1>11, <3>1, <3>2 DEF Ahead
  <2> QED
    BY <1>1, <2>1 DEF Latest, Started
<1>13. l.attempt <= v.attempt
  BY <1>1, <1>5, <1>9, <1>10, <1>11 DEF Ahead, Key
<1>14. l \notin built[v]
  <2>1. \A x \in built[w] : x.node \in Above(w.node)
    BY <1>2 DEF RestInv, BuiltOnTheLine
  <2>2. w.node \notin Above(w.node)
    BY <1>2, NotAboveItself
  <2> QED
    BY <1>4, <1>5, <2>1, <2>2
<1>15. HandedToTaken(v.node)
  BY <1>1, <1>4, <1>8, <1>12, <1>13, <1>14 DEF HandedToTaken
<1> QED
  BY <1>1, <1>15 DEF NothingStops

\* So nothing that a latest run was built on is ahead of it: the node of the
\* run would be too.
LEMMA NothingIsAhead ==
  ASSUME TypeOK, RestInv, AtRest, NEW k \in Key, Latest(k), Started(k), NothingStops(k.node)
  PROVE  \A u \in built[k] : ~Ahead(u)
<1> SUFFICES ASSUME NEW u \in built[k], Ahead(u)
             PROVE  FALSE
  OBVIOUS
<1> DEFINE B == {v \in built[k] \cup {k} : ~Ahead(v) /\ \E x \in built[v] : Ahead(x)}
           S == {v.node : v \in B}
<1>1. \A v \in built[k] \cup {k} : /\ v \in Key /\ v.node \in Node /\ Started(v)
                                  /\ built[v] \subseteq built[k]
  BY BuiltOn
<1>2. ~Ahead(k)
  <2> SUFFICES ASSUME NEW l \in Key, l.node = k.node, k.attempt < l.attempt, status[l] # "none"
               PROVE  FALSE
    BY DEF Ahead
  <2>1. l.attempt \in 1 .. MaxAttempt /\ l = [node |-> k.node, attempt |-> l.attempt]
    BY DEF Key
  <2>2. l.attempt \in Filed(k.node)
    BY <2>1 DEF Filed
  <2> QED
    BY <2>1, <2>2 DEF Latest, Key
<1>3. S \in SUBSET Node /\ S # {}
  BY <1>1, <1>2
<1>4. PICK n \in S : Above(n) \cap S = {}
  BY <1>3, TopOfLine
<1>5. PICK v \in B : v.node = n
  OBVIOUS
<1>6. v \in built[k] \cup {k} /\ ~Ahead(v) /\ \E x \in built[v] : Ahead(x)
  OBVIOUS
<1>7. {x.node : x \in built[v]} = Above(v.node)
  BY <1>1, <1>6 DEF RestInv, BuiltOnTheLine
<1>8. Filer[v.node] # None
  BY <1>1, <1>6, <1>7, AboveByFiler
<1>9. PICK w \in built[v] : w.node = Filer[v.node] /\ built[v] = {w} \cup built[w]
  BY <1>1, <1>6, <1>8 DEF RestInv, BuiltOnTheLine
<1>10. CASE Ahead(w)
  BY <1>6, <1>9, <1>10, AheadComesDown
<1>11. CASE ~Ahead(w)
  <2>1. \E x \in built[w] : Ahead(x)
    BY <1>6, <1>9, <1>11
  <2>2. w \in B
    BY <1>1, <1>6, <1>11, <2>1
  <2>3. w.node \in Above(n) /\ w.node \in S
    BY <1>5, <1>7, <2>2
  <2> QED
    BY <1>4, <2>3
<1> QED
  BY <1>10, <1>11

\* At rest every run that sent its work back was filed again, unless a person
\* or the bound stops it or a run it was built on, or one of these met a key
\* that was taken (plan_rework, plan_completion): of the runs that were not,
\* one is first, and above it everything handed on at its latest attempt.
THEOREM RestMeansForward == Spec => [](AtRest => SentBackIsForward)
<1> DEFINE Back(k) == Latest(k) /\ status[k] = "done" /\ outcome[k] # None /\ k \notin person
           Came(k) == \/ HandedToTaken(k.node)
                      \/ \E n \in {u.node : u \in built[k]} :
                           WithPerson(n) \/ AtBound(n) \/ HandedToTaken(n)
<1>1. TypeOK /\ RestInv => (AtRest => SentBackIsForward)
  <2> SUFFICES ASSUME TypeOK, RestInv, AtRest, \E k \in Key : Back(k) /\ ~Came(k)
               PROVE  FALSE
    BY DEF SentBackIsForward
  <2> DEFINE S == {k.node : k \in {l \in Key : Back(l) /\ ~Came(l)}}
  <2>1. S \in SUBSET Node /\ S # {}
    BY DEF Key
  <2>2. PICK n \in S : Above(n) \cap S = {}
    BY <2>1, TopOfLine
  <2>3. PICK k \in Key : k.node = n /\ Back(k) /\ ~Came(k)
    BY <2>2
  <2>4. Started(k) /\ {u.node : u \in built[k]} = Above(n) /\ n \in Node
    BY <2>1, <2>3 DEF Started, RestInv, BuiltOnTheLine
  <2>5. ASSUME NEW l \in Key, l.node \in Above(n), Latest(l), status[l] = "done"
        PROVE  outcome[l] = None
    <3> SUFFICES ASSUME outcome[l] # None PROVE FALSE
      OBVIOUS
    <3>1. l \notin person
      BY <2>3, <2>4, <2>5 DEF WithPerson
    <3>2. Came(l)
      BY <2>2, <2>5, <3>1
    <3>3. {u.node : u \in built[l]} = Above(l.node) /\ Above(l.node) \subseteq Above(n)
      BY <2>4, <2>5, AboveIsClosed DEF Started, RestInv, BuiltOnTheLine
    <3>4. \E m \in Above(n) : WithPerson(m) \/ AtBound(m) \/ HandedToTaken(m)
      BY <2>5, <3>2, <3>3
    <3> QED
      BY <2>3, <2>4, <3>4
  <2>6. NothingStops(n)
    BY <2>3, <2>4, <2>5 DEF NothingStops
  <2>7. \A u \in built[k] : ~Ahead(u)
    BY <2>3, <2>4, <2>6, NothingIsAhead
  <2>8. k \in planned
    BY <2>3 DEF AtRest, Idle
  <2>9. PICK u \in built[k] : Again(u) \in Key /\ status[Again(u)] # "none"
    BY <2>3, <2>8 DEF RestInv, SentBackIsFiled
  <2>10. u \in Key /\ Again(u).node = u.node /\ Again(u).attempt = u.attempt + 1
    BY <2>9 DEF Again, Key, TypeOK
  <2>11. Ahead(u)
    BY <2>9, <2>10 DEF Ahead, Key
  <2> QED
    BY <2>7, <2>11
<1> QED
  BY <1>1, RestInvariant, PTL
=============================================================================
