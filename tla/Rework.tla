------------------------------- MODULE Rework -------------------------------
(***************************************************************************)
(* The loops of a chain (ASOP.md 3.7 to 3.9, 5.7): when a filed run may    *)
(* start, and what files a run that ended once more.  An entry gate that   *)
(* refuses re-files the producer, a finding re-files the procedure that    *)
(* owns it, a change re-files the runs that read what changed; each hands  *)
(* off at its own attempt number, and meets what the others filed.         *)
(*                                                                         *)
(* The chain is a tree of nodes, each a procedure with a subject; a run is *)
(* a node and an attempt.  Only the latest attempt of a node acts: the     *)
(* earlier ones are superseded (chain_outcome sets them aside).  What a    *)
(* run is handed is a name, so a key filed again is always a duplicate.    *)
(* The two writes of a filing, and stops between them, are ChainEngine's.  *)
(***************************************************************************)
EXTENDS Integers, FiniteSets

CONSTANTS
  Node,         \* the runs of the chain, attempts aside
  Asop,         \* [Node -> its procedure]
  Filer,        \* [Node -> the node whose hand-off files it, None for the first]
  Source,       \* documents and questions: what no run of the chain writes
  Reads,        \* [Node -> the nodes and sources whose contents it is handed]
  EntryGate,    \* [gate id -> [of : Node, over : what it reads]]
  Passes,       \* [gate id -> the contents that pass it]
  Requires,     \* [Node -> its start predicates]
  Edge,         \* [rework id -> [of, to : procedures, maxRounds]]
  Writes,       \* [Node -> the contents its runs may write]
  Contents,     \* [Source -> the contents it may have]
  None,         \* Python's None: no content yet, no answer yet
  MaxAttempt,   \* bound: attempts of a node
  MaxChanges    \* bound: changes of a source

Key == [node : Node, attempt : 1 .. MaxAttempt]
Artefact == Node \cup Source
Digest == (UNION {Writes[n] : n \in Node}) \cup (UNION {Contents[s] : s \in Source})

\* _entry_gates: a gate reads something, and of what its run is handed.
EntryGatesDeclared ==
  \A g \in DOMAIN EntryGate : /\ EntryGate[g].of \in Node
                              /\ EntryGate[g].over \subseteq Reads[EntryGate[g].of]
                              /\ EntryGate[g].over # {}

\* _rework_edges: an edge goes to another procedure, up to three rounds.
EdgesDeclared ==
  \A e \in DOMAIN Edge : Edge[e].maxRounds \in 1 .. 3 /\ Edge[e].to # Edge[e].of

\* The nodes whose hand-offs lead to n: its filer, the filer's filer, and so on.
Line(n) ==
  {m \in Node : \A S \in SUBSET Node :
                  n \in S /\ (\A x \in S : Filer[x] \in S \cup {None}) => m \in S}
Above(n) == IF Filer[n] = None THEN {} ELSE Line(Filer[n])

\* _resolve_value: what a run is handed is an output or an input of the run
\* that files it, which was handed its inputs alike; and a run is filed before
\* it files others.
HandedOn ==
  /\ \A S \in (SUBSET Node) \ {{}} : \E n \in S : Filer[n] \notin S
  /\ \A n \in Node : Reads[n] \cap Node \subseteq Above(n)

ASSUME ReworkAssumptions ==
  /\ None \notin Node /\ Node \cap Source = {}
  /\ Filer \in [Node -> Node \cup {None}]
  /\ Reads \in [Node -> SUBSET Artefact]
  /\ HandedOn /\ EntryGatesDeclared /\ EdgesDeclared
  /\ \A n \in Node : \A r \in Requires[n] : r.kind = "human_approved" => r.artefact \in Node
  /\ None \notin DOMAIN Edge
  /\ MaxAttempt \in Nat \ {0} /\ MaxChanges \in Nat

VARIABLES
  status,     \* [Key -> "none" | "filed" | "running" | "done" | "failed"]
  outcome,    \* [Key -> the rework edge a done run's outcome triggers, or None]
  planned,    \* the done runs whose hand-offs or rework were planned
  prior,      \* [Key -> the run whose findings it was re-filed with, or None]
  content,    \* [Artefact -> the digest of what it holds]
  read,       \* [Key -> what the run read when it started, with the digests]
  built,      \* [Key -> the upstream runs it was built on]
  verdict,    \* [gate id -> its outcome for the latest run, and what it saw]
  approval,   \* [Node -> the digest a person approved last, or None]
  spent,      \* [rework id, node of an owner -> the rounds spent against it in this chain]
  person,     \* the runs a person was asked about
  changes     \* how often sources changed

vars == <<status, outcome, planned, prior, content, read, built, verdict,
          approval, spent, person, changes>>

Verdict ==
  [outcome : {"passed", "failed", "cannot_evaluate"},
   seen : UNION {[over -> Digest \cup {None}] : over \in SUBSET Artefact}]

TypeOK ==
  /\ status \in [Key -> {"none", "filed", "running", "done", "failed"}]
  /\ outcome \in [Key -> DOMAIN Edge \cup {None}]
  /\ planned \subseteq Key /\ person \subseteq Key
  /\ prior \in [Key -> Key \cup {None}]
  /\ content \in [Artefact -> Digest \cup {None}]
  /\ read \in [Key -> UNION {[over -> Digest \cup {None}] : over \in SUBSET Artefact}]
  /\ built \in [Key -> SUBSET Key]
  /\ verdict \in [DOMAIN EntryGate -> Verdict \cup {None}]
  /\ approval \in [Node -> Digest \cup {None}]
  /\ spent \in [(DOMAIN Edge) \X Node -> Nat]
  /\ changes \in 0 .. MaxChanges

-----------------------------------------------------------------------------
Again(k) == [k EXCEPT !.attempt = @ + 1]

Filed(n) == {a \in 1 .. MaxAttempt : status[[node |-> n, attempt |-> a]] # "none"}

Latest(k) == status[k] # "none" /\ \A a \in Filed(k.node) : a <= k.attempt

\* The last run of a node that is done: it wrote what the node holds.
Writer(n) ==
  LET done == {k \in Key : k.node = n /\ status[k] = "done"}
  IN  {k \in done : \A l \in done : l.attempt <= k.attempt}

Seen(over) == [a \in over |-> content[a]]

\* What a run's lineage records: what it was handed, and what was approved.
Lineage(n) ==
  Reads[n] \cup {r.artefact : r \in {q \in Requires[n] : q.kind = "human_approved" /\ q.binds}}

GatesOf(n) == {g \in DOMAIN EntryGate : EntryGate[g].of = n}

\* A slip: a verdict holds once it was reached.
CurrentOnceReached(g) == verdict[g] # None

\* A verdict holds while what it saw is unchanged.
Current(g) == verdict[g] # None /\ verdict[g].seen = Seen(EntryGate[g].over)

Holds(r) ==
  CASE r.kind = "run_done" ->
         \E k \in Key : k.node = r.node /\ Latest(k) /\ status[k] = "done"
    [] r.kind = "human_approved" ->
         /\ approval[r.artefact] # None
         /\ r.binds => approval[r.artefact] = content[r.artefact]

RequiresSatisfied(n) == \A r \in Requires[n] : Holds(r)

\* plan_entry, over the verdicts that hold.
Refusing(n) == {g \in GatesOf(n) : Current(g) /\ verdict[g].outcome # "passed"}
EntryStarts(n) == \A g \in GatesOf(n) : Current(g) /\ verdict[g].outcome = "passed"
RefusedProducers(n) ==
  UNION {UNION {Writer(a) : a \in EntryGate[g].over \cap Node} : g \in Refusing(n)}
Holding(n) == \E g \in Refusing(n) : EntryGate[g].over \cap Source # {}

\* A slip: a question that was open is not compared with its answer.
StaleUnlessOpen(k) ==
  \E a \in DOMAIN read[k] : read[k][a] # None /\ read[k][a] # content[a]

\* A run is stale when it read an artefact at another digest.
Stale(k) == \E a \in DOMAIN read[k] : read[k][a] # content[a]

\* File these runs, unless they are filed: their gates are evaluated anew.
File(keys) ==
  LET new == {k \in keys : status[k] = "none"}
  IN  /\ status' = [k \in Key |-> IF k \in new THEN "filed" ELSE status[k]]
      /\ verdict' = [g \in DOMAIN EntryGate |->
                       IF \E k \in new : k.node = EntryGate[g].of THEN None ELSE verdict[g]]

-----------------------------------------------------------------------------
Init ==
  /\ status = [k \in Key |-> IF Filer[k.node] = None /\ k.attempt = 1 THEN "filed" ELSE "none"]
  /\ outcome = [k \in Key |-> None]
  /\ planned = {}
  /\ prior = [k \in Key |-> None]
  /\ content \in [Artefact -> Digest \cup {None}]
  /\ \A n \in Node : content[n] = None
  /\ \A s \in Source : content[s] \in Contents[s]
  /\ read = [k \in Key |-> [a \in {} |-> None]]
  /\ built = [k \in Key |-> {}]
  /\ verdict = [g \in DOMAIN EntryGate |-> None]
  /\ approval = [n \in Node |-> None]
  /\ spent = [e \in (DOMAIN Edge) \X Node |-> 0]
  /\ person = {}
  /\ changes = 0

\* The engine runs an entry gate of a filed run over what the run is handed.
EvaluateGate(g) ==
  /\ \E k \in Key : k.node = EntryGate[g].of /\ Latest(k) /\ status[k] = "filed"
  /\ ~Current(g)
  /\ LET says == IF \A a \in EntryGate[g].over : content[a] \in Passes[g] THEN "passed" ELSE "failed"
     IN  \E got \in {says, "cannot_evaluate"} :
           verdict' = [verdict EXCEPT ![g] = [outcome |-> got, seen |-> Seen(EntryGate[g].over)]]
  /\ UNCHANGED <<status, outcome, planned, prior, content, read, built, approval, spent, person, changes>>

Start(k) ==
  /\ status[k] = "filed" /\ Latest(k)
  /\ EntryStarts(k.node) /\ RequiresSatisfied(k.node)
  /\ status' = [status EXCEPT ![k] = "running"]
  /\ read' = [read EXCEPT ![k] = Seen(Lineage(k.node))]
  /\ LET upstream == UNION {Writer(n) : n \in Node \cap {Filer[k.node]}}
     IN  built' = [built EXCEPT ![k] = upstream \cup UNION {built[u] : u \in upstream}]
  /\ UNCHANGED <<outcome, planned, prior, content, verdict, approval, spent, person, changes>>

\* A run ends done: it wrote its output, and sends the work on or back.
Finish(k) ==
  /\ status[k] = "running" /\ Latest(k)
  /\ \E e \in {None} \cup {x \in DOMAIN Edge : Edge[x].of = Asop[k.node]} :
       outcome' = [outcome EXCEPT ![k] = e]
  /\ \E d \in Writes[k.node] : content' = [content EXCEPT ![k.node] = d]
  /\ status' = [status EXCEPT ![k] = "done"]
  /\ UNCHANGED <<planned, prior, read, built, verdict, approval, spent, person, changes>>

\* A run ends without done: its repairs are spent, and a person is asked.
Fail(k) ==
  /\ status[k] = "running" /\ Latest(k)
  /\ status' = [status EXCEPT ![k] = "failed"]
  /\ person' = person \cup {k}
  /\ UNCHANGED <<outcome, planned, prior, content, read, built, verdict, approval, spent, changes>>

\* A slip: the hand-off names the first attempt, whatever its own is.
HandOffAtFirst(k) ==
  /\ status[k] = "done" /\ Latest(k) /\ k \notin planned /\ outcome[k] = None
  /\ File({l \in Key : Filer[l.node] = k.node /\ l.attempt = 1})
  /\ planned' = planned \cup {k}
  /\ UNCHANGED <<outcome, prior, content, read, built, approval, spent, person, changes>>

\* A done run files what its node hands off to, at its own attempt.
HandOff(k) ==
  /\ status[k] = "done" /\ Latest(k) /\ k \notin planned /\ outcome[k] = None
  /\ File({l \in Key : Filer[l.node] = k.node /\ l.attempt = k.attempt})
  /\ planned' = planned \cup {k}
  /\ UNCHANGED <<outcome, prior, content, read, built, approval, spent, person, changes>>

\* A slip: the owner is found by its procedure, not by lineage.
OwnerByName(k) == {u \in Key : Latest(u) /\ Asop[u.node] = Edge[outcome[k]].to}

\* The owner of a finding: the run of its procedure this one was built on.
Owner(k) == {u \in built[k] : Asop[u.node] = Edge[outcome[k]].to}

\* plan_rework: the owner is filed as its next attempt, with the findings, while
\* the edge has rounds left against it.
SendBack(k) ==
  /\ status[k] = "done" /\ Latest(k) /\ k \notin planned /\ outcome[k] # None
  /\ \E u \in Owner(k) :
       /\ Again(u) \in Key
       /\ spent[<<outcome[k], u.node>>] < Edge[outcome[k]].maxRounds
       /\ spent' = [spent EXCEPT ![<<outcome[k], u.node>>] = @ + 1]
       /\ File({Again(u)})
       /\ prior' = IF status[Again(u)] = "none" THEN [prior EXCEPT ![Again(u)] = k] ELSE prior
  /\ planned' = planned \cup {k}
  /\ UNCHANGED <<outcome, content, read, built, approval, person, changes>>

\* Its rounds are spent, or the rework is refused: there is no owner, no
\* version of it, or no findings to carry.
SendToPerson(k) ==
  /\ status[k] = "done" /\ Latest(k) /\ k \notin planned /\ outcome[k] # None
  /\ person' = person \cup {k}
  /\ planned' = planned \cup {k}
  /\ UNCHANGED <<status, outcome, prior, content, read, built, verdict, approval, spent, changes>>

\* A filed run is not ready: the producers are re-filed, a source is a
\* person's.
RefuseEntry(k) ==
  LET again == {Again(u) : u \in RefusedProducers(k.node)} \cap Key
      asked == IF Holding(k.node) THEN {k} ELSE {}
  IN  /\ status[k] = "filed" /\ Latest(k) /\ Refusing(k.node) # {}
      /\ (\E l \in again : status[l] = "none") \/ ~(asked \subseteq person)
      /\ File(again)
      /\ person' = person \cup asked
      /\ UNCHANGED <<outcome, planned, prior, content, read, built, approval, spent, changes>>

RefileStale(k) ==
  /\ status[k] \in {"running", "done", "failed"} /\ Latest(k) /\ Stale(k)
  /\ Again(k) \in Key
  /\ File({Again(k)})
  /\ UNCHANGED <<outcome, planned, prior, content, read, built, approval, spent, person, changes>>

\* A source changes, or a question is answered.
ChangeSource(s) ==
  /\ changes < MaxChanges
  /\ \E d \in Contents[s] \ {content[s], None} : content' = [content EXCEPT ![s] = d]
  /\ changes' = changes + 1
  /\ UNCHANGED <<status, outcome, planned, prior, read, built, verdict, approval, spent, person>>

\* A person approves what a node wrote, where the start of a run asks for it.
Approve(n) ==
  /\ \E m \in Node : \E r \in Requires[m] : r.kind = "human_approved" /\ r.artefact = n
  /\ content[n] \notin {None, approval[n]}
  /\ approval' = [approval EXCEPT ![n] = content[n]]
  /\ UNCHANGED <<status, outcome, planned, prior, content, read, built, verdict, spent, person, changes>>

Engine ==
  \/ \E k \in Key : \/ Start(k) \/ Finish(k) \/ Fail(k) \/ HandOff(k)
                    \/ SendBack(k) \/ SendToPerson(k) \/ RefuseEntry(k) \/ RefileStale(k)
  \/ \E g \in DOMAIN EntryGate : EvaluateGate(g)

People == (\E s \in Source : ChangeSource(s)) \/ (\E n \in Node : Approve(n))

Next == Engine \/ People

Spec == Init /\ [][Next]_vars

\* The engine goes on while there is something it can do, and a run that
\* started ends; nobody is sure to change a source or to approve.
FairSpec == Spec /\ WF_vars(Engine)

-----------------------------------------------------------------------------
(***************************************************************************)
(* What the loops promise.                                                 *)
(***************************************************************************)
Started(k) == status[k] \in {"running", "done", "failed"}

\* A run that started, and that read what the chain still holds, was let in
\* on contents that pass each of its entry gates: a verdict over what a
\* source or a producer's output used to be lets nobody in (plan_entry,
\* ASOP.md 3.8).
NothingUnreadyIsTrusted ==
  \A k \in Key : Started(k) /\ ~Stale(k) =>
    \A g \in GatesOf(k.node) : \A a \in EntryGate[g].over : content[a] \in Passes[g]

\* Findings go to the attempt after the one they are about: a run re-filed
\* with findings got them from a run that was built on the attempt before
\* it, and whose outcome names its procedure (plan_rework, ASOP.md 3.9).
FindingsAreFresh ==
  \A k \in Key : prior[k] # None =>
    /\ \E u \in built[prior[k]] : k = Again(u)
    /\ outcome[prior[k]] # None /\ Edge[outcome[prior[k]]].to = Asop[k.node]

\* What waits for a person, or is where the bound on attempts stops it.
WithPerson(n) ==
  \E k \in Key : k.node = n /\ Latest(k) /\
    (k \in person \/ (status[k] = "filed" /\ ~RequiresSatisfied(n)))
AtBound(n) == MaxAttempt \in Filed(n)

\* The latest run of its filer handed off to a node that was ahead of it, by
\* a re-filing of its own, and had run without it: the key was taken.
HandedToTaken(n) ==
  \E k \in Key : /\ k.node = n /\ Latest(k) /\ Started(k)
                 /\ \E u \in planned \ built[k] :
                      u.node = Filer[n] /\ Latest(u) /\ u.attempt <= k.attempt

\* A run that sent its work back was filed again, unless it or a run it was
\* built on is with a person, or met a key that was taken.
SentBackIsForward ==
  \A k \in Key :
    Latest(k) /\ status[k] = "done" /\ outcome[k] # None /\ k \notin person
    => \/ HandedToTaken(k.node)
       \/ \E n \in {u.node : u \in built[k]} : WithPerson(n) \/ AtBound(n) \/ HandedToTaken(n)

\* In the end the owner's next attempt came forward through every hand-off
\* between them (plan_rework, plan_completion, ASOP.md 3.9).
SentBackComesForward == <>[]SentBackIsForward

\* Every filed run ran on what the chain holds, unless it or a run it waits
\* for is with a person.
RunsAreCurrent ==
  \A k \in Key :
    Latest(k) /\ ~(Started(k) /\ read[k] = Seen(Lineage(k.node)))
    => \/ AtBound(k.node)
       \/ status[k] = "filed" /\ \E n \in Line(k.node) : WithPerson(n) \/ AtBound(n)

\* In the end changes reached every run, the answers that came late included
\* (stale_runs, ASOP.md 5.7).
ChangesReachTheRuns == <>[]RunsAreCurrent
=============================================================================
