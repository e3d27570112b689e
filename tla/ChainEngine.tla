---------------------------- MODULE ChainEngine ----------------------------
(***************************************************************************)
(* One chain of runs, from its first run to its last, as an engine drives  *)
(* it with the planner of Handoffs (ASOP.md 3.7, Engine duties).           *)
(*                                                                         *)
(* The engine is one process.  It records what a finished run files in two *)
(* writes, the filed runs and then the parent's decisions, and may stop    *)
(* between them; on restart it plans the run again.  The rest of the world *)
(* moves freely between its steps: runs finish or fail in any order, an    *)
(* operator activates another version, a stale run is re-attempted.        *)
(*                                                                         *)
(* Start conditions (requires, entry gates, ordered fan-outs) only delay a *)
(* run, so here a filed run may finish at any time; FanOut models the      *)
(* order.                                                                  *)
(***************************************************************************)
EXTENDS Handoffs

CONSTANTS
  Starters,       \* the procedures the chain may be started with
  StartInputs,    \* [Starters -> the inputs the first run is given]
  InputsOf,       \* [Asop -> the inputs a re-attempt of its run may be given]
  ResultsOf,      \* [Asop -> the results its runs may finish with]
  Activations     \* the maps procedure -> ACTIVE version (0: none) that occur

\* An output's items are subjects; the run that starts the chain is given what
\* its version declares.
ASSUME ChainEngineAssumptions ==
  /\ \A a \in Starters : a \in Asop /\ Chain \in SubjectsOf(a)
  /\ 1 \in Attempt
  /\ \A a \in Asop : \A res \in ResultsOf[a] : DOMAIN res.out.items \subseteq Subject
  /\ \A act \in Activations : \A a \in Starters :
       DOMAIN StartInputs[a] = DeclaredInputs[a][act[a]]

VARIABLES
  status,     \* [Key -> "none" | "open" | "done" | "failed"]
  inputs,     \* [Key -> the inputs the run was filed with]
  version,    \* [Key -> the version the run was filed at]
  result,     \* [Key -> the result of a run that is done]
  recorded,   \* the done runs whose hand-off decisions are ledgered
  ledger,     \* [Key -> the decisions ledgered with the run]
  active,     \* which version of each procedure is ACTIVE now
  keepsInputs \* whether this engine keeps the inputs it filed runs with

vars == <<status, inputs, version, result, recorded, ledger, active, keepsInputs>>

-----------------------------------------------------------------------------
Filed == {k \in Key : status[k] # "none"}
Done == {k \in Key : status[k] = "done"}
Failed == {k \in Key : status[k] = "failed"}

\* What the planner is told was filed before: natural key -> inputs, or the bare
\* keys from an engine that does not keep inputs.
Existing == [k \in Filed |-> IF keepsInputs THEN {inputs[k]} ELSE {}]

\* A later attempt of the same run was filed: this one's joins are retired.
Superseded(k) == \E later \in Filed : /\ later.asop = k.asop /\ later.subject = k.subject
                                      /\ later.attempt > k.attempt

JoinsOf(asop) == {h \in HandoffsOf(asop) : Decl[h].after # {}}

StateOfJoin(k, j) == JoinState(Decl[j].after, ledger[k], Done, Failed)

\* Join j of run k fired, and no decision about filing it is recorded yet.
Waiting(k, j) ==
  /\ Wait(j) \in ledger[k]
  /\ \A d \in ledger[k] : d.handoff = j => ~Filing(d) /\ ~Blocking(d)

FilesOf(decisions) == {d \in decisions : d.action = "file"}

\* File the runs of some `file` decisions.
FileRuns(files) ==
  LET keys == {d.key : d \in files}
      of(k) == CHOOSE d \in files : d.key = k
  IN  /\ status' = [k \in Key |-> IF k \in keys THEN "open" ELSE status[k]]
      /\ inputs' = [k \in Key |-> IF k \in keys THEN of(k).inputs ELSE inputs[k]]
      /\ version' = [k \in Key |-> IF k \in keys THEN of(k).version ELSE version[k]]

Plan(k) == PlanHandoffs(k.asop, k.attempt, inputs[k], result[k], active, Existing)

JoinPlan(k, j) == PlanJoin(j, k.attempt, inputs[k], result[k], active, Existing)

-----------------------------------------------------------------------------
Init ==
  /\ active \in Activations
  /\ keepsInputs \in BOOLEAN
  /\ \E start \in Starters :
       /\ status = [k \in Key |-> IF k = NaturalKey(start, Chain, 1) THEN "open" ELSE "none"]
       /\ inputs = [k \in Key |-> StartInputs[start]]
  /\ version = [k \in Key |-> active[k.asop]]
  /\ result = [k \in Key |-> None]
  /\ recorded = {}
  /\ ledger = [k \in Key |-> {}]

\* A run finishes done: at first, or a failed one re-run to done under its key.
Finish(k) ==
  /\ status[k] \in {"open", "failed"}
  /\ \E res \in ResultsOf[k.asop] : result' = [result EXCEPT ![k] = res]
  /\ status' = [status EXCEPT ![k] = "done"]
  /\ UNCHANGED <<inputs, version, recorded, ledger, active, keepsInputs>>

\* A run ends without done.
Fail(k) ==
  /\ status[k] = "open"
  /\ status' = [status EXCEPT ![k] = "failed"]
  /\ UNCHANGED <<inputs, version, result, recorded, ledger, active, keepsInputs>>

\* The engine plans a done run, files its runs and ledgers the decisions.
RecordHandoffs(k) ==
  /\ status[k] = "done" /\ k \notin recorded
  /\ FileRuns(FilesOf(Plan(k)))
  /\ ledger' = [ledger EXCEPT ![k] = Plan(k)]
  /\ recorded' = recorded \cup {k}
  /\ UNCHANGED <<result, active, keepsInputs>>

\* The engine stops while it writes: some of the runs are filed, and the
\* decisions are not ledgered.
StopWhileFiling(k) ==
  /\ status[k] = "done" /\ k \notin recorded
  /\ \E files \in SUBSET FilesOf(Plan(k)) : files # {} /\ FileRuns(files)
  /\ UNCHANGED <<result, recorded, ledger, active, keepsInputs>>

\* A slip: the joins of a run that was re-attempted are filed as well.
FileJoinOfRetired(k, j) ==
  /\ Waiting(k, j) /\ StateOfJoin(k, j) = "ready"
  /\ FileRuns(FilesOf(JoinPlan(k, j)))
  /\ ledger' = [ledger EXCEPT ![k] = @ \cup JoinPlan(k, j)]
  /\ UNCHANGED <<result, recorded, active, keepsInputs>>

\* A run finished somewhere: the engine asks again about a waiting join, and
\* files it when it is ready.
FileJoin(k, j) ==
  /\ Waiting(k, j) /\ ~Superseded(k)
  /\ StateOfJoin(k, j) = "ready"
  /\ FileRuns(FilesOf(JoinPlan(k, j)))
  /\ ledger' = [ledger EXCEPT ![k] = @ \cup JoinPlan(k, j)]
  /\ UNCHANGED <<result, recorded, active, keepsInputs>>

\* The engine stops after it filed the join's run, before it ledgered that.
StopWhileJoining(k, j) ==
  /\ Waiting(k, j) /\ ~Superseded(k)
  /\ StateOfJoin(k, j) = "ready"
  /\ FilesOf(JoinPlan(k, j)) # {}
  /\ FileRuns(FilesOf(JoinPlan(k, j)))
  /\ UNCHANGED <<result, recorded, ledger, active, keepsInputs>>

\* An ended run is stale: it is re-filed as its next attempt, at the same
\* version, with fresh values of the same inputs.
Reattempt(k) ==
  LET next == [k EXCEPT !.attempt = @ + 1]
  IN  /\ status[k] \in {"done", "failed"}
      /\ next \in Key /\ status[next] = "none"
      /\ \E in \in InputsOf[k.asop] : /\ DOMAIN in = DOMAIN inputs[k]
                                      /\ inputs' = [inputs EXCEPT ![next] = in]
      /\ status' = [status EXCEPT ![next] = "open"]
      /\ version' = [version EXCEPT ![next] = version[k]]
      /\ UNCHANGED <<result, recorded, ledger, active, keepsInputs>>

\* An operator activates other versions.
Activate ==
  /\ active' \in Activations \ {active}
  /\ UNCHANGED <<status, inputs, version, result, recorded, ledger, keepsInputs>>

Next ==
  \/ \E k \in Key : \/ Finish(k) \/ Fail(k) \/ Reattempt(k)
                    \/ RecordHandoffs(k) \/ StopWhileFiling(k)
                    \/ \E j \in JoinsOf(k.asop) : FileJoin(k, j) \/ StopWhileJoining(k, j)
  \/ Activate

Spec == Init /\ [][Next]_vars

\* Every open run ends, and the engine gets to what it has to do: it plans
\* every done run, and asks about its waiting joins whenever a run finishes.
\* Nobody has to re-run what failed.
Fairness ==
  \A k \in Key :
    /\ WF_vars(status[k] = "open" /\ (Finish(k) \/ Fail(k)))
    /\ WF_vars(RecordHandoffs(k))
    /\ \A j \in JoinsOf(k.asop) : WF_vars(FileJoin(k, j))

FairSpec == Spec /\ Fairness

-----------------------------------------------------------------------------
(* Joins, as FanIn sees them. *)

JoinsOfRuns == UNION {{[run |-> k, join |-> j] : j \in JoinsOf(k.asop)} : k \in Key}

JoinStage(k, j) ==
  IF Wait(j) \notin ledger[k] THEN "idle" ELSE IF Waiting(k, j) THEN "waiting" ELSE "decided"

-----------------------------------------------------------------------------
(* Properties. *)

\* The state is made of runs, results and decisions of the shapes the planner
\* produces; only runs that are done have decisions.
TypeOK ==
  /\ status \in [Key -> {"none", "open", "done", "failed"}]
  /\ DOMAIN inputs = Key
  /\ DOMAIN version = Key
  /\ DOMAIN result = Key
  /\ recorded \subseteq Done
  /\ DOMAIN ledger = Key
  /\ \A k \in Key \ recorded : ledger[k] = {}
  /\ active \in Activations
  /\ keepsInputs \in BOOLEAN

\* The subjects S can be run in an order that respects their dependencies.
Orderable(S, out) ==
  \E rank \in [S -> 1 .. Cardinality(S)] :
    \A s \in S : \A d \in out.items[s].deps : d \in S /\ rank[d] < rank[s]

\* What ASOP.md 3.7 promises hand-off h of the done run k files: the subjects
\* its output yields and a person approved, or those of them that were asked
\* for, when some were and they can be run in order.
Promised(k, h) ==
  LET out      == result[k].out
      approval == result[k].approval.subset
      yielded  == {s \in DOMAIN out.items :
                     /\ h \in out.items[s].keptBy
                     /\ Decl[h].approvedSubset => approval = None \/ s \in approval}
      asked    == {s \in yielded : \E req \in result[k].requests :
                     req.handoff = h /\ req.to = Decl[h].to /\ req.subject = s}
  IN  IF ~Decl[h].many THEN {Chain}
      ELSE IF asked # {} /\ (Decl[h].ordered => Orderable(asked, out)) THEN asked
      ELSE yielded

\* What join j of run k waits on: the runs its hand-offs promised, the joins
\* among them, and refusals, which never finish.
Awaited(k, j) ==
  LET fired == {h \in Decl[j].after : Fires(h, result[k].outcome)}
  IN  (UNION {{NaturalKey(Decl[h].to, s, k.attempt) : s \in Promised(k, h)} : h \in fired})
      \cup {[run |-> k, join |-> i] : i \in {h \in fired : Decl[h].after # {}}}
      \cup {d \in ledger[k] : Blocking(d) /\ d.handoff \in Decl[j].after}

Joins == INSTANCE FanIn WITH
  Join     <- JoinsOfRuns,
  finished <- Done \cup {x \in JoinsOfRuns : JoinStage(x.run, x.join) = "decided"},
  stage    <- [x \in JoinsOfRuns |-> JoinStage(x.run, x.join)],
  awaits   <- [x \in JoinsOfRuns |->
                 IF JoinStage(x.run, x.join) = "idle" THEN {} ELSE Awaited(x.run, x.join)],
  retired  <- {x \in JoinsOfRuns : Superseded(x.run)}

\* The engine, its planner and its ledger implement FanIn: a join is decided
\* once, on everything its procedure declared and its run produced, and never
\* for a run that was re-attempted; a stop, a repeated plan, a re-attempt or
\* an activation never changes what it waits on.
JoinsAreFanIns == Joins!Spec

\* Nothing is left between a join and its filing: once all it waits on has
\* finished it is filed or refused, or its run is re-attempted.
ReadyJoinsAreDecided == Joins!ReadyIsDecided

\* A join is filed only when every unit its hand-offs promised has a run that
\* is done: neither a refusal, a failed run nor a fan-out cut short by a restart
\* is ever read as an empty or a finished result.  Where the engine keeps
\* inputs, each of these runs was given the ones this parent computes for it,
\* and a run of another path is not taken for one.
JoinSeesWholeFanOut ==
  \A k \in recorded : \A j \in JoinsOf(k.asop) :
    (\E d \in ledger[k] : Filing(d) /\ d.handoff = j) =>
      \A h \in Decl[j].after : Fires(h, result[k].outcome) =>
        \A s \in Promised(k, h) :
          LET key == NaturalKey(Decl[h].to, s, k.attempt)
          IN  /\ key \in Done
              /\ keepsInputs => inputs[key] = UnitInputs(h, s, inputs[k], result[k])

\* The recorded decisions of a hand-off that is no join account for exactly
\* what its procedure declares, unless a blocking refusal says otherwise: no
\* request widens, cancels or silently narrows it, an undeclared outcome files
\* nothing, and a plan repeated after a stop drops no run.
FiledExactlyPromised ==
  \A k \in recorded : \A h \in HandoffsOf(k.asop) :
    LET filed    == {d.key : d \in {e \in ledger[k] : Filing(e) /\ e.handoff = h}}
        promised == {NaturalKey(Decl[h].to, s, k.attempt) : s \in Promised(k, h)}
        fired    == OutcomeAccepted(k.asop, result[k].outcome) /\ Fires(h, result[k].outcome)
        refused  == \E d \in ledger[k] : Blocking(d) /\ d.handoff = h
    IN  Decl[h].after = {} =>
          IF ~fired THEN filed = {}
          ELSE IF refused THEN filed \subseteq promised
          ELSE filed = promised

\* A run that a hand-off recorded as filed has, whoever planned it again since,
\* exactly the inputs that hand-off computes; where the engine keeps inputs, so
\* has a run that was found already filed: no predecessor relies, unrecorded, on
\* a run that was given something else.  From bare keys a duplicate says only
\* that the run is there (_filed_map).
HandedInputsAgree ==
  \A k \in recorded : \A d \in ledger[k] : Filing(d) =>
    /\ d.key \in Filed
    /\ (keepsInputs \/ d.action = "file") =>
         inputs[d.key] = UnitInputs(d.handoff, d.key.subject, inputs[k], result[k])

\* A run has exactly the inputs that the version it was filed at declares,
\* however activations move while plans are stopped, repeated or delayed.
RunInputsDeclared ==
  \A k \in Filed : DOMAIN inputs[k] = DeclaredInputs[k.asop][version[k]]

\* Filing is idempotent: nothing a later plan, join or restart does changes
\* what a filed run was given, or takes a done run back.
FilingIsFinal ==
  [][\A k \in Filed : /\ status'[k] # "none"
                      /\ inputs'[k] = inputs[k] /\ version'[k] = version[k]
                      /\ k \in Done => status'[k] = "done" /\ result'[k] = result[k]]_vars

\* Once a waiting join is ready no step of anyone makes it wait or blocks it
\* again, so the engine may file it any time after it looked.
ReadyIsStable ==
  [][\A k \in recorded : \A j \in JoinsOf(k.asop) :
       Waiting(k, j) /\ StateOfJoin(k, j) = "ready" => StateOfJoin(k, j)' = "ready"]_vars

\* Once the runs a plan filed or found filed have all ended, one of the joins
\* that wait in it may be filed, or is blocked and shown to a person: joins over
\* joins, some of them found already filed, some of them over what was refused
\* or failed, never wait for each other (join_state).
JoinsCanBeDecided ==
  \A k \in recorded :
    /\ \E j \in JoinsOf(k.asop) : Waiting(k, j)
    /\ \A d \in ledger[k] : Filing(d) => d.key \in Done \cup Failed
    => \E j \in JoinsOf(k.asop) : Waiting(k, j) /\ StateOfJoin(k, j) \in {"ready", "blocked"}

\* A waiting join is eventually decided, or its parent is re-attempted, or
\* some waiting join of its parent is blocked, which the engine shows to a
\* person.  An empty fan-out does not leave it waiting for runs that never come.
WaitingJoinSettles ==
  \A k \in Key : \A j \in JoinsOf(k.asop) :
    Waiting(k, j) ~> \/ ~Waiting(k, j)
                     \/ Superseded(k)
                     \/ \E i \in JoinsOf(k.asop) : Waiting(k, i) /\ StateOfJoin(k, i) = "blocked"
=============================================================================
