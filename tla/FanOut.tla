------------------------------- MODULE FanOut -------------------------------
(***************************************************************************)
(* The runs of one ordered, bounded fan-out (ASOP.md 3.7, generated        *)
(* plans): a finished run's plan is fanned out by the hand-off Fan, and    *)
(* the engine starts what fanout_startable lets it start, in waves, while  *)
(* runs finish, fail and are re-run under their own key.                   *)
(***************************************************************************)
EXTENDS Handoffs

CONSTANTS
  Fan,            \* the `many` hand-off
  Results,        \* the results its run may have finished with
  RunInputs,      \* the inputs that run was given
  ActiveVersions, \* procedure -> ACTIVE version
  StopsAfter      \* the sets of subjects after whose filing the engine may stop

\* Fan is a fan-out; the items of its output have a subject and a place each.
ASSUME FanOutAssumptions ==
  /\ Fan \in HandoffId /\ Decl[Fan].many
  /\ Decl[Fan].concurrency # None => Decl[Fan].concurrency \in Nat \ {0}
  /\ \A res \in Results : DOMAIN res.out.items \subseteq Subject
  /\ \A s, t \in Subject : OutputOrder[s] = OutputOrder[t] => s = t

VARIABLES
  result,     \* the result of the run that fans out
  existing,   \* what the planner is told was filed before: natural key -> inputs, if kept
  planned,    \* TRUE once its decisions are recorded
  decisions,  \* those decisions
  started,    \* keys whose run has started: running, done or ended otherwise
  running,    \* keys whose run is running now
  done        \* keys whose run is done

vars == <<result, existing, planned, decisions, started, running, done>>

FanKey(s) == NaturalKey(Decl[Fan].to, s, 1)

Plan == PlanHandoffs(Decl[Fan].of, 1, RunInputs, result, ActiveVersions, existing)

FileDecisions == {d \in decisions : d.action = "file" /\ d.handoff = Fan}

Startable == FanoutStartable(Fan, decisions, done, started)

Ended == started \ (running \cup done)

Init ==
  /\ result \in Results
  /\ existing = [k \in {} |-> None]
  /\ planned = FALSE /\ decisions = {}
  /\ started = {} /\ running = {} /\ done = {}

\* The engine plans the done run, files its runs and records the decisions.
RecordHandoffs ==
  /\ ~planned
  /\ planned' = TRUE
  /\ decisions' = Plan
  /\ UNCHANGED <<result, existing, started, running, done>>

\* It stops while it files: the runs of the subjects in `some` are filed, the
\* decisions are not recorded, and it will plan the run again, from the inputs
\* it kept or from bare keys.
StopWhileFiling(some) ==
  LET files == {d \in Plan : d.action = "file" /\ d.key.subject \in some}
  IN  /\ ~planned /\ DOMAIN existing = {}
      /\ files # {}
      /\ \E kept \in {{}, files} :
           existing' = [k \in {d.key : d \in files} |->
                          {d.inputs : d \in {e \in kept : e.key = k}}]
      /\ UNCHANGED <<result, planned, decisions, started, running, done>>

\* The engine starts runs it was told may start, all of them or only some.
StartRuns(keys) ==
  /\ keys # {} /\ keys \subseteq Startable
  /\ started' = started \cup keys
  /\ running' = running \cup keys
  /\ UNCHANGED <<result, existing, planned, decisions, done>>

Finish(k) ==
  /\ k \in running
  /\ running' = running \ {k}
  /\ done' = done \cup {k}
  /\ UNCHANGED <<result, existing, planned, decisions, started>>

Fail(k) ==
  /\ k \in running
  /\ running' = running \ {k}
  /\ UNCHANGED <<result, existing, planned, decisions, started, done>>

\* A failed run is re-run under its own key.
Rerun(k) ==
  /\ k \in Ended
  /\ running' = running \cup {k}
  /\ UNCHANGED <<result, existing, planned, decisions, started, done>>

Next ==
  \/ RecordHandoffs
  \/ \E some \in StopsAfter : StopWhileFiling(some)
  \/ \E keys \in SUBSET Startable : StartRuns(keys)
  \/ \E k \in started : Finish(k) \/ Fail(k) \/ Rerun(k)

Spec == Init /\ [][Next]_vars

\* The engine plans the run and starts what may start, and no run goes on for ever.
FairSpec ==
  /\ Spec
  /\ WF_vars(RecordHandoffs)
  /\ WF_vars(\E keys \in SUBSET Startable : StartRuns(keys))
  /\ \A s \in Subject : WF_vars(Finish(FanKey(s)) \/ Fail(FanKey(s)))

-----------------------------------------------------------------------------
(* Properties. *)

\* Runs that started were filed; a run is running or done only if it started.
TypeOK ==
  /\ planned \in BOOLEAN
  /\ ~planned => decisions = {}
  /\ started \subseteq {d.key : d \in FileDecisions}
  /\ running \subseteq started
  /\ done \subseteq started \ running

\* No run starts before every subject its item lists is done, in whatever
\* waves the engine starts them and whichever fail and are re-run.
DependenciesFirst ==
  \A k \in started : Decl[Fan].ordered =>
    \A s \in result.out.items[k.subject].deps : FanKey(s) \in done

\* The runs that run at once never exceed the declared concurrency, also when
\* failed runs are re-run while others have started since.
WithinConcurrency ==
  Decl[Fan].concurrency # None => Cardinality(running) <= Decl[Fan].concurrency

\* Only subjects in an approval of exactly the output the run wrote are filed.
OnlyApprovedStart ==
  Decl[Fan].approvedSubset =>
    \A d \in decisions : Filing(d) /\ d.handoff = Fan =>
      /\ result.approval.digest = result.out.digest
      /\ result.approval.subset # None => d.key.subject \in result.approval.subset

\* Nothing runs, nothing may start, a run the fan-out relies on is not done,
\* and the join over it, which would reach a person, is not blocked.
StalledSilently ==
  /\ planned /\ running = {} /\ Startable = {}
  /\ ~(WaitedKeys({Fan}, decisions) \subseteq done)
  /\ JoinState({Fan}, decisions, done, Ended) # "blocked"

\* The depth-first search tells, of whatever units a request or an approval
\* leaves, exactly whether their dependencies can be kept (_order_problem): it
\* misses no cycle, and takes no two ways to one unit for a cycle.
OrderSearchIsExact ==
  ~planned => \A units \in SUBSET DOMAIN result.out.items :
    OrderSearch(Fan, units, result.out) <=> OrderProblem(Fan, units, result.out)

Replayed == DOMAIN existing # {}

\* A fan-out that was planned once never stops silently.
NoSilentStall == ~Replayed => ~StalledSilently

\* A join counts the runs a replayed plan finds filed: neither does a fan-out
\* whose plan was made again after a stop (join.yaml: it "would deadlock the
\* next join silently").
NoSilentStallAfterStop == ~StalledSilently

\* The docstring of fanout_startable: a run may start when it has not started,
\* its dependencies are done and starting it keeps the RUNNING runs within the
\* bound.  So when a run is due and a slot is free, some run may start.
FreeSlotIsUsed ==
  (/\ \E d \in FileDecisions : d.key \notin started /\ d.dependsOn \subseteq done
   /\ Decl[Fan].concurrency # None => Cardinality(running) < Decl[Fan].concurrency)
    => Startable # {}

\* Every fan-out that was planned once comes to an end: the join over it becomes
\* ready, or it is blocked because a run failed or a unit was refused.
FanOutSettles ==
  <>(planned /\ (Replayed \/ JoinState({Fan}, decisions, done, Ended) \in {"ready", "blocked"}))
=============================================================================
