------------------------------- MODULE FanIn -------------------------------
(***************************************************************************)
(* What ASOP.md 3.7 promises of joins, said without plans, keys or ledgers:*)
(* a join that fired waits on a set of things, and is decided once, when   *)
(* everything it waits on has finished and its run was not re-attempted.   *)
(* A refusal counts as something that never finishes.  ChainEngine         *)
(* implements this module.                                                 *)
(***************************************************************************)

CONSTANT Join    \* the joins of all runs

VARIABLES
  finished,   \* what has finished: runs that are done, joins that were decided
  stage,      \* [Join -> "idle" | "waiting" | "decided"]
  awaits,     \* [Join -> what the join waits on]
  retired     \* the joins of runs that were re-attempted

vars == <<finished, stage, awaits, retired>>

Init ==
  /\ finished = {}
  /\ stage = [j \in Join |-> "idle"]
  /\ awaits = [j \in Join |-> {}]
  /\ retired \subseteq Join

\* The join's run finished: it fires, and starts to wait.
Begin(j) == stage[j] = "idle" /\ stage'[j] = "waiting"

\* A join it waits on was refused: that is one more thing to wait on.
Learn(j) ==
  /\ stage[j] = "waiting" /\ stage'[j] = "waiting"
  /\ awaits[j] \subseteq awaits'[j]

Decide(j) ==
  /\ stage[j] = "waiting" /\ awaits[j] \subseteq finished /\ j \notin retired
  /\ stage'[j] = "decided" /\ awaits'[j] = awaits[j]

Keep(j) == stage'[j] = stage[j] /\ awaits'[j] = awaits[j]

\* One step may fire all the joins of a run at once.
Next ==
  /\ finished \subseteq finished'
  /\ retired \subseteq retired'
  /\ \A j \in Join : Keep(j) \/ Begin(j) \/ Learn(j) \/ Decide(j)

Spec == Init /\ [][Next]_vars

\* A join that could be decided is decided, unless its run is re-attempted.
ReadyIsDecided ==
  \A j \in Join :
    stage[j] = "waiting" /\ awaits[j] \subseteq finished
      ~> stage[j] = "decided" \/ j \in retired

FairSpec == Spec /\ ReadyIsDecided
=============================================================================
