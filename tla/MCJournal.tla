----------------------------- MODULE MCJournal -----------------------------
(***************************************************************************)
(* A run for Journal: a deterministic ladder whose check may fail to       *)
(* judge, then two steps that a person answers, one with a default.        *)
(***************************************************************************)
EXTENDS Journal

MCAfter == <<{}, {1}, {2}>>
MCGate ==
  <<[kind |-> "deterministic", rungs |-> 2, cannotExit |-> 2, minCases |-> 1,
     onTimeout |-> "none"],
    [kind |-> "human", rungs |-> 1, cannotExit |-> 0, minCases |-> 0,
     onTimeout |-> "escalate"],
    [kind |-> "human", rungs |-> 1, cannotExit |-> 0, minCases |-> 0,
     onTimeout |-> "proceed_on_default"]>>

Ran(stage, exit, cases) == [stage |-> stage, exit |-> exit, cases |-> cases, verdict |-> "none"]
Says(verdict) == [stage |-> 1, exit |-> 0, cases |-> 1, verdict |-> verdict]

\* Rungs that pass, fail, cannot judge or ran nothing; a person's two answers.
MCAttestation ==
  {Ran(1, 0, 1), Ran(2, 0, 1), Ran(1, 1, 1), Ran(2, 1, 1), Ran(1, 2, 1), Ran(2, 0, 0),
   Says("passed"), Says("failed")}
=============================================================================
