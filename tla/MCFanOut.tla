------------------------------ MODULE MCFanOut ------------------------------
(***************************************************************************)
(* FanOut of a generated plan: every dependency graph over three tasks     *)
(* (512, with self-loops and cycles), with an approval of all of them, of  *)
(* two of them, or of an earlier output, with requests that narrow it or   *)
(* none, and with one task that lacks the value its run must be given.     *)
(***************************************************************************)
EXTENDS FanOut, TLC

CONSTANT Concurrency

MCAsop == {"plan", "build"}
MCHandoffId == {"tasks"}
MCSubject == {"t1", "t2", "t3"}
MCDecl == "tasks" :>
  [of |-> "plan", to |-> "build", position |-> 1, many |-> TRUE, after |-> {},
   onOutcomes |-> {}, lo |-> 1, hi |-> None, approvedSubset |-> TRUE, ordered |-> TRUE,
   concurrency |-> Concurrency, inputs |-> ("task" :> [kind |-> "item"])]
MCOutcomes == [a \in MCAsop |-> {}]
MCDeclaredInputs == [a \in MCAsop |-> <<IF a = "build" THEN {"task"} ELSE {}>>]
MCOutputOrder == "t1" :> 1 @@ "t2" :> 2 @@ "t3" :> 3
MCRunInputs == [n \in {} |-> None]
MCActiveVersions == [a \in MCAsop |-> 1]

Plans == [MCSubject -> SUBSET MCSubject]
Approvals == { [digest |-> "d1", subset |-> None],
               [digest |-> "d1", subset |-> {"t1", "t2"}],
               [digest |-> "d0", subset |-> None] }
Requests == { {}, {[handoff |-> "tasks", to |-> "build", subject |-> s] : s \in {"t2", "t3"}} }

PlanResult(deps, values, approval, requests) ==
  [outcome |-> None, approval |-> approval, requests |-> requests,
   out |-> [shaped |-> TRUE, digest |-> "d1", value |-> Missing,
            items |-> [s \in MCSubject |-> [keptBy |-> {"tasks"}, value |-> values[s],
                                            deps |-> deps[s]]]]]
AllValues == [s \in MCSubject |-> "v1"]
MCResults ==
  {PlanResult(p, AllValues, a, r) : p \in Plans, a \in Approvals, r \in Requests}
  \cup {PlanResult(p, [AllValues EXCEPT !["t1"] = Missing], a, {}) : p \in Plans,
          a \in {[digest |-> "d1", subset |-> None]}}

\* A plan whose tasks are independent, and one with a chain of two.
SmallResults ==
  {PlanResult(p, AllValues, [digest |-> "d1", subset |-> None], {}) :
     p \in {[s \in MCSubject |-> {}], [s \in MCSubject |-> IF s = "t2" THEN {"t1"} ELSE {}]}}
NoStops == {}
AnyStop == SUBSET MCSubject \ {{}}
=============================================================================
