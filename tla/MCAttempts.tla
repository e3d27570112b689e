----------------------------- MODULE MCAttempts -----------------------------
(***************************************************************************)
(* ChainEngine over two attempts.  A chain started with intake fans out    *)
(* over one subject and joins, as in MCJoin, and intake goes stale.  A      *)
(* chain started with survey has several predecessors for one chain run:   *)
(* the runs of sample each file index for the chain and then, when that    *)
(* run is done, notify.  What they hand on agrees or conflicts, and index  *)
(* is activated at a version that declares other inputs, or at none, while *)
(* they run.                                                               *)
(***************************************************************************)
EXTENDS MCJoin

AllAsop == (MCAsop \ {"report"}) \cup {"survey", "sample", "index", "notify"}
AllHandoffId == (MCHandoffId \ {"tell"}) \cup {"take", "note", "told"}

Always(of, to, position, after) ==
  [One(of, to, position, after) EXCEPT !.onOutcomes = {}, !.hi = None, !.inputs = [n \in {} |-> None]]

AllDecl ==
  MCDecl
  @@ "take" :> [Always("survey", "sample", 1, {}) EXCEPT !.many = TRUE]
  @@ "note" :> [Always("sample", "index", 1, {}) EXCEPT
                  !.inputs = ("entry" :> [kind |-> "output"]), !.hi = 3]
  @@ "told" :> Always("sample", "notify", 2, {"note"})

AllOutcomes == MCOutcomes @@ [a \in AllAsop |-> {}]
AllDeclaredInputs ==
  MCDeclaredInputs @@ "index" :> <<{"entry"}, {"entry", "page"}>> @@ [a \in AllAsop |-> <<{}>>]

Nothing == [n \in {} |-> None]
AllStarters == {"intake", "survey"}
AllStartInputs == "intake" :> MCStartInputs["intake"] @@ "survey" :> Nothing
AllInputsOf == MCInputsOf @@ [a \in AllAsop |-> {}]

Wrote(items, value) ==
  [outcome |-> None, requests |-> {}, approval |-> [digest |-> None, subset |-> None],
   out |-> [shaped |-> TRUE, items |-> items, digest |-> "d1", value |-> value]]
Sampled == [keptBy |-> {"take"}, value |-> Missing, deps |-> {}]

AllResultsOf ==
  "intake" :> {Fetched("s1" :> Doc("v1"), {}), Fetched(NoItems, {})}
  @@ "survey" :> {Wrote([s \in MCSubject |-> Sampled], Missing)}
  @@ "sample" :> {Wrote(NoItems, v) : v \in {"v1", "v2"}}
  @@ [a \in AllAsop |-> {Wrote(NoItems, Missing)}]

AllActivations == {[[a \in AllAsop |-> 1] EXCEPT !["index"] = v] : v \in 1 .. 2}
=============================================================================
