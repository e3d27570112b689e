------------------------------- MODULE MCJoin -------------------------------
(***************************************************************************)
(* ChainEngine on a fan-out with a join and a join after that join:        *)
(* intake files extract once per item, then consolidate when those runs    *)
(* are done, then report when consolidate is done.                         *)
(***************************************************************************)
EXTENDS ChainEngine, TLC

MCAsop == {"intake", "extract", "consolidate", "report"}
MCHandoffId == {"each", "merge", "tell"}
MCSubject == {"s1", "s2"}

Input(name) == [kind |-> "input", name |-> name]
Item == [kind |-> "item"]

One(of, to, position, after) ==
  [of |-> of, to |-> to, position |-> position, many |-> FALSE, after |-> after,
   onOutcomes |-> {"FETCHED"}, lo |-> 1, hi |-> 2, approvedSubset |-> FALSE,
   ordered |-> FALSE, concurrency |-> None, inputs |-> ("root" :> Input("root"))]

MCDecl ==
  "each"  :> [One("intake", "extract", 1, {}) EXCEPT !.many = TRUE,
                !.inputs = ("root" :> Input("root") @@ "doc" :> Item)]
  @@ "merge" :> One("intake", "consolidate", 2, {"each"})
  @@ "tell"  :> One("intake", "report", 3, {"merge"})

MCOutcomes == "intake" :> {"FETCHED", "EMPTY"} @@ [a \in MCAsop |-> {}]
MCDeclaredInputs ==
  [a \in MCAsop |-> <<IF a = "extract" THEN {"root", "doc"} ELSE {"root"}>>]
MCOutputOrder == [s \in Subject |-> IF s = "s1" THEN 1 ELSE 2]

MCStarters == {"intake"}
MCStartInputs == "intake" :> ("root" :> "r1")
MCInputsOf == "intake" :> {MCStartInputs["intake"]} @@ [a \in MCAsop |-> {}]

Doc(value) == [keptBy |-> {"each"}, value |-> value, deps |-> {}]
Out(items) == [shaped |-> TRUE, items |-> items, digest |-> "d1", value |-> Missing]
Fetched(items, requests) ==
  [outcome |-> "FETCHED", out |-> Out(items), requests |-> requests,
   approval |-> [digest |-> None, subset |-> None]]
Request(subject) == [handoff |-> "each", to |-> "extract", subject |-> subject]
All == [s \in Subject |-> Doc("v1")]
NoItems == [s \in {} |-> None]

IntakeResults ==
  { Fetched(All, {}),
    Fetched(NoItems, {}),
    Fetched(All, {Request("s1"), Request("s9")}),
    Fetched("s1" :> Doc(Missing) @@ All, {}),
    [Fetched(All, {}) EXCEPT !.out.shaped = FALSE],
    [Fetched(All, {}) EXCEPT !.outcome = "misspelt"] }

MCResultsOf == "intake" :> IntakeResults @@ [a \in MCAsop |-> {Fetched(NoItems, {})}]

MCActivations == {[a \in MCAsop |-> 1]}
               \cup {[a \in MCAsop |-> IF a = "consolidate" THEN 2 ELSE 1]}
=============================================================================
