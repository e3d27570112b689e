------------------------------ MODULE MCRework ------------------------------
EXTENDS Rework, TLC

MCNode == {"plan", "build", "release"}
MCAsop == [n \in MCNode |-> n]
MCFiler == "plan" :> None @@ "build" :> "plan" @@ "release" :> "build"
MCReads == "plan" :> {"brief"} @@ "build" :> {"plan"} @@ "release" :> {"build"}
MCEntryGate == "final" :> [of |-> "plan", over |-> {"brief"}]
  @@ "tested" :> [of |-> "release", over |-> {"build"}]
MCPasses == "final" :> {None, 1} @@ "tested" :> {1}
MCRequires ==
  "release" :> {[kind |-> "run_done", node |-> "build"],
                [kind |-> "human_approved", artefact |-> "build", binds |-> TRUE]}
  @@ [n \in MCNode |-> {}]
MCEdge == "replan" :> [of |-> "build", to |-> "plan", maxRounds |-> 1]
   @@ "recall" :> [of |-> "release", to |-> "plan", maxRounds |-> 1]
MCWrites == "plan" :> {1} @@ "build" :> {1, 2} @@ "release" :> {1}
MCContents == [s \in {"brief"} |-> {None, 1}]
=============================================================================
