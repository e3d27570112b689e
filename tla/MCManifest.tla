----------------------------- MODULE MCManifest -----------------------------
(***************************************************************************)
(* A chain for Manifest: intake hands off to extract and audit, extract to *)
(* audit and, for rework, back to intake.                                  *)
(***************************************************************************)
EXTENDS Manifest

MCProcedure == {"intake", "extract", "audit"}
MCVersion == 1 .. 2
MCDigest == 1 .. 2

To(p, vs) == [asop |-> p, versions |-> vs]
MCHandoffs ==
  [p \in MCProcedure |-> [v \in MCVersion |->
     CASE p = "intake" /\ v = 1 -> <<To("extract", {1, 2}), To("audit", {1, 2})>>
       [] p = "intake" /\ v = 2 -> <<To("extract", {2})>>
       [] p = "extract" /\ v = 1 -> <<To("audit", {1})>>
       [] p = "extract" /\ v = 2 -> <<To("audit", {2})>>
       [] OTHER -> <<>>]]
MCEscalates == [p \in MCProcedure |-> [v \in MCVersion |-> {}]]
MCSendsBack ==
  [p \in MCProcedure |-> [v \in MCVersion |->
     CASE p = "extract" /\ v = 1 -> {To("intake", {1, 2})}
       [] p = "extract" /\ v = 2 -> {To("intake", {1})}
       [] OTHER -> {}]]
MCWaits == [p \in MCProcedure |-> [v \in MCVersion |-> IF p = "audit" THEN {"intake"} ELSE {}]]
MCOpening == [MCProcedure -> {1}] \cup [MCProcedure -> {2}]

Pins(intake, extract, audit, checker) ==
  [members |-> [p \in MCProcedure |->
                  CASE p = "intake" -> intake [] p = "extract" -> extract [] p = "audit" -> audit],
   components |-> [c \in {"checker"} |-> checker]]

\* Another extract, another checker, and a procedure left out.
MCProposal == {Pins(1, 1, 1, 1), Pins(1, 2, 2, 1), Pins(1, 0, 1, 2)}
=============================================================================
