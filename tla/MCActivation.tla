---------------------------- MODULE MCActivation ----------------------------
(***************************************************************************)
(* A store whose three procedures are revised one after the other: audit   *)
(* comes to hand off to intake, and a new intake hands off to extract and  *)
(* audit.  The extract in service still names the audit before.            *)
(***************************************************************************)
EXTENDS MCManifest

MCRevisedHandoffs ==
  [p \in MCProcedure |-> [v \in MCVersion |->
     CASE p = "intake" /\ v = 2 -> <<To("extract", {1}), To("audit", {2})>>
       [] p = "extract" /\ v = 1 -> <<To("audit", {1})>>
       [] p = "extract" /\ v = 2 -> <<To("audit", {2})>>
       [] p = "audit" /\ v = 2 -> <<To("intake", {1, 2})>>
       [] OTHER -> <<>>]]
MCNoRefs == [p \in MCProcedure |-> [v \in MCVersion |-> {}]]
MCFirst == [MCProcedure -> {1}]
=============================================================================
