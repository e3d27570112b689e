----------------------------- MODULE MCRevision -----------------------------
(***************************************************************************)
(* Contents for Revision: a record with a title and up to two steps, whose *)
(* role and validation people and agents change.                          *)
(***************************************************************************)
EXTENDS Revision

MCRecordField == {"title"}
MCStepField == {"role", "validation"}
MCPolicedField == {"title", "role", "validation"}
MCRoles == [clerk |-> AGENT, manager |-> HUMAN]

Step(name, role, gate, validation) ==
  [name |-> name, gate |-> gate, protected |-> FALSE,
   fields |-> [role |-> role, validation |-> validation]]
Record(title, steps) ==
  [fields |-> [title |-> title], roles |-> MCRoles, steps |-> steps]

Plain(v) == Step("pay", "clerk", AGENT, v)
Signed(v) == Step("pay", "clerk", HUMAN, v)
Managed(v) == Step("pay", "manager", HUMAN, v)
Money(gate) == [Step("pay", "clerk", gate, "brief") EXCEPT !.protected = TRUE]
Post == Step("post", "clerk", AGENT, "brief")

\* Steps that are human by their gate or their role, two of them, a repeated
\* name, a protected step, and texts that go away and come back around a step
\* that is gone for a while.
MCDraft ==
  {Record("old", s) :
     s \in {<<Plain("brief")>>, <<Managed("brief")>>,
            <<Signed("brief"), Post>>, <<Post>>, <<Signed("brief"), Plain("brief")>>,
            <<Money(AGENT)>>}}
  \cup {Record("new", <<Plain("full")>>)}
=============================================================================
