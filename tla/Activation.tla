----------------------------- MODULE Activation -----------------------------
(***************************************************************************)
(* The store of procedures as operators put versions into service          *)
(* (validate_handoff_targets, ASOP.md 3.7 and 3.9): a draft is activated   *)
(* when its references resolve among what is ACTIVE, no hand-offs below it *)
(* form a cycle, it does not wait on its own descendants, and it sends     *)
(* work back to procedures that lead to it.  Only this record is checked:  *)
(* the versions already ACTIVE are not looked at again.                    *)
(*                                                                         *)
(* Left out: the names of inputs, preflight, and the human step of an      *)
(* escalation's target.                                                    *)
(***************************************************************************)
EXTENDS Integers, Sequences, FiniteSets

CONSTANTS
  Procedure,  \* the procedures of the store
  Version,    \* their versions, positive naturals
  Handoffs,   \* Handoffs[p][v]: what version v of p hands off to, in its order
  Escalates,  \* Escalates[p][v]: its escalation target, at most one
  SendsBack,  \* SendsBack[p][v]: the procedures of its rework edges
  Waits,      \* Waits[p][v]: the procedures its `requires` waits for
  Opening     \* what may be ACTIVE at first

\* A reference of a hand-off, an escalation or a rework edge.
Ref == [asop : Procedure, versions : SUBSET Version]

ASSUME ActivationAssumptions ==
  /\ IsFiniteSet(Procedure)
  /\ Version \subseteq Nat \ {0}
  /\ \A p \in Procedure, v \in Version :
       /\ Handoffs[p][v] \in Seq(Ref) /\ Escalates[p][v] \subseteq Ref
       /\ SendsBack[p][v] \subseteq Ref /\ Waits[p][v] \subseteq Procedure
  /\ Opening \subseteq [Procedure -> Version]

HandoffRefs(p, v) == {Handoffs[p][v][i] : i \in DOMAIN Handoffs[p][v]}

\* Everything a manifest pins for a version.
Edges == [p \in Procedure |-> [v \in Version |->
            HandoffRefs(p, v) \cup Escalates[p][v] \cup SendsBack[p][v]]]

VersionIn(ref, v) == v \in ref.versions

VARIABLES
  active,   \* the ACTIVE version of each procedure
  released  \* the versions that were ever activated, the others are drafts

store == <<active, released>>

Resolves(ref) == VersionIn(ref, active[ref.asop])

\* _walk_handoffs, depth first: the procedures a walk names, and whether it
\* met one of those it is below.  A procedure is walked at its first mention
\* only, and not at all when that mention does not resolve.
WalkFrom(p, v) ==
  LET walk[w \in [refs : Seq(Ref), path : SUBSET Procedure, seen : SUBSET Procedure]] ==
        IF w.refs = <<>> THEN [cycle |-> FALSE, seen |-> w.seen]
        ELSE LET to == Head(w.refs)
                 rest(seen) == walk[[refs |-> Tail(w.refs), path |-> w.path, seen |-> seen]]
                 below == walk[[refs |-> Handoffs[to.asop][active[to.asop]],
                                path |-> w.path \cup {to.asop}, seen |-> w.seen \cup {to.asop}]]
             IN  CASE to.asop \in w.path -> [cycle |-> TRUE, seen |-> w.seen]
                   [] to.asop \in w.seen \ w.path -> rest(w.seen)
                   [] OTHER -> IF ~Resolves(to) THEN rest(w.seen \cup {to.asop})
                               ELSE IF below.cycle THEN below ELSE rest(below.seen)
  IN  walk[[refs |-> Handoffs[p][v], path |-> {p}, seen |-> {}]]

ValidTargets(p, v) ==
  /\ \A ref \in HandoffRefs(p, v) \cup Escalates[p][v] : Resolves(ref)
  /\ ~WalkFrom(p, v).cycle
  /\ Waits[p][v] \cap WalkFrom(p, v).seen = {}
  /\ \A ref \in SendsBack[p][v] :
       /\ Resolves(ref)
       /\ LET up == WalkFrom(ref.asop, active[ref.asop])
          IN  ~up.cycle /\ p \in up.seen

\* An operator activates a draft.
Activate(p, v) ==
  /\ v \notin released[p]
  /\ ValidTargets(p, v)
  /\ active' = [active EXCEPT ![p] = v]
  /\ released' = [released EXCEPT ![p] = @ \cup {v}]

-----------------------------------------------------------------------------
\* Where the hand-offs of what is ACTIVE lead.
HandsOffTo(p) == {ref.asop : ref \in {r \in HandoffRefs(p, active[p]) : Resolves(r)}}

\* No hand-offs of the ACTIVE versions form a cycle: among any procedures one
\* hands off to none of them (validate_handoff_targets, ASOP.md 3.7).
ServiceIsAcyclic ==
  \A S \in (SUBSET Procedure) \ {{}} : \E p \in S : HandsOffTo(p) \cap S = {}
=============================================================================
