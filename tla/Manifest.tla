------------------------------ MODULE Manifest ------------------------------
(***************************************************************************)
(* One chain and its manifest (ASOP.md 3.10; asop.manifest).               *)
(*                                                                         *)
(* The chain's procedures are pinned one reference after the other while   *)
(* operators activate other versions.  The chain then resolves its         *)
(* hand-offs from the pins, and moves to another manifest by adoptions     *)
(* that people write from what they last saw.                              *)
(***************************************************************************)
EXTENDS Activation

CONSTANTS
  Starter,       \* the procedure that starts the chain
  Component,     \* what else gives the gates their meaning
  Digest,        \* digests of components, positive naturals
  Proposal,      \* the manifests that people write for the chain
  MaxDocuments,  \* bound: adoption documents
  MaxAdoptions   \* bound: adoptions

\* 0 is a procedure, or a component, that the manifest does not pin.
ManifestType ==
  [members : [Procedure -> Version \cup {0}], components : [Component -> Digest \cup {0}]]

ASSUME ManifestAssumptions ==
  /\ Digest \subseteq Nat \ {0}
  /\ Starter \in Procedure
  /\ Proposal \subseteq ManifestType
  /\ MaxDocuments \in Nat /\ MaxAdoptions \in Nat

-----------------------------------------------------------------------------
VARIABLES
  phase,      \* the chain is "pinning", "running", or "refused" at its start
  pins,       \* the versions pinned so far, 0 is none
  todo,       \* the references that pin_manifest has not looked at
  recorded,   \* the manifests recorded for the chain
  history,    \* the manifests it ran under, the current one last
  documents,  \* the adoptions that people wrote
  accepted,   \* the adoptions accepted, in their order
  runs        \* the runs of the chain: procedure, version, manifest they were filed under

chain == <<phase, pins, todo, recorded, history, documents, accepted, runs>>
vars == <<active, released, phase, pins, todo, recorded, history, documents, accepted, runs>>

Current == history[Len(history)]
RunOf(p, v, n) == [asop |-> p, version |-> v, under |-> n]

Init ==
  /\ active \in Opening
  /\ released = [p \in Procedure |-> {active[p]}]
  /\ phase = "pinning"
  /\ pins = [p \in Procedure |-> IF p = Starter THEN active[p] ELSE 0]
  /\ todo = Edges[Starter][active[Starter]]
  /\ recorded = {} /\ history = <<>> /\ documents = {} /\ accepted = <<>> /\ runs = {}

\* A slip: a procedure that is pinned is pinned again.
PinAgain(ref) ==
  /\ phase = "pinning" /\ ref \in todo
  /\ IF VersionIn(ref, active[ref.asop])
     THEN /\ pins' = [pins EXCEPT ![ref.asop] = active[ref.asop]]
          /\ todo' = (todo \ {ref}) \cup Edges[ref.asop][active[ref.asop]]
          /\ UNCHANGED phase
     ELSE phase' = "refused" /\ UNCHANGED <<pins, todo>>
  /\ UNCHANGED <<store, recorded, history, documents, accepted, runs>>

\* A slip: a second reference to a pinned procedure is not looked at.
PinOnce(ref) ==
  /\ phase = "pinning" /\ ref \in todo
  /\ IF pins[ref.asop] # 0
     THEN todo' = todo \ {ref} /\ UNCHANGED <<phase, pins>>
     ELSE IF VersionIn(ref, active[ref.asop])
          THEN /\ pins' = [pins EXCEPT ![ref.asop] = active[ref.asop]]
               /\ todo' = (todo \ {ref}) \cup Edges[ref.asop][active[ref.asop]]
               /\ UNCHANGED phase
          ELSE phase' = "refused" /\ UNCHANGED <<pins, todo>>
  /\ UNCHANGED <<store, recorded, history, documents, accepted, runs>>

\* pin_manifest looks at one more reference.  The first one to a procedure
\* asks the store, which answers from what is ACTIVE at that moment.
PinReference(ref) ==
  LET p == ref.asop
      pinned == pins[p] # 0
      v == IF pinned THEN pins[p] ELSE active[p]
  IN  /\ phase = "pinning" /\ ref \in todo
      /\ IF VersionIn(ref, v)
         THEN /\ pins' = [pins EXCEPT ![p] = v]
              /\ todo' = (todo \ {ref}) \cup (IF pinned THEN {} ELSE Edges[p][v])
              /\ UNCHANGED phase
         ELSE phase' = "refused" /\ UNCHANGED <<pins, todo>>
      /\ UNCHANGED <<store, recorded, history, documents, accepted, runs>>

\* Everything is pinned: the manifest is recorded and the chain starts.
StartChain(components) ==
  LET m == [members |-> pins, components |-> components]
  IN  /\ phase = "pinning" /\ todo = {}
      /\ phase' = "running"
      /\ recorded' = {m} /\ history' = <<m>>
      /\ runs' = {RunOf(Starter, pins[Starter], 1)}
      /\ UNCHANGED <<store, pins, todo, documents, accepted>>

\* A slip: what the pin does not satisfy is resolved from what is ACTIVE.
ResolveActive(m, ref) ==
  IF m.members[ref.asop] # 0 /\ VersionIn(ref, m.members[ref.asop])
  THEN m.members[ref.asop] ELSE active[ref.asop]

\* A slip: a version that was superseded no longer resolves.
ResolveInService(m, ref) ==
  IF m.members[ref.asop] = active[ref.asop] /\ VersionIn(ref, m.members[ref.asop])
  THEN m.members[ref.asop] ELSE 0

\* manifest_resolver; 0 is None.  A version that was superseded still resolves.
Resolve(m, ref) ==
  IF m.members[ref.asop] # 0 /\ VersionIn(ref, m.members[ref.asop])
  THEN m.members[ref.asop] ELSE 0

\* A run is done and one of its references is filed.
FileHandoff(r, ref) ==
  /\ phase = "running"
  /\ ref \in Edges[r.asop][r.version]
  /\ Resolve(Current, ref) # 0
  /\ runs' = runs \cup {RunOf(ref.asop, Resolve(Current, ref), Len(history))}
  /\ UNCHANGED <<store, phase, pins, todo, recorded, history, documents, accepted>>

\* A run is filed again, at the version check_pinned gives it.
Refile(r) ==
  /\ phase = "running"
  /\ Current.members[r.asop] # 0
  /\ runs' = runs \cup {RunOf(r.asop, Current.members[r.asop], Len(history))}
  /\ UNCHANGED <<store, phase, pins, todo, recorded, history, documents, accepted>>

\* What a store asks of a manifest: it pins something, and no drafts.
VerifyManifest(m) ==
  /\ \E p \in Procedure : m.members[p] # 0
  /\ \A p \in Procedure : m.members[p] # 0 => m.members[p] \in released[p]

\* Somebody records another manifest for the chain.
Record(m) ==
  /\ phase = "running"
  /\ VerifyManifest(m)
  /\ recorded' = recorded \cup {m}
  /\ UNCHANGED <<store, phase, pins, todo, history, documents, accepted, runs>>

Effect(before, after) ==
  IF before = 0 THEN "added" ELSE IF after = 0 THEN "removed"
  ELSE IF before = after THEN "unchanged" ELSE "changed"

Rows(kind, names, before, after) ==
  {[kind |-> kind, name |-> n, from |-> before[n], to |-> after[n],
    effect |-> Effect(before[n], after[n])] :
     n \in {x \in names : before[x] # 0 \/ after[x] # 0}}

AdoptionImpact(a, b) ==
  Rows("member", Procedure, a.members, b.members)
    \cup Rows("component", Component, a.components, b.components)

\* A person writes an adoption of `to` from `from`, with the impact computed
\* when the chain ran under the manifest `seen`.
WriteAdoption(seen, from, to) ==
  /\ Cardinality(documents) < MaxDocuments
  /\ documents' = documents \cup {[from |-> from, to |-> to, impact |-> AdoptionImpact(seen, to)]}
  /\ UNCHANGED <<store, phase, pins, todo, recorded, history, accepted, runs>>

\* A slip: any manifest may be the one that is left.
ValidFromAny(d) == d.to \in recorded /\ d.from # d.to /\ d.impact = AdoptionImpact(d.from, d.to)

\* validate_adoption, of the move adoption_target names.
ValidAdoption(d) ==
  /\ d.from = Current /\ d.to \in recorded /\ d.from # d.to
  /\ d.impact = AdoptionImpact(Current, d.to)

\* A document arrives, perhaps late, perhaps again.
Adopt(d) ==
  /\ phase = "running"
  /\ Len(accepted) < MaxAdoptions
  /\ ValidAdoption(d)
  /\ history' = Append(history, d.to)
  /\ accepted' = Append(accepted, d)
  /\ UNCHANGED <<store, phase, pins, todo, recorded, documents, runs>>

Next ==
  \/ \E p \in Procedure, v \in Version : Activate(p, v) /\ UNCHANGED chain
  \/ \E ref \in todo : PinReference(ref)
  \/ \E c \in [Component -> Digest] : StartChain(c)
  \/ \E r \in runs : Refile(r) \/ \E ref \in Edges[r.asop][r.version] : FileHandoff(r, ref)
  \/ \E m \in Proposal : Record(m)
  \/ \E seen, from, to \in recorded : WriteAdoption(seen, from, to)
  \/ \E d \in documents : Adopt(d)

Spec == Init /\ [][Next]_vars

\* pin_manifest is one call: it goes on until it returns or raises.
FairSpec == Spec /\ WF_vars(\E ref \in todo : PinReference(ref))

-----------------------------------------------------------------------------
(* Properties. *)

TypeOK ==
  /\ active \in [Procedure -> Version] /\ released \in [Procedure -> SUBSET Version]
  /\ phase \in {"pinning", "running", "refused"}
  /\ pins \in [Procedure -> Version \cup {0}] /\ todo \subseteq Ref
  /\ recorded \subseteq ManifestType /\ history \in Seq(ManifestType)
  /\ \A d \in documents : d.from \in ManifestType /\ d.to \in ManifestType
  /\ accepted \in Seq(documents)
  /\ \A r \in runs : r.asop \in Procedure /\ r.version \in Version /\ r.under \in 1 .. Len(history)

\* A chain that started is pinned whole: every reference of every pinned
\* version is satisfied by the one version pinned for its procedure, though
\* the versions were looked up at different moments.
Whole(m) ==
  \A p \in Procedure : m.members[p] # 0 =>
    \A ref \in Edges[p][m.members[p]] :
      m.members[ref.asop] # 0 /\ VersionIn(ref, m.members[ref.asop])

PinnedWhole == history # <<>> => Whole(history[1])

\* Until somebody adopts another manifest no hand-off of the chain is refused
\* for its version, whatever was activated meanwhile.
NothingRefusedBeforeAdoption ==
  Len(history) = 1 =>
    \A r \in runs : \A ref \in Edges[r.asop][r.version] : Resolve(Current, ref) # 0

\* The adoptions accepted are one chain of moves, each with the impact of
\* exactly that move, however the documents raced.
AdoptedAsReviewed ==
  /\ history # <<>> => Len(history) = Len(accepted) + 1
  /\ \A k \in 1 .. Len(accepted) :
       /\ accepted[k].from = history[k] /\ accepted[k].to = history[k + 1]
       /\ accepted[k].impact = AdoptionImpact(history[k], history[k + 1])

\* Runs of one procedure at two versions were filed under two manifests, and
\* between them somebody adopted a change, an addition or a removal of that
\* procedure, which the impact named: a mix nobody reviewed does not happen.
MixIsReviewed ==
  \A r, s \in runs :
    (r.asop = s.asop /\ r.version # s.version /\ r.under <= s.under)
      => \E k \in r.under .. s.under - 1 :
           \E row \in accepted[k].impact :
             row.kind = "member" /\ row.name = r.asop /\ row.effect # "unchanged"

\* Pinning ends, around the cycles that rework references make.
PinningEnds == <>(phase # "pinning" \/ todo = {})
=============================================================================
