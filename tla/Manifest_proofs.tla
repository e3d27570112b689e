-------------------------- MODULE Manifest_proofs --------------------------
(***************************************************************************)
(* Proofs about Manifest, for any procedures, versions, references and     *)
(* proposals, and any number of documents and adoptions.                   *)
(*                                                                         *)
(* While the chain is pinned, each reference of a pinned version is        *)
(* satisfied by a pin or still to be looked at: when nothing is left the   *)
(* manifest is whole.  Runs carry the pins of the manifest they were filed *)
(* under, so what differs between two runs was moved by an adoption, and   *)
(* an adoption is accepted with the impact of its own move only.           *)
(*                                                                         *)
(* The cycle check of an activation is a recursive function.  It is shown  *)
(* to have the values its definition says, and from them to keep the store *)
(* acyclic wherever the references to one procedure agree.                 *)
(***************************************************************************)
EXTENDS Manifest, TLAPS, FiniteSetTheorems, WellFoundedInduction

\* The starter is pinned from the first, a chain that runs has a manifest, and
\* only a chain that runs adopts another.
Shape ==
  /\ pins[Starter] # 0
  /\ history # <<>> <=> phase = "running"
  /\ history = <<>> => accepted = <<>>
IInv == TypeOK /\ Shape

\* What a manifest pins for a version are references (Edges).
LEMMA EdgesAreRefs == \A p \in Procedure, v \in Version : Edges[p][v] \subseteq Ref
BY ActivationAssumptions DEF Edges, HandoffRefs

LEMMA IInvHolds == Spec => []IInv
<1> USE ManifestAssumptions DEF IInv, Shape, TypeOK, ManifestType, Ref, RunOf
<1>1. Init => IInv
  <2> SUFFICES ASSUME Init PROVE IInv
    OBVIOUS
  <2>1. released \in [Procedure -> SUBSET Version] /\ pins \in [Procedure -> Version \cup {0}]
    BY ActivationAssumptions DEF Init
  <2>2. active[Starter] \in Version /\ pins[Starter] # 0
    BY ActivationAssumptions DEF Init
  <2>3. todo \subseteq Ref
    BY EdgesAreRefs, <2>2 DEF Init
  <2>4. history \in Seq(ManifestType) /\ accepted \in Seq(documents)
    BY DEF Init
  <2> QED
    BY ActivationAssumptions, <2>1, <2>2, <2>3, <2>4 DEF Init
<1>2. IInv /\ [Next]_vars => IInv'
  <2> SUFFICES ASSUME IInv, [Next]_vars PROVE IInv'
    OBVIOUS
  <2>1. ASSUME NEW p \in Procedure, NEW v \in Version, Activate(p, v), UNCHANGED chain PROVE IInv'
    BY <2>1 DEF Activate, chain
  <2>2. ASSUME NEW ref \in todo, PinReference(ref) PROVE IInv'
    <3>1. CASE phase' = "refused"
      BY <2>2, <3>1 DEF PinReference, store
    <3>2. CASE phase' # "refused"
      <4> DEFINE v == IF pins[ref.asop] # 0 THEN pins[ref.asop] ELSE active[ref.asop]
      <4>1. ref.asop \in Procedure /\ v \in Version
        OBVIOUS
      <4>2. pins' = [pins EXCEPT ![ref.asop] = v] /\ todo' \subseteq todo \cup Edges[ref.asop][v]
        BY <2>2, <3>2 DEF PinReference
      <4>3. pins' \in [Procedure -> Version \cup {0}] /\ todo' \subseteq Ref
        BY EdgesAreRefs, <4>1, <4>2
      <4>4. UNCHANGED <<store, phase, recorded, history, documents, accepted, runs>>
        BY <2>2, <3>2 DEF PinReference
      <4>5. pins'[Starter] # 0
        BY <4>1, <4>2
      <4> QED
        BY <4>3, <4>4, <4>5 DEF store
    <3> QED
      BY <3>1, <3>2
  <2>3. ASSUME NEW c \in [Component -> Digest], StartChain(c) PROVE IInv'
    <3> DEFINE m == [members |-> pins, components |-> c]
    <3>1. m \in ManifestType
      BY DEF ManifestType
    <3>2. pins[Starter] \in Version
      BY <2>3 DEF StartChain
    <3> QED
      BY <2>3, <3>1, <3>2 DEF StartChain, store
  <2>4. ASSUME NEW r \in runs, NEW ref \in Edges[r.asop][r.version], FileHandoff(r, ref)
        PROVE  IInv'
    <3>1. Edges[r.asop][r.version] \subseteq Ref
      BY EdgesAreRefs
    <3> HIDE DEF ManifestType
    <3>2. Len(history) \in Nat /\ Len(history) >= 1
      OBVIOUS
    <3>a. Current \in ManifestType
      BY <3>2 DEF Current
    <3> USE DEF ManifestType
    <3>3. Resolve(Current, ref) \in Version
      BY <2>4, <3>1, <3>a DEF FileHandoff, Resolve
    <3> QED
      BY <2>4, <3>1, <3>2, <3>3, <3>a DEF FileHandoff, store
  <2>5. ASSUME NEW r \in runs, Refile(r) PROVE IInv'
    <3> HIDE DEF ManifestType
    <3>a. Len(history) \in Nat /\ Len(history) >= 1
      OBVIOUS
    <3>1. Current \in ManifestType
      BY <3>a DEF Current
    <3> USE DEF ManifestType
    <3>2. Current.members[r.asop] \in Version
      BY <2>5, <3>1 DEF Refile
    <3> QED
      BY <2>5, <3>1, <3>a, <3>2 DEF Refile, store
  <2>6. ASSUME NEW m \in Proposal, Record(m) PROVE IInv'
    BY <2>6 DEF Record, store
  <2>7. ASSUME NEW seen \in recorded, NEW from \in recorded, NEW to \in recorded,
               WriteAdoption(seen, from, to)
        PROVE  IInv'
    <3>1. documents \subseteq documents' /\ UNCHANGED accepted
      BY <2>7 DEF WriteAdoption
    <3>2. accepted' \in Seq(documents')
      BY <3>1
    <3> QED
      BY <2>7, <3>2 DEF WriteAdoption, store
  <2>8. ASSUME NEW d \in documents, Adopt(d) PROVE IInv'
    <3>1. history' \in Seq(ManifestType) /\ Len(history') = Len(history) + 1
      BY <2>8 DEF Adopt
    <3>2. accepted' \in Seq(documents)
      BY <2>8 DEF Adopt
    <3>3. UNCHANGED <<store, phase, pins, todo, recorded, documents, runs>>
      BY <2>8 DEF Adopt
    <3>4. history' # <<>> /\ phase = "running"
      BY <2>8, <3>1 DEF Adopt
    <3>5. \A r \in runs : r.under \in 1 .. Len(history')
      BY <3>1
    <3> QED
      BY <3>1, <3>2, <3>3, <3>4, <3>5 DEF store
  <2>9. CASE UNCHANGED vars
    BY <2>9 DEF vars, store
  <2> QED
    BY <2>1, <2>2, <2>3, <2>4, <2>5, <2>6, <2>7, <2>8, <2>9 DEF Next
<1> QED
  BY <1>1, <1>2, PTL DEF Spec

\* Every part of the chain's state keeps its type.
THEOREM TypeCorrect == Spec => []TypeOK
BY IInvHolds, PTL DEF IInv

-----------------------------------------------------------------------------
(* What pin_manifest keeps while it runs. *)

\* A reference of a pinned version is satisfied by a pin, or still in todo.
Covered ==
  phase = "pinning" =>
    \A p \in Procedure : pins[p] # 0 =>
      \A ref \in Edges[p][pins[p]] :
        ref \in todo \/ (pins[ref.asop] # 0 /\ VersionIn(ref, pins[ref.asop]))

LEMMA CoveredStep == IInv /\ Covered /\ [Next]_vars => Covered'
<1> SUFFICES ASSUME IInv, Covered, [Next]_vars, phase' = "pinning" PROVE Covered'
  BY DEF Covered
<1>1. CASE UNCHANGED <<phase, pins, todo>>
  BY <1>1 DEF Covered, VersionIn
<1>2. ASSUME NEW ref \in todo, PinReference(ref) PROVE Covered'
  <2> DEFINE p == ref.asop
             v == IF pins[p] # 0 THEN pins[p] ELSE active[p]
  <2>1. /\ phase = "pinning" /\ VersionIn(ref, v)
        /\ pins' = [pins EXCEPT ![p] = v]
        /\ todo' = (todo \ {ref}) \cup (IF pins[p] # 0 THEN {} ELSE Edges[p][v])
    BY <1>2 DEF PinReference
  <2>2. p \in Procedure /\ v # 0 /\ pins \in [Procedure -> Version \cup {0}]
    BY ActivationAssumptions DEF IInv, TypeOK, Ref
  <2>3. pins'[p] = v /\ \A q \in Procedure : pins[q] # 0 => pins'[q] = pins[q]
    BY <2>1, <2>2
  <2>4. SUFFICES ASSUME NEW q \in Procedure, pins'[q] # 0, NEW e \in Edges[q][pins'[q]]
                 PROVE  e \in todo' \/ (pins'[e.asop] # 0 /\ VersionIn(e, pins'[e.asop]))
    BY DEF Covered, VersionIn
  <2>5. CASE pins[q] = 0
    <3>1. q = p
      BY <2>1, <2>2, <2>4, <2>5
    <3> QED
      BY <2>1, <2>3, <2>4, <2>5, <3>1
  <2>6. CASE pins[q] # 0 /\ e = ref
    BY <2>1, <2>2, <2>3, <2>6
  <2>7. CASE pins[q] # 0 /\ e # ref
    <3>1. e \in Edges[q][pins[q]] /\ pins[q] \in Version
      BY <2>2, <2>3, <2>4, <2>7
    <3>2. e.asop \in Procedure
      BY <3>1, EdgesAreRefs DEF Ref
    <3>3. e \in todo \/ (pins[e.asop] # 0 /\ VersionIn(e, pins[e.asop]))
      BY <2>1, <2>7, <3>1 DEF Covered
    <3> QED
      BY <2>1, <2>3, <2>7, <3>2, <3>3
  <2> QED
    BY <2>5, <2>6, <2>7
<1> QED
  BY <1>1, <1>2 DEF Next, Activate, chain, StartChain, FileHandoff, Refile, Record, WriteAdoption,
                    Adopt, store, vars

\* A chain starts only when no reference is left, so its manifest is whole;
\* adoptions append to the history and leave its first manifest alone.
THEOREM ChainsStartWhole == Spec => []PinnedWhole
<1>1. Init => Covered /\ PinnedWhole
  <2> SUFFICES ASSUME Init PROVE Covered /\ PinnedWhole
    OBVIOUS
  <2>1. Starter \in Procedure /\ active \in [Procedure -> Version]
    BY ManifestAssumptions, ActivationAssumptions DEF Init
  <2>2. \A p \in Procedure : pins[p] # 0 => p = Starter /\ pins[p] = active[p]
    BY <2>1 DEF Init
  <2> QED
    BY <2>1, <2>2 DEF Init, Covered, PinnedWhole
<1>2. IInv /\ Covered /\ PinnedWhole /\ [Next]_vars => PinnedWhole'
  <2> SUFFICES ASSUME IInv, Covered, PinnedWhole, [Next]_vars PROVE PinnedWhole'
    OBVIOUS
  <2>1. CASE UNCHANGED history
    BY <2>1 DEF PinnedWhole, Whole
  <2>2. ASSUME NEW c \in [Component -> Digest], StartChain(c) PROVE PinnedWhole'
    <3>1. history'[1].members = pins /\ todo = {} /\ phase = "pinning"
      BY <2>2 DEF StartChain
    <3> QED
      BY <3>1 DEF PinnedWhole, Whole, Covered
  <2>3. ASSUME NEW d \in documents, Adopt(d) PROVE PinnedWhole'
    <3>1. history # <<>> /\ history \in Seq(ManifestType) /\ history' = Append(history, d.to)
      BY <2>3 DEF Adopt, IInv, Shape, TypeOK
    <3>2. history'[1] = history[1]
      BY <3>1
    <3> QED
      BY <3>1, <3>2 DEF PinnedWhole, Whole
  <2> QED
    BY <2>1, <2>2, <2>3 DEF Next, Activate, chain, PinReference, FileHandoff, Refile, Record,
                            WriteAdoption, vars
<1> QED
  BY <1>1, <1>2, CoveredStep, IInvHolds, PTL DEF Spec

\* The procedures that are not pinned yet.
Unpinned == {p \in Procedure : pins[p] = 0}

\* What PinningEnds rests on: whatever happens while pin_manifest runs, it goes
\* no step back; each look at a reference ends it, pins one more procedure, or
\* leaves fewer references to look at.  Cycles of references end, as a pinned
\* procedure adds none.
PinningGoesOn ==
  phase = "pinning" =>
    \/ UNCHANGED <<phase, pins, todo>>
    \/ phase' # "pinning"
    \/ Cardinality(Unpinned') < Cardinality(Unpinned)
    \/ pins' = pins /\ todo' \subseteq todo /\ todo' # todo

THEOREM PinningAlwaysGoesOn == Spec => [][PinningGoesOn]_vars
<1>1. ASSUME IInv, [Next]_vars PROVE PinningGoesOn
  <2> SUFFICES ASSUME phase = "pinning", phase' = "pinning" PROVE PinningGoesOn
    BY DEF PinningGoesOn
  <2>1. ASSUME NEW ref \in todo, PinReference(ref) PROVE PinningGoesOn
    <3> DEFINE p == ref.asop
               v == IF pins[p] # 0 THEN pins[p] ELSE active[p]
    <3>1. /\ pins' = [pins EXCEPT ![p] = v]
          /\ todo' = (todo \ {ref}) \cup (IF pins[p] # 0 THEN {} ELSE Edges[p][v])
          /\ VersionIn(ref, v)
      BY <2>1 DEF PinReference
    <3>2. p \in Procedure /\ v # 0 /\ pins \in [Procedure -> Version \cup {0}]
      BY <1>1, <3>1, ActivationAssumptions DEF IInv, TypeOK, Ref, VersionIn
    <3>3. CASE pins[p] # 0
      BY <2>1, <3>1, <3>2, <3>3 DEF PinningGoesOn
    <3>4. CASE pins[p] = 0
      <4>1. Unpinned' \subseteq Unpinned /\ p \in Unpinned /\ p \notin Unpinned'
        BY <3>1, <3>2, <3>4 DEF Unpinned
      <4>2. IsFiniteSet(Unpinned)
        BY FS_Subset, ActivationAssumptions DEF Unpinned
      <4>3. Cardinality(Unpinned') < Cardinality(Unpinned)
        <5> DEFINE S == Unpinned
                   T == Unpinned'
        <5> HIDE DEF S, T
        <5>1. T \subseteq S /\ T # S /\ IsFiniteSet(S)
          BY <4>1, <4>2 DEF S, T
        <5>2. Cardinality(T) < Cardinality(S)
          BY <5>1, FS_Subset, FS_CardinalityType
        <5> QED
          BY <5>2 DEF S, T
      <4> QED
        BY <4>3 DEF PinningGoesOn
    <3> QED
      BY <3>3, <3>4
  <2>2. CASE UNCHANGED <<phase, pins, todo>>
    BY <2>2 DEF PinningGoesOn
  <2> QED
    BY <1>1, <2>1, <2>2 DEF Next, Activate, chain, StartChain, FileHandoff, Refile, Record,
                            WriteAdoption, Adopt, vars
<1> QED
  BY <1>1, IInvHolds, PTL DEF Spec

-----------------------------------------------------------------------------
(* What runs carry, and how adoptions follow each other. *)

\* The version of a run is the pin of the manifest it was filed under.
RunsArePinned ==
  \A r \in runs : r.under \in 1 .. Len(history) /\ history[r.under].members[r.asop] = r.version

LEMMA RunsAlwaysPinned == Spec => []RunsArePinned
<1>1. Init => RunsArePinned
  BY DEF Init, RunsArePinned
<1>2. IInv /\ RunsArePinned /\ [Next]_vars => RunsArePinned'
  <2> SUFFICES ASSUME IInv, RunsArePinned, [Next]_vars PROVE RunsArePinned'
    OBVIOUS
  <2> USE DEF RunOf
  <2>1. CASE UNCHANGED <<runs, history>>
    BY <2>1 DEF RunsArePinned
  <2>2. ASSUME NEW c \in [Component -> Digest], StartChain(c) PROVE RunsArePinned'
    <3>1. Len(history') = 1 /\ history'[1].members = pins /\ runs' = {RunOf(Starter, pins[Starter], 1)}
      BY <2>2 DEF StartChain
    <3> QED
      BY <3>1 DEF RunsArePinned
  <2>3. ASSUME NEW p \in Procedure, NEW v, v = Current.members[p],
               runs' = runs \cup {RunOf(p, v, Len(history))}, UNCHANGED history, history # <<>>
        PROVE  RunsArePinned'
    <3>1. Len(history) \in 1 .. Len(history)
      <4>1. history \in Seq(ManifestType)
        BY DEF IInv, TypeOK
      <4> QED
        BY <2>3, <4>1
    <3> QED
      BY <2>3, <3>1 DEF RunsArePinned, Current
  <2>4. ASSUME NEW r \in runs, NEW ref \in Edges[r.asop][r.version], FileHandoff(r, ref)
        PROVE  RunsArePinned'
    <3>1. r.asop \in Procedure /\ r.version \in Version
      BY DEF IInv, TypeOK
    <3>2. ref.asop \in Procedure
      BY <3>1, EdgesAreRefs DEF Ref
    <3>3. Resolve(Current, ref) = Current.members[ref.asop] /\ history # <<>>
      BY <2>4 DEF FileHandoff, Resolve, IInv, Shape
    <3> QED
      BY <2>3, <2>4, <3>2, <3>3 DEF FileHandoff
  <2>5. ASSUME NEW r \in runs, Refile(r) PROVE RunsArePinned'
    <3>1. r.asop \in Procedure /\ history # <<>>
      BY <2>5 DEF Refile, IInv, Shape, TypeOK
    <3> QED
      BY <2>3, <2>5, <3>1 DEF Refile
  <2>6. ASSUME NEW d \in documents, Adopt(d) PROVE RunsArePinned'
    <3>1. history \in Seq(ManifestType) /\ history' = Append(history, d.to) /\ UNCHANGED runs
      BY <2>6 DEF Adopt, IInv, TypeOK
    <3>2. Len(history') = Len(history) + 1 /\ \A n \in 1 .. Len(history) : history'[n] = history[n]
      BY <3>1
    <3> QED
      BY <3>1, <3>2 DEF RunsArePinned
  <2> QED
    BY <2>1, <2>2, <2>4, <2>5, <2>6 DEF Next, Activate, chain, PinReference, Record, WriteAdoption, vars
<1> QED
  BY <1>1, <1>2, IInvHolds, PTL DEF Spec

\* Before any adoption every run is a member of the first manifest, which is
\* whole: each of its references resolves.
THEOREM NothingIsRefusedBeforeAdoption == Spec => []NothingRefusedBeforeAdoption
<1>1. IInv /\ PinnedWhole /\ RunsArePinned => NothingRefusedBeforeAdoption
  <2> SUFFICES ASSUME IInv, PinnedWhole, RunsArePinned, Len(history) = 1,
                      NEW r \in runs, NEW ref \in Edges[r.asop][r.version]
               PROVE  Resolve(Current, ref) # 0
    BY DEF NothingRefusedBeforeAdoption
  <2>1. r.asop \in Procedure /\ r.version \in Version /\ r.version # 0
    BY ActivationAssumptions DEF IInv, TypeOK
  <2>2. history[1].members[r.asop] = r.version /\ history # <<>>
    <3>1. r.under = 1
      BY DEF RunsArePinned
    <3> QED
      BY <3>1 DEF RunsArePinned
  <2>3. history[1].members[ref.asop] # 0 /\ VersionIn(ref, history[1].members[ref.asop])
    BY <2>1, <2>2 DEF PinnedWhole, Whole
  <2> QED
    BY <2>3 DEF Resolve, Current
<1> QED
  BY <1>1, IInvHolds, ChainsStartWhole, RunsAlwaysPinned, PTL

\* An adoption is accepted only from the manifest the chain is under, with the
\* impact of that move, and then the chain is under the manifest it names.
THEOREM AlwaysAdoptedAsReviewed == Spec => []AdoptedAsReviewed
<1>1. Init => AdoptedAsReviewed
  BY DEF Init, AdoptedAsReviewed
<1>2. IInv /\ AdoptedAsReviewed /\ [Next]_vars => AdoptedAsReviewed'
  <2> SUFFICES ASSUME IInv, AdoptedAsReviewed, [Next]_vars PROVE AdoptedAsReviewed'
    OBVIOUS
  <2>1. CASE UNCHANGED <<history, accepted>>
    BY <2>1 DEF AdoptedAsReviewed, AdoptionImpact, Rows, Effect
  <2>2. ASSUME NEW c \in [Component -> Digest], StartChain(c) PROVE AdoptedAsReviewed'
    <3>1. Len(history') = 1 /\ history' # <<>> /\ accepted' = <<>>
      BY <2>2 DEF StartChain, IInv, Shape
    <3> QED
      BY <3>1 DEF AdoptedAsReviewed
  <2>3. ASSUME NEW d \in documents, Adopt(d) PROVE AdoptedAsReviewed'
    <3> DEFINE n == Len(history)
    <3>1. /\ history \in Seq(ManifestType) /\ accepted \in Seq(documents)
          /\ history # <<>> /\ n = Len(accepted) + 1
      BY <2>3 DEF Adopt, IInv, Shape, TypeOK, AdoptedAsReviewed
    <3>2. /\ history' = Append(history, d.to) /\ accepted' = Append(accepted, d)
          /\ d.from = history[n] /\ d.impact = AdoptionImpact(history[n], d.to)
      BY <2>3 DEF Adopt, ValidAdoption, Current
    <3>3. /\ Len(history') = n + 1 /\ Len(accepted') = n
          /\ history'[n + 1] = d.to /\ accepted'[n] = d
          /\ \A k \in 1 .. n : history'[k] = history[k]
          /\ \A k \in 1 .. n - 1 : accepted'[k] = accepted[k]
      BY <3>1, <3>2
    <3>4. ASSUME NEW k \in 1 .. n
          PROVE  /\ accepted'[k].from = history'[k] /\ accepted'[k].to = history'[k + 1]
                 /\ accepted'[k].impact = AdoptionImpact(history'[k], history'[k + 1])
      <4>1. CASE k = n
        BY <3>1, <3>2, <3>3, <4>1
      <4>2. CASE k # n
        <5>1. k \in 1 .. n - 1 /\ k \in 1 .. Len(accepted) /\ k + 1 \in 1 .. n
          BY <3>1, <4>2
        <5> QED
          BY <3>3, <5>1 DEF AdoptedAsReviewed
      <4> QED
        BY <4>1, <4>2
    <3> QED
      BY <3>1, <3>3, <3>4 DEF AdoptedAsReviewed, AdoptionImpact, Rows, Effect
  <2> QED
    BY <2>1, <2>2, <2>3 DEF Next, Activate, chain, PinReference, FileHandoff, Refile, Record,
                            WriteAdoption, vars
<1> QED
  BY <1>1, <1>2, IInvHolds, PTL DEF Spec

\* A pin that no adoption of a span changed is the same at both its ends.
PinsMoveByAdoption ==
  \A p \in Procedure : \A i, j \in 1 .. Len(history) :
    (i <= j /\ \A k \in i .. j - 1 : history[k].members[p] = history[k + 1].members[p])
      => history[i].members[p] = history[j].members[p]

LEMMA PinsAlwaysMoveByAdoption == Spec => []PinsMoveByAdoption
<1>1. Init => PinsMoveByAdoption
  BY DEF Init, PinsMoveByAdoption
<1>2. IInv /\ PinsMoveByAdoption /\ [Next]_vars => PinsMoveByAdoption'
  <2> SUFFICES ASSUME IInv, PinsMoveByAdoption, [Next]_vars PROVE PinsMoveByAdoption'
    OBVIOUS
  <2>1. CASE UNCHANGED history
    BY <2>1 DEF PinsMoveByAdoption
  <2>2. ASSUME NEW c \in [Component -> Digest], StartChain(c) PROVE PinsMoveByAdoption'
    <3>1. Len(history') = 1
      BY <2>2 DEF StartChain
    <3> QED
      BY <3>1 DEF PinsMoveByAdoption
  <2>3. ASSUME NEW d \in documents, Adopt(d) PROVE PinsMoveByAdoption'
    <3> DEFINE n == Len(history)
    <3>1. n \in Nat /\ Len(history') = n + 1 /\ \A k \in 1 .. n : history'[k] = history[k]
      <4>1. history \in Seq(ManifestType) /\ history' = Append(history, d.to)
        BY <2>3 DEF Adopt, IInv, TypeOK
      <4> QED
        BY <4>1
    <3>2. SUFFICES ASSUME NEW p \in Procedure, NEW i \in 1 .. n + 1, NEW j \in 1 .. n + 1, i <= j,
                          \A k \in i .. j - 1 : history'[k].members[p] = history'[k + 1].members[p]
                   PROVE  history'[i].members[p] = history'[j].members[p]
      BY <3>1 DEF PinsMoveByAdoption
    <3> HIDE DEF n
    <3>3. CASE i = j
      BY <3>3
    <3>4. CASE j \in 1 .. n
      <4>1. i \in 1 .. n /\ \A k \in i .. j - 1 : k \in 1 .. n /\ k + 1 \in 1 .. n
        BY <3>1, <3>2, <3>4
      <4>2. \A k \in i .. j - 1 : history[k].members[p] = history[k + 1].members[p]
        BY <3>1, <3>2, <4>1
      <4>3. history[i].members[p] = history[j].members[p]
        <5>1. i \in 1 .. Len(history) /\ j \in 1 .. Len(history)
          BY <3>4, <4>1 DEF n
        <5> QED
          BY <3>2, <4>2, <5>1, Zenon DEF PinsMoveByAdoption
      <4> QED
        BY <3>1, <3>4, <4>1, <4>3
    <3>5. CASE i # j /\ j = n + 1
      <4>1. /\ i \in 1 .. n /\ n \in 1 .. n /\ n \in i .. j - 1
            /\ \A k \in i .. n - 1 : k \in i .. j - 1 /\ k \in 1 .. n /\ k + 1 \in 1 .. n
        BY <3>1, <3>2, <3>5
      <4>2. \A k \in i .. n - 1 : history[k].members[p] = history[k + 1].members[p]
        BY <3>1, <3>2, <4>1
      <4>3. history[i].members[p] = history[n].members[p]
        <5>1. i \in 1 .. Len(history) /\ n \in 1 .. Len(history) /\ i <= n
          BY <3>1, <4>1 DEF n
        <5> QED
          BY <3>2, <4>2, <5>1, Zenon DEF PinsMoveByAdoption
      <4>4. history'[n].members[p] = history'[j].members[p]
        BY <3>2, <3>5, <4>1
      <4> QED
        BY <3>1, <4>1, <4>3, <4>4
    <3> QED
      BY <3>1, <3>2, <3>3, <3>4, <3>5
  <2> QED
    BY <2>1, <2>2, <2>3 DEF Next, Activate, chain, PinReference, FileHandoff, Refile, Record,
                            WriteAdoption, vars
<1> QED
  BY <1>1, <1>2, IInvHolds, PTL DEF Spec

\* What the impact of a move says of a procedure whose pin it changes.
LEMMA ImpactNamesChange ==
  ASSUME NEW a \in ManifestType, NEW b \in ManifestType, NEW p \in Procedure,
         a.members[p] # b.members[p]
  PROVE  \E row \in AdoptionImpact(a, b) :
           row.kind = "member" /\ row.name = p /\ row.effect # "unchanged"
<1> DEFINE row == [kind |-> "member", name |-> p, from |-> a.members[p], to |-> b.members[p],
                   effect |-> Effect(a.members[p], b.members[p])]
<1>1. a.members[p] # 0 \/ b.members[p] # 0
  OBVIOUS
<1>2. row \in Rows("member", Procedure, a.members, b.members)
  BY <1>1 DEF Rows
<1>3. row.effect # "unchanged"
  BY DEF Effect
<1>4. row.kind = "member" /\ row.name = p
  OBVIOUS
<1> QED
  BY <1>2, <1>3, <1>4 DEF AdoptionImpact

\* Runs carry the pins of their manifests, so two versions of one procedure
\* lie on two sides of an adoption whose impact named it.
THEOREM MixIsAlwaysReviewed == Spec => []MixIsReviewed
<1>1. IInv /\ RunsArePinned /\ PinsMoveByAdoption /\ AdoptedAsReviewed => MixIsReviewed
  <2> SUFFICES ASSUME IInv, RunsArePinned, PinsMoveByAdoption, AdoptedAsReviewed,
                      NEW r \in runs, NEW s \in runs,
                      r.asop = s.asop, r.version # s.version, r.under <= s.under
               PROVE  \E k \in r.under .. s.under - 1 : \E row \in accepted[k].impact :
                        row.kind = "member" /\ row.name = r.asop /\ row.effect # "unchanged"
    BY DEF MixIsReviewed
  <2> DEFINE p == r.asop
  <2>1. p \in Procedure /\ r.under \in 1 .. Len(history) /\ s.under \in 1 .. Len(history)
    BY DEF IInv, TypeOK
  <2>2. history[r.under].members[p] # history[s.under].members[p]
    BY DEF RunsArePinned
  <2>3. PICK k \in r.under .. s.under - 1 : history[k].members[p] # history[k + 1].members[p]
    BY <2>1, <2>2 DEF PinsMoveByAdoption
  <2>4. Len(history) \in Nat /\ Len(history) = Len(accepted) + 1 /\ Len(accepted) \in Nat
    <3>1. history \in Seq(ManifestType) /\ accepted \in Seq(documents)
      BY DEF IInv, TypeOK
    <3>2. history # <<>>
      BY <2>1, <3>1
    <3> QED
      BY <3>1, <3>2 DEF AdoptedAsReviewed
  <2>5. /\ k \in 1 .. Len(accepted)
        /\ k \in 1 .. Len(history) /\ k + 1 \in 1 .. Len(history)
    BY <2>1, <2>3, <2>4
  <2>6. history[k] \in ManifestType /\ history[k + 1] \in ManifestType
    BY <2>5 DEF IInv, TypeOK
  <2>7. accepted[k].impact = AdoptionImpact(history[k], history[k + 1])
    BY <2>5 DEF AdoptedAsReviewed
  <2> QED
    BY <2>1, <2>3, <2>6, <2>7, ImpactNamesChange
<1> QED
  BY <1>1, IInvHolds, RunsAlwaysPinned, PinsAlwaysMoveByAdoption, AlwaysAdoptedAsReviewed, PTL

-----------------------------------------------------------------------------
(* What a recursive function computes, for every argument.  The library's   *)
(* theorems about recursion take operators; these take functions and sets.  *)

\* A set of natural numbers has a least element.
LEMMA LeastNumber ==
  ASSUME NEW T \in SUBSET Nat, T # {}
  PROVE  \E x \in T : \A y \in T : x <= y
<1>1. PICK x \in T : \A y \in T : <<y, x>> \notin OpToRel(<, Nat)
  BY WFMin, NatLessThanWellFounded
<1>2. \A y \in T : y \in Nat /\ x \in Nat /\ ~(y < x)
  BY <1>1 DEF OpToRel
<1> QED
  BY <1>2

\* What comes before each element of D, so that induction along it works.
Orders(D, before) ==
  /\ before \in [D -> SUBSET D]
  /\ \A x \in D : \A y \in before[x] : x \notin before[x] /\ before[y] \subseteq before[x]
  /\ \A U : (\A x \in D : before[x] \subseteq U => x \in U) => D \subseteq U

\* A recursive definition over D: `value` gives, for an argument and a function,
\* what the body of the definition makes of them, and that rests on the values
\* of what comes before the argument alone.
RestsOnEarlier(D, R, before, value) ==
  /\ R # {} /\ value \in [D -> [[D -> R] -> R]]
  /\ \A x \in D : \A f, g \in [D -> R] :
       (\A y \in before[x] : f[y] = g[y]) => value[x][f] = value[x][g]

HasSolution(D, R, value) == \E f \in [D -> R] : \A x \in D : f[x] = value[x][f]

\* Such a definition has a solution.
LEMMA RecursionAlong ==
  ASSUME NEW D, NEW R, NEW before, NEW value,
         Orders(D, before), RestsOnEarlier(D, R, before, value)
  PROVE  HasSolution(D, R, value)
<1> /\ before \in [D -> SUBSET D]
    /\ R # {} /\ value \in [D -> [[D -> R] -> R]]
    /\ \A x \in D : \A f, g \in [D -> R] :
         (\A y \in before[x] : f[y] = g[y]) => value[x][f] = value[x][g]
  BY DEF Orders, RestsOnEarlier
<1>t. \A x \in D : \A y \in before[x] : x # y /\ before[y] \subseteq before[x]
  BY DEF Orders
<1>i. \A U : (\A x \in D : before[x] \subseteq U => x \in U) => D \subseteq U
  BY Zenon DEF Orders
<1> DEFINE upto(x) == before[x] \cup {x}
           Solves(f, x) == \A y \in upto(x) : f[y] = value[y][f]
<1>0. \A x \in D : upto(x) \subseteq D /\ before[x] \subseteq D
  OBVIOUS
\* Two solutions agree.
<1>1. ASSUME NEW f \in [D -> R], NEW g \in [D -> R], NEW x \in D, NEW z \in D,
             Solves(f, x), Solves(g, z)
      PROVE  \A y \in upto(x) \cap upto(z) : f[y] = g[y]
  <2> DEFINE T == {y \in D : y \in upto(x) \cap upto(z) => f[y] = g[y]}
  <2>1. ASSUME NEW y \in D, before[y] \subseteq T PROVE y \in T
    <3> SUFFICES ASSUME y \in upto(x) \cap upto(z) PROVE f[y] = g[y]
      OBVIOUS
    <3>1. before[y] \subseteq upto(x) \cap upto(z)
      BY <1>t
    <3>2. \A w \in before[y] : f[w] = g[w]
      BY <2>1, <3>1
    <3>3. f[y] = value[y][f] /\ g[y] = value[y][g]
      BY <1>1
    <3> QED
      BY <3>2, <3>3
  <2>2. D \subseteq T
    <3> HIDE DEF T, Solves
    <3>1. \A y \in D : before[y] \subseteq T => y \in T
      BY <2>1
    <3> QED
      BY <1>i, <3>1
  <2> QED
    BY <2>2
<1> DEFINE T == {x \in D : \E f \in [D -> R] : Solves(f, x)}
           at(x) == CHOOSE f \in [D -> R] : Solves(f, x)
<1>2. \A x \in T : at(x) \in [D -> R] /\ Solves(at(x), x)
  <2> HIDE DEF Solves
  <2> QED
    BY Zenon
<1>3. \A x \in T : \A z \in T \cap before[x] : at(x)[z] = at(z)[z]
  <2> SUFFICES ASSUME NEW x \in T, NEW z \in T \cap before[x] PROVE at(x)[z] = at(z)[z]
    OBVIOUS
  <2>0. x \in D /\ z \in D /\ at(x) \in [D -> R] /\ at(z) \in [D -> R]
        /\ Solves(at(x), x) /\ Solves(at(z), z)
    BY <1>2
  <2>1. z \in upto(x) \cap upto(z)
    OBVIOUS
  <2> HIDE DEF Solves, at, T, upto
  <2>2. \A y \in upto(x) \cap upto(z) : at(x)[y] = at(z)[y]
    BY ONLY <1>1, <2>0
  <2> QED
    BY <2>1, <2>2
<1>4. ASSUME NEW x \in D, before[x] \subseteq T PROVE x \in T
  <2> PICK r \in R : TRUE
    OBVIOUS
  <2> DEFINE g == [y \in D |-> IF y \in before[x] THEN at(y)[y] ELSE r]
             h == [y \in D |-> IF y = x THEN value[x][g] ELSE g[y]]
  <2> HIDE DEF at, T, Solves
  <2>0. T \subseteq D
    BY DEF T
  <2>1. g \in [D -> R]
    BY <1>2, <1>4, <2>0
  <2>2. h \in [D -> R] /\ h[x] = value[x][g]
    <3> HIDE DEF g
    <3> QED
      BY <2>1
  <2>3. \A y \in before[x] : h[y] = at(y)[y]
    BY <1>t
  <2> HIDE DEF g, h
  <2>4. ASSUME NEW y \in before[x] PROVE h[y] = value[y][h]
    <3>0. y \in D /\ y \in T /\ before[y] \subseteq before[x] /\ before[y] \subseteq T
      BY <1>4, <1>t
    <3>2. \A z \in before[y] : h[z] = at(y)[z]
      BY <1>3, <2>3, <3>0
    <3>3. at(y)[y] = value[y][at(y)] /\ at(y) \in [D -> R]
      BY <1>2, <3>0 DEF Solves
    <3> QED
      BY <2>2, <2>3, <3>0, <3>2, <3>3
  <2>5. h[x] = value[x][h]
    <3>1. \A y \in before[x] : g[y] = h[y]
      BY <1>t DEF h
    <3> QED
      BY <2>1, <2>2, <3>1
  <2>6. Solves(h, x)
    BY <2>4, <2>5 DEF Solves
  <2> QED
    BY <2>2, <2>6 DEF T
<1>5. D \subseteq T
  <2> HIDE DEF T
  <2> QED
    BY <1>4, <1>i
<1> DEFINE f == [x \in D |-> at(x)[x]]
<1>6. f \in [D -> R]
  <2> HIDE DEF at, Solves
  <2> QED
    BY <1>2, <1>5
<1>7. ASSUME NEW x \in D PROVE f[x] = value[x][f]
  <2> HIDE DEF at, T
  <2>1. \A z \in before[x] : f[z] = at(x)[z]
    BY <1>3, <1>5
  <2>2. at(x)[x] = value[x][at(x)] /\ at(x) \in [D -> R]
    BY <1>2, <1>5
  <2> HIDE DEF f
  <2>3. value[x][f] = value[x][at(x)]
    BY <1>6, <2>1, <2>2
  <2> QED
    BY <2>2, <2>3 DEF f
<1> QED
  BY <1>6, <1>7 DEF HasSolution

\* Induction over a size and, at the same size, over a length.
LEMMA InductionByTwoSizes ==
  ASSUME NEW D, NEW size \in [D -> Nat], NEW len \in [D -> Nat], NEW T,
         \A x \in D : (\A y \in D : size[y] < size[x] \/ (size[y] = size[x] /\ len[y] < len[x]) => y \in T)
                        => x \in T
  PROVE  D \subseteq T
<1> DEFINE left == {n \in Nat : \E x \in D : x \notin T /\ n = size[x]}
<1> SUFFICES ASSUME NEW z \in D, z \notin T PROVE FALSE
  OBVIOUS
<1>1. size[z] \in left
  OBVIOUS
<1>2. PICK n \in left : \A m \in left : n <= m
  <2>1. left \in SUBSET Nat /\ left # {}
    BY <1>1
  <2> HIDE DEF left
  <2> QED
    BY <2>1, LeastNumber
<1> DEFINE short == {k \in Nat : \E x \in D : x \notin T /\ n = size[x] /\ k = len[x]}
<1>3. PICK k \in short : \A m \in short : k <= m
  <2>1. short \in SUBSET Nat /\ short # {}
    BY <1>2
  <2> HIDE DEF short
  <2> QED
    BY <2>1, LeastNumber
<1>4. PICK x \in D : x \notin T /\ n = size[x] /\ k = len[x]
  BY <1>3
<1>5. \A y \in D : size[y] < size[x] \/ (size[y] = size[x] /\ len[y] < len[x]) => y \in T
  <2> SUFFICES ASSUME NEW y \in D, size[y] < size[x] \/ (size[y] = size[x] /\ len[y] < len[x]), y \notin T
               PROVE FALSE
    OBVIOUS
  <2>1. size[y] \in left
    OBVIOUS
  <2>2. size[y] = n => len[y] \in short
    OBVIOUS
  <2>3. size[x] = n /\ len[x] = k /\ size[y] \in Nat /\ len[y] \in Nat /\ n \in Nat /\ k \in Nat
    BY <1>4
  <2>4. n <= size[y] /\ (size[y] = n => k <= len[y])
    BY <1>2, <1>3, <2>1, <2>2
  <2> QED
    BY <2>3, <2>4
<1> QED
  BY <1>4, <1>5

-----------------------------------------------------------------------------
(* What the cycle check of an activation is worth. *)

Names(refs) == {refs[i].asop : i \in DOMAIN refs}

\* The hand-offs in service once version v of p is: its own, and those of what
\* else is ACTIVE.
Known(p, v) == HandoffRefs(p, v) \cup UNION {HandoffRefs(q, active[q]) : q \in Procedure \ {p}}

\* They agree when all of those to one procedure resolve or none does.
ReferencesAgree(p, v) ==
  \A r, s \in Known(p, v) : r.asop = s.asop /\ r.asop # p => (Resolves(r) <=> Resolves(s))

Handed(q, K) == \E r \in K : r.asop = q /\ Resolves(r)

\* What the procedures in `seen` hand off to is there too, except for those the
\* walk is still in and those that no hand-off reaches.
Followed(seen, path, K) ==
  \A q \in seen \ path : Handed(q, K) => Names(Handoffs[q][active[q]]) \subseteq seen

\* _walk_handoffs is as good as a walk through everything where references
\* agree: without a cycle it names p's targets and all they lead to, and not p.
LEMMA WalkIsClosed ==
  ASSUME NEW p \in Procedure, NEW v \in Version, active \in [Procedure -> Version],
         ReferencesAgree(p, v), ~WalkFrom(p, v).cycle
  PROVE  \E seen \in SUBSET Procedure :
           /\ p \notin seen
           /\ Names(Handoffs[p][v]) \subseteq seen
           /\ Followed(seen, {p}, Known(p, v))
<1> DEFINE K == Known(p, v)
           D == [refs : Seq(Ref), path : SUBSET Procedure, seen : SUBSET Procedure]
           R == [cycle : BOOLEAN, seen : SUBSET Procedure]
           L(q) == Handoffs[q][active[q]]
           to(w) == Head(w.refs).asop
           on(w, s) == [refs |-> Tail(w.refs), path |-> w.path, seen |-> s]
           down(w) == [refs |-> Handoffs[to(w)][active[to(w)]],
                       path |-> w.path \cup {to(w)}, seen |-> w.seen \cup {to(w)}]
           body(w, f) ==
             IF w.refs = <<>> THEN [cycle |-> FALSE, seen |-> w.seen]
             ELSE CASE to(w) \in w.path -> [cycle |-> TRUE, seen |-> w.seen]
                    [] to(w) \in w.seen \ w.path -> f[on(w, w.seen)]
                    [] OTHER -> IF ~Resolves(Head(w.refs)) THEN f[on(w, w.seen \cup {to(w)})]
                                ELSE IF f[down(w)].cycle THEN f[down(w)]
                                ELSE f[on(w, f[down(w)].seen)]
           walk == CHOOSE f : f = [w \in D |-> body(w, f)]
           start == [refs |-> Handoffs[p][v], path |-> {p}, seen |-> {}]
<1>1. WalkFrom(p, v) = walk[start]
  BY Zenon DEF WalkFrom
<1>2. /\ \A q \in Procedure : L(q) \in Seq(Ref) /\ active[q] \in Version
      /\ Handoffs[p][v] \in Seq(Ref) /\ IsFiniteSet(Procedure)
  BY ActivationAssumptions
<1>3. start \in D
  BY <1>2
<1>4. ASSUME NEW w \in D, w.refs # <<>>
      PROVE  /\ Head(w.refs) \in Ref /\ to(w) \in Procedure /\ down(w) \in D
             /\ \A s \in SUBSET Procedure : on(w, s) \in D
             /\ \A s : on(w, s).refs = Tail(w.refs) /\ on(w, s).path = w.path /\ on(w, s).seen = s
             /\ down(w).refs = L(to(w)) /\ down(w).path = w.path \cup {to(w)}
             /\ down(w).seen = w.seen \cup {to(w)}
             /\ Len(Tail(w.refs)) = Len(w.refs) - 1
             /\ Names(w.refs) = {to(w)} \cup Names(Tail(w.refs))
             /\ \A i \in DOMAIN Tail(w.refs) : \E j \in DOMAIN w.refs : Tail(w.refs)[i] = w.refs[j]
  <2>1. w.refs \in Seq(Ref) /\ w.path \in SUBSET Procedure /\ w.seen \in SUBSET Procedure
    OBVIOUS
  <2>2. Head(w.refs) \in Ref /\ Tail(w.refs) \in Seq(Ref) /\ Len(Tail(w.refs)) = Len(w.refs) - 1
        /\ Head(w.refs) = w.refs[1] /\ Len(w.refs) \in Nat /\ Len(w.refs) > 0
    BY <1>4, <2>1
  <2>3. to(w) \in Procedure
    BY <2>2 DEF Ref
  <2>4. Names(w.refs) = {to(w)} \cup Names(Tail(w.refs))
    <3>1. \A i \in DOMAIN Tail(w.refs) : i + 1 \in DOMAIN w.refs /\ Tail(w.refs)[i] = w.refs[i + 1]
      BY <2>1, <2>2
    <3>2. \A j \in DOMAIN w.refs : j = 1 \/ (j - 1 \in DOMAIN Tail(w.refs) /\ Tail(w.refs)[j - 1] = w.refs[j])
      BY <2>1, <2>2
    <3>3. 1 \in DOMAIN w.refs
      BY <2>1, <2>2
    <3>4. Names(w.refs) \subseteq {to(w)} \cup Names(Tail(w.refs))
      <4> SUFFICES ASSUME NEW j \in DOMAIN w.refs
                   PROVE  w.refs[j].asop \in {to(w)} \cup Names(Tail(w.refs))
        BY DEF Names
      <4>1. CASE j = 1
        BY <2>2, <4>1
      <4>2. CASE j # 1
        BY <3>2, <4>2, Zenon DEF Names
      <4> QED
        BY <4>1, <4>2
    <3>5. {to(w)} \cup Names(Tail(w.refs)) \subseteq Names(w.refs)
      BY <2>2, <3>1, <3>3 DEF Names
    <3> QED
      BY <3>4, <3>5
  <2>5. \A i \in DOMAIN Tail(w.refs) : \E j \in DOMAIN w.refs : Tail(w.refs)[i] = w.refs[j]
    <3>1. \A i \in DOMAIN Tail(w.refs) : i + 1 \in DOMAIN w.refs /\ Tail(w.refs)[i] = w.refs[i + 1]
      BY <2>1, <2>2
    <3> QED
      BY <3>1, Zenon
  <2>6. down(w) \in D
    BY <1>2, <2>1, <2>3
  <2>7. \A s \in SUBSET Procedure : on(w, s) \in D
    BY <2>1, <2>2
  <2> HIDE DEF D
  <2> QED
    BY <2>2, <2>3, <2>4, <2>5, <2>6, <2>7

\* Each step down lengthens the path, each step on shortens the list.
<1> DEFINE size == [w \in D |-> Cardinality(Procedure \ w.path)]
           len == [w \in D |-> Len(w.refs)]
           before == [w \in D |-> {x \in D : \/ size[x] < size[w]
                                             \/ size[x] = size[w] /\ len[x] < len[w]}]
<1>5. size \in [D -> Nat] /\ len \in [D -> Nat]
  <2>1. \A w \in D : Cardinality(Procedure \ w.path) \in Nat
    BY <1>2, FS_Subset, FS_CardinalityType
  <2> QED
    BY <2>1
<1>6. ASSUME NEW w \in D, w.refs # <<>>
      PROVE  /\ \A s \in SUBSET Procedure : on(w, s) \in before[w]
             /\ to(w) \notin w.path => down(w) \in before[w]
  <2>1. ASSUME to(w) \notin w.path PROVE size[down(w)] < size[w]
    <3> DEFINE S == Procedure \ w.path
    <3>1. Procedure \ (w.path \cup {to(w)}) = S \ {to(w)} /\ to(w) \in S
      BY <1>4, <1>6, <2>1
    <3>2. IsFiniteSet(S)
      BY <1>2, FS_Subset
    <3>3. Cardinality(S \ {to(w)}) = Cardinality(S) - 1 /\ Cardinality(S) \in Nat
      <4> HIDE DEF S, to
      <4> QED
        BY <3>1, <3>2, FS_RemoveElement, FS_CardinalityType
    <3>4. size[down(w)] = Cardinality(Procedure \ (w.path \cup {to(w)})) /\ size[w] = Cardinality(S)
      BY <1>4, <1>6
    <3> HIDE DEF S, size, to, down, D
    <3> QED
      BY <3>1, <3>3, <3>4
  <2>2. \A s \in SUBSET Procedure : size[on(w, s)] = size[w] /\ len[on(w, s)] = len[w] - 1
    BY <1>4, <1>6
  <2>3. len[w] \in Nat
    BY <1>5
  <2> HIDE DEF size, len
  <2> QED
    BY <1>4, <1>6, <2>1, <2>2, <2>3
<1>7. Orders(D, before)
  <2> HIDE DEF D, size, len
  <2>0. \A x \in D : size[x] \in Nat /\ len[x] \in Nat
    BY <1>5
  <2>1. before \in [D -> SUBSET D]
    OBVIOUS
  <2>2. \A x \in D : \A y \in before[x] : x \notin before[x] /\ before[y] \subseteq before[x]
    BY <2>0
  <2>3. ASSUME NEW U, \A x \in D : before[x] \subseteq U => x \in U PROVE D \subseteq U
    <3>1. \A x \in D : (\A y \in D : size[y] < size[x] \/ (size[y] = size[x] /\ len[y] < len[x]) => y \in U)
                        => x \in U
      BY <2>3
    <3> HIDE DEF before
    <3> QED
      BY <1>5, <3>1, InductionByTwoSizes
  <2> HIDE DEF before
  <2> QED
    BY <2>1, <2>2, <2>3 DEF Orders
<1> HIDE DEF to, on, down, before, size, len

\* The definition has a solution, so walk is one.
<1>8. ASSUME NEW f \in [D -> R], NEW w \in D PROVE body(w, f) \in R
  <2>1. \A x \in D : f[x] \in R
    OBVIOUS
  <2>2. w.seen \in SUBSET Procedure
    OBVIOUS
  <2>3. [cycle |-> FALSE, seen |-> w.seen] \in R /\ [cycle |-> TRUE, seen |-> w.seen] \in R
    BY <2>2
  <2>4. \A r \in R : r.seen \in SUBSET Procedure
    OBVIOUS
  <2> HIDE DEF D, R, walk, start
  <2>5. w.refs # <<>> => /\ f[on(w, w.seen)] \in R /\ f[on(w, w.seen \cup {to(w)})] \in R
                         /\ f[down(w)] \in R /\ f[on(w, f[down(w)].seen)] \in R
    <3> SUFFICES ASSUME w.refs # <<>>
                 PROVE  /\ f[on(w, w.seen)] \in R /\ f[on(w, w.seen \cup {to(w)})] \in R
                        /\ f[down(w)] \in R /\ f[on(w, f[down(w)].seen)] \in R
      OBVIOUS
    <3>1. f[down(w)] \in R /\ f[down(w)].seen \in SUBSET Procedure
      BY <1>4, <2>1, <2>4
    <3>2. w.seen \cup {to(w)} \in SUBSET Procedure
      BY <1>4, <2>2
    <3> QED
      BY <1>4, <2>1, <2>2, <3>1, <3>2
  <2> QED
    BY <2>3, <2>5
<1>9. ASSUME NEW w \in D, NEW f \in [D -> R], NEW g, \A x \in before[w] : f[x] = g[x]
      PROVE  body(w, f) = body(w, g)
  <2>0. w.seen \in SUBSET Procedure /\ \A r \in R : r.seen \in SUBSET Procedure
    OBVIOUS
  <2>1. CASE w.refs = <<>> \/ to(w) \in w.path
    <3> HIDE DEF D, R
    <3> QED
      BY <2>1
  <2>2. CASE w.refs # <<>> /\ to(w) \notin w.path
    <3>1. f[down(w)] = g[down(w)] /\ f[down(w)] \in R
      BY <1>4, <1>6, <1>9, <2>2
    <3>2. f[down(w)].seen \in SUBSET Procedure /\ w.seen \cup {to(w)} \in SUBSET Procedure
      BY <1>4, <2>0, <2>2, <3>1
    <3>3. \A s \in SUBSET Procedure : f[on(w, s)] = g[on(w, s)]
      BY <1>6, <1>9, <2>2
    <3> HIDE DEF D, R
    <3>4. /\ f[on(w, w.seen)] = g[on(w, w.seen)]
          /\ f[on(w, w.seen \cup {to(w)})] = g[on(w, w.seen \cup {to(w)})]
          /\ f[on(w, f[down(w)].seen)] = g[on(w, g[down(w)].seen)]
      BY <2>0, <3>1, <3>2, <3>3
    <3> QED
      BY <2>2, <3>1, <3>4
  <2> QED
    BY <2>1, <2>2
<1>10. walk \in [D -> R] /\ \A w \in D : walk[w] = body(w, walk)
  <2> DEFINE value == [w \in D |-> [f \in [D -> R] |-> body(w, f)]]
  <2> HIDE DEF D, R, body, walk
  <2>1. value \in [D -> [[D -> R] -> R]]
    BY <1>8
  <2>2. R # {}
    <3>1. [cycle |-> TRUE, seen |-> {}] \in R
      BY DEF R
    <3> QED
      BY <3>1
  <2>3. \A w \in D : \A f, g \in [D -> R] :
          (\A x \in before[w] : f[x] = g[x]) => value[w][f] = value[w][g]
    BY <1>9
  <2>4. \A w \in D : \A f \in [D -> R] : value[w][f] = body(w, f)
    OBVIOUS
  <2> HIDE DEF value
  <2>5. HasSolution(D, R, value)
    <3>1. RestsOnEarlier(D, R, before, value)
      BY <2>1, <2>2, <2>3 DEF RestsOnEarlier
    <3> QED
      BY <1>7, <3>1, RecursionAlong
  <2>6. PICK f \in [D -> R] : \A w \in D : f[w] = body(w, f)
    BY <2>4, <2>5 DEF HasSolution
  <2>7. walk = [w \in D |-> body(w, walk)]
    <3>1. f = [w \in D |-> body(w, f)]
      BY <2>6
    <3> QED
      BY <3>1, Zenon DEF walk
  <2> DEFINE T == {w \in D : walk[w] = f[w]}
  <2>8. ASSUME NEW w \in D, before[w] \subseteq T PROVE w \in T
    <3>1. \A x \in before[w] : f[x] = walk[x]
      BY <2>8
    <3>2. body(w, f) = body(w, walk)
      BY <1>9, <3>1
    <3>3. walk[w] = body(w, walk)
      BY <2>7
    <3> QED
      BY <2>6, <3>2, <3>3
  <2>9. D \subseteq T
    <3> HIDE DEF T
    <3> QED
      BY ONLY <1>7, <2>8 DEF Orders
  <2>10. walk = f
    BY <2>7, <2>9
  <2> QED
    BY <2>6, <2>10

\* What a walk that meets no cycle returns.
<1> DEFINE Pre(w) == /\ p \in w.path /\ p \notin w.seen
                     /\ \A i \in DOMAIN w.refs : w.refs[i] \in K
                     /\ Followed(w.seen, w.path, K)
           Post(w) == ~walk[w].cycle => /\ w.seen \cup Names(w.refs) \subseteq walk[w].seen
                                        /\ p \notin walk[w].seen
                                        /\ Followed(walk[w].seen, w.path, K)
           T == {w \in D : Pre(w) => Post(w)}
<1>11. \A w \in D : walk[w] = body(w, walk) /\ walk[w] \in R
  BY <1>10
<1> HIDE DEF walk
<1>12. ASSUME NEW q \in Procedure, q # p PROVE \A i \in DOMAIN L(q) : L(q)[i] \in K
  BY <1>12 DEF Known, HandoffRefs
<1>13. ASSUME NEW w \in D, before[w] \subseteq T PROVE w \in T
  <2> SUFFICES ASSUME Pre(w) PROVE Post(w)
    OBVIOUS
  <2> DEFINE n == to(w)
  <2>0. w.path \in SUBSET Procedure /\ w.seen \in SUBSET Procedure
    OBVIOUS
  <2>e. \A x \in before[w] : Pre(x) => Post(x)
    BY <1>13
  <2> HIDE DEF D, R, K, T
  <2>1. CASE w.refs = <<>>
    <3>1. walk[w] = [cycle |-> FALSE, seen |-> w.seen]
      BY <1>11, <2>1
    <3>2. Names(w.refs) = {}
      BY <2>1 DEF Names
    <3> QED
      BY <3>1, <3>2
  <2>2. CASE w.refs # <<>> /\ n \in w.path
    <3>1. walk[w] = [cycle |-> TRUE, seen |-> w.seen]
      BY <1>11, <2>2
    <3> QED
      BY <3>1
\* What is left of the list, once the procedure named first is followed.
  <2>3. ASSUME NEW s \in SUBSET Procedure, w.refs # <<>>, n \in s, w.seen \subseteq s, p \notin s,
               Followed(s, w.path, K), walk[w] = walk[on(w, s)]
        PROVE  Post(w)
    <3>1. on(w, s) \in before[w] /\ on(w, s).refs = Tail(w.refs) /\ on(w, s).path = w.path
          /\ on(w, s).seen = s
      BY <1>4, <1>6, <2>3
    <3>2. Pre(on(w, s))
      BY <1>4, <2>3, <3>1
    <3>3. Post(on(w, s))
      BY <2>e, <3>1, <3>2
    <3>4. Names(w.refs) = {n} \cup Names(Tail(w.refs))
      BY <1>4, <2>3
    <3> QED
      BY <2>3, <3>1, <3>3, <3>4
  <2>4. CASE w.refs # <<>> /\ n \in w.seen \ w.path
    <3>1. walk[w] = walk[on(w, w.seen)]
      BY <1>11, <2>4
    <3> QED
      BY <2>0, <2>3, <2>4, <3>1
  <2>5. CASE w.refs # <<>> /\ n \notin w.path /\ n \notin w.seen
    <3>0. n \in Procedure /\ n # p /\ Head(w.refs) \in K /\ Head(w.refs).asop = n
      <4>1. Head(w.refs) = w.refs[1] /\ 1 \in DOMAIN w.refs
        <5>1. w.refs \in Seq(Ref)
          BY DEF D
        <5> QED
          BY <2>5, <5>1
      <4> QED
        BY <1>4, <2>5, <4>1 DEF to
    <3>1. CASE ~Resolves(Head(w.refs))
      <4>1. walk[w] = walk[on(w, w.seen \cup {n})]
        BY <1>11, <2>5, <3>1
      <4>2. ~Handed(n, K)
        BY <3>0, <3>1 DEF Handed, ReferencesAgree, K
      <4>3. Followed(w.seen \cup {n}, w.path, K)
        BY <4>2 DEF Followed
      <4> QED
        BY <2>0, <2>3, <2>5, <3>0, <4>1, <4>3
    <3>2. CASE Resolves(Head(w.refs))
      <4> DEFINE d == down(w)
                 s == walk[d].seen
      <4>1. walk[w] = IF walk[d].cycle THEN walk[d] ELSE walk[on(w, s)]
        BY <1>11, <2>5, <3>2
      <4>2. /\ d \in before[w] /\ d \in D
            /\ d.refs = L(n) /\ d.path = w.path \cup {n} /\ d.seen = w.seen \cup {n}
        BY <1>4, <1>6, <2>5
      <4>3. Pre(d)
        <5>1. Followed(w.seen \cup {n}, w.path \cup {n}, K)
          BY DEF Followed
        <5> HIDE DEF d, n
        <5> QED
          BY <1>12, <3>0, <4>2, <5>1
      <4>4. Post(d)
        BY <2>e, <4>2, <4>3
      <4>5. CASE walk[d].cycle
        BY <4>1, <4>5
      <4>6. CASE ~walk[d].cycle
        <5>1. w.seen \cup {n} \cup Names(L(n)) \subseteq s /\ p \notin s /\ Followed(s, w.path \cup {n}, K)
          BY <4>2, <4>4, <4>6
        <5>2. Followed(s, w.path, K)
          BY <5>1 DEF Followed
        <5>3. s \in SUBSET Procedure
          BY <1>11, <4>2 DEF R
        <5>4. walk[w] = walk[on(w, s)]
          BY <4>1, <4>6
        <5> HIDE DEF s, d
        <5> QED
          BY <2>3, <2>5, <5>1, <5>2, <5>3, <5>4
      <4> QED
        BY <4>5, <4>6
    <3> QED
      BY <3>1, <3>2
  <2> QED
    BY <2>1, <2>2, <2>4, <2>5
<1>14. D \subseteq T
  <2>1. \A x \in D : before[x] \subseteq T => x \in T
    BY <1>13
  <2> HIDE DEF T, D
  <2> QED
    BY ONLY <1>7, <2>1 DEF Orders
<1>15. Pre(start)
  BY DEF Known, HandoffRefs, Followed
<1>16. Post(start)
  <2> HIDE DEF D, start, Pre, Post
  <2> QED
    BY <1>3, <1>14, <1>15
<1>17. walk[start].seen \in SUBSET Procedure /\ ~walk[start].cycle
  BY <1>1, <1>3, <1>11
<1> QED
  BY <1>16, <1>17

\* If everything that the hand-offs of the activated version lead to, followed
\* wherever they resolve once it is ACTIVE, leaves its procedure out, then the
\* service stays acyclic.
LEMMA FullWalkKeepsAcyclic ==
  ASSUME NEW p \in Procedure, NEW v \in Version, Activate(p, v),
         active \in [Procedure -> Version], ServiceIsAcyclic,
         NEW below \in SUBSET Procedure, p \notin below,
         HandsOffTo(p)' \subseteq below,
         \A q \in below : HandsOffTo(q)' \subseteq below
  PROVE  ServiceIsAcyclic'
<1>1. \A q \in Procedure : q # p => \A x \in HandsOffTo(q)' : x # p => x \in HandsOffTo(q)
  BY DEF Activate, HandsOffTo, HandoffRefs, Resolves, VersionIn
<1> SUFFICES ASSUME NEW S \in SUBSET Procedure, S # {},
                    \A q \in S : HandsOffTo(q)' \cap S # {}
             PROVE  FALSE
  BY DEF ServiceIsAcyclic
<1>2. CASE p \in S
  <2>1. S \cap below # {} /\ S \cap below \in SUBSET Procedure
    BY <1>2
  <2>2. PICK q \in S \cap below : HandsOffTo(q) \cap (S \cap below) = {}
    BY <2>1 DEF ServiceIsAcyclic
  <2>3. PICK x \in S : x \in HandsOffTo(q)'
    BY <2>2
  <2>4. x \in below /\ x # p /\ q # p /\ q \in Procedure
    BY <2>2, <2>3
  <2> QED
    BY <1>1, <2>2, <2>3, <2>4
<1>3. CASE p \notin S
  <2>1. PICK q \in S : HandsOffTo(q) \cap S = {}
    BY DEF ServiceIsAcyclic
  <2>2. PICK x \in S : x \in HandsOffTo(q)'
    BY <2>1
  <2> QED
    BY <1>1, <1>3, <2>1, <2>2
<1> QED
  BY <1>2, <1>3

\* What the cycle check of validate_handoff_targets needs: where references
\* agree, an activation that passes it keeps the service acyclic.
THEOREM AgreeingWalkKeepsAcyclic ==
  ASSUME NEW p \in Procedure, NEW v \in Version, Activate(p, v),
         active \in [Procedure -> Version], ServiceIsAcyclic, ReferencesAgree(p, v)
  PROVE  ServiceIsAcyclic'
<1> DEFINE K == Known(p, v)
<1>1. PICK seen \in SUBSET Procedure :
        /\ p \notin seen /\ Names(Handoffs[p][v]) \subseteq seen /\ Followed(seen, {p}, K)
  BY WalkIsClosed DEF Activate, ValidTargets
<1> DEFINE below == {q \in seen : Handed(q, K)}
<1>2. \A q \in Procedure : active'[q] = IF q = p THEN v ELSE active[q]
  BY DEF Activate
<1>3. \A r : r.asop \in Procedure \ {p} => (Resolves(r)' <=> Resolves(r))
  BY <1>2 DEF Resolves
<1>4. ASSUME NEW q \in below \cup {p} PROVE HandsOffTo(q)' \subseteq below
  <2> DEFINE now == HandoffRefs(q, active'[q])
  <2>1. \A r \in now : r \in K /\ r.asop \in seen
    <3>1. Names(Handoffs[q][active'[q]]) \subseteq seen /\ now \subseteq K
      BY <1>1, <1>2 DEF Followed, Known
    <3> QED
      BY <3>1 DEF Names, HandoffRefs
  <2>2. \A r \in now : Resolves(r)' => r.asop \in below
    BY <1>1, <1>3, <2>1 DEF Handed
  <2>3. HandsOffTo(q)' = {r.asop : r \in {s \in now : Resolves(s)'}}
    BY DEF HandsOffTo
  <2> HIDE DEF now, below
  <2> QED
    BY <2>2, <2>3
<1>5. below \in SUBSET Procedure /\ p \notin below
  BY <1>1
<1> HIDE DEF below
<1> QED
  BY <1>4, <1>5, FullWalkKeepsAcyclic

\* Only references that disagree ever close a cycle in service: _walk_handoffs
\* passes over a procedure whose first mention does not resolve, and that order
\* of two lines is all that is wrong with the check.
THEOREM CyclesCloseByDisagreement ==
  Spec => [][ServiceIsAcyclic /\ ~ServiceIsAcyclic'
               => \E p \in Procedure, v \in Version : Activate(p, v) /\ ~ReferencesAgree(p, v)]_vars
<1> DEFINE Closes == ServiceIsAcyclic /\ ~ServiceIsAcyclic'
             => \E p \in Procedure, v \in Version : Activate(p, v) /\ ~ReferencesAgree(p, v)
<1>1. IInv /\ [Next]_vars => [Closes]_vars
  <2> SUFFICES ASSUME IInv, [Next]_vars, ServiceIsAcyclic, ~ServiceIsAcyclic'
               PROVE  \E p \in Procedure, v \in Version : Activate(p, v) /\ ~ReferencesAgree(p, v)
    OBVIOUS
  <2>1. active \in [Procedure -> Version]
    BY DEF IInv, TypeOK
  <2>2. active' # active
    <3> SUFFICES ASSUME active' = active PROVE FALSE
      OBVIOUS
    <3>1. \A q : HandsOffTo(q)' = HandsOffTo(q)
      BY DEF HandsOffTo, HandoffRefs, Resolves
    <3> QED
      BY <3>1 DEF ServiceIsAcyclic
  <2>3. PICK p \in Procedure, v \in Version : Activate(p, v)
    BY <2>2 DEF Next, PinReference, StartChain, Refile, FileHandoff, Record, WriteAdoption, Adopt,
                store, vars
  <2> QED
    BY <2>1, <2>3, AgreeingWalkKeepsAcyclic
<1> QED
  BY <1>1, IInvHolds, PTL DEF Spec
=============================================================================
