-------------------------- MODULE Revision_proofs ---------------------------
(***************************************************************************)
(* Proofs about Revision, for any contents, fields and number of versions  *)
(* and activations.                                                        *)
(*                                                                         *)
(* Versions are only ever appended, and the policy compares an agent's     *)
(* version with its predecessor and with the history up to it.  Each       *)
(* promise about all pairs of versions is inductive as it stands: a pair   *)
(* that ends in the new version is joined from the pair that ends in its   *)
(* predecessor and the one comparison the policy makes.                    *)
(***************************************************************************)
EXTENDS Revision, TLAPS

\* The versions and the service history keep their shapes.
THEOREM TypeCorrect == Spec => []TypeOK
<1> USE DEF TypeOK, Version, Service, KINDS, HUMAN, AGENT
<1>1. Init => TypeOK
  BY DEF Init
<1>2. TypeOK /\ [Next]_vars => TypeOK'
  <2> SUFFICES ASSUME TypeOK, [Next]_vars PROVE TypeOK'
    OBVIOUS
  <2>1. ASSUME NEW kind \in KINDS, NEW c \in Draft, Revise(kind, c) PROVE TypeOK'
    BY <2>1 DEF Revise
  <2>2. ASSUME NEW kind \in KINDS, NEW n \in 1 .. Len(versions), Activate(kind, n)
        PROVE  TypeOK'
    <3>1. /\ service' = Append(service, [version |-> n, by |-> kind])
          /\ versions' = versions
      BY <2>2 DEF Activate
    <3>2. [version |-> n, by |-> kind] \in Service
      OBVIOUS
    <3> QED
      BY <3>1, <3>2
  <2>3. ASSUME NEW kind \in KINDS, Retire(kind) PROVE TypeOK'
    <3>1. /\ service' = Append(service, [version |-> 0, by |-> kind])
          /\ versions' = versions
      BY <2>3 DEF Retire
    <3>2. [version |-> 0, by |-> kind] \in Service
      OBVIOUS
    <3> QED
      BY <3>1, <3>2
  <2>4. CASE UNCHANGED vars
    BY <2>4 DEF vars
  <2> QED
    BY <2>1, <2>2, <2>3, <2>4 DEF Next
<1> QED
  BY <1>1, <1>2, PTL DEF Spec

\* A step leaves the versions alone or appends one the policy allows.
LEMMA VersionsStep ==
  ASSUME TypeOK, [Next]_vars, ~ UNCHANGED versions
  PROVE  \E kind \in KINDS, c \in Draft :
           /\ MayRevise(kind, versions, versions[Len(versions)].content, c, FALSE)
           /\ versions' = Append(versions, [author |-> kind, content |-> c])
BY DEF Next, Revise, Activate, Retire, vars

\* What appending a version does to the versions there were.
LEMMA AppendVersion ==
  ASSUME TypeOK, NEW v, versions' = Append(versions, v)
  PROVE  /\ Len(versions) \in Nat \ {0} /\ Len(versions') = Len(versions) + 1
         /\ versions'[Len(versions) + 1] = v
         /\ \A i \in 1 .. Len(versions) : versions'[i] = versions[i]
BY DEF TypeOK

\* Agents never demote a human step, however many revisions they stack.
THEOREM HumanStepsAlwaysStay == Spec => []HumanStepsStay
<1>1. Init => HumanStepsStay
  BY DEF Init, HumanStepsStay
<1>2. TypeOK /\ HumanStepsStay /\ [Next]_vars => HumanStepsStay'
  <2> SUFFICES ASSUME TypeOK, HumanStepsStay, [Next]_vars PROVE HumanStepsStay'
    OBVIOUS
  <2>1. CASE UNCHANGED versions
    BY <2>1 DEF HumanStepsStay
  <2>2. CASE ~ UNCHANGED versions
    <3>1. PICK kind \in KINDS, c \in Draft :
            /\ MayRevise(kind, versions, versions[Len(versions)].content, c, FALSE)
            /\ versions' = Append(versions, [author |-> kind, content |-> c])
      BY <2>2, VersionsStep
    <3> DEFINE n == Len(versions)
    <3>2. /\ n \in Nat \ {0} /\ Len(versions') = n + 1
          /\ versions'[n + 1] = [author |-> kind, content |-> c]
          /\ \A i \in 1 .. n : versions'[i] = versions[i]
      BY <3>1, AppendVersion
    <3> HIDE DEF n
    <3> SUFFICES ASSUME NEW i \in 1 .. n + 1, NEW j \in 1 .. n + 1, i <= j,
                        \A k \in i + 1 .. j : versions'[k].author = AGENT
                 PROVE  HumanKeys(versions'[i].content) \subseteq HumanKeys(versions'[j].content)
      BY <3>2 DEF HumanStepsStay
    <3>3. CASE j <= n
      <4>1. \A k \in i + 1 .. j : versions[k].author = AGENT
        BY <3>2, <3>3
      <4>2. i \in 1 .. n /\ j \in 1 .. n
        BY <3>2, <3>3
      <4>3. HumanKeys(versions[i].content) \subseteq HumanKeys(versions[j].content)
        BY <4>1, <4>2 DEF HumanStepsStay, n
      <4> QED
        BY <4>2, <4>3, <3>2
    <3>4. CASE i = n + 1
      BY <3>2, <3>4
    <3>5. CASE j = n + 1 /\ i <= n
      <4>1. kind = AGENT
        BY <3>2, <3>5
      <4>2. HumanKeys(versions[n].content) \subseteq HumanKeys(c)
        BY <3>1, <4>1 DEF MayRevise, Ratchets, HumanKeys, n
      <4>3. \A k \in i + 1 .. n : versions[k].author = AGENT
        BY <3>2, <3>5
      <4>4. HumanKeys(versions[i].content) \subseteq HumanKeys(versions[n].content)
        BY <4>3, <3>2, <3>5 DEF HumanStepsStay, n
      <4> QED
        BY <4>2, <4>4, <3>2, <3>5
    <3> QED
      BY <3>2, <3>3, <3>4, <3>5
  <2> QED
    BY <2>1, <2>2
<1> QED
  BY <1>1, <1>2, TypeCorrect, PTL DEF Spec

\* Moves among the versions there were are moves in the longer history.
LEMMA MovesRemain ==
  ASSUME TypeOK, NEW v, versions' = Append(versions, v), NEW key, NEW f,
         NEW i \in 2 .. Len(versions)
  PROVE  /\ HumanMoved(versions', i, key, f) <=> HumanMoved(versions, i, key, f)
         /\ \A x : MovedBack(versions', i, key, f, x) <=> MovedBack(versions, i, key, f, x)
<1>1. i \in 1 .. Len(versions) /\ i - 1 \in 1 .. Len(versions)
  BY DEF TypeOK
<1>2. versions'[i] = versions[i] /\ versions'[i - 1] = versions[i - 1]
  BY <1>1, AppendVersion
<1> QED
  BY <1>2 DEF HumanMoved, MovedBack

\* A field a person moved stays away from what it was, as long as the step
\* stays in the procedure and no person moves it back.
THEOREM HumanChangesAlwaysStand == Spec => []HumanChangesStand
<1>1. Init => HumanChangesStand
  BY DEF Init, HumanChangesStand
<1>2. TypeOK /\ HumanChangesStand /\ [Next]_vars => HumanChangesStand'
  <2> SUFFICES ASSUME TypeOK, HumanChangesStand, [Next]_vars PROVE HumanChangesStand'
    OBVIOUS
  <2>1. CASE UNCHANGED versions
    BY <2>1 DEF HumanChangesStand, KeptThrough, StaysAway
  <2>2. CASE ~ UNCHANGED versions
    <3>1. PICK kind \in KINDS, c \in Draft :
            /\ MayRevise(kind, versions, versions[Len(versions)].content, c, FALSE)
            /\ versions' = Append(versions, [author |-> kind, content |-> c])
      BY <2>2, VersionsStep
    <3> DEFINE n == Len(versions)
    <3>2. /\ n \in Nat \ {0} /\ Len(versions') = n + 1
          /\ versions'[n + 1] = [author |-> kind, content |-> c]
          /\ \A i \in 1 .. n : versions'[i] = versions[i]
      BY <3>1, AppendVersion
    <3>3. ASSUME NEW i \in 2 .. n + 1, NEW j \in 2 .. n + 1, i <= j,
                 NEW key \in Keys(versions'[j].content), KeptThrough(i, j, key)',
                 NEW f \in FieldNames(key) \cap PolicedField,
                 HumanMoved(versions', i, key, f),
                 FieldsOf(versions'[j].content, key)[f]
                   = FieldsOf(versions'[i - 1].content, key)[f]
          PROVE  \E k \in i + 1 .. j :
                   MovedBack(versions', k, key, f, FieldsOf(versions'[i - 1].content, key)[f])
      <4> DEFINE left == FieldsOf(versions'[i - 1].content, key)[f]
                 before == FieldsOf(versions[n].content, key)[f]
      <4>0. i # j /\ i \in 2 .. n
        BY <3>3, <3>2 DEF HumanMoved
      <4>1. /\ versions'[i - 1] = versions[i - 1]
            /\ left = FieldsOf(versions[i - 1].content, key)[f]
            /\ HumanMoved(versions, i, key, f)
        <5>1. i - 1 \in 1 .. n
          BY <4>0
        <5> QED
          BY <5>1, <4>0, <3>1, <3>2, <3>3, MovesRemain
      <4>6. \A k \in i + 1 .. n :
              MovedBack(versions', k, key, f, left) <=> MovedBack(versions, k, key, f, left)
        <5>1. \A k \in i + 1 .. n : k \in 2 .. n
          BY <4>0
        <5> QED
          BY <5>1, <3>1, MovesRemain
      <4>2. \A k \in i - 1 .. n : k <= j => key \in Keys(versions[k].content)
        BY <4>0, <3>2, <3>3 DEF KeptThrough
      <4>3. ASSUME NEW m \in 2 .. n, i <= m, m <= j, FieldsOf(versions[m].content, key)[f] = left
            PROVE  \E k \in i + 1 .. m : MovedBack(versions', k, key, f, left)
        <5>1. KeptThrough(i, m, key) /\ key \in Keys(versions[m].content)
          BY <4>0, <4>2, <4>3 DEF KeptThrough
        <5>2. StaysAway(i, m, key, f)
          BY <5>1, <4>0, <4>3 DEF HumanChangesStand, n
        <5>3. PICK k \in i + 1 .. m : MovedBack(versions, k, key, f, left)
          BY <5>2, <4>1, <4>3 DEF StaysAway
        <5> QED
          BY <5>3, <4>0, <4>3, <4>6
      <4>4. CASE j \in 2 .. n
        BY <4>3, <4>4, <3>2, <3>3
      <4>5. CASE j = n + 1
        <5>1. key \in Keys(versions[n].content) /\ key \in Keys(c)
          BY <4>0, <4>2, <4>5, <3>2, <3>3
        <5>2. CASE before = left
          <6>1. PICK k \in i + 1 .. n : MovedBack(versions', k, key, f, left)
            BY <4>3, <5>2, <4>0, <4>5, <3>2
          <6> QED
            BY <6>1, <4>5, <4>0
        <5>3. CASE before # left /\ kind = HUMAN
          <6>1. MovedBack(versions', n + 1, key, f, left)
            <7>1. (n + 1) - 1 = n /\ versions'[n] = versions[n]
              BY <3>2
            <7> QED
              BY <7>1, <5>1, <5>3, <4>5, <3>2, <3>3 DEF MovedBack, HumanMoved
          <6> QED
            BY <6>1, <4>0, <4>5
        <5>4. CASE before # left /\ kind = AGENT
          <6>1. FieldsOf(c, key)[f] = left
            BY <4>5, <3>2, <3>3
          <6>2. ~ ForbiddenState(versions, key, f, left)
            BY <6>1, <5>1, <5>4, <3>1 DEF MayRevise, UndoesNoHuman, n
          <6>3. MovedAway(versions, i, key, f, left)
            BY <4>1 DEF MovedAway
          <6>4. PICK k \in i + 1 .. n : MovedBack(versions, k, key, f, left)
            BY <6>2, <6>3, <4>0 DEF ForbiddenState, n
          <6>5. MovedBack(versions', k, key, f, left)
            BY <6>4, <4>6
          <6> QED
            BY <6>4, <6>5, <4>0, <4>5
        <5> QED
          BY <5>2, <5>3, <5>4 DEF KINDS
      <4> QED
        BY <4>4, <4>5, <3>2
    <3> QED
      BY <3>2, <3>3 DEF HumanChangesStand, StaysAway
  <2> QED
    BY <2>1, <2>2
<1> QED
  BY <1>1, <1>2, TypeCorrect, PTL DEF Spec

\* What was put into service is not changed by versions or acts that follow.
LEMMA ServiceRemains ==
  ASSUME TypeOK, [Next]_vars, NEW n \in 0 .. Len(service)
  PROVE  /\ Len(service') >= Len(service)
         /\ InService(n)' = InService(n) /\ HumanInService(n)' = HumanInService(n)
         /\ ProtectedInService(n)' = ProtectedInService(n)
<1>1. \A i \in 1 .. Len(versions) : versions'[i] = versions[i]
  BY VersionsStep, AppendVersion
<1>2. /\ Len(service') >= Len(service)
      /\ \A i \in 1 .. Len(service) : service'[i] = service[i]
  <2>1. CASE UNCHANGED service
    BY <2>1 DEF TypeOK
  <2>2. CASE ~ UNCHANGED service
    <3>1. \E act : service' = Append(service, act)
      BY <2>2 DEF Next, Revise, Activate, Retire, vars
    <3> QED
      BY <3>1 DEF TypeOK
  <2> QED
    BY <2>1, <2>2
<1>3. InService(n)' = InService(n)
  BY <1>2 DEF InService
<1>4. InService(n) \in 0 .. Len(versions)
  BY DEF InService, TypeOK
<1> QED
  BY <1>1, <1>2, <1>3, <1>4 DEF HumanInService, ProtectedInService

\* No sequence of activations by agents takes a human step out of service, or
\* puts one where nothing was in service, or moves anything protected.
THEOREM ServiceAlwaysRatchets == Spec => []ServiceRatchets
<1>1. Init => ServiceRatchets
  BY DEF Init, ServiceRatchets
<1>2. TypeOK /\ ServiceRatchets /\ [Next]_vars => ServiceRatchets'
  <2> SUFFICES ASSUME TypeOK, ServiceRatchets, [Next]_vars PROVE ServiceRatchets'
    OBVIOUS
  <2>0. PICK last \in Nat : last = Len(service)
    BY DEF TypeOK
  <2>1. CASE UNCHANGED service
    <3>1. \A k \in 0 .. last : /\ InService(k)' = InService(k)
                               /\ HumanInService(k)' = HumanInService(k)
                               /\ ProtectedInService(k)' = ProtectedInService(k)
      BY <2>0, ServiceRemains
    <3>2. Len(service') = last /\ service' = service
      BY <2>0, <2>1
    <3> QED
      BY <2>0, <3>1, <3>2 DEF ServiceRatchets
  <2>2. ASSUME NEW kind \in KINDS, NEW act \in Service, service' = Append(service, act),
               act.by = kind,
               kind = AGENT => /\ act.version # 0
                               /\ InService(last) = 0 => HumanInService(last + 1)' = {}
                               /\ HumanInService(last) \subseteq HumanInService(last + 1)'
                               /\ ~ ProtectedInService(last)
                               /\ ~ ProtectedInService(last + 1)'
        PROVE  ServiceRatchets'
    <3>1. /\ Len(service') = last + 1 /\ service'[last + 1] = act
          /\ \A k \in 1 .. last : service'[k] = service[k]
      BY <2>0, <2>2 DEF TypeOK
    <3>2. \A k \in 0 .. last : /\ InService(k)' = InService(k)
                               /\ HumanInService(k)' = HumanInService(k)
                               /\ ProtectedInService(k)' = ProtectedInService(k)
      BY <2>0, ServiceRemains
    <3> SUFFICES ASSUME NEW i \in 0 .. last + 1, NEW j \in 1 .. last + 1, i < j,
                        \A k \in i + 1 .. j : service'[k].by = AGENT
                 PROVE  /\ HumanInService(i)' \subseteq HumanInService(j)'
                        /\ InService(i)' = 0 /\ j = i + 1 => HumanInService(j)' = {}
                        /\ ~ ProtectedInService(i)' /\ ~ ProtectedInService(j)'
      BY <2>0, <3>1 DEF ServiceRatchets
    <3>3. CASE j <= last
      <4>1. \A k \in i + 1 .. j : service[k].by = AGENT
        BY <2>0, <3>1, <3>3
      <4>2. i \in 0 .. last /\ j \in 1 .. last
        BY <2>0, <3>3
      <4> QED
        BY <2>0, <4>1, <4>2, <3>2 DEF ServiceRatchets
    <3>4. CASE j = last + 1
      <4>1. kind = AGENT
        BY <2>0, <2>2, <3>1, <3>4
      <4>2. CASE i = last
        BY <4>1, <4>2, <3>2, <3>4, <2>0, <2>2
      <4>3. CASE i < last
        <5>1. \A k \in i + 1 .. last : service[k].by = AGENT
          BY <2>0, <3>1, <3>4
        <5>2. i \in 0 .. last /\ last \in 1 .. last /\ last \in 0 .. last
          BY <2>0, <4>3
        <5>3. HumanInService(i) \subseteq HumanInService(last) /\ ~ ProtectedInService(i)
          BY <2>0, <5>1, <5>2, <4>3 DEF ServiceRatchets
        <5>4. j # i + 1
          BY <2>0, <4>3, <3>4
        <5> QED
          BY <5>2, <5>3, <5>4, <4>1, <3>2, <3>4, <2>2
      <4> QED
        BY <4>2, <4>3, <2>0, <3>4
    <3> QED
      BY <3>3, <3>4, <2>0
  <2>3. ASSUME NEW kind \in KINDS, NEW n \in 1 .. Len(versions), Activate(kind, n)
        PROVE  ServiceRatchets'
    <3> DEFINE act == [version |-> n, by |-> kind]
    <3>1. /\ service' = Append(service, act) /\ versions' = versions
          /\ MayRevise(kind, versions, versions[IF Active = 0 THEN n ELSE Active].content,
                       versions[n].content, Active = 0)
      BY <2>3 DEF Activate
    <3>2. /\ act \in Service /\ n # 0 /\ InService(last) = Active
      BY <2>0 DEF Service, Active
    <3>3. InService(last + 1)' = n
      BY <2>0, <3>1 DEF InService, TypeOK
    <3>4. /\ HumanInService(last + 1)' = HumanKeys(versions[n].content)
          /\ ProtectedInService(last + 1)' <=> CarriesProtected(versions[n].content)
      <4>1. HumanInService(last + 1)' = HumanKeys(versions[n].content)
        BY <3>1, <3>2, <3>3 DEF HumanInService
      <4>2. ProtectedInService(last + 1)' <=> CarriesProtected(versions[n].content)
        BY <3>1, <3>2, <3>3 DEF ProtectedInService
      <4> QED
        BY <4>1, <4>2
    <3>5. /\ HumanInService(last) = IF Active = 0 THEN {} ELSE HumanKeys(versions[Active].content)
          /\ ProtectedInService(last)
               <=> (Active # 0 /\ CarriesProtected(versions[Active].content))
      BY <3>2 DEF HumanInService, ProtectedInService
    <3>6. kind = AGENT => /\ Active = 0 => HumanKeys(versions[n].content) = {}
                          /\ Active # 0 => HumanKeys(versions[Active].content)
                                             \subseteq HumanKeys(versions[n].content)
                          /\ Active # 0 => ~ CarriesProtected(versions[Active].content)
                          /\ ~ CarriesProtected(versions[n].content)
      BY <3>1 DEF MayRevise, Ratchets, HumanKeys
    <3> QED
      BY <2>0, <2>2, <3>1, <3>2, <3>4, <3>5, <3>6
  <2>4. ASSUME NEW kind \in KINDS, Retire(kind) PROVE ServiceRatchets'
    <3>1. [version |-> 0, by |-> kind] \in Service
      BY DEF Service
    <3> QED
      BY <2>0, <2>2, <2>4, <3>1 DEF Retire, HUMAN, AGENT
  <2> QED
    BY <2>1, <2>3, <2>4 DEF Next, Revise, vars
<1> QED
  BY <1>1, <1>2, TypeCorrect, PTL DEF Spec
=============================================================================
