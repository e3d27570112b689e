-------------------------- MODULE Ownership_proofs --------------------------
(***************************************************************************)
(* Proofs about Ownership, for any stores, actors and declarations and any *)
(* number of transfers, documents and flips.                               *)
(*                                                                         *)
(* Types come first.  The chain of the history is inductive given them,    *)
(* and fencing is inductive given the chain: a flip is accepted only at    *)
(* the current epoch, whose owner the chain names, and a later transfer    *)
(* appends to the history without changing who owned the run before.       *)
(***************************************************************************)
EXTENDS Ownership, TLAPS

\* Documents, flips and the run keep their shapes.
THEOREM TypeCorrect == Spec => []TypeOK
<1> USE OwnershipAssumptions DEF TypeOK, Transfer, Flip
<1>1. Init => TypeOK
  BY DEF Init
<1>2. TypeOK /\ [Next]_vars => TypeOK'
  <2> SUFFICES ASSUME TypeOK, [Next]_vars PROVE TypeOK'
    OBVIOUS
  <2>1. ASSUME NEW by \in Actor, NEW from \in Store, NEW to \in Store,
               WriteTransfer(by, from, to)
        PROVE  TypeOK'
    BY <2>1 DEF WriteTransfer, run
  <2>2. ASSUME NEW t \in transfers, ApplyTransfer(t) PROVE TypeOK'
    BY <2>2 DEF ApplyTransfer
  <2>3. ASSUME NEW s \in Store, ReadRun(s) PROVE TypeOK'
    BY <2>3 DEF ReadRun, run
  <2>4. ASSUME NEW s \in Store, NEW claims \in BOOLEAN, SendFlip(s, claims) PROVE TypeOK'
    BY <2>4 DEF SendFlip, run
  <2>5. ASSUME NEW f \in flips, AcceptFlip(f) PROVE TypeOK'
    BY <2>5 DEF AcceptFlip, run
  <2>6. CASE UNCHANGED vars
    BY <2>6 DEF vars
  <2> QED
    BY <2>1, <2>2, <2>3, <2>4, <2>5, <2>6 DEF Next
<1> QED
  BY <1>1, <1>2, PTL DEF Spec

\* The ownership history is one unbroken chain, whatever documents race.
THEOREM HistoryIsAlwaysAChain == Spec => []HistoryIsAChain
<1>1. Init => HistoryIsAChain
  BY OwnershipAssumptions DEF Init, HistoryIsAChain, OwnerAt
<1>2. TypeOK /\ HistoryIsAChain /\ [Next]_vars => HistoryIsAChain'
  <2> SUFFICES ASSUME TypeOK, HistoryIsAChain, [Next]_vars PROVE HistoryIsAChain'
    OBVIOUS
  <2>1. CASE UNCHANGED run
    BY <2>1 DEF run, HistoryIsAChain, OwnerAt
  <2>2. ASSUME NEW t \in transfers, ApplyTransfer(t) PROVE HistoryIsAChain'
    <3>1. /\ history \in Seq(Transfer) /\ t \in Transfer
          /\ Len(history) = epoch /\ epoch \in Nat
      BY DEF TypeOK, HistoryIsAChain
    <3>2. /\ Len(history') = epoch + 1 /\ epoch' = epoch + 1
          /\ history'[epoch + 1] = t
          /\ \A n \in 1 .. epoch : history'[n] = history[n]
      BY <2>2, <3>1 DEF ApplyTransfer, ValidTransfer
    <3>3. \A n \in 0 .. epoch : OwnerAt(n)' = OwnerAt(n)
      BY <3>1, <3>2 DEF OwnerAt
    <3>4. owner' = OwnerAt(epoch)'
      BY <2>2, <3>1, <3>2 DEF ApplyTransfer, OwnerAt
    <3>5. \A n \in 1 .. epoch : /\ history'[n].epoch = n
                                /\ history'[n].from = OwnerAt(n - 1)'
                                /\ history'[n].to # history'[n].from
      BY <3>1, <3>2, <3>3 DEF HistoryIsAChain
    <3>6. /\ t.epoch = epoch + 1 /\ t.from = OwnerAt(epoch) /\ t.to # t.from
      BY <2>2 DEF ApplyTransfer, ValidTransfer, HistoryIsAChain
    <3> QED
      BY <3>1, <3>2, <3>3, <3>4, <3>5, <3>6 DEF HistoryIsAChain
  <2> QED
    BY <2>1, <2>2 DEF Next, WriteTransfer, ReadRun, SendFlip, AcceptFlip, vars, run
<1> QED
  BY <1>1, <1>2, TypeCorrect, PTL DEF Spec

\* A person the operator declared administrator made every transfer.
OnlyAdministratorsTransfer ==
  \A n \in 1 .. Len(history) : history[n].by \in Humans \cap Administrators

\* Every transfer in the history was made by a declared human administrator.
THEOREM TransfersAreAdministered == Spec => []OnlyAdministratorsTransfer
<1>1. Init => OnlyAdministratorsTransfer
  BY DEF Init, OnlyAdministratorsTransfer
<1>2. TypeOK /\ OnlyAdministratorsTransfer /\ [Next]_vars => OnlyAdministratorsTransfer'
  <2> SUFFICES ASSUME TypeOK, OnlyAdministratorsTransfer, [Next]_vars
               PROVE  OnlyAdministratorsTransfer'
    OBVIOUS
  <2>1. CASE UNCHANGED run
    BY <2>1 DEF run, OnlyAdministratorsTransfer
  <2>2. ASSUME NEW t \in transfers, ApplyTransfer(t) PROVE OnlyAdministratorsTransfer'
    BY <2>2 DEF ApplyTransfer, ValidTransfer, OnlyAdministratorsTransfer, TypeOK
  <2> QED
    BY <2>1, <2>2 DEF Next, WriteTransfer, ReadRun, SendFlip, AcceptFlip, vars, run
<1> QED
  BY <1>1, <1>2, TypeCorrect, PTL DEF Spec

\* Accepted work comes from the owner of its epoch, in the order of the epochs.
THEOREM EvidenceIsAlwaysFenced == Spec => []EvidenceIsFenced
<1>1. Init => EvidenceIsFenced
  BY DEF Init, EvidenceIsFenced
<1>2. TypeOK /\ HistoryIsAChain /\ EvidenceIsFenced /\ [Next]_vars => EvidenceIsFenced'
  <2> SUFFICES ASSUME TypeOK, HistoryIsAChain, EvidenceIsFenced, [Next]_vars
               PROVE  EvidenceIsFenced'
    OBVIOUS
  <2>0. /\ history \in Seq(Transfer) /\ evidence \in Seq(Flip)
        /\ Len(history) = epoch /\ epoch \in Nat /\ owner = OwnerAt(epoch)
    BY DEF TypeOK, HistoryIsAChain
  <2>e. \A i \in 1 .. Len(evidence) : evidence[i].epoch \in Nat
    <3>1. \A i \in 1 .. Len(evidence) : evidence[i] \in Flip
      BY <2>0
    <3> QED
      BY <3>1 DEF Flip
  <2>1. CASE UNCHANGED <<run, evidence>>
    BY <2>1 DEF run, EvidenceIsFenced, OwnerAt
  <2>2. ASSUME NEW t \in transfers, ApplyTransfer(t) PROVE EvidenceIsFenced'
    <3>1. /\ evidence' = evidence /\ epoch' = epoch + 1
          /\ \A n \in 1 .. epoch : history'[n] = history[n]
      BY <2>0, <2>2 DEF ApplyTransfer, ValidTransfer, TypeOK
    <3>2. \A n \in 0 .. epoch : OwnerAt(n)' = OwnerAt(n)
      BY <2>0, <3>1 DEF OwnerAt
    <3>3. \A i \in 1 .. Len(evidence) : evidence[i].epoch \in 0 .. epoch
      BY <2>0, <2>e DEF EvidenceIsFenced
    <3> QED
      BY <2>0, <3>1, <3>2, <3>3 DEF EvidenceIsFenced
  <2>3. ASSUME NEW f \in flips, AcceptFlip(f) PROVE EvidenceIsFenced'
    <3>1. /\ UNCHANGED run /\ f \in Flip
          /\ f.epoch = epoch /\ f.store = OwnerAt(epoch)
          /\ Len(evidence') = Len(evidence) + 1
          /\ evidence'[Len(evidence) + 1] = f
          /\ \A i \in 1 .. Len(evidence) : evidence'[i] = evidence[i]
      BY <2>0, <2>3 DEF AcceptFlip, CheckFlip, TypeOK
    <3>2. \A n \in Nat : OwnerAt(n)' = OwnerAt(n)
      BY <3>1 DEF OwnerAt, run
    <3>3. \A i \in 1 .. Len(evidence) :
             /\ evidence[i].epoch \in Nat /\ evidence[i].epoch <= epoch
             /\ evidence[i].store = OwnerAt(evidence[i].epoch)
             /\ \A j \in 1 .. i : evidence[j].epoch <= evidence[i].epoch
      BY <2>0, <2>e DEF EvidenceIsFenced
    <3>4. epoch' = epoch
      BY <3>1 DEF run
    <3> QED
      BY <2>0, <3>1, <3>2, <3>3, <3>4 DEF EvidenceIsFenced
  <2> QED
    BY <2>1, <2>2, <2>3 DEF Next, WriteTransfer, ReadRun, SendFlip, vars, run
<1> QED
  BY <1>1, <1>2, TypeCorrect, HistoryIsAlwaysAChain, PTL DEF Spec

\* A store that predates epochs completes nothing after the first transfer: it
\* claims epoch 0, and the run is at a later one.
THEOREM LegacyAlwaysStops == Spec => LegacyStopsAtFirstTransfer
<1> DEFINE LegacyClaimsZero == \A f \in flips : ~ f.claims => f.epoch = 0
<1>1. Init => LegacyClaimsZero
  BY DEF Init
<1>2. LegacyClaimsZero /\ [Next]_vars => LegacyClaimsZero'
  BY DEF Next, WriteTransfer, ApplyTransfer, ReadRun, SendFlip, AcceptFlip, vars, run
<1>3. TypeOK /\ LegacyClaimsZero /\ [Next]_vars
      => (epoch > 0 /\ evidence' # evidence
            => evidence'[Len(evidence')].claims)
  <2> SUFFICES ASSUME TypeOK, LegacyClaimsZero, [Next]_vars, epoch > 0, evidence' # evidence
               PROVE  evidence'[Len(evidence')].claims
    OBVIOUS
  <2>1. PICK f \in flips : AcceptFlip(f)
    BY DEF Next, WriteTransfer, ApplyTransfer, ReadRun, SendFlip, vars, run
  <2>2. f \in Flip /\ evidence'[Len(evidence')] = f
    BY <2>1 DEF AcceptFlip, TypeOK
  <2>3. f.epoch = epoch
    BY <2>1 DEF AcceptFlip, CheckFlip
  <2> QED
    BY <2>2, <2>3 DEF TypeOK
<1>4. TypeOK /\ LegacyClaimsZero /\ [Next]_vars
      => [epoch > 0 /\ evidence' # evidence
            => evidence'[Len(evidence')].claims]_vars
  BY <1>3
<1> QED
  BY <1>1, <1>2, <1>4, TypeCorrect, PTL DEF Spec, LegacyStopsAtFirstTransfer
=============================================================================
