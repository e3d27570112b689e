--------------------------- MODULE Journal_proofs ---------------------------
(***************************************************************************)
(* Proofs about Journal, for any number of steps, any order among them,    *)
(* any gates and attestations, and any bounds.                             *)
(*                                                                         *)
(* Every action leaves the journal alone or appends one entry to one step. *)
(* JournalStep says which entries may be appended; the properties of the   *)
(* journal follow from it and from how the two counts grow.                *)
(***************************************************************************)
EXTENDS Journal, TLAPS, FiniteSetTheorems, WellFoundedInduction

-----------------------------------------------------------------------------
(* Data. *)

\* A non-empty set of naturals has a smallest member.
LEMMA SmallestMember ==
  ASSUME NEW T \in SUBSET Nat, T # {}
  PROVE  \E x \in T : \A y \in T : x <= y
<1>1. \A x, y \in Nat : y < x => <<y, x>> \in OpToRel(<, Nat)
  BY DEF OpToRel
<1>2. \E x \in T : \A y \in T : ~ (<<y, x>> \in OpToRel(<, Nat))
  BY NatLessThanWellFounded, WFMin
<1>3. \E x \in T : \A y \in T : ~ (y < x)
  BY <1>1, <1>2, Zenon
<1> QED
  BY <1>3

\* How many of the first indices are in a set of indices.
First(S, n) == Cardinality({k \in 1 .. n : k \in S})

LEMMA CountNext ==
  ASSUME NEW S, NEW n \in Nat
  PROVE  /\ First(S, 0) = 0 /\ First(S, n) \in Nat
         /\ First(S, n + 1) = First(S, n) + (IF n + 1 \in S THEN 1 ELSE 0)
<1> DEFINE upTo(m) == {k \in 1 .. m : k \in S}
<1>1. IsFiniteSet(upTo(n)) /\ Cardinality(upTo(n)) \in Nat
  <2>1. IsFiniteSet(1 .. n) /\ upTo(n) \subseteq 1 .. n
    BY FS_Interval
  <2> QED
    BY <2>1, FS_Subset, FS_CardinalityType
<1>2. Cardinality(upTo(0)) = 0
  <2>1. upTo(0) = {}
    OBVIOUS
  <2> QED
    BY <2>1, FS_EmptySet
<1>3. CASE n + 1 \in S
  <2>1. upTo(n + 1) = upTo(n) \cup {n + 1} /\ n + 1 \notin upTo(n)
    BY <1>3
  <2> QED
    BY <1>1, <1>2, <1>3, <2>1, FS_AddElement DEF First
<1>4. CASE n + 1 \notin S
  <2>1. upTo(n + 1) = upTo(n)
    BY <1>4
  <2> QED
    BY <1>1, <1>2, <1>4, <2>1 DEF First
<1> QED
  BY <1>3, <1>4

\* The counts after an entry is appended.
LEMMA CountsOfAppend ==
  ASSUME NEW log \in Seq(Entry), NEW x \in Entry
  PROVE  LET new == Append(log, x)
             n == Len(log)
         IN  /\ \A k \in 0 .. n : /\ ChargedUpTo(log, k) \in Nat
                                  /\ StartsUpTo(log, k) \in Nat
                                  /\ ChargedUpTo(new, k) = ChargedUpTo(log, k)
                                  /\ StartsUpTo(new, k) = StartsUpTo(log, k)
             /\ ChargedUpTo(new, n + 1) = ChargedUpTo(log, n) + (IF Charged(x) THEN 1 ELSE 0)
             /\ StartsUpTo(new, n + 1)
                  = StartsUpTo(log, n) + (IF x.event = "started" THEN 1 ELSE 0)
<1> DEFINE new == Append(log, x)
           n == Len(log)
           C == {k \in 1 .. n + 1 : Charged(new[k])}
           B == {k \in 1 .. n + 1 : new[k].event = "started"}
<1>1. /\ n \in Nat /\ new[n + 1] = x
      /\ \A k \in 1 .. n : new[k] = log[k]
  OBVIOUS
<1>2. \A k \in 0 .. n + 1 : /\ ChargedUpTo(new, k) = First(C, k)
                            /\ StartsUpTo(new, k) = First(B, k)
  <2> SUFFICES ASSUME NEW k \in 0 .. n + 1
               PROVE  /\ ChargedUpTo(new, k) = First(C, k)
                      /\ StartsUpTo(new, k) = First(B, k)
    OBVIOUS
  <2>1. /\ {m \in 1 .. k : Charged(new[m])} = {m \in 1 .. k : m \in C}
        /\ {m \in 1 .. k : new[m].event = "started"} = {m \in 1 .. k : m \in B}
    BY <1>1
  <2> QED
    BY <2>1 DEF ChargedUpTo, StartsUpTo, First
<1>3. ASSUME NEW k \in 0 .. n
      PROVE  /\ ChargedUpTo(new, k) = ChargedUpTo(log, k)
             /\ StartsUpTo(new, k) = StartsUpTo(log, k)
             /\ ChargedUpTo(log, k) \in Nat /\ StartsUpTo(log, k) \in Nat
  <2>1. /\ {m \in 1 .. k : Charged(new[m])} = {m \in 1 .. k : Charged(log[m])}
        /\ {m \in 1 .. k : new[m].event = "started"} = {m \in 1 .. k : log[m].event = "started"}
    BY <1>1
  <2>2. ChargedUpTo(new, k) \in Nat /\ StartsUpTo(new, k) \in Nat
    <3> HIDE DEF C, B
    <3>1. k \in Nat /\ k \in 0 .. n + 1
      BY <1>1
    <3>2. First(C, k) \in Nat /\ First(B, k) \in Nat
      BY <3>1, CountNext
    <3> QED
      BY <1>2, <3>1, <3>2
  <2> QED
    BY <2>1, <2>2 DEF ChargedUpTo, StartsUpTo
<1>4. /\ n + 1 \in C <=> Charged(x)
      /\ n + 1 \in B <=> x.event = "started"
  BY <1>1
<1>5. /\ ChargedUpTo(new, n + 1) = ChargedUpTo(new, n) + (IF n + 1 \in C THEN 1 ELSE 0)
      /\ StartsUpTo(new, n + 1) = StartsUpTo(new, n) + (IF n + 1 \in B THEN 1 ELSE 0)
  <2> HIDE DEF C, B
  <2>1. n \in 0 .. n + 1 /\ n + 1 \in 0 .. n + 1
    BY <1>1
  <2>2. /\ First(C, n + 1) = First(C, n) + (IF n + 1 \in C THEN 1 ELSE 0)
        /\ First(B, n + 1) = First(B, n) + (IF n + 1 \in B THEN 1 ELSE 0)
    BY <1>1, CountNext
  <2> QED
    BY <1>2, <2>1, <2>2
<1>6. n \in 0 .. n
  BY <1>1
<1> QED
  BY <1>3, <1>4, <1>5, <1>6

-----------------------------------------------------------------------------
(* What the actions append. *)

\* The counts of a journal are naturals.
LEMMA CountsAreNaturals ==
  ASSUME TypeOK, NEW i \in Steps
  PROVE  /\ Len(journal[i]) \in Nat /\ journal[i] \in Seq(Entry)
         /\ Attempts(i) \in Nat /\ ChargedFailures(journal[i]) \in Nat
<1>1. journal[i] \in Seq(Entry)
  BY DEF TypeOK
<1>2. [event |-> "started", attempt |-> 0, fault |-> "none"] \in Entry
  BY DEF Entry, STEP_EVENTS
<1>3. Len(journal[i]) \in Nat /\ Len(journal[i]) \in 0 .. Len(journal[i])
  BY <1>1
<1> QED
  BY <1>1, <1>2, <1>3, CountsOfAppend DEF Attempts, ChargedFailures

LEMMA OutcomeIsAnEnd ==
  ASSUME NEW gate, NEW e
  PROVE  GateOutcome(gate, e) \in {"passed", "failed", "cannot_evaluate", "incomplete"}
BY DEF GateOutcome, Evaluates

\* What may be appended to the journal of a step.
MayAppend(i, x) ==
  /\ x.event \in MayFollow(LastEvent(journal[i]))
  /\ x.attempt = Attempts(i) + (IF x.event = "started" THEN 1 ELSE 0)
  /\ x.event = "started" =>
       /\ LastEvent(journal[i]) \in {"none", "started"} => After[i] \subseteq Done
       /\ LastIsCharged(i) => ChargedFailures(journal[i]) = 1
  /\ x.event = "escalated" =>
       \/ LastIsCharged(i) /\ ChargedFailures(journal[i]) = 2
       \/ LastEvent(journal[i]) = "parked" /\ Gate[i].onTimeout = "escalate"

Appends(i, x) == journal' = [journal EXCEPT ![i] = Append(@, x)] /\ MayAppend(i, x)

\* The end of an attempt appends an entry of that attempt.
LEMMA EndAppends ==
  ASSUME TypeOK, NEW i \in Steps, NEW event \in STEP_EVENTS \ {"started", "escalated"},
         EndStep(i, event), event \in MayFollow(LastEvent(journal[i]))
  PROVE  \E x \in Entry : Appends(i, x) /\ x.event = event
<1>1. PICK fault \in FAULT_CLASSES \cup {"none"} : Append1(i, event, fault)
  BY JournalAssumptions DEF EndStep
<1> DEFINE x == [event |-> event, attempt |-> Attempts(i), fault |-> fault]
<1>2. x \in Entry
  BY CountsAreNaturals DEF Entry
<1>3. journal' = [journal EXCEPT ![i] = Append(@, x)]
  BY <1>1 DEF Append1
<1>4. MayAppend(i, x)
  BY CountsAreNaturals DEF MayAppend
<1> QED
  BY <1>2, <1>3, <1>4 DEF Appends

\* A new lease appends a start.
LEMMA StartAppends ==
  ASSUME TypeOK, NEW i \in Steps, Start(i),
         "started" \in MayFollow(LastEvent(journal[i])),
         LastEvent(journal[i]) \in {"none", "started"} => After[i] \subseteq Done,
         LastIsCharged(i) => ChargedFailures(journal[i]) = 1
  PROVE  \E x \in Entry : Appends(i, x) /\ x.event = "started"
<1> DEFINE x == [event |-> "started", attempt |-> Attempts(i) + 1, fault |-> "none"]
<1>1. x \in Entry
  BY CountsAreNaturals DEF Entry, STEP_EVENTS
<1>2. journal' = [journal EXCEPT ![i] = Append(@, x)]
  BY DEF Start
<1>3. MayAppend(i, x)
  BY DEF MayAppend
<1> QED
  BY <1>1, <1>2, <1>3 DEF Appends

\* The last entry of a step, seen through its event and its charge.
LEMMA LastEntry ==
  ASSUME TypeOK, NEW i \in Steps
  PROVE  /\ LastEvent(journal[i]) \in STEP_EVENTS \cup {"none"}
         /\ LastEvent(journal[i]) = "none" <=> journal[i] = <<>>
         /\ LastIsCharged(i) => LastEvent(journal[i]) = "failed"
<1>1. journal[i] \in Seq(Entry)
  BY DEF TypeOK
<1>2. journal[i] # <<>> => journal[i][Len(journal[i])] \in Entry
  BY <1>1
<1>3. \A x \in Entry : x.event \in STEP_EVENTS
  BY DEF Entry
<1> QED
  BY <1>2, <1>3
     DEF LastEvent, LastIsCharged, Charged, STEP_EVENTS, DONE_EVENTS, BLOCKED_EVENTS

LEMMA JournalStep ==
  ASSUME TypeOK, [Next]_vars, journal' # journal
  PROVE  \E i \in Steps, x \in Entry : Appends(i, x)
<1> USE DEF STEP_EVENTS, DONE_EVENTS, BLOCKED_EVENTS
<1>1. PICK i \in Steps :
        \/ Claim(i) \/ Forget(i) \/ TimeOut(i)
        \/ Repair(i) \/ Escalate(i) \/ Refile(i) \/ Reopen(i)
        \/ \E n \in executors[i] : Report(i, n) \/ \E a \in Attestation : Attest(i, n, a)
        \/ \E a \in Attestation : Answer(i, a)
  BY DEF Next, vars
<1>2. CASE Claim(i)
  <2>1. LastEvent(journal[i]) \in {"none", "started"} /\ After[i] \subseteq Done /\ Start(i)
    BY <1>2, LastEntry DEF Claim, ResumePoint, Done
  <2>2. "started" \in MayFollow(LastEvent(journal[i])) /\ ~ LastIsCharged(i)
    BY <2>1, LastEntry DEF MayFollow
  <2> QED
    BY <2>1, <2>2, StartAppends
<1>3. CASE Forget(i)
  BY <1>3 DEF Forget
<1>4. CASE TimeOut(i)
  <2>1. /\ LastEvent(journal[i]) = "parked" /\ EndStep(i, TimeoutEvent(Gate[i]))
        /\ Gate[i].onTimeout # "none"
    BY <1>4 DEF TimeOut
  <2>2. Gate[i].onTimeout \in {"pass", "fail", "escalate", "proceed_on_default"}
    BY <2>1, JournalAssumptions DEF GateType
  <2>3. TimeoutEvent(Gate[i]) \in {"passed", "failed", "done_on_default", "escalated"}
        /\ (TimeoutEvent(Gate[i]) = "escalated" => Gate[i].onTimeout = "escalate")
    BY <2>2 DEF TimeoutEvent
  <2>4. TimeoutEvent(Gate[i]) \in MayFollow(LastEvent(journal[i]))
    BY <2>1, <2>3 DEF MayFollow
  <2>5. CASE TimeoutEvent(Gate[i]) # "escalated"
    BY <2>1, <2>3, <2>4, <2>5, EndAppends
  <2>6. CASE TimeoutEvent(Gate[i]) = "escalated"
    <3> DEFINE x == [event |-> "escalated", attempt |-> Attempts(i), fault |-> "none"]
    <3>1. Append1(i, "escalated", "none")
      BY <2>1, <2>6 DEF EndStep
    <3>2. x \in Entry /\ journal' = [journal EXCEPT ![i] = Append(@, x)]
      BY <3>1, CountsAreNaturals DEF Append1, Entry
    <3>3. MayAppend(i, x)
      BY <2>1, <2>3, <2>4, <2>6, CountsAreNaturals DEF MayAppend
    <3> QED
      BY <3>2, <3>3 DEF Appends
  <2> QED
    BY <2>5, <2>6
<1>5. CASE Repair(i)
  <2>1. LastIsCharged(i) /\ ChargedFailures(journal[i]) = 1 /\ Start(i)
    BY <1>5, CountsAreNaturals DEF Repair, RetryDecision
  <2>2. "started" \in MayFollow(LastEvent(journal[i]))
        /\ LastEvent(journal[i]) \notin {"none", "started"}
    BY <2>1, LastEntry DEF MayFollow
  <2> QED
    BY <2>1, <2>2, StartAppends
<1>6. CASE Escalate(i)
  <2> DEFINE x == [event |-> "escalated", attempt |-> Attempts(i), fault |-> "none"]
  <2>1. /\ LastIsCharged(i) /\ ChargedFailures(journal[i]) = 2
        /\ Append1(i, "escalated", "none")
    BY <1>6, CountsAreNaturals DEF Escalate, RetryDecision
  <2>2. x \in Entry /\ journal' = [journal EXCEPT ![i] = Append(@, x)]
    BY <2>1, CountsAreNaturals DEF Append1, Entry
  <2>3. "escalated" \in MayFollow(LastEvent(journal[i]))
    BY <2>1, LastEntry DEF MayFollow
  <2>4. MayAppend(i, x)
    BY <2>1, <2>3, CountsAreNaturals DEF MayAppend
  <2> QED
    BY <2>2, <2>4 DEF Appends
<1>7. CASE Refile(i)
  <2>1. LastEvent(journal[i]) \in {"cannot_evaluate", "failed"} /\ ~ LastIsCharged(i) /\ Start(i)
    BY <1>7, LastEntry DEF Refile
  <2>2. "started" \in MayFollow(LastEvent(journal[i]))
    BY <2>1 DEF MayFollow
  <2> QED
    BY <2>1, <2>2, StartAppends
<1>8. CASE Reopen(i)
  <2>1. LastEvent(journal[i]) = "escalated" /\ ~ LastIsCharged(i) /\ Start(i)
    BY <1>8, LastEntry DEF Reopen
  <2>2. "started" \in MayFollow(LastEvent(journal[i]))
    BY <2>1 DEF MayFollow
  <2> QED
    BY <2>1, <2>2, StartAppends
<1>9. ASSUME NEW n \in executors[i], Report(i, n) PROVE \E x \in Entry : Appends(i, x)
  <2>1. LastEvent(journal[i]) = "started"
    BY <1>9 DEF Report, Holds
  <2> DEFINE outcome == GateOutcome(Gate[i], evidence[i])
  <2>2. CASE Gate[i].kind = "deterministic"
    <3>1. EndStep(i, outcome) /\ outcome # "incomplete"
      BY <1>9, <2>2 DEF Report
    <3>2. outcome \in {"passed", "failed", "cannot_evaluate"}
      BY <3>1, OutcomeIsAnEnd
    <3> HIDE DEF outcome
    <3>3. outcome \in MayFollow(LastEvent(journal[i]))
      BY <2>1, <3>2 DEF MayFollow
    <3> QED
      BY <3>1, <3>2, <3>3, EndAppends
  <2>3. CASE Gate[i].kind # "deterministic"
    <3>1. Append1(i, "parked", "none")
      BY <1>9, <2>3 DEF Report
    <3>2. EndStep(i, "parked")
      BY <3>1 DEF EndStep
    <3>3. "parked" \in MayFollow(LastEvent(journal[i]))
      BY <2>1 DEF MayFollow
    <3> QED
      BY <3>2, <3>3, EndAppends
  <2> QED
    BY <2>2, <2>3
<1>10. ASSUME NEW a \in Attestation, Answer(i, a) PROVE \E x \in Entry : Appends(i, x)
  <2> DEFINE outcome == GateOutcome(Gate[i], Append(evidence[i], a))
  <2>1. LastEvent(journal[i]) = "parked" /\ outcome # "incomplete" /\ EndStep(i, outcome)
    BY <1>10 DEF Answer, vars
  <2>2. outcome \in {"passed", "failed", "cannot_evaluate"}
    BY <2>1, OutcomeIsAnEnd
  <2> HIDE DEF outcome
  <2>3. outcome \in MayFollow(LastEvent(journal[i]))
    BY <2>1, <2>2 DEF MayFollow
  <2> QED
    BY <2>1, <2>2, <2>3, EndAppends
<1> QED
  BY <1>1, <1>2, <1>3, <1>4, <1>5, <1>6, <1>7, <1>8, <1>9, <1>10 DEF Attest

\* What an appended entry leaves behind.
LEMMA AppendedJournal ==
  ASSUME TypeOK, NEW i \in Steps, NEW x \in Entry, Appends(i, x)
  PROVE  LET n == Len(journal[i]) IN
         /\ n \in Nat /\ Len(journal'[i]) = n + 1 /\ journal'[i][n + 1] = x
         /\ \A k \in 1 .. n : journal'[i][k] = journal[i][k]
         /\ \A k \in 0 .. n : /\ ChargedUpTo(journal'[i], k) = ChargedUpTo(journal[i], k)
                              /\ StartsUpTo(journal'[i], k) = StartsUpTo(journal[i], k)
                              /\ ChargedUpTo(journal[i], k) \in Nat
         /\ ChargedUpTo(journal'[i], n + 1)
              = ChargedFailures(journal[i]) + (IF Charged(x) THEN 1 ELSE 0)
         /\ StartsUpTo(journal'[i], n + 1)
              = Attempts(i) + (IF x.event = "started" THEN 1 ELSE 0)
         /\ LastEvent(journal'[i]) = x.event /\ journal'[i] # <<>>
         /\ LastEvent(journal[i]) = IF n = 0 THEN "none" ELSE journal[i][n].event
         /\ LastIsCharged(i) <=> n > 0 /\ Charged(journal[i][n])
         /\ \A j \in Steps \ {i} : journal'[j] = journal[j]
<1> DEFINE log == journal[i]
           n == Len(log)
<1>1. log \in Seq(Entry) /\ journal \in [Steps -> Seq(Entry)]
  BY DEF TypeOK
<1>2. journal'[i] = Append(log, x) /\ \A j \in Steps \ {i} : journal'[j] = journal[j]
  BY <1>1 DEF Appends
<1>3. /\ n \in Nat /\ Len(Append(log, x)) = n + 1 /\ Append(log, x)[n + 1] = x
      /\ \A k \in 1 .. n : Append(log, x)[k] = log[k]
      /\ log = <<>> <=> n = 0
      /\ Append(log, x) # <<>>
  BY <1>1
<1>4. /\ \A k \in 0 .. n : /\ ChargedUpTo(Append(log, x), k) = ChargedUpTo(log, k)
                           /\ StartsUpTo(Append(log, x), k) = StartsUpTo(log, k)
                           /\ ChargedUpTo(log, k) \in Nat
      /\ ChargedUpTo(Append(log, x), n + 1)
           = ChargedFailures(log) + (IF Charged(x) THEN 1 ELSE 0)
      /\ StartsUpTo(Append(log, x), n + 1)
           = Attempts(i) + (IF x.event = "started" THEN 1 ELSE 0)
  BY <1>1, CountsOfAppend DEF ChargedFailures, Attempts
<1>5. /\ LastEvent(Append(log, x)) = x.event
      /\ LastEvent(log) = IF n = 0 THEN "none" ELSE log[n].event
      /\ LastIsCharged(i) <=> n > 0 /\ Charged(log[n])
  BY <1>3 DEF LastEvent, LastIsCharged
<1> QED
  BY <1>2, <1>3, <1>4, <1>5

-----------------------------------------------------------------------------
(* The state keeps its shape. *)

THEOREM TypeCorrect == Spec => []TypeOK
<1>1. Init => TypeOK
  BY DEF Init, TypeOK
<1>2. TypeOK /\ [Next]_vars => TypeOK'
  <2> SUFFICES ASSUME TypeOK, [Next]_vars PROVE TypeOK'
    OBVIOUS
  <2>1. journal' \in [Steps -> Seq(Entry)]
    <3>1. CASE journal' = journal
      BY <3>1 DEF TypeOK
    <3>2. CASE journal' # journal
      <4>1. PICK i \in Steps, x \in Entry : Appends(i, x)
        BY <3>2, JournalStep
      <4>2. Append(journal[i], x) \in Seq(Entry)
        BY DEF TypeOK
      <4> QED
        BY <4>1, <4>2 DEF TypeOK, Appends
    <3> QED
      BY <3>1, <3>2
  <2>2. ASSUME NEW i \in Steps, Start(i)
        PROVE  /\ evidence' \in [Steps -> Seq(Attestation)]
               /\ executors' \in [Steps -> SUBSET (1 .. MaxAttempts)]
               /\ running' \subseteq Steps
    <3>1. Attempts(i) + 1 \in 1 .. MaxAttempts
      BY <2>2, CountsAreNaturals, JournalAssumptions DEF Start
    <3>2. <<>> \in Seq(Attestation)
      OBVIOUS
    <3> QED
      BY <2>2, <3>1, <3>2 DEF Start, TypeOK
  <2>3. /\ evidence' \in [Steps -> Seq(Attestation)]
        /\ executors' \in [Steps -> SUBSET (1 .. MaxAttempts)]
        /\ running' \subseteq Steps
    <3>1. CASE UNCHANGED vars
      BY <3>1 DEF vars, TypeOK
    <3>2. CASE Next
      <4>1. PICK i \in Steps :
              \/ Claim(i) \/ Forget(i) \/ TimeOut(i)
              \/ Repair(i) \/ Escalate(i) \/ Refile(i) \/ Reopen(i)
              \/ \E n \in executors[i] : Report(i, n) \/ \E a \in Attestation : Attest(i, n, a)
              \/ \E a \in Attestation : Answer(i, a)
        BY <3>2 DEF Next
      <4>2. CASE Claim(i) \/ Repair(i) \/ Refile(i) \/ Reopen(i)
        BY <2>2, <4>2 DEF Claim, Repair, Refile, Reopen
      <4>3. CASE Forget(i) \/ TimeOut(i) \/ Escalate(i)
        BY <4>3 DEF Forget, TimeOut, Escalate, TypeOK
      <4>4. ASSUME NEW n \in executors[i], Report(i, n)
            PROVE  /\ evidence' \in [Steps -> Seq(Attestation)]
                   /\ executors' \in [Steps -> SUBSET (1 .. MaxAttempts)]
                   /\ running' \subseteq Steps
        BY <4>4 DEF Report, TypeOK
      <4>5. ASSUME NEW a \in Attestation
            PROVE  [evidence EXCEPT ![i] = Append(@, a)] \in [Steps -> Seq(Attestation)]
        <5>1. Append(evidence[i], a) \in Seq(Attestation)
          BY DEF TypeOK
        <5> QED
          BY <5>1 DEF TypeOK
      <4>6. ASSUME NEW n \in executors[i], NEW a \in Attestation, Attest(i, n, a)
            PROVE  /\ evidence' \in [Steps -> Seq(Attestation)]
                   /\ executors' \in [Steps -> SUBSET (1 .. MaxAttempts)]
                   /\ running' \subseteq Steps
        BY <4>5, <4>6 DEF Attest, TypeOK
      <4>7. ASSUME NEW a \in Attestation, Answer(i, a)
            PROVE  /\ evidence' \in [Steps -> Seq(Attestation)]
                   /\ executors' \in [Steps -> SUBSET (1 .. MaxAttempts)]
                   /\ running' \subseteq Steps
        BY <4>5, <4>7 DEF Answer, TypeOK
      <4> QED
        BY <4>1, <4>2, <4>3, <4>4, <4>6, <4>7
    <3> QED
      BY <3>1, <3>2
  <2> QED
    BY <2>1, <2>3 DEF TypeOK
<1> QED
  BY <1>1, <1>2, PTL DEF Spec

-----------------------------------------------------------------------------
(* Order. *)

\* Nothing runs before what it follows was done, and done stays done: no
\* entry may follow a step's `passed`, so the set of done steps only grows.
THEOREM StepsAlwaysInOrder == Spec => []StepsInOrder
<1>1. Init => StepsInOrder
  BY DEF Init, StepsInOrder
<1>2. TypeOK /\ StepsInOrder /\ [Next]_vars => StepsInOrder'
  <2> SUFFICES ASSUME TypeOK, StepsInOrder, [Next]_vars PROVE StepsInOrder'
    OBVIOUS
  <2>1. CASE journal' = journal
    BY <2>1 DEF StepsInOrder, Done, ResumePoint
  <2>2. CASE journal' # journal
    <3>1. PICK i \in Steps, x \in Entry : Appends(i, x)
      BY <2>2, JournalStep
    <3>2. x.event \in MayFollow(LastEvent(journal[i]))
      BY <3>1 DEF Appends, MayAppend
    <3>3. i \notin Done
      BY <3>2 DEF MayFollow, Done, ResumePoint, DONE_EVENTS
    <3>4. \A j \in Steps \ {i} : journal'[j] = journal[j]
      BY <3>1, AppendedJournal
    <3>5. Done \subseteq Done'
      BY <3>3, <3>4 DEF Done, ResumePoint
    <3>6. After[i] \subseteq Done
      <4>1. CASE journal[i] # <<>>
        BY <4>1 DEF StepsInOrder
      <4>2. CASE journal[i] = <<>>
        <5>1. LastEvent(journal[i]) = "none"
          BY <4>2, LastEntry
        <5>2. x.event = "started"
          BY <3>2, <5>1 DEF MayFollow
        <5> QED
          BY <3>1, <5>1, <5>2 DEF Appends, MayAppend
      <4> QED
        BY <4>1, <4>2
    <3> QED
      BY <3>4, <3>5, <3>6 DEF StepsInOrder
  <2> QED
    BY <2>1, <2>2
<1> QED
  BY <1>1, <1>2, TypeCorrect, PTL DEF Spec

\* A restarted run has something to start, or a step to wait for: the first
\* step that is not done follows only done ones.
THEOREM RestartAlwaysFindsWork == Spec => []AlwaysResumable
<1>1. TypeOK => AlwaysResumable
  <2> SUFFICES ASSUME TypeOK, Steps # Done PROVE AlwaysResumable
    BY DEF AlwaysResumable, Done
  <2> DEFINE T == Steps \ Done
  <2>1. T \in SUBSET Nat /\ T # {}
    BY JournalAssumptions DEF Done, ResumePoint, Steps
  <2>2. PICK i \in T : \A j \in T : i <= j
    BY <2>1, SmallestMember
  <2>3. After[i] \subseteq Done
    BY <2>1, <2>2, JournalAssumptions DEF Steps
  <2>4. i \in ResumePoint(journal).next \/ i \in ResumePoint(journal).blocked
    BY <2>2, <2>3 DEF Done, ResumePoint
  <2> QED
    BY <2>4 DEF AlwaysResumable
<1> QED
  BY <1>1, TypeCorrect, PTL

-----------------------------------------------------------------------------
(* Attempts. *)

\* Whatever was forgotten, each attempt ends at most once and in its place.
THEOREM AttemptsAlwaysFenced == Spec => []AttemptsAreFenced
<1>1. Init => AttemptsAreFenced
  BY DEF Init, AttemptsAreFenced
<1>2. TypeOK /\ AttemptsAreFenced /\ [Next]_vars => AttemptsAreFenced'
  <2> SUFFICES ASSUME TypeOK, AttemptsAreFenced, [Next]_vars PROVE AttemptsAreFenced'
    OBVIOUS
  <2>1. CASE journal' = journal
    BY <2>1 DEF AttemptsAreFenced
  <2>2. CASE journal' # journal
    <3>1. PICK i \in Steps, x \in Entry : Appends(i, x)
      BY <2>2, JournalStep
    <3> DEFINE n == Len(journal[i])
               Fenced(log, k) ==
                 /\ log[k].event \in MayFollow(IF k = 1 THEN "none" ELSE log[k - 1].event)
                 /\ log[k].attempt = StartsUpTo(log, k)
    <3>2. Fenced(journal'[i], n + 1)
      <4>1. /\ n \in Nat /\ journal'[i][n + 1] = x
            /\ n > 0 => journal'[i][n] = journal[i][n]
            /\ StartsUpTo(journal'[i], n + 1)
                 = Attempts(i) + (IF x.event = "started" THEN 1 ELSE 0)
            /\ LastEvent(journal[i]) = IF n = 0 THEN "none" ELSE journal[i][n].event
        BY <3>1, AppendedJournal
      <4>2. (IF n + 1 = 1 THEN "none" ELSE journal'[i][(n + 1) - 1].event)
              = LastEvent(journal[i])
        BY <4>1
      <4>3. /\ x.event \in MayFollow(LastEvent(journal[i]))
            /\ x.attempt = Attempts(i) + (IF x.event = "started" THEN 1 ELSE 0)
        BY <3>1 DEF Appends, MayAppend
      <4> QED
        BY <4>1, <4>2, <4>3
    <3>3. \A k \in 1 .. n : Fenced(journal'[i], k)
      <4> SUFFICES ASSUME NEW k \in 1 .. n PROVE Fenced(journal'[i], k)
        OBVIOUS
      <4>1. Fenced(journal[i], k)
        BY DEF AttemptsAreFenced
      <4>2. n \in Nat /\ k \in 0 .. n /\ (k # 1 => k - 1 \in 1 .. n)
        BY <3>1, AppendedJournal
      <4>3. /\ journal'[i][k] = journal[i][k]
            /\ k # 1 => journal'[i][k - 1] = journal[i][k - 1]
            /\ StartsUpTo(journal'[i], k) = StartsUpTo(journal[i], k)
        BY <3>1, <4>2, AppendedJournal
      <4> QED
        BY <4>1, <4>3
    <3>4. \A j \in Steps : \A k \in 1 .. Len(journal'[j]) : Fenced(journal'[j], k)
      <4> SUFFICES ASSUME NEW j \in Steps, NEW k \in 1 .. Len(journal'[j])
                   PROVE  Fenced(journal'[j], k)
        OBVIOUS
      <4>1. CASE j = i
        <5>1. n \in Nat /\ Len(journal'[i]) = n + 1
          BY <3>1, AppendedJournal
        <5>2. k \in 1 .. n \/ k = n + 1
          BY <4>1, <5>1
        <5> QED
          BY <3>2, <3>3, <4>1, <5>2
      <4>2. CASE j # i
        BY <3>1, <4>2, AppendedJournal DEF AttemptsAreFenced
      <4> QED
        BY <4>1, <4>2
    <3> QED
      BY <3>4 DEF AttemptsAreFenced
  <2> QED
    BY <2>1, <2>2
<1> QED
  BY <1>1, <1>2, TypeCorrect, PTL DEF Spec

-----------------------------------------------------------------------------
(* The budget. *)

\* A person was asked about step i after its second charged failure.
AskedUpTo(log, n) ==
  \E m \in 1 .. n : log[m].event = "escalated" /\ ChargedUpTo(log, m) >= 2

\* What makes NoThirdAttempt inductive: a step with two charged failures about
\* which nobody was asked stands at the second of them.
SecondFailureStands ==
  \A i \in Steps :
    (ChargedFailures(journal[i]) >= 2 /\ ~ AskedUpTo(journal[i], Len(journal[i])))
      => LastIsCharged(i) /\ ChargedFailures(journal[i]) = 2

\* Asking is not forgotten when an entry is appended.
LEMMA AskedStays ==
  ASSUME TypeOK, NEW i \in Steps, NEW x \in Entry, Appends(i, x)
  PROVE  LET n == Len(journal[i]) IN
         /\ \A k \in 1 .. n : AskedUpTo(journal'[i], k) <=> AskedUpTo(journal[i], k)
         /\ AskedUpTo(journal'[i], n + 1)
              <=> \/ AskedUpTo(journal[i], n)
                  \/ x.event = "escalated" /\ ChargedFailures(journal[i]) >= 2
<1> DEFINE n == Len(journal[i])
<1>1. /\ n \in Nat /\ journal'[i][n + 1] = x
      /\ \A k \in 1 .. n : journal'[i][k] = journal[i][k]
      /\ \A k \in 0 .. n : ChargedUpTo(journal'[i], k) = ChargedUpTo(journal[i], k)
      /\ ChargedUpTo(journal'[i], n + 1)
           = ChargedFailures(journal[i]) + (IF Charged(x) THEN 1 ELSE 0)
  BY AppendedJournal
<1>2. \A k \in 1 .. n :
        /\ journal'[i][k].event = journal[i][k].event
        /\ ChargedUpTo(journal'[i], k) = ChargedUpTo(journal[i], k)
  BY <1>1
<1>3. \A k \in 1 .. n : AskedUpTo(journal'[i], k) <=> AskedUpTo(journal[i], k)
  BY <1>1, <1>2 DEF AskedUpTo
<1>4. AskedUpTo(journal'[i], n + 1)
        <=> \/ \E m \in 1 .. n : /\ journal'[i][m].event = "escalated"
                                /\ ChargedUpTo(journal'[i], m) >= 2
            \/ x.event = "escalated" /\ ChargedUpTo(journal'[i], n + 1) >= 2
  BY <1>1 DEF AskedUpTo
<1>5. x.event = "escalated" => ChargedUpTo(journal'[i], n + 1) = ChargedFailures(journal[i])
  BY <1>1, CountsAreNaturals DEF Charged
<1> QED
  BY <1>2, <1>3, <1>4, <1>5 DEF AskedUpTo

\* After two charged failures nothing starts again before a person was asked.
THEOREM NeverThirdAttempt == Spec => []NoThirdAttempt
<1> DEFINE IInv == NoThirdAttempt /\ SecondFailureStands
<1>1. Init => IInv
  <2>1. Init => \A i \in Steps : journal[i] = <<>>
    BY DEF Init
  <2>2. ChargedUpTo(<<>>, 0) = 0
    BY FS_EmptySet DEF ChargedUpTo
  <2> QED
    BY <2>1, <2>2 DEF NoThirdAttempt, SecondFailureStands, ChargedFailures
<1>2. TypeOK /\ IInv /\ [Next]_vars => IInv'
  <2> SUFFICES ASSUME TypeOK, NoThirdAttempt, SecondFailureStands, [Next]_vars
               PROVE  NoThirdAttempt' /\ SecondFailureStands'
    OBVIOUS
  <2>1. CASE journal' = journal
    BY <2>1 DEF NoThirdAttempt, SecondFailureStands, LastIsCharged
  <2>2. CASE journal' # journal
    <3>1. PICK i \in Steps, x \in Entry : Appends(i, x)
      BY <2>2, JournalStep
    <3> DEFINE log == journal[i]
               new == journal'[i]
               n == Len(log)
    <3>2. /\ n \in Nat /\ Len(new) = n + 1 /\ new[n + 1] = x /\ new # <<>>
          /\ \A k \in 1 .. n : new[k] = log[k]
          /\ \A k \in 0 .. n : ChargedUpTo(new, k) = ChargedUpTo(log, k)
          /\ ChargedUpTo(new, n + 1) = ChargedFailures(log) + (IF Charged(x) THEN 1 ELSE 0)
          /\ \A j \in Steps \ {i} : journal'[j] = journal[j]
      BY <3>1, AppendedJournal
    <3>3. /\ \A k \in 1 .. n : AskedUpTo(new, k) <=> AskedUpTo(log, k)
          /\ AskedUpTo(new, n + 1)
               <=> \/ AskedUpTo(log, n)
                   \/ x.event = "escalated" /\ ChargedFailures(log) >= 2
      BY <3>1, AskedStays
    <3>4. /\ x.event \in MayFollow(LastEvent(log))
          /\ x.event = "started" /\ LastIsCharged(i) => ChargedFailures(log) = 1
          /\ ChargedFailures(log) \in Nat
      BY <3>1, CountsAreNaturals DEF Appends, MayAppend
    <3>5. LastIsCharged(i) => x.event \in {"started", "escalated"}
      BY <3>4, LastEntry DEF MayFollow
    <3>6. Charged(x) => x.event \notin {"started", "escalated"}
      BY DEF Charged
    <3>7. ChargedFailures(new) = ChargedUpTo(new, n + 1)
      BY <3>2 DEF ChargedFailures
    <3>8. (ChargedFailures(log) >= 2 /\ ~ AskedUpTo(log, n))
            => LastIsCharged(i) /\ ChargedFailures(log) = 2
      BY DEF SecondFailureStands
    <3>9. ASSUME NEW k \in 1 .. n + 1, new[k].event = "started", ChargedUpTo(new, k) >= 2
          PROVE  AskedUpTo(new, k)
      <4>1. CASE k \in 1 .. n
        <5>1. log[k].event = "started" /\ ChargedUpTo(log, k) >= 2
          BY <3>2, <3>9, <4>1
        <5>2. AskedUpTo(log, k)
          BY <4>1, <5>1 DEF NoThirdAttempt, AskedUpTo
        <5> QED
          BY <3>3, <4>1, <5>2
      <4>2. CASE k = n + 1
        <5>1. x.event = "started" /\ ~ Charged(x)
          BY <3>2, <3>6, <3>9, <4>2
        <5>2. ChargedFailures(log) >= 2
          BY <3>2, <3>4, <3>9, <4>2, <5>1
        <5>3. AskedUpTo(log, n)
          BY <3>4, <3>8, <5>1, <5>2
        <5> QED
          BY <3>3, <4>2, <5>3
      <4> QED
        BY <3>2, <4>1, <4>2
    <3>10. ASSUME ChargedFailures(new) >= 2, ~ AskedUpTo(new, n + 1)
           PROVE  Charged(x) /\ ChargedFailures(new) = 2
      <4>1. ~ AskedUpTo(log, n)
        BY <3>3, <3>10
      <4>2. CASE ChargedFailures(log) >= 2
        BY <3>3, <3>4, <3>5, <3>8, <3>10, <4>1, <4>2
      <4>3. CASE ~ ChargedFailures(log) >= 2
        BY <3>2, <3>4, <3>7, <3>10, <4>3
      <4> QED
        BY <4>2, <4>3
    <3>11. NoThirdAttempt'
      <4> SUFFICES ASSUME NEW j \in Steps, NEW k \in 1 .. Len(journal'[j]),
                          journal'[j][k].event = "started", ChargedUpTo(journal'[j], k) >= 2
                   PROVE  AskedUpTo(journal'[j], k)
        BY DEF NoThirdAttempt, AskedUpTo
      <4>1. CASE j = i
        BY <3>2, <3>9, <4>1
      <4>2. CASE j # i
        BY <3>2, <4>2 DEF NoThirdAttempt, AskedUpTo
      <4> QED
        BY <4>1, <4>2
    <3>12. SecondFailureStands'
      <4> SUFFICES ASSUME NEW j \in Steps, ChargedFailures(journal'[j]) >= 2,
                          ~ AskedUpTo(journal'[j], Len(journal'[j]))
                   PROVE  /\ journal'[j] # <<>>
                          /\ Charged(journal'[j][Len(journal'[j])])
                          /\ ChargedFailures(journal'[j]) = 2
        BY DEF SecondFailureStands, LastIsCharged
      <4>1. CASE j = i
        BY <3>2, <3>10, <4>1
      <4>2. CASE j # i
        BY <3>2, <4>2 DEF SecondFailureStands, LastIsCharged
      <4> QED
        BY <4>1, <4>2
    <3> QED
      BY <3>11, <3>12
  <2> QED
    BY <2>1, <2>2
<1> QED
  BY <1>1, <1>2, TypeCorrect, PTL DEF Spec

\* A person is asked for the second charged failure, or by a park clock.
THEOREM AlwaysEscalatedForCause == Spec => []EscalatedForCause
<1>1. Init => EscalatedForCause
  BY DEF Init, EscalatedForCause
<1>2. TypeOK /\ EscalatedForCause /\ [Next]_vars => EscalatedForCause'
  <2> SUFFICES ASSUME TypeOK, EscalatedForCause, [Next]_vars PROVE EscalatedForCause'
    OBVIOUS
  <2>1. CASE journal' = journal
    BY <2>1 DEF EscalatedForCause
  <2>2. CASE journal' # journal
    <3>1. PICK i \in Steps, x \in Entry : Appends(i, x)
      BY <2>2, JournalStep
    <3> DEFINE n == Len(journal[i])
               Cause(log, k) ==
                 /\ k > 1
                 /\ \/ Charged(log[k - 1]) /\ ChargedUpTo(log, k) = 2
                    \/ log[k - 1].event = "parked" /\ Gate[i].onTimeout = "escalate"
    <3>2. /\ n \in Nat /\ Len(journal'[i]) = n + 1 /\ journal'[i][n + 1] = x
          /\ \A k \in 1 .. n : journal'[i][k] = journal[i][k]
          /\ \A k \in 0 .. n : ChargedUpTo(journal'[i], k) = ChargedUpTo(journal[i], k)
          /\ ChargedUpTo(journal'[i], n + 1)
               = ChargedFailures(journal[i]) + (IF Charged(x) THEN 1 ELSE 0)
          /\ LastEvent(journal[i]) = IF n = 0 THEN "none" ELSE journal[i][n].event
          /\ LastIsCharged(i) <=> n > 0 /\ Charged(journal[i][n])
          /\ \A j \in Steps \ {i} : journal'[j] = journal[j]
      BY <3>1, AppendedJournal
    <3>3. ASSUME x.event = "escalated" PROVE Cause(journal'[i], n + 1)
      <4>1. \/ LastIsCharged(i) /\ ChargedFailures(journal[i]) = 2
            \/ LastEvent(journal[i]) = "parked" /\ Gate[i].onTimeout = "escalate"
        BY <3>1, <3>3 DEF Appends, MayAppend
      <4>2. n > 0 /\ n + 1 > 1 /\ (n + 1) - 1 = n /\ journal'[i][n] = journal[i][n]
        BY <3>2, <4>1
      <4>3. ChargedUpTo(journal'[i], n + 1) = ChargedFailures(journal[i])
        BY <3>2, <3>3, CountsAreNaturals DEF Charged
      <4> QED
        BY <3>2, <4>1, <4>2, <4>3
    <3>4. ASSUME NEW k \in 1 .. n, journal'[i][k].event = "escalated"
          PROVE  Cause(journal'[i], k)
      <4>1. journal[i][k].event = "escalated"
        BY <3>2, <3>4
      <4>2. Cause(journal[i], k)
        BY <4>1 DEF EscalatedForCause
      <4>3. k \in 0 .. n /\ k - 1 \in 1 .. n
        BY <3>2, <4>2
      <4>4. journal'[i][k - 1] = journal[i][k - 1] /\ ChargedUpTo(journal'[i], k) = ChargedUpTo(journal[i], k)
        BY <3>2, <4>3
      <4> QED
        BY <4>2, <4>4
    <3>5. ASSUME NEW k \in 1 .. n + 1, journal'[i][k].event = "escalated"
          PROVE  Cause(journal'[i], k)
      <4>1. k \in 1 .. n \/ k = n + 1
        BY <3>2
      <4> QED
        BY <3>2, <3>3, <3>4, <3>5, <4>1
    <3> QED
      BY <3>2, <3>5 DEF EscalatedForCause
  <2> QED
    BY <2>1, <2>2
<1> QED
  BY <1>1, <1>2, TypeCorrect, PTL DEF Spec

-----------------------------------------------------------------------------
(* Gates. *)

\* The latest attestation of a rung is one, or there is none.
LEMMA LatestExists ==
  ASSUME NEW e \in Seq(Attestation), NEW rung
  PROVE  /\ LatestOf(e, rung) \in 0 .. Len(e)
         /\ LatestOf(e, rung) > 0 => e[LatestOf(e, rung)].stage = rung
<1> DEFINE n == Len(e)
           Latest(k) == /\ k > 0 => e[k].stage = rung
                        /\ \A m \in k + 1 .. n : e[m].stage # rung
           T == {n - k : k \in {j \in 1 .. n : e[j].stage = rung}}
<1>1. n \in Nat
  OBVIOUS
<1>2. \E k \in 0 .. n : Latest(k)
  <2>1. CASE \A j \in 1 .. n : e[j].stage # rung
    BY <1>1, <2>1
  <2>2. CASE ~ \A j \in 1 .. n : e[j].stage # rung
    <3>1. T \in SUBSET Nat /\ T # {}
      BY <1>1, <2>2
    <3>2. PICK d \in T : \A y \in T : d <= y
      BY <3>1, SmallestMember
    <3>3. PICK k \in 1 .. n : e[k].stage = rung /\ d = n - k
      BY <3>2
    <3>4. \A m \in k + 1 .. n : e[m].stage # rung
      <4> SUFFICES ASSUME NEW m \in k + 1 .. n, e[m].stage = rung PROVE FALSE
        OBVIOUS
      <4>1. m \in 1 .. n /\ n - m < n - k
        BY <1>1, <3>3
      <4>2. n - m \in T
        BY <4>1
      <4>3. d <= n - m
        <5> HIDE DEF T
        <5> QED
          BY <3>2, <4>2
      <4> QED
        BY <1>1, <3>3, <4>1, <4>3
    <3> QED
      BY <1>1, <3>3, <3>4
  <2> QED
    BY <2>1, <2>2
<1>3. LatestOf(e, rung) = CHOOSE k \in 0 .. n : Latest(k)
  BY DEF LatestOf
<1> QED
  BY <1>2, <1>3

\* A gate passes only when every rung was climbed: of a ladder with a rung
\* that was not, the outcome is that rung's.
LEMMA PassedIsClimbed ==
  ASSUME NEW gate \in GateType, NEW e \in Seq(Attestation), GateOutcome(gate, e) = "passed"
  PROVE  \A rung \in 1 .. gate.rungs :
           \E k \in 1 .. Len(e) : e[k].stage = rung /\ Climbed(gate, e[k])
<1>1. GateSatisfied(gate, e)
  <2> SUFFICES ASSUME ~ GateSatisfied(gate, e) PROVE FALSE
    OBVIOUS
  <2> DEFINE T == {r \in 1 .. gate.rungs : ~ RungPassed(gate, e, r)}
             FirstOpen(r) == /\ ~ RungPassed(gate, e, r)
                             /\ \A s \in 1 .. r - 1 : RungPassed(gate, e, s)
             rung == CHOOSE r \in 1 .. gate.rungs : FirstOpen(r)
  <2>1. T \in SUBSET Nat /\ T # {} /\ gate.rungs \in Nat
    BY DEF GateSatisfied, GateType
  <2>2. PICK r \in T : \A y \in T : r <= y
    BY <2>1, SmallestMember
  <2>3. \A s \in 1 .. r - 1 : s \in 1 .. gate.rungs /\ s \notin T
    BY <2>1, <2>2
  <2>4. r \in 1 .. gate.rungs /\ FirstOpen(r)
    BY <2>2, <2>3
  <2>5. FirstOpen(rung)
    <3> HIDE DEF FirstOpen
    <3> QED
      BY <2>4
  <2> DEFINE last == LatestOf(e, rung)
  <2>6. "passed" = IF last = 0 THEN "incomplete" ELSE Evaluates(gate, e[last])
    BY DEF GateOutcome
  <2> HIDE DEF rung
  <2>7. last \in 1 .. Len(e) /\ e[last].stage = rung
    BY <2>6, LatestExists
  <2> HIDE DEF last
  <2>8. Evaluates(gate, e[last]) = "passed"
    BY <2>6, <2>7
  <2> QED
    BY <2>5, <2>7, <2>8 DEF RungPassed
<1>2. ASSUME NEW k \in 1 .. Len(e), Evaluates(gate, e[k]) = "passed" PROVE Climbed(gate, e[k])
  <2>1. e[k] \in AttestationType
    BY JournalAssumptions
  <2>2. e[k].cases \in Nat /\ gate.minCases \in Nat
    BY <2>1 DEF AttestationType, GateType
  <2> QED
    BY <1>2, <2>2 DEF Evaluates, AttestationPasses, Climbed
<1> QED
  BY <1>1, <1>2 DEF GateSatisfied, RungPassed

Earned(i) ==
  \/ \A rung \in 1 .. Gate[i].rungs :
       \E k \in 1 .. Len(evidence[i]) :
         evidence[i][k].stage = rung /\ Climbed(Gate[i], evidence[i][k])
  \/ /\ journal[i][Len(journal[i]) - 1].event = "parked"
     /\ Gate[i].onTimeout \in {"pass", "proceed_on_default"}

\* A step is done by the evidence of its last attempt or by its clock.
THEOREM DoneAlwaysEarned == Spec => []DoneIsEarned
<1> USE DEF Done, ResumePoint, DONE_EVENTS
<1>1. Init => DoneIsEarned
  BY DEF Init, DoneIsEarned, LastEvent
<1>2. TypeOK /\ DoneIsEarned /\ [Next]_vars => DoneIsEarned'
  <2> SUFFICES ASSUME TypeOK, DoneIsEarned, [Next]_vars PROVE DoneIsEarned'
    OBVIOUS
  <2>1. \A j \in Steps : LastEvent(journal[j]) \in DONE_EVENTS => Earned(j)
    BY DEF DoneIsEarned, Earned
  <2>2. ASSUME NEW j \in Steps, LastEvent(journal'[j]) \in DONE_EVENTS,
               journal'[j] = journal[j], evidence'[j] = evidence[j]
        PROVE  Earned(j)'
    BY <2>1, <2>2 DEF Earned
  <2>3. CASE UNCHANGED vars
    BY <2>2, <2>3 DEF vars, DoneIsEarned, Earned
  <2>4. CASE Next
    <3>1. PICK i \in Steps :
            \/ Claim(i) \/ Forget(i) \/ TimeOut(i)
            \/ Repair(i) \/ Escalate(i) \/ Refile(i) \/ Reopen(i)
            \/ \E n \in executors[i] : Report(i, n) \/ \E a \in Attestation : Attest(i, n, a)
            \/ \E a \in Attestation : Answer(i, a)
      BY <2>4 DEF Next
    <3>2. \A j \in Steps \ {i} : journal'[j] = journal[j] /\ evidence'[j] = evidence[j]
      BY <3>1 DEF Claim, Forget, TimeOut, Repair, Escalate, Refile, Reopen, Report, Attest, Answer,
                  Start, EndStep, Append1, TypeOK
    <3>3. ASSUME NEW event, EndStep(i, event)
          PROVE  /\ LastEvent(journal'[i]) = event
                 /\ Len(journal[i]) > 0 =>
                      journal'[i][Len(journal'[i]) - 1] = journal[i][Len(journal[i])]
      <4>1. PICK fault : Append1(i, event, fault)
        BY <3>3 DEF EndStep
      <4>2. /\ journal[i] \in Seq(Entry)
            /\ journal'[i] = Append(journal[i], [event |-> event, attempt |-> Attempts(i), fault |-> fault])
        BY <4>1 DEF TypeOK, Append1
      <4> QED
        BY <4>2 DEF LastEvent
    <3>4. ASSUME LastEvent(journal'[i]) \in DONE_EVENTS PROVE Earned(i)'
      <4>1. CASE Claim(i) \/ Repair(i) \/ Refile(i) \/ Reopen(i)
        <5>1. /\ journal[i] \in Seq(Entry)
              /\ journal'[i] = Append(journal[i],
                     [event |-> "started", attempt |-> Attempts(i) + 1, fault |-> "none"])
          BY <4>1 DEF Claim, Repair, Refile, Reopen, Start, TypeOK
        <5>2. LastEvent(journal'[i]) = "started"
          BY <5>1 DEF LastEvent
        <5> QED
          BY <3>4, <5>2
      <4>2. CASE Forget(i)
        BY <2>2, <3>4, <4>2 DEF Forget
      <4>3. CASE TimeOut(i)
        <5>1. /\ LastEvent(journal[i]) = "parked" /\ Gate[i].onTimeout # "none"
              /\ EndStep(i, TimeoutEvent(Gate[i]))
          BY <4>3 DEF TimeOut
        <5>2. Gate[i].onTimeout \in {"pass", "fail", "escalate", "proceed_on_default"}
          BY <5>1, JournalAssumptions DEF GateType
        <5>3. TimeoutEvent(Gate[i]) \in DONE_EVENTS
          BY <3>3, <3>4, <5>1
        <5>4. Gate[i].onTimeout \in {"pass", "proceed_on_default"}
          BY <5>2, <5>3 DEF TimeoutEvent
        <5>5. Len(journal[i]) > 0 /\ journal[i][Len(journal[i])].event = "parked"
          BY <5>1, CountsAreNaturals DEF LastEvent
        <5> QED
          BY <3>3, <5>1, <5>4, <5>5 DEF Earned
      <4>4. CASE Escalate(i)
        <5>1. EndStep(i, "escalated")
          BY <4>4 DEF Escalate, EndStep
        <5> QED
          BY <3>3, <3>4, <5>1
      <4>5. ASSUME NEW n \in executors[i], Report(i, n) PROVE Earned(i)'
        <5>1. CASE Gate[i].kind = "deterministic"
          <6>1. EndStep(i, GateOutcome(Gate[i], evidence[i])) /\ evidence' = evidence
            BY <4>5, <5>1 DEF Report
          <6>2. GateOutcome(Gate[i], evidence[i]) = "passed"
            BY <3>3, <3>4, <6>1, OutcomeIsAnEnd
          <6>3. evidence[i] \in Seq(Attestation) /\ Gate[i] \in GateType
            BY JournalAssumptions DEF TypeOK
          <6> QED
            BY <6>1, <6>2, <6>3, PassedIsClimbed DEF Earned
        <5>2. CASE Gate[i].kind # "deterministic"
          <6>1. EndStep(i, "parked")
            BY <4>5, <5>2 DEF Report, EndStep
          <6> QED
            BY <3>3, <3>4, <6>1
        <5> QED
          BY <5>1, <5>2
      <4>6. ASSUME NEW n \in executors[i], NEW a \in Attestation, Attest(i, n, a) PROVE Earned(i)'
        BY <3>4, <4>6 DEF Attest, Holds
      <4>7. ASSUME NEW a \in Attestation, Answer(i, a) PROVE Earned(i)'
        <5> DEFINE all == Append(evidence[i], a)
        <5>1. /\ LastEvent(journal[i]) = "parked"
              /\ evidence'[i] = all /\ all \in Seq(Attestation)
              /\ \/ journal' = journal
                 \/ EndStep(i, GateOutcome(Gate[i], all))
          BY <4>7 DEF Answer, TypeOK
        <5>2. EndStep(i, GateOutcome(Gate[i], all)) /\ GateOutcome(Gate[i], all) = "passed"
          BY <3>3, <3>4, <5>1, OutcomeIsAnEnd
        <5>3. Gate[i] \in GateType
          BY JournalAssumptions
        <5> QED
          BY <5>1, <5>2, <5>3, PassedIsClimbed DEF Earned
      <4> QED
        BY <3>1, <4>1, <4>2, <4>3, <4>4, <4>5, <4>6, <4>7
    <3>5. \A j \in Steps : LastEvent(journal'[j]) \in DONE_EVENTS => Earned(j)'
      BY <2>2, <3>2, <3>4
    <3> QED
      BY <3>5 DEF DoneIsEarned, Earned
  <2> QED
    BY <2>3, <2>4
<1> QED
  BY <1>1, <1>2, TypeCorrect, PTL DEF Spec

-----------------------------------------------------------------------------
(* Where the engine stops. *)

\* No step is leased more often than the bound allows.
AttemptsAreBounded == \A i \in Steps : Attempts(i) <= MaxAttempts

LEMMA AttemptsAlwaysBounded == Spec => []AttemptsAreBounded
<1>1. Init => AttemptsAreBounded
  <2> SUFFICES ASSUME Init, NEW i \in Steps PROVE Attempts(i) <= MaxAttempts
    BY DEF AttemptsAreBounded
  <2>1. Attempts(i) = Cardinality({})
    BY DEF Init, Attempts, StartsUpTo
  <2> QED
    BY <2>1, FS_EmptySet, JournalAssumptions
<1>2. TypeOK /\ AttemptsAreBounded /\ [Next]_vars => AttemptsAreBounded'
  <2> SUFFICES ASSUME TypeOK, AttemptsAreBounded, [Next]_vars, NEW j \in Steps
               PROVE  Attempts(j)' <= MaxAttempts
    BY DEF AttemptsAreBounded
  <2>1. CASE journal'[j] = journal[j]
    BY <2>1 DEF AttemptsAreBounded, Attempts
  <2>2. ASSUME NEW x \in Entry, journal'[j] = Append(journal[j], x),
               x.event = "started" => Attempts(j) < MaxAttempts
        PROVE  Attempts(j)' <= MaxAttempts
    <3>1. /\ journal[j] \in Seq(Entry) /\ Attempts(j) \in Nat
          /\ Len(journal'[j]) = Len(journal[j]) + 1
      BY <2>2, CountsAreNaturals
    <3>2. Attempts(j)' = Attempts(j) + (IF x.event = "started" THEN 1 ELSE 0)
      BY <2>2, <3>1, CountsOfAppend DEF Attempts
    <3> QED
      BY <2>2, <3>1, <3>2, JournalAssumptions DEF AttemptsAreBounded
  <2>3. CASE \E i \in Steps : Start(i)
    <3>1. PICK i \in Steps : Start(i)
      BY <2>3
    <3> DEFINE x == [event |-> "started", attempt |-> Attempts(i) + 1, fault |-> "none"]
    <3>2. x \in Entry
      BY CountsAreNaturals DEF Entry, STEP_EVENTS
    <3>3. /\ journal' = [journal EXCEPT ![i] = Append(@, x)] /\ Attempts(i) < MaxAttempts
          /\ journal \in [Steps -> Seq(Entry)]
      BY <3>1 DEF Start, TypeOK
    <3> QED
      BY <2>1, <2>2, <3>2, <3>3
  <2>4. CASE \E i \in Steps : \E event \in STEP_EVENTS \ {"started"} : EndStep(i, event)
    <3>1. PICK i \in Steps, event \in STEP_EVENTS \ {"started"},
               fault \in FAULT_CLASSES \cup {"none"} : Append1(i, event, fault)
      BY <2>4, JournalAssumptions DEF EndStep
    <3> DEFINE x == [event |-> event, attempt |-> Attempts(i), fault |-> fault]
    <3>2. x \in Entry
      BY CountsAreNaturals DEF Entry
    <3>3. journal' = [journal EXCEPT ![i] = Append(@, x)] /\ journal \in [Steps -> Seq(Entry)]
      BY <3>1 DEF Append1, TypeOK
    <3> QED
      BY <2>1, <2>2, <3>2, <3>3
  <2>5. CASE journal' = journal
    BY <2>1, <2>5
  <2>6. CASE Next
    <3> USE DEF STEP_EVENTS, DONE_EVENTS, BLOCKED_EVENTS
    <3>1. PICK i \in Steps :
            \/ Claim(i) \/ Forget(i) \/ TimeOut(i)
            \/ Repair(i) \/ Escalate(i) \/ Refile(i) \/ Reopen(i)
            \/ \E n \in executors[i] : Report(i, n) \/ \E a \in Attestation : Attest(i, n, a)
            \/ \E a \in Attestation : Answer(i, a)
      BY <2>6 DEF Next
    <3>2. CASE Claim(i) \/ Repair(i) \/ Refile(i) \/ Reopen(i)
      BY <2>3, <3>2 DEF Claim, Repair, Refile, Reopen
    <3>3. CASE Forget(i)
      BY <2>5, <3>3 DEF Forget
    <3>4. CASE TimeOut(i)
      <4>1. Gate[i].onTimeout \in {"pass", "fail", "escalate", "proceed_on_default"}
        BY <3>4, JournalAssumptions DEF TimeOut, GateType
      <4>2. TimeoutEvent(Gate[i]) \in STEP_EVENTS \ {"started"}
        BY <4>1 DEF TimeoutEvent
      <4> QED
        BY <2>4, <3>4, <4>2 DEF TimeOut
    <3>5. CASE Escalate(i)
      BY <2>4, <3>5 DEF Escalate, EndStep
    <3>6. ASSUME NEW n \in executors[i], Report(i, n) PROVE Attempts(j)' <= MaxAttempts
      <4>1. \E event \in STEP_EVENTS \ {"started"} : EndStep(i, event)
        BY <3>6, OutcomeIsAnEnd DEF Report, EndStep
      <4> QED
        BY <2>4, <4>1
    <3>7. ASSUME NEW n \in executors[i], NEW a \in Attestation, Attest(i, n, a)
          PROVE  Attempts(j)' <= MaxAttempts
      BY <2>5, <3>7 DEF Attest
    <3>8. ASSUME NEW a \in Attestation, Answer(i, a) PROVE Attempts(j)' <= MaxAttempts
      <4>1. \/ journal' = journal
            \/ \E event \in STEP_EVENTS \ {"started"} : EndStep(i, event)
        BY <3>8, OutcomeIsAnEnd DEF Answer
      <4> QED
        BY <2>4, <2>5, <4>1
    <3> QED
      BY <3>1, <3>2, <3>3, <3>4, <3>5, <3>6, <3>7, <3>8
  <2> QED
    BY <2>5, <2>6 DEF vars
<1> QED
  BY <1>1, <1>2, TypeCorrect, PTL DEF Spec

\* What the engine, its clocks and the owners of failures do by themselves.
Engine ==
  \E i \in Steps :
    \/ Claim(i) \/ Forget(i) \/ TimeOut(i) \/ Repair(i) \/ Escalate(i) \/ Refile(i)

\* Step i would be started again, if the bound on its leases allowed it.
WouldStart(i) ==
  \/ i \in ResumePoint(journal).next
  \/ LastIsCharged(i) /\ RetryDecision(ChargedFailures(journal[i])) = "fix"
  \/ LastEvent(journal[i]) = "cannot_evaluate"
  \/ LastEvent(journal[i]) = "failed" /\ ~ LastIsCharged(i)

\* None of their guards holds: nothing runs, no clock runs, and what would be
\* started has used up its leases.
AtRest ==
  \A i \in Steps :
    /\ i \notin running
    /\ LastEvent(journal[i]) = "parked" => Gate[i].onTimeout = "none"
    /\ LastIsCharged(i) => RetryDecision(ChargedFailures(journal[i])) # "escalate"
    /\ WouldStart(i) => ~ (Attempts(i) < MaxAttempts)

\* Nothing the engine does is possible at rest: only executors, judges and
\* people move the run from there.
THEOREM RestIsRest == Spec => [][AtRest => ~ Engine]_vars
<1>1. AtRest => ~ Engine
  BY DEF AtRest, Engine, WouldStart, Claim, Forget, TimeOut, Repair, Escalate, Refile, Start
<1> QED
  BY <1>1, PTL

\* A step that ends in a charged failure has at least that one.
LEMMA LastFailureCounts ==
  ASSUME TypeOK, NEW i \in Steps, LastIsCharged(i)
  PROVE  ChargedFailures(journal[i]) >= 1
<1> DEFINE log == journal[i]
           n == Len(log)
           S == {k \in 1 .. n : Charged(log[k])}
<1>1. n \in Nat \ {0} /\ Charged(log[n])
  BY CountsAreNaturals DEF LastIsCharged
<1>2. n \in S /\ n - 1 \in Nat /\ (n - 1) + 1 = n
  BY <1>1
<1>3. First(S, n - 1) \in Nat /\ First(S, n) = First(S, n - 1) + 1
  <2> HIDE DEF S
  <2> QED
    BY <1>2, CountNext
<1>4. {k \in 1 .. n : k \in S} = {k \in 1 .. n : Charged(log[k])}
  OBVIOUS
<1>5. First(S, n) = ChargedFailures(log)
  BY <1>4 DEF First, ChargedFailures, ChargedUpTo
<1> QED
  BY <1>3, <1>5

\* What RunSettles rests on, for every chain of steps: a run the engine leaves
\* at rest is done, waits for a person, or has a step that used up its leases.
\* It is never stuck (resume_point, retry_decision, timeout_resolution).
RestIsSettled ==
  AtRest => \/ Done = Steps
            \/ \E i \in Steps : NeedsPerson(i) \/ Attempts(i) = MaxAttempts

THEOREM RestMeansSettled == Spec => []RestIsSettled
<1>1. TypeOK /\ AlwaysResumable /\ AttemptsAreBounded => RestIsSettled
  <2> SUFFICES ASSUME TypeOK, AlwaysResumable, AttemptsAreBounded, AtRest, Done # Steps
               PROVE  \E i \in Steps : NeedsPerson(i) \/ Attempts(i) = MaxAttempts
    BY DEF RestIsSettled
  <2>1. PICK i \in Steps : \/ i \in ResumePoint(journal).next
                          \/ i \in ResumePoint(journal).blocked
    BY DEF AlwaysResumable, Done, ResumePoint
  <2>2. ASSUME WouldStart(i) PROVE Attempts(i) = MaxAttempts
    BY <2>2, CountsAreNaturals, JournalAssumptions DEF AtRest, AttemptsAreBounded
  <2>3. CASE i \in ResumePoint(journal).next
    BY <2>2, <2>3 DEF WouldStart
  <2>4. CASE i \in ResumePoint(journal).blocked
    <3>1. LastEvent(journal[i]) \in {"failed", "cannot_evaluate", "parked", "escalated"}
      BY <2>4 DEF ResumePoint, BLOCKED_EVENTS
    <3>2. CASE LastEvent(journal[i]) = "cannot_evaluate"
      BY <2>2, <3>2 DEF WouldStart
    <3>3. CASE LastEvent(journal[i]) = "escalated"
      BY <3>3 DEF NeedsPerson
    <3>4. CASE LastEvent(journal[i]) = "parked"
      BY <3>4 DEF NeedsPerson, AtRest
    <3>5. CASE LastEvent(journal[i]) = "failed" /\ ~ LastIsCharged(i)
      BY <2>2, <3>5 DEF WouldStart
    <3>6. CASE LastIsCharged(i)
      <4>1. ChargedFailures(journal[i]) \in Nat /\ ChargedFailures(journal[i]) >= 1
        BY <3>6, CountsAreNaturals, LastFailureCounts
      <4>2. RetryDecision(ChargedFailures(journal[i])) # "escalate"
        BY <3>6 DEF AtRest
      <4>3. CASE ChargedFailures(journal[i]) = 1
        BY <2>2, <3>6, <4>3 DEF WouldStart, RetryDecision
      <4>4. CASE ChargedFailures(journal[i]) > 2
        BY <3>6, <4>4 DEF NeedsPerson
      <4>5. ChargedFailures(journal[i]) # 2
        BY <4>2 DEF RetryDecision
      <4> QED
        BY <4>1, <4>3, <4>4, <4>5
    <3> QED
      BY <3>1, <3>2, <3>3, <3>4, <3>5, <3>6
  <2> QED
    BY <2>1, <2>3, <2>4
<1> QED
  BY <1>1, TypeCorrect, RestartAlwaysFindsWork, AttemptsAlwaysBounded, PTL
=============================================================================
