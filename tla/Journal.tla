------------------------------ MODULE Journal ------------------------------
(***************************************************************************)
(* The steps of one run: claims, gates, failures and restarts, told by the *)
(* run's journal (ASOP.md 5.2, 5.4, 5.6; asop.journal, asop.gates).        *)
(*                                                                         *)
(* Executors hold leases and may go silent or answer late; the engine may  *)
(* restart and then knows only the journal.  resume_point says what may    *)
(* run next, charged_failures and retry_decision what a failure leads to,  *)
(* gate_outcome and timeout_resolution how a step ends.                    *)
(***************************************************************************)
EXTENDS Integers, Sequences, FiniteSets

CONSTANTS
  StepCount,    \* the steps of the run are 1 .. StepCount
  After,        \* After[i]: the steps that step i follows
  Gate,         \* Gate[i]: the normalised gate of step i
  Attestation,  \* what executors, judges and people may attest
  Fault,        \* the fault classes the engine gives failures, or "none"
  MaxAttempts,  \* bound: leases of a step
  MaxEvidence   \* bound: attestations of one lease

Steps == 1 .. StepCount

\* cannotExit and minCases are 0 and onTimeout is "none" where the gate
\* declares none; a single check is a ladder of one rung.
GateType ==
  [kind : {"deterministic", "judged", "human"}, rungs : Nat \ {0},
   cannotExit : 0 .. 255, minCases : Nat,
   onTimeout : {"pass", "fail", "escalate", "proceed_on_default", "none"}]

\* verdict is "none" where the attestation carries none.
AttestationType ==
  [stage : Nat \ {0}, exit : Nat, cases : Nat, verdict : {"none", "passed", "failed"}]

\* A default belongs to a human gate, and only a command has exit statuses and
\* cases to count.
ValidClock(gate) == gate.onTimeout = "proceed_on_default" => gate.kind = "human"
ValidExecution(gate) ==
  gate.cannotExit # 0 \/ gate.minCases # 0 => gate.kind = "deterministic"

\* An attestation is about a rung of its gate, and a judge or a person has to
\* say what they found.
ValidAttestation(gate, a) ==
  /\ a.stage <= gate.rungs
  /\ gate.kind # "deterministic" => a.verdict # "none"

FAULT_CLASSES == {"work", "environment", "checker", "handoff", "decision"}
DONE_EVENTS == {"passed", "done_on_default"}
BLOCKED_EVENTS == {"failed", "cannot_evaluate", "parked", "escalated"}
STEP_EVENTS == {"started"} \cup DONE_EVENTS \cup BLOCKED_EVENTS

\* What validate_step and validate_gate promise: a step follows earlier steps
\* only, and gates declare what they can use.
ASSUME JournalAssumptions ==
  /\ StepCount \in Nat
  /\ After \in [Steps -> SUBSET Steps]
  /\ \A i \in Steps : \A j \in After[i] : j < i
  /\ Gate \in [Steps -> GateType]
  /\ \A i \in Steps : ValidClock(Gate[i]) /\ ValidExecution(Gate[i])
  /\ Attestation \subseteq AttestationType
  /\ Fault \subseteq FAULT_CLASSES \cup {"none"}
  /\ MaxAttempts \in Nat /\ MaxEvidence \in Nat

-----------------------------------------------------------------------------
(* Gates. *)

AttestationPasses(a) == a.exit = 0 /\ a.verdict # "failed"

Evaluates(gate, a) ==
  IF \/ gate.cannotExit # 0 /\ a.exit = gate.cannotExit
     \/ gate.minCases # 0 /\ a.exit = 0 /\ a.cases < gate.minCases
  THEN "cannot_evaluate"
  ELSE IF AttestationPasses(a) THEN "passed" ELSE "failed"

RungPassed(gate, evidence, rung) ==
  \E k \in 1 .. Len(evidence) :
    evidence[k].stage = rung /\ Evaluates(gate, evidence[k]) = "passed"

GateSatisfied(gate, evidence) ==
  \A rung \in 1 .. gate.rungs : RungPassed(gate, evidence, rung)

\* The latest attestation of a rung; 0 is none.
LatestOf(evidence, rung) ==
  CHOOSE k \in 0 .. Len(evidence) :
    /\ k > 0 => evidence[k].stage = rung
    /\ \A m \in k + 1 .. Len(evidence) : evidence[m].stage # rung

\* A slip: the latest attestation stands for the whole ladder.
LatestDecides(gate, evidence) ==
  IF evidence = <<>> THEN "incomplete" ELSE Evaluates(gate, evidence[Len(evidence)])

\* The first rung that is not passed decides.
GateOutcome(gate, evidence) ==
  IF GateSatisfied(gate, evidence) THEN "passed"
  ELSE LET rung == CHOOSE r \in 1 .. gate.rungs :
                     /\ ~ RungPassed(gate, evidence, r)
                     /\ \A s \in 1 .. r - 1 : RungPassed(gate, evidence, s)
           last == LatestOf(evidence, rung)
       IN  IF last = 0 THEN "incomplete" ELSE Evaluates(gate, evidence[last])

\* The event a park clock leaves in the journal.
TimeoutEvent(gate) ==
  CASE gate.onTimeout = "pass" -> "passed"
    [] gate.onTimeout = "fail" -> "failed"
    [] gate.onTimeout = "escalate" -> "escalated"
    [] gate.onTimeout = "proceed_on_default" -> "done_on_default"

-----------------------------------------------------------------------------
(* The journal of a run is kept here per step, each in the order of its    *)
(* entries: no function of the library compares entries of two steps.      *)

Entry == [event : STEP_EVENTS, attempt : Nat, fault : FAULT_CLASSES \cup {"none"}]

LastEvent(log) == IF log = <<>> THEN "none" ELSE log[Len(log)].event

Charged(entry) == entry.event = "failed" /\ entry.fault \in {"work", "none"}

\* The charged failures, and the leases, among the first n entries.
ChargedUpTo(log, n) == Cardinality({k \in 1 .. n : Charged(log[k])})
StartsUpTo(log, n) == Cardinality({k \in 1 .. n : log[k].event = "started"})

\* A slip: whatever did not end is counted with the failures.
CrashesCharged(log) == StartsUpTo(log, Len(log))

ChargedFailures(log) == ChargedUpTo(log, Len(log))

\* A slip: the first failure is not counted.
OneMoreFix(failures) == IF failures <= 2 THEN "fix" ELSE "escalate"

RetryDecision(failures) ==
  IF failures = 1 THEN "fix" ELSE IF failures = 2 THEN "escalate" ELSE "stop"

\* A slip: an interrupted step is left to whoever interrupted it.
ResumeNotCrashed(journal) ==
  LET done == {i \in Steps : LastEvent(journal[i]) \in DONE_EVENTS}
  IN  [done |-> done,
       crashed |-> {i \in Steps : LastEvent(journal[i]) = "started"},
       blocked |-> {i \in Steps : LastEvent(journal[i]) \in BLOCKED_EVENTS},
       next |-> {i \in Steps : journal[i] = <<>> /\ After[i] \subseteq done}]

\* A slip: a step that is blocked lets the steps after it run.
ResumePastBlocked(journal) ==
  LET done == {i \in Steps : LastEvent(journal[i]) \in DONE_EVENTS}
      blocked == {i \in Steps : LastEvent(journal[i]) \in BLOCKED_EVENTS}
  IN  [done |-> done,
       crashed |-> {i \in Steps : LastEvent(journal[i]) = "started"},
       blocked |-> blocked,
       next |-> {i \in Steps \ (done \cup blocked) : After[i] \subseteq done \cup blocked}]

\* Each step's last entry decides where it stands.
ResumePoint(journal) ==
  LET done == {i \in Steps : LastEvent(journal[i]) \in DONE_EVENTS}
      blocked == {i \in Steps : LastEvent(journal[i]) \in BLOCKED_EVENTS}
  IN  [done |-> done,
       crashed |-> {i \in Steps : LastEvent(journal[i]) = "started"},
       blocked |-> blocked,
       next |-> {i \in Steps \ (done \cup blocked) : After[i] \subseteq done}]

-----------------------------------------------------------------------------
VARIABLES
  journal,    \* journal[i]: the entries of step i
  evidence,   \* evidence[i]: the attestations of its latest lease
  executors,  \* executors[i]: the leases of step i that have not reported
  running     \* the steps the engine believes are being executed

vars == <<journal, evidence, executors, running>>

Done == ResumePoint(journal).done
Attempts(i) == StartsUpTo(journal[i], Len(journal[i]))

Append1(i, event, fault) ==
  journal' = [journal EXCEPT ![i] =
                Append(@, [event |-> event, attempt |-> Attempts(i), fault |-> fault])]

\* An end of an attempt; the engine classifies failures as it sees fit.
EndStep(i, event) ==
  \E fault \in IF event = "failed" THEN Fault ELSE {"none"} : Append1(i, event, fault)

Init ==
  /\ journal = [i \in Steps |-> <<>>]
  /\ evidence = [i \in Steps |-> <<>>]
  /\ executors = [i \in Steps |-> {}]
  /\ running = {}

\* A new lease of step i, with an executor and evidence of its own.
Start(i) ==
  /\ Attempts(i) < MaxAttempts
  /\ journal' = [journal EXCEPT ![i] =
                   Append(@, [event |-> "started", attempt |-> Attempts(i) + 1, fault |-> "none"])]
  /\ evidence' = [evidence EXCEPT ![i] = <<>>]
  /\ executors' = [executors EXCEPT ![i] = @ \cup {Attempts(i) + 1}]
  /\ running' = running \cup {i}

\* The engine starts what resume_point lists, unless it knows it is running.
Claim(i) ==
  /\ i \in ResumePoint(journal).next \ running
  /\ Start(i)

\* Step i's lease ran out, or the engine restarted: it is not counted on any
\* more.  Its executor may be dead or only slow.
Forget(i) ==
  /\ i \in running
  /\ running' = running \ {i}
  /\ UNCHANGED <<journal, evidence, executors>>

\* A slip: any lease may report.
AnyLease(i, n) == n \in executors[i]

\* The fence: only the latest lease of a step that was not ended since.
Holds(i, n) ==
  /\ n \in executors[i]
  /\ n = Attempts(i)
  /\ LastEvent(journal[i]) = "started"

\* The holder attests to a rung of a check it ran itself.
Attest(i, n, a) ==
  /\ Holds(i, n)
  /\ Gate[i].kind = "deterministic" /\ ValidAttestation(Gate[i], a)
  /\ Len(evidence[i]) < MaxEvidence
  /\ evidence' = [evidence EXCEPT ![i] = Append(@, a)]
  /\ UNCHANGED <<journal, executors, running>>

\* The holder asks for completion: the gate is evaluated, or the step parks
\* until a judge or a person answers it.
Report(i, n) ==
  /\ Holds(i, n)
  /\ IF Gate[i].kind = "deterministic"
     THEN /\ GateOutcome(Gate[i], evidence[i]) # "incomplete"
          /\ EndStep(i, GateOutcome(Gate[i], evidence[i]))
     ELSE Append1(i, "parked", "none")
  /\ executors' = [executors EXCEPT ![i] = @ \ {n}]
  /\ running' = running \ {i}
  /\ UNCHANGED evidence

\* A judge or a person attests to a rung of a parked step's gate.
Answer(i, a) ==
  LET all == Append(evidence[i], a)
  IN  /\ LastEvent(journal[i]) = "parked"
      /\ ValidAttestation(Gate[i], a)
      /\ Len(evidence[i]) < MaxEvidence
      /\ evidence' = [evidence EXCEPT ![i] = all]
      /\ IF GateOutcome(Gate[i], all) = "incomplete"
         THEN UNCHANGED journal
         ELSE EndStep(i, GateOutcome(Gate[i], all))
      /\ UNCHANGED <<executors, running>>

\* The park clock of a step nobody answered runs out.
TimeOut(i) ==
  /\ LastEvent(journal[i]) = "parked"
  /\ Gate[i].onTimeout # "none"
  /\ EndStep(i, TimeoutEvent(Gate[i]))
  /\ UNCHANGED <<evidence, executors, running>>

LastIsCharged(i) == journal[i] # <<>> /\ Charged(journal[i][Len(journal[i])])

\* First failure: a repair is filed beside the step, and its gate run again.
Repair(i) ==
  /\ LastIsCharged(i)
  /\ RetryDecision(ChargedFailures(journal[i])) = "fix"
  /\ Start(i)

\* Second failure: a person decides.
Escalate(i) ==
  /\ LastIsCharged(i)
  /\ RetryDecision(ChargedFailures(journal[i])) = "escalate"
  /\ Append1(i, "escalated", "none")
  /\ UNCHANGED <<evidence, executors, running>>

\* A slip: only what could not be judged is filed again.
RefileUnjudged(i) ==
  /\ LastEvent(journal[i]) = "cannot_evaluate"
  /\ Start(i)

\* What could not be judged is filed again; a failure that is not the
\* executor's is too, by whoever owns it.
Refile(i) ==
  /\ \/ LastEvent(journal[i]) = "cannot_evaluate"
     \/ LastEvent(journal[i]) = "failed" /\ ~ LastIsCharged(i)
  /\ Start(i)

\* A person answers an escalation and has the gate run again.
Reopen(i) ==
  /\ LastEvent(journal[i]) = "escalated"
  /\ Start(i)

Next ==
  \E i \in Steps :
    \/ Claim(i) \/ Forget(i) \/ TimeOut(i)
    \/ Repair(i) \/ Escalate(i) \/ Refile(i) \/ Reopen(i)
    \/ \E n \in executors[i] : Report(i, n) \/ \E a \in Attestation : Attest(i, n, a)
    \/ \E a \in Attestation : Answer(i, a)

Spec == Init /\ [][Next]_vars

\* The engine acts, leases and clocks run out, owners clear what is theirs.
\* Nothing is assumed of executors, judges and people.
FairSpec ==
  /\ Spec
  /\ \A i \in Steps :
       /\ WF_vars(Claim(i)) /\ WF_vars(Forget(i)) /\ WF_vars(TimeOut(i))
       /\ WF_vars(Repair(i)) /\ WF_vars(Escalate(i)) /\ WF_vars(Refile(i))

-----------------------------------------------------------------------------
(* Properties. *)

TypeOK ==
  /\ journal \in [Steps -> Seq(Entry)]
  /\ evidence \in [Steps -> Seq(Attestation)]
  /\ executors \in [Steps -> SUBSET (1 .. MaxAttempts)]
  /\ running \subseteq Steps

\* A step has run only after every step it follows was done, and those stay
\* done: what it read is never taken back by a late or repeated attempt.
StepsInOrder ==
  \A i \in Steps : journal[i] # <<>> => After[i] \subseteq Done

\* What may follow an entry of a step.
MayFollow(event) ==
  CASE event = "none" -> {"started"}
    [] event = "started" -> STEP_EVENTS \ {"done_on_default", "escalated"}
    [] event = "parked" -> STEP_EVENTS \ {"started", "parked"}
    [] event = "failed" -> {"started", "escalated"}
    [] event \in {"cannot_evaluate", "escalated"} -> {"started"}
    [] OTHER -> {}

\* Every attempt ends at most once, in its own place: no report of an older
\* lease lands in the journal of a newer one, whatever was forgotten.
AttemptsAreFenced ==
  \A i \in Steps : \A k \in 1 .. Len(journal[i]) :
    /\ journal[i][k].event \in MayFollow(IF k = 1 THEN "none" ELSE journal[i][k - 1].event)
    /\ journal[i][k].attempt = StartsUpTo(journal[i], k)

\* After two failures of the executor nothing runs the step again before a
\* person was asked, however often the engine forgot.
NoThirdAttempt ==
  \A i \in Steps : \A k \in 1 .. Len(journal[i]) :
    (journal[i][k].event = "started" /\ ChargedUpTo(journal[i], k) >= 2)
      => \E m \in 1 .. k : /\ journal[i][m].event = "escalated"
                           /\ ChargedUpTo(journal[i], m) >= 2

\* A person is asked because of the second failure of the executor or a park
\* clock, never because of crashes or faults of others.
EscalatedForCause ==
  \A i \in Steps : \A k \in 1 .. Len(journal[i]) :
    journal[i][k].event = "escalated" =>
      /\ k > 1
      /\ \/ Charged(journal[i][k - 1]) /\ ChargedUpTo(journal[i], k) = 2
         \/ journal[i][k - 1].event = "parked" /\ Gate[i].onTimeout = "escalate"

\* A rung was climbed: the command succeeded on enough cases and nobody found
\* against it.
Climbed(gate, a) ==
  /\ a.exit = 0 /\ a.verdict # "failed"
  /\ gate.minCases # 0 => a.cases >= gate.minCases

\* A step is done because every rung of its gate was climbed in its last
\* attempt, or because its park clock says so: no evidence of an earlier
\* attempt releases what follows.
DoneIsEarned ==
  \A i \in Done :
    \/ \A rung \in 1 .. Gate[i].rungs :
         \E k \in 1 .. Len(evidence[i]) :
           evidence[i][k].stage = rung /\ Climbed(Gate[i], evidence[i][k])
    \/ /\ journal[i][Len(journal[i]) - 1].event = "parked"
       /\ Gate[i].onTimeout \in {"pass", "proceed_on_default"}

\* A restart never finds an unfinished run with nothing to start and nothing
\* to wait for.
AlwaysResumable ==
  LET r == ResumePoint(journal)
  IN  r.done = Steps \/ r.next # {} \/ r.blocked # {}

\* Whatever crashes, a run whose leases do not run out comes to its end, or to
\* a step that a person has to look at.
NeedsPerson(i) ==
  \/ LastEvent(journal[i]) = "escalated"
  \/ LastEvent(journal[i]) = "parked" /\ Gate[i].onTimeout = "none"
  \/ LastIsCharged(i) /\ ChargedFailures(journal[i]) > 2

RunSettles ==
  <>( \/ Done = Steps
      \/ \E i \in Steps : NeedsPerson(i) \/ Attempts(i) = MaxAttempts )
=============================================================================
