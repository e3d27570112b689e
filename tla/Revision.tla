------------------------------ MODULE Revision ------------------------------
(***************************************************************************)
(* The revision policy over the life of one procedure (ASOP.md 6.4;        *)
(* asop.revision).                                                         *)
(*                                                                         *)
(* People and agents revise the procedure, activate its drafts and retire  *)
(* it.  The policy looks at one change at a time, and at the versions that *)
(* exist when it is made; what it promises is about all of them.           *)
(***************************************************************************)
EXTENDS Integers, Sequences, FiniteSets

CONSTANTS
  Draft,           \* contents of a version that people and agents write
  RecordField,     \* the fields of a record besides its steps
  StepField,       \* the fields of a step, "role" among them
  PolicedField,    \* the fields rule 3 diffs: ASOP_SCALAR_FIELDS and STEP_*_FIELDS
  MaxVersions,     \* bound: versions of the procedure
  MaxActivations   \* bound: activations and retirements

HUMAN == "human"
AGENT == "agent"
KINDS == {HUMAN, AGENT}

-----------------------------------------------------------------------------
(* One version.  A content is a record                                     *)
(*   fields : [RecordField -> value], roles : [role -> KINDS],             *)
(*   steps : a sequence of                                                 *)
(*     [name, gate : KINDS, protected : BOOLEAN, fields : [StepField -> value]]. *)
(* An element of a list field is a field of its own, present or absent.    *)

NamesDistinct(c) ==
  \A i, j \in 1 .. Len(c.steps) : i # j => c.steps[i].name # c.steps[j].name

RecordKey == <<"record">>

\* Steps are compared by name, or by place in a content that repeats a name.
StepsByKey(c) ==
  IF NamesDistinct(c)
  THEN [key \in {<<"name", c.steps[i].name>> : i \in 1 .. Len(c.steps)} |->
          CHOOSE s \in {c.steps[i] : i \in 1 .. Len(c.steps)} : s.name = key[2]]
  ELSE [key \in {<<"#", i>> : i \in 1 .. Len(c.steps)} |-> c.steps[key[2]]]

StepKeys(c) == DOMAIN StepsByKey(c)
Keys(c) == {RecordKey} \cup StepKeys(c)
FieldsOf(c, key) == IF key = RecordKey THEN c.fields ELSE StepsByKey(c)[key].fields
FieldNames(key) == IF key = RecordKey THEN RecordField ELSE StepField

HumanRole(c, key) == c.roles[StepsByKey(c)[key].fields["role"]] = HUMAN
HumanGate(c, key) == StepsByKey(c)[key].gate = HUMAN
HumanStep(c, key) == HumanGate(c, key) \/ HumanRole(c, key)
HumanKeys(c) == {key \in StepKeys(c) : HumanStep(c, key)}
CarriesProtected(c) == \E i \in 1 .. Len(c.steps) : c.steps[i].protected

\* What every record promises: an agent closes no human's step.
ValidContent(c) ==
  \A i \in 1 .. Len(c.steps) :
    c.roles[c.steps[i].fields["role"]] = HUMAN => c.steps[i].gate = HUMAN

ASSUME RevisionAssumptions ==
  /\ \A c \in Draft : ValidContent(c)
  /\ MaxVersions \in Nat /\ MaxActivations \in Nat

-----------------------------------------------------------------------------
(* The policy.  `history` is a sequence of versions [author, content];     *)
(* author "unrecorded" is a version that predates authorship.              *)

\* Version i, by a person, moved this field from one state to another.
HumanMoved(history, i, key, f) ==
  /\ history[i].author = HUMAN
  /\ key \in Keys(history[i - 1].content) \cap Keys(history[i].content)
  /\ FieldsOf(history[i - 1].content, key)[f] # FieldsOf(history[i].content, key)[f]

MovedAway(history, i, key, f, value) ==
  HumanMoved(history, i, key, f) /\ FieldsOf(history[i - 1].content, key)[f] = value

MovedBack(history, i, key, f, value) ==
  HumanMoved(history, i, key, f) /\ FieldsOf(history[i].content, key)[f] = value

\* A slip: only the newest version is compared with the one before it.
ForbiddenLately(history, key, f, value) ==
  Len(history) > 1 /\ MovedAway(history, Len(history), key, f, value)

\* A person moved the field away from this state and none moved it back.
ForbiddenState(history, key, f, value) ==
  \E i \in 2 .. Len(history) :
    /\ MovedAway(history, i, key, f, value)
    /\ \A j \in i + 1 .. Len(history) : ~ MovedBack(history, j, key, f, value)

\* A slip: a human step that is gone is no longer looked at.
RatchetsWhatIsKept(baseline, proposed) ==
  \A key \in HumanKeys(baseline) :
    key \in StepKeys(proposed) => HumanStep(proposed, key)

\* Every human step is still there and still human.
Ratchets(baseline, proposed) ==
  \A key \in HumanKeys(baseline) :
    key \in StepKeys(proposed) /\ HumanStep(proposed, key)

\* No field goes back into a state a person moved it away from.
UndoesNoHuman(history, baseline, proposed) ==
  \A key \in Keys(baseline) \cap Keys(proposed) :
    \A f \in FieldNames(key) \cap PolicedField :
      LET before == FieldsOf(baseline, key)[f]
          after  == FieldsOf(proposed, key)[f]
      IN  before # after => ~ ForbiddenState(history, key, f, after)

\* check_asop_revision: a person may do anything.  For an agent a protected
\* tag on either side refuses the change, and with it any change of such tags.
MayRevise(kind, history, baseline, proposed, firstActivation) ==
  kind = AGENT =>
    /\ ~ CarriesProtected(baseline) /\ ~ CarriesProtected(proposed)
    /\ firstActivation => HumanKeys(proposed) = {}
    /\ Ratchets(baseline, proposed)
    /\ UndoesNoHuman(history, baseline, proposed)

-----------------------------------------------------------------------------
VARIABLES
  versions,  \* every version of the procedure, oldest first
  service    \* what was put into service, and by whom; version 0 is none

vars == <<versions, service>>

Version == [author : KINDS \cup {"unrecorded"}, content : Draft]
Service == [version : Nat, by : KINDS]

\* The version in service after the first n acts, and now.
InService(n) == IF n = 0 THEN 0 ELSE service[n].version
Active == InService(Len(service))
IsDraft(n) == \A i \in 1 .. Len(service) : service[i].version # n

Init ==
  /\ \E v \in Version : versions = <<v>>
  /\ service = <<>>

\* Somebody writes the next version.  The change is measured against the
\* latest one, whichever the writer started from.
Revise(kind, c) ==
  /\ Len(versions) < MaxVersions
  /\ MayRevise(kind, versions, versions[Len(versions)].content, c, FALSE)
  /\ versions' = Append(versions, [author |-> kind, content |-> c])
  /\ UNCHANGED service

\* A slip: a draft is always measured against itself.
ActivateUncompared(kind, n) ==
  /\ Len(service) < MaxActivations
  /\ IsDraft(n)
  /\ MayRevise(kind, versions, versions[n].content, versions[n].content, Active = 0)
  /\ service' = Append(service, [version |-> n, by |-> kind])
  /\ UNCHANGED versions

\* Somebody activates a draft.  The change is measured against the active
\* version; with none active there is only the draft itself.
Activate(kind, n) ==
  /\ Len(service) < MaxActivations
  /\ IsDraft(n)
  /\ MayRevise(kind, versions,
               versions[IF Active = 0 THEN n ELSE Active].content,
               versions[n].content, Active = 0)
  /\ service' = Append(service, [version |-> n, by |-> kind])
  /\ UNCHANGED versions

\* Only a person withdraws the procedure: require_human.
Retire(kind) ==
  /\ kind = HUMAN
  /\ Len(service) < MaxActivations
  /\ Active # 0
  /\ service' = Append(service, [version |-> 0, by |-> kind])
  /\ UNCHANGED versions

Next ==
  \E kind \in KINDS :
    \/ \E c \in Draft : Revise(kind, c)
    \/ \E n \in 1 .. Len(versions) : Activate(kind, n)
    \/ Retire(kind)

Spec == Init /\ [][Next]_vars

-----------------------------------------------------------------------------
(* Properties. *)

TypeOK ==
  /\ versions \in Seq(Version) /\ versions # <<>>
  /\ service \in Seq(Service)
  /\ \A i \in 1 .. Len(service) : service[i].version \in 0 .. Len(versions)

\* However many revisions agents stack on each other, none of the human steps
\* the last person left is gone or has become an agent's.
HumanStepsStay ==
  \A i, j \in 1 .. Len(versions) :
    (i <= j /\ \A k \in i + 1 .. j : versions[k].author = AGENT)
      => HumanKeys(versions[i].content) \subseteq HumanKeys(versions[j].content)

\* A field of a record or step that stayed in the procedure is never again in
\* a state a person moved it away from, unless a person moved it back.
StaysAway(i, j, key, f) ==
  LET left == FieldsOf(versions[i - 1].content, key)[f]
  IN  /\ HumanMoved(versions, i, key, f)
      /\ FieldsOf(versions[j].content, key)[f] = left
      => \E k \in i + 1 .. j : MovedBack(versions, k, key, f, left)

KeptThrough(i, j, key) == \A k \in i - 1 .. j : key \in Keys(versions[k].content)

HumanChangesStand ==
  \A i, j \in 2 .. Len(versions) :
    i <= j => \A key \in Keys(versions[j].content) :
                KeptThrough(i, j, key)
                  => \A f \in FieldNames(key) \cap PolicedField : StaysAway(i, j, key, f)

\* The human steps in service at a point of the service history.
HumanInService(n) ==
  IF InService(n) = 0 THEN {} ELSE HumanKeys(versions[InService(n)].content)

ProtectedInService(n) ==
  InService(n) # 0 /\ CarriesProtected(versions[InService(n)].content)

\* However many drafts agents activate one after the other, no human step
\* leaves service, none enters it where nothing was in service, and nothing
\* protected enters or leaves.
ServiceRatchets ==
  \A i \in 0 .. Len(service), j \in 1 .. Len(service) :
    (i < j /\ \A k \in i + 1 .. j : service[k].by = AGENT) =>
      /\ HumanInService(i) \subseteq HumanInService(j)
      /\ InService(i) = 0 /\ j = i + 1 => HumanInService(j) = {}
      /\ ~ ProtectedInService(i) /\ ~ ProtectedInService(j)

-----------------------------------------------------------------------------
(* What the documents say and the code does not do. *)

\* "bring back what a human removed ... or restore what a human replaced": the
\* same of a step that was away in between (revision.py, rule 3).
RestoredStepsStand ==
  \A i, j \in 2 .. Len(versions) :
    i <= j => \A key \in Keys(versions[j].content) :
      \A f \in FieldNames(key) \cap PolicedField :
        LET left == FieldsOf(versions[i - 1].content, key)[f]
        IN  HumanMoved(versions, i, key, f) /\ FieldsOf(versions[j].content, key)[f] = left
              => \E k \in i + 1 .. j :
                   /\ versions[k].author = HUMAN /\ key \in Keys(versions[k].content)
                   /\ FieldsOf(versions[k].content, key)[f] = left
=============================================================================
