# A TLA+ verification of asop

`asop` is a contract for agent procedures and its reference implementation in
Python: a library of pure functions an *engine* calls to run chains of
procedures, and a *store* calls to keep their records. The engine and the store
are not in the repository. What they must do around the library is written in
`ASOP.md` and in the docstrings of the functions, and the hard questions are
all about that surrounding: the functions are asked again and again, after
other runs moved, after a restart, with documents that arrive late.

The specifications here model the functions as operators, and the engine, the
stores and the people as actions that call them at any moment the contract
allows. TLC checks small instances; the main safety properties are proved with
TLAPS for every value of the constants.

## Inventory

| part | code | state it works on | operations | what makes it correct |
|---|---|---|---|---|
| hand-off planner | `chain.py` 895-1295, 1382-1412 | a finished run's result; what was filed before | `plan_handoffs`, `plan_join`, `_file_handoff`, `_file_or_dup`, `expand_subjects`, `_order_problem`, `_approved_subset` | files exactly what is declared, idempotently, with the target's declared inputs; every refusal that leaves a target unfiled is visible to joins |
| joins | `chain.py` 1324-1399 | the parent's recorded decisions; done and failed runs | `join_state`, `plan_join` | a join never sees a partial fan-out, always settles, and only the latest attempt files it |
| fan-out scheduling | `chain.py` 1298-1321 | decisions; started and done runs | `fanout_startable` | dependencies first, bound kept, no silent stall |
| chain engine | `ASOP.md` 3.7 "Engine duties" (external) | runs, inputs, ledger, active versions | file, finish, fail, re-attempt, replay, activate | the whole chain keeps the above through interleavings and stops |
| run ownership | `ownership.py` 54-167, `revision.py` 237-264 | owner, epoch, history | `validate_transfer`, `apply_transfer`, `check_flip` | one chain of epochs; a former owner is fenced out |
| record validation | `chain.py` 166-890 | one record; the graph of active records | `validate_chain_fields`, `validate_handoff_targets`, `_walk_handoffs` | acyclic hand-offs, joins on earlier hand-offs, one hand-off per target |
| start conditions | `chain.py` 1464-1591 | the chain's runs, gate outcomes | `requires_satisfied`, `plan_entry`, `preflight_checks` | nothing starts early; the consumer is never charged |
| rework and escalation | `chain.py` 1415-1457, 1598-1655 | rounds, owner run | `plan_rework`, `plan_escalation` | bounded rounds, then a person |
| manifest and adoption | `manifest.py` | pins of a chain | `pin_manifest`, `manifest_resolver`, `validate_adoption`, `verify_manifest`, `check_pinned` | one version of each procedure in a chain; moves only by adoption |
| journal, resume, staleness | `journal.py` | a run's journal; lineage | `resume_point`, `charged_failures`, `stale_runs` | restart re-runs exactly what was interrupted |
| gates and retry | `gates.py` | attestations of one gate | `gate_outcome`, `gate_satisfied`, `retry_decision`, `timeout_resolution` | no missing rung passes; no third autonomous attempt |
| revision policy | `revision.py` | the versions of a record and their authors | `check_revision`, `check_asop_revision`, `may_adjudicate` | an agent never undoes a person |
| record schema | `sop.py` | one document | `validate_asop`, `validate_step` | field-by-field validation |
| refusal codes | `refusals.py`, `errors.py` | none | tables | - |

The parts meet in three places: the engine passes the ledger and the sets of
done, failed and started runs back into the planner; a re-attempt (staleness,
rework, entry gates) makes a second generation of runs under other natural
keys; and the resolver, which answers from the active versions or from a
manifest, is read at filing and again when a join fires. Nothing in the
library locks: every function reads a snapshot that other actors change
afterwards.

## Modules

| module | models | proofs |
|---|---|---|
| `Handoffs` | the planner, `join_state` and `fanout_startable` as operators, one per function or idea of the code | `Handoffs_proofs` |
| `ChainEngine` | a whole chain: runs, the ledger, stops, re-attempts, activations | `ChainEngine_proofs` |
| `FanOut` | the runs of one ordered, bounded, approved fan-out | `FanOut_proofs` |
| `Ownership` | one run, its owner and the documents and flips about it | `Ownership_proofs` |
| `Revision` | the versions of one procedure, and what people and agents may change in them | `Revision_proofs` |
| `Journal` | the steps of one run: leases, gates, failures, clocks and restarts | `Journal_proofs` |
| `FanIn` | what joins promise, without plans, keys and ledgers: the abstract specification that `ChainEngine` implements | in `ChainEngine_proofs` |
| `Rework` | the loops of a chain: entry gates, start conditions, rework, staleness | `Rework_proofs` |
| `Activation` | the store of procedures: which drafts may become ACTIVE | in `Manifest_proofs` |
| `Manifest` | one chain: pinning at its start, resolution from the pins, adoptions, while `Activation` goes on | `Manifest_proofs` |
| `MCJoin`, `MCAttempts`, `MCFanOut`, `MCRework`, `MCActivation`, `MCRevision`, `MCJournal`, `MCManifest` | values of the constants for TLC | |

`ChainEngine` and `FanOut` both extend `Handoffs`: the first leaves out when a
run may start, the second everything but that. `Rework` stands above both: its
runs are nodes that hand off to one run each, and what it adds is when a run may
start and why a run that ended is filed once more. Operators after a comment "A
slip:" are the broken variants that show each property can fail; nothing else
uses them.

### Handoffs

- A natural key is a record `[asop, subject, attempt]`. `natural_key` encodes
  its parts so that distinct records give distinct strings, which is all the
  planner uses of it.
- A decision is a record, as in the code, without its wording. Decisions are a
  set, not a list: `join_state` does not depend on their order, and two
  hand-offs of one procedure never share a key because they have different
  targets (`OneHandoffPerTarget`, checked by `validate_chain_fields`), so the
  `filed` map that `plan_handoffs` updates while it plans is never read at a key
  the same plan added. What the set loses is that a subject requested twice is
  filed and then recorded as a duplicate of itself.
- An output is `[shaped, items, digest, value]`. `shaped` is FALSE when
  `expand_subjects` raises. An item carries the set of hand-offs whose `where`
  and `where_not` keep it, its value and its dependencies. `OutputOrder` gives
  subjects their order; when requests name subjects the code keeps the order of
  the requests, the model the order of the output, which matters only for which
  of several startable runs starts first.
- `OrderProblem` states the cycle check of `_order_problem` as "a set of
  subjects each of which depends on a member of the set" instead of the
  depth-first walk, which is `OrderSearch`; `OrderSearchIsExact` says that they
  agree, is checked for small graphs and proved for all. `OrderableUnlessProblem`
  proves that this rejects exactly the dependency
  graphs that cannot be ranked.
- `Missing` stands for a `KeyError` of `_resolve_value`; a value that is no
  scalar raises the same error and is not told apart. Inputs are compared by
  equality, the model's form of `_same`.
- `existing` maps each filed key to the set of what is known of its inputs: one
  value when the engine passes inputs, nothing when it passes bare keys
  (`_filed_map`, `chain.py:1026-1029`). `_file_or_dup` calls a known key a
  `conflict` only when its inputs are known and differ (`chain.py:1012`), so that
  from bare keys every known key is a `duplicate`, whatever it was given.
- `HandoffAssumptions` is what validation gives the planner. The part of it TLC
  evaluates on each run: joins wait on hand-offs declared earlier (each has a
  natural number for its place), targets are distinct, outcomes are declared.

### ChainEngine

Variables: `status`, `inputs`, `version` and `result` of every run by natural
key; `ledger`, the decisions recorded with a run, and `recorded`, the runs
that have them; `active`, the active versions; `keepsInputs`, whether the engine
passes the inputs of its runs to the planner or their bare keys, which is chosen
at the start and kept.

| action | what happens |
|---|---|
| `Finish`, `Fail` | a run ends; a failed one may be re-run to done under its own key |
| `RecordHandoffs` | `plan_handoffs` of a done run, its runs filed, its decisions ledgered |
| `StopWhileFiling` | some of the runs are filed and the engine stops: no decision is ledgered, the plan is made again later against other versions and other filings |
| `FileJoin` | `join_state` says ready, `plan_join`, filed and ledgered |
| `StopWhileJoining` | the join's run is filed, its decision is not |
| `Reattempt` | the next attempt of an ended run is filed, with fresh values |
| `Activate` | an operator activates other versions |

The engine is single and its reads of the library are atomic with the filing
that follows. `ReadyIsStable` is why looking first and filing later is safe for
a join. Where the engine passes bare keys a run that was found filed may have
other inputs than the hand-off computes, and nobody is told; `HandedInputsAgree`
and the inputs of `JoinSeesWholeFanOut` are therefore claimed of duplicates only
where inputs are known. Every other property holds of both kinds of engine.
That waiting joins of an earlier attempt are retired is the engine's duty
(`join_state`'s docstring), a guard of `FileJoin` and no property of the
library. A re-attempt keeps the run's version, as ASOP.md 3.7 describes
staleness; why a run is re-attempted is `Rework`'s.

`FanIn` is the promise: a join that fired waits on a set of things, is decided
when all of them have finished, once, and not after its run was re-attempted.
`Joins` maps a chain to it. What a join awaits is read from `Promised` and from
the refusals in the ledger, not from `join_state`; a run is finished when it is
done, a join when it was filed or refused, a refusal never. `JoinsAreFanIns`
says each step of a chain is a step of these joins or none, and
`ReadyJoinsAreDecided` is FanIn's liveness: what could be decided is decided.
`join_state` answers from the ledger and the sets `done` and `failed`; the
refinement says that through stops, replayed plans, re-attempts and activations
these answers are those of someone who saw the declarations and the results.

### Rework

A node is a procedure with its subject, a run a node and an attempt; `Filer`
makes the nodes a tree, and a run is handed what its `Reads` hold. `content`
holds a digest per node (what its last done run wrote) and per source (a
document, or a question whose answer may come late: None until it does). Only
the latest attempt of a node acts.

| action | what happens |
|---|---|
| `EvaluateGate` | the engine runs an entry gate of a filed run; its verdict carries the digests it saw, and counts while these are unchanged (ASOP.md 3.8) |
| `Start` | `plan_entry` says start and `requires_satisfied` holds; the run's lineage is recorded with digests |
| `RefuseEntry` | `plan_entry` says not ready: producers are re-filed, a person is asked about a source |
| `Finish`, `Fail` | a run ends with an output and an outcome, or with a person |
| `HandOff` | a done run files its successors at its own attempt; a key that is filed already is a duplicate |
| `SendBack`, `SendToPerson` | `plan_rework` of an outcome with a rework edge: the owner's next attempt with prior findings, or rounds spent, or a refusal |
| `RefileStale` | a run that read something at another digest (`stale_runs`) is filed as its next attempt |
| `ChangeSource`, `Approve` | people change a source, answer a question, approve an output |

- The natural key of a re-filed run depends on the attempt alone, so two reasons
  to re-file one run meet at one key: the second finds it filed and changes
  nothing, its findings included. Attempts of two nodes drift apart this way.
- The owner of a finding is the run of the target's procedure that the run was
  built on, the meaning of "by lineage" in ASOP.md 3.9; `plan_rework` itself
  only checks the procedure's name.
- `Reads` is any function that `HandedOn` permits: what a run is handed comes
  from outside the chain or from a node above it, because `_resolve_value` reads
  only the output and the inputs of the run that files it. A gate is over
  something its run is handed (`_list` refuses an empty `over`).
- The lineage of a run is what it was handed and what an approval with a bound
  digest let in. Values handed on are names, so filing a key again never
  conflicts.
- `SendToPerson` covers the refusals of `plan_rework` (no owner, no version, no
  findings) as well as spent rounds, and may always happen.
- Left out: who is charged for an entry refusal, `chain_gate`, `preflight`,
  `tier_bump`, step edges (they stay inside a run), and escalation as a
  procedure: a person is a set of runs here.

### Activation

`active` is the ACTIVE version of each procedure, `released` the versions that
ever were. `Activate` is guarded by `ValidTargets`: `validate_handoff_targets`
with its depth-first walk as a recursive function over the ordered hand-offs,
`seen` and `path` as in `_walk_handoffs`. A walk answers with the procedures it
names or with the cycle it met. `HandsOffTo` and `ServiceIsAcyclic` say what it
is for. Names of inputs, preflight and the human step of an escalation's target
are left out.

### FanOut

The run that fans out is done; `RecordHandoffs` records its plan, or
`StopWhileFiling` files a part first and the plan is made again, with the inputs
of that part or with its bare keys; both give the first plan's decisions
(`ReplayAlwaysTheFirstPlan`), for there is one predecessor.
`StartRuns` starts any non-empty subset of what `fanout_startable` returns,
`Finish`, `Fail` and `Rerun` move the runs. `started` never shrinks, as the
docstring of `fanout_startable` defines it.

### Ownership

Transfers are documents: they stay in `transfers` after they were applied and
can arrive again, and several can be written from the same state. A flip
carries the epoch its store last read, or claims none: any store may leave
`actor_epoch` out, as one that predates epochs does. `ValidTransfer` is the
conjunction of `validate_transfer` and `require_declared_human` without the
checks of the document's shape and of its run id; a refused document changes
nothing, so refusals are not actions.

### Revision

`versions` is the list of a procedure's versions with their authors, `service`
the log of what was put into service and by whom. `Revise` appends a version
measured against the latest one, `Activate` puts a draft into service measured
against the active version, `Retire` withdraws the procedure. An agent's draft
may be reviewed, agreed and activated long after other drafts were, so
`Activate` takes any draft.

- A content has fields by name, roles, and steps with a gate, a protected tag
  and fields. An element of a list field (an evidence rung, a failure rule) is
  a field of its own that is present or absent, which is how
  `forbidden_states` looks at lists: as sets of elements.
- `StepsByKey` is the map the code diffs by: by name, or by place as soon as a
  name repeats. Each comparison of two contents keys each side by its own rule,
  as the code does.
- When nothing is active, the first activation compares the draft with itself
  and only asks that it has no human step, nothing protected. So an agent may put
  an old draft into service after a person replaced it by a newer one.
- A protected tag on either side refuses an agent's change. The code's further
  refusal, that an agent changes protected tags, is implied by it.
- Not modelled: `check_revision` of one-step records, steps that `uses` another
  procedure, registries of environments, and the marks `may_adjudicate` reads.

### Journal

`journal[i]` is what the run's journal says of step i, `evidence[i]` the
attestations of its latest lease, `executors[i]` the leases nobody has heard from
since, `running` the steps the engine counts on. A restart, or a lease that runs
out, is `Forget`: the step leaves `running` and the journal is all that is known.
Nothing tells a dead executor from a slow one, so a forgotten lease may still
report; silence is an action that is never taken.

| action | what happens |
|---|---|
| `Claim` | a step of `resume_point`'s `next`, that is not known to run, is started under a new lease |
| `Attest`, `Report` | the holder attests to a rung; it asks for completion and the gate is evaluated, or the step parks |
| `Answer`, `TimeOut` | a judge or a person attests to a parked step; its park clock runs out |
| `Repair`, `Escalate`, `Refile`, `Reopen` | what follows a first failure, a second one, one that is nobody's or somebody else's, and a person's answer to an escalation |

- The code keeps one list of entries for a run. No function of it compares
  entries of two steps, so the model keeps one list per step.
- The fence on reports, `Holds`, is ASOP.md 5.2's, not the library's:
  `resume_point` takes the last entry of a step whatever attempt it carries, and
  relies on it. The properties show what they are worth together.
- The engine asks `retry_decision` after a charged failure. A failure by the
  environment or a predecessor, and a `cannot_evaluate`, are filed again.
- `cannotExit` and `minCases` are 0 where the gate has none; rungs count from
  1, and a gate with a single check is a ladder of one rung.
- Attestations carry no author: who may attest is the engine's business. Steps
  that `uses` another procedure are not modelled.

### Manifest

While `phase` is "pinning", each `PinReference` is one turn of `pin_manifest`'s
loop: a reference of a pinned version is checked against its pin or, the first
time, resolved by the store, and activations may come between two turns.
`todo` is a set where the code has a stack of bodies, so every order of the walk
is covered, also those of other stores. `StartChain` records the manifest and
starts the chain's first run; "refused" is the `ChainContractError`.

Then runs are filed from the current manifest alone (`FileHandoff`, `Refile`),
people record other manifests and write adoptions, with an impact they computed
from any manifest of the chain, and documents arrive late or again (`Adopt`).
0 stands for a procedure, or a component, that a manifest does not pin. Digests
are equality of manifests; the starting run's version is the ACTIVE one, and the
manifest's `start` field, which nothing compares after validation, is left out.

Two things the code permits are no property here. A manifest that is recorded by
hand need not pin what its members reference, so after its adoption a run in
flight may find its hand-off refused (`handoff_refused:version`), the documented
outcome; and an adoption that was used is valid again once the chain is back at
the manifest it starts from.

## Runs

| run | instance | shows |
|---|---|---|
| `join_results` | 4 procedures, fan-out -> join -> join after the join, 2 subjects, 6 results of the fan-out's run, 2 activations | joins are filed over whole fan-outs, plans are exact, readiness is stable, joins never wait for each other once the filed runs have ended, waiting joins settle and are decided once all they await has finished |
| `chain_attempts` | two chains, by which procedure starts: the same fan-out with 1 subject and 2 attempts; and 2 predecessors of one chain run with 2 values, the ACTIVE version of its target 1 or 2, which declare other inputs, with 2 attempts; the engine knows the inputs of its runs or their keys alone | the chain implements `FanIn`, the joins of two attempts apart; filed runs have the inputs handed to them, so have duplicates where inputs are known; inputs are declared, filing is final |
| `fanout_plans` | all 512 dependency graphs over 3 tasks (self-loops and cycles included) x 3 approvals x requests or none, bound 2, any stop | order, bound and approval; the search for cycles is exact; no silent stall and every fan-out settles unless a replay lost its order |
| `fanout_slot` | 3 tasks, bound 1 | violated, see below |
| `fanout_replay` | 3 tasks, bound 2, any stop | violated, see below |
| `ownership` | 2 stores, 3 actors (a human administrator, a human, an agent named administrator), 2 epochs, 3 documents, 2 accepted flips, with and without an epoch | chain of epochs, fencing, a store without epochs stops at the first transfer, progress of a transfer |
| `revision` | 7 contents (human by gate, by role, a repeated name, a protected step), 4 versions, 2 activations | agents undo no person, in one change or in many |
| `revision_restore` | the same, no activation | violated, see below |
| `journal` | a two-rung ladder with a `cannot_evaluate` exit and a case floor, then a person's gate that escalates and one with a default; 3 leases of a step, 2 attestations of a lease, faults by work and environment | order, fence, budget and evidence over crashes and late reports; the run ends or waits for a person |
| `manifest` | 3 procedures with 2 versions each and a rework cycle, any versions active, 3 manifests recorded by hand, 2 documents, 2 adoptions | whole manifests, resolution whatever is activated, reviewed mixes, the walk ends |
| `rework` | 3 nodes in a line, a readiness gate over a question that may be answered late, a hand-off gate that outputs pass or fail, an approval that binds its digest, 2 rework edges back to the first node with 1 round each, 3 attempts, 1 change | verdicts and findings are never about something older; what is sent back and what changes comes through, or ends with a person |
| `activation_cycle` | 3 procedures with 2 versions | violated, see below |

Type invariants are proved (`TypeCorrect` in each proof module) and not run
again.

Bounds. Two subjects are what it takes for one unit to be refused, failed or
late while another is done; two attempts for a stale and a fresh generation;
three tasks for a cycle that is neither a self-loop nor the whole graph and for
a bound that leaves one run out. Two epochs include a transfer to the other
store and back, three documents a second one written from the same state. The
bounds on ownership (`MaxEpoch`, `MaxTransfers`, `MaxEvidence`) stop the writing
of documents and the acceptance of flips, nothing else. Four versions are a
start, a person's change, an agent's version in between and an agent's undo; two
activations are two drafts one after the other, or one and a retirement. Three leases are a failure, a second one, and a lease that must not follow it
unasked; two attestations climb the ladder or answer one rung twice. Two
adoptions are a move and the move back, two documents two that race. Three
attempts of a node are a re-filing by one loop and another by the next, one
round of each of two edges is a race for one owner, and one change is an answer
that comes at any moment. `MaxAttempts` and `MaxEvidence` stop new leases and
attestations, `MaxDocuments` and `MaxAdoptions` documents and their acceptance,
`MaxAttempt` and `MaxChanges` re-filings and changes; the liveness of `Rework`
excuses a node at its last attempt (`AtBound`), which two re-filings come before.
The proofs have no bounds. Deadlock is not checked: a chain whose runs are done,
a finished fan-out, a run at its last epoch, a run whose steps are done, a chain
that was refused and a store without drafts stop.

### Where the code and its documents disagree

- **A failed run keeps its slot** (`fanout_slot`). `fanout_startable` counts
  runs that started and are not done (`chain.py:1312`); the docstring and
  ASOP.md 518 bound the *running* runs. After a failure with bound 1 nothing
  starts, though nothing runs.
- **A replayed fan-out stalls** (`fanout_replay`). `fanout_startable` reads
  `file` decisions only (`chain.py:1310`). After a stop between filing and the
  ledger the plan comes back with duplicates, without `depends_on`; their runs
  never become startable and the join waits, not blocked. The vectors
  (`join.yaml:154`) require `join_state` to count duplicates for exactly this
  case. `NoSilentStall` and `FanOutSettles` therefore hold only of a fan-out that
  was not replayed, and say so.
- **A cycle can be activated** (`activation_cycle`). `_walk_handoffs` marks a
  procedure as seen before it resolves the reference to it (`chain.py:870-873`).
  When the first mention of a procedure does not resolve and a later one does,
  the procedure is not walked, and an activation that closes a cycle through it
  is accepted; declared in the other order it is refused. `chain.py:768` and
  ASOP.md 381 promise that hand-offs have no cycle, because a cycle through a
  fan-out has no bound. `CyclesCloseByDisagreement` proves that nothing else is
  wrong with the walk: wherever references to a procedure agree on whether they
  resolve, it keeps the promise.
- **Removed and restored** (`revision_restore`). A person replaces a text; an
  agent removes the step, which an agent may do to an agent's step; an agent adds
  it again with the old text. The diff looks at steps on both sides only
  (`revision.py:494`); rule 3 forbids restoring what a human replaced.

More are prose here, because each is a matter of what a phrase covers.
ASOP.md 441 says that inputs never depend on which of two predecessors finished
first; of two with different inputs the first to be planned files the run and
the other is refused `conflict`, or called a `duplicate` where the engine passes
bare keys (what holds is `HandedInputsAgree`). The policy's
"any field" (ASOP.md 1056) does not reach a step's gate check, `after`, `uses`,
`constraints` and `handoffs`. `resume_point` promises that `next` lists crashed
steps first (journal.py 107-109) and lists them in step order. The docstring of
`charged_failures` feeds its result to `retry_decision`, which raises for 0, the
result after a failure of the environment. And a version that repeats a step name is keyed by
place while its neighbour is keyed by name (`revision.py:443-450`), so that no
step of the two is compared. `HumanStepsStay` holds nevertheless, as it is about
the number of human steps and their roles, which the code compares apart; about
the other fields of steps that share no key there is no property. A step that is human by its gate and by its role
stays a human step when an agent changes only the role (`revision.py:650` looks
at the step's one actor), though ASOP.md 1054-1055 forbids moving the role on its
own.

Of the loops: `rounds_used` is counted per owner in `plan_rework`'s docstring
and per edge and chain in ASOP.md 679; the model counts per edge and owner, as
the docstring does, which allows all that the other reading does. Of two consumers that
send work back to one owner the second one's findings are lost, as its key is
filed. A re-attempted parent "files its fan-out afresh" (ASOP.md 962), but at its
own attempt number: a child that was re-filed for a reason of its own may hold
that key already, and does not run again (`HandedToTaken`, the exception in
`SentBackComesForward`). An entry gate that cannot evaluate re-files its producer
without a bound of its own. `plan_rework` resolves the owner's version anew and
hands it the inputs of the old one without the check of `plan_handoffs`.
`rework_refused:undeclared` is documented and never produced. `plan_escalation`
files attempt 1 by default, so that a second escalation of one step is a duplicate
of the first.

## Fairness

- `WF` of the end of each open run: it finishes or fails, or its park clock and
  retry budget end it (ASOP.md 5.2, 5.4). Nothing forces it to end done, and
  nobody has to re-run what failed.
- `WF(RecordHandoffs)` and `WF(FileJoin)`: the engine plans every done run and
  asks about its waiting joins. A join that is ready stays ready
  (`ReadyIsStable`), so weak fairness is enough. Stops, re-attempts and
  activations have no fairness; a stop may repeat as long as it files something
  new.
- `FanOut`: `RecordHandoffs`, some start when one is possible, and every
  running run ends. `Rerun` has none: nobody must re-run a failure.
- `Journal`: the engine claims, repairs, escalates and files again (ASOP.md
  3.7, 5.4), leases and park clocks run out. Nothing is assumed of executors,
  judges and people; a run whose step used up the bound on leases is excused in
  `RunSettles`, because nothing forces an executor to answer.
- `Manifest`: `pin_manifest` is one call, so its loop goes on.
- `Rework`: `WF(Engine)`, one condition on all the engine does: it goes on while
  there is a gate to run, a run to start, to plan or to re-file, and a run that
  started ends. Between two changes by people the engine has finitely many steps,
  so no order between its duties is needed. Nothing is assumed of people.
- `Ownership`: a valid document is delivered. Nothing is assumed of stores or
  people.

## Proofs

All proofs hold for every value of the constants within the named assumptions
`HandoffAssumptions`, `ChainEngineAssumptions`, `FanOutAssumptions`,
`OwnershipAssumptions`, `RevisionAssumptions`, `JournalAssumptions`,
`ActivationAssumptions`, `ManifestAssumptions` and `ReworkAssumptions`: any
finite set of subjects, any procedures (finitely many in `Activation`), attempts, versions, results, stores,
people, contents, steps, gates, references, rework edges and bounds.

- **Planner** (`Handoffs_proofs`). `UnitDecision` and `HandoffFilings` say what
  a filing is: a unit of its hand-off, with the inputs that hand-off computes and
  its version declares, fresh if it is a `file` and equal to what was filed if it
  is a `duplicate` of a run whose inputs are known. `HandoffCovers` and `PlanCovers` say that no unit is dropped: it
  is filed, or a refusal with a target stands. `OrderSearchExact` is the
  depth-first search of `_order_problem`, for every graph. `RecursionBySize` shows
  that a definition whose value rests on smaller arguments has a solution and
  `InductionBySize` gives the induction, both stated over sets and functions so
  that first-order provers can use them. `SearchInv` says what the two marks of
  the search mean: closed units have their dependencies closed and no cycle among
  them, and each open unit but the last depends on an open one. `ReplayChangesNoJoin`:
  in a plan made again a filing that was made comes back as a duplicate, and no
  join can tell.
- **Chain** (`ChainEngine_proofs`). The four ways the engine files runs are
  summed up by one lemma (`EngineFiles`): runs are added at keys that had none,
  with the inputs of their decisions. From it follow `TypeCorrect`,
  `FilingIsAlwaysFinal` and `RunInputsAreDeclared`. `HandedInputsAlwaysAgree`
  needs `LedgeredUnits` besides: every recorded filing is a unit of its
  hand-off in this parent run. It speaks of duplicates where the engine keeps
  inputs, and of filings always.
- **Joins.** `JoinSeesWholeFanOut` is not inductive: it speaks of recorded join
  filings and not of what the ledger of a parent must contain at any time. The
  strengthening is `LedgerComplete` - for every fired hand-off of a recorded run
  the ledger holds a filing of every unit, or a blocking refusal, or, for a join,
  its wait. From it a join that is `ready` sees all units done
  (`ReadyJoinsSeeUnits`), and nothing undoes that (`JoinsStaySeen`).
  The property itself is stated with `Promised`, an independent reading of ASOP.md
  in which an order is acceptable when the subjects can be *ranked*;
  `OrderableUnlessProblem` and `PromisedAreUnits` connect it to the planner.
  `FiledAlwaysExactlyPromised` and `ReadinessIsStable` come from the same
  invariants.
- **Joins as FanIn.** `JoinsImplementFanIn` is the refinement of the safety part:
  initial states map to initial states, and each step to a step or a stutter. A
  join moves only when its run is recorded or the join is filed, and the ledger
  is complete at both, so what it awaits never shrinks and is done when it is
  decided. The liveness part stays with TLC.
- **Fan-out** (`FanOut_proofs`). The bound on running runs is inductive only
  together with the bound on *held* slots (`HeldWithinConcurrency`), since a
  failed run may run again: this is what the counting of failed runs buys. The
  counting argument is `FittingSet`: the first subjects in output order that fit
  are no more than the free slots. `NeverStallsSilently` needs no more of a state
  than that its decisions are a plan: a fan-out planned once, of which nothing was
  refused, filed every unit (`FanOutFiled`); the units that did not start are no
  cycle, so one of them depends on started ones only, which are done when nothing
  runs and nothing failed; and the first such in output order fits, since no
  slot is held (`FirstMayStart`). `SlotsAlwaysTaken` is the other half of the
  bound: one call names enough runs to fill the free slots, or every run that is
  due. `ReplayAlwaysTheFirstPlan` says that after a stop the plan is the one that
  would have been recorded; only the order of what was filed is lost.
- **Ownership** (`Ownership_proofs`). `HistoryIsAlwaysAChain` first; fencing
  follows because an accepted flip names the current epoch, and epochs only grow.
  That administrators made every transfer (`TransfersAreAdministered`) is the
  check of `validate_transfer` kept in the history; it is proved and has no run.
- **Revision** (`Revision_proofs`). The policy checks one step of a history; the
  properties speak of any two versions with only agents between them. They are
  inductive as stated, because the pairs that a new version adds are the pairs
  of its predecessor extended by one allowed change.
- **Journal** (`Journal_proofs`). `JournalStep` sums up the actions: one step's
  list grows by one entry that may follow its last, or nothing is written.
  `NoThirdAttempt` needs `SecondFailureStands`: between the second charged failure
  and an escalation the last entry is that failure, from which `Repair` is not
  enabled. `DoneIsEarned` needs that a ladder found "passed" was climbed rung by
  rung (`PassedIsClimbed`).
- **Manifest** (`Manifest_proofs`). While pinning, every reference of a pinned
  version is satisfied by a pin or still in `todo` (`Covered`), so an empty `todo`
  leaves a whole manifest. Runs carry the pin of their manifest
  (`RunsArePinned`), and a pin that no adoption of a span changed is the same at
  both its ends (`PinsMoveByAdoption`, the induction along the history kept as an
  invariant); `MixIsAlwaysReviewed` follows from these two and the impact of each
  accepted adoption.
- **Activation** (in `Manifest_proofs`). The walk of `_walk_handoffs` is a
  recursive function over the references still to follow, the path and what was
  seen. That it has values is `RecursionAlong`; what they mean is shown with
  `InductionByTwoSizes`: what was seen grows, and where it does not the
  references left get fewer. `WalkIsClosed`: a walk that met no cycle has seen
  all that it leads to, provided no procedure is referred to once in a way that
  resolves and once in a way that does not (`ReferencesAgree`); its invariant is
  that what was seen and is not on the path has all its targets seen.
  `AgreeingWalkKeepsAcyclic` needs besides that what is ACTIVE was acyclic before,
  since records already ACTIVE are not checked again, and
  `CyclesCloseByDisagreement` turns it round: each step that closes a cycle is the
  activation of a version whose references disagree.
- **Loops** (`Rework_proofs`). `LoopsInv` strengthens the two safety properties:
  a verdict that says "passed" saw contents that pass (`PassedVerdicts`), a run
  that started read contents that pass its gates (`LetInOnPassing`), and findings
  come from runs that are done and no longer move (`FindingsOfDoneRuns`).
  `NothingUnreadyIsTrusted` speaks of what the chain holds *now*, so it needs the
  second for the moment of the start, and staleness for everything after.
- **At rest.** Liveness says that the engine gets somewhere. That where it stops
  is where it should be is a safety property, and proved. `AtRest`, in four of
  the proof modules, spells out that no guard of what the engine does by itself
  holds, and `RestIsRest` proves that it then does nothing. (The converse needs
  ENABLED, so it was compared with `AtRest` by TLC, on the instances of the runs.)
  The theorems say what holds in such a state, without fairness or bounds:
  - `RestMeansDecided` (chain): a join waits only if its run was re-attempted or
    a join beside it is blocked. It rests on `JoinsNeverStarve`
    (`JoinsCanBeDecided` of the `join_results` run): of the waiting joins of a run
    the one declared first waits on no other; and on
    `FilingsAlwaysRuns`: what is recorded as filed is a run, which has ended.
    `FilingDecidesTheJoin` adds that a join that was filed waits no more.
  - `RestMeansSettled` (fan-out): the join over a fan-out planned once is ready or
    blocked, by `NeverStallsSilently`.
  - `RestMeansSettled` (journal): the run is done, waits for a person, or has a
    step that used up its leases. This is `RestartAlwaysFindsWork` together with
    what `retry_decision` leaves unanswered, more than two charged failures.
  - `RestMeansCurrent` and `RestMeansForward` (rework): a run that did not see what
    the chain holds, or was sent back and did not come forward, is stopped by a
    person, by the bound, or by a key that was taken. `RestInv` is their
    invariant: what was handed on or sent back is filed, and a run was built on a
    done run of each node above it. So the first node of a run's line that is not
    done is what holds it up (`TopOfLine`), and no latest run was built on one
    that has gone ahead of it since, for what is ahead comes down the line
    (`NothingIsAhead`).

  What is left of liveness is that the engine comes to rest at all. For pinning
  `PinningAlwaysGoesOn` proves the variant, and only the step from a variant to
  termination is TLC's.

Checked by TLC only: the liveness properties `WaitingJoinSettles`,
`ReadyJoinsAreDecided`, `FanOutSettles`, `WrittenTransferMovesRun`, `RunSettles`,
`PinningEnds`, `SentBackComesForward` and `ChangesReachTheRuns`. Every safety
property of the passing runs, the step properties and the refinement included, is
a theorem. The provers can use neither an induction whose hypothesis is an
operator, which is why it is stated over sets here, nor fairness and ENABLED,
which is why the proofs about liveness end at rest.

## Not modelled

- **Escalation.** `plan_escalation` files one run with a subject the engine
  makes up; nothing in the library reads its result but the engine, which is not
  here. In `Journal` and `Rework` an escalation is a step, or a run, that is with
  a person.
- **Charges between runs.** `plan_entry` says whether a producer is charged,
  `plan_rework` whether a round consumes an attempt. How a charge of a run
  becomes one of its steps (`charged_failures` counts entries of one step) is left
  to the engine, and no text says how.
- **Step edges of rework, `preflight_checks`, `chain_gate`.** The first two stay
  inside one run, between the gates that `Journal` models; the third is a verdict
  the engine passes in and `requires_satisfied` compares with "passed".
- **`chain_outcome`** and the other reports: they read a ledger and nothing reads
  them.
- **Validation field by field** in `sop.py`, `gates.py`, `chain.py` and
  `validate_approval`, as far as no later step relies on it: a refused document
  changes nothing. What later steps rely on is an assumption of the constants.
- **Canonical JSON and digests** (a digest is compared, never computed here),
  the encoding of `natural_key`, the tables of refusal codes, and the conformance
  runner, which calls the same functions.

What would come next: versions in `Rework`, with the re-resolved owner and its
inputs; several fan-outs of one run that are started together.
