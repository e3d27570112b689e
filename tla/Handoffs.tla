------------------------------ MODULE Handoffs ------------------------------
(***************************************************************************)
(* The hand-off planner of asop.chain (ASOP.md 3.7): what a finished run   *)
(* files, what a join waits on, and which runs of a fan-out may start.     *)
(* Every operator is a pure function, as in the source; the state machines *)
(* that call it are ChainEngine and FanOut.                                *)
(*                                                                         *)
(* A list of decisions is a SET of decision records.  Nothing in           *)
(* join_state depends on their order, and one hand-off per target          *)
(* (OneHandoffPerTarget) keeps two hand-offs of a plan off each other's    *)
(* keys, so the planner's running `filed` map never matters inside a plan. *)
(* A subject requested twice adds a `duplicate` with the key of the first  *)
(* request; the set keeps the first alone.                                 *)
(***************************************************************************)
EXTENDS Integers, FiniteSets

CONSTANTS
  Asop,            \* procedures
  HandoffId,       \* hand-off ids, renamed to be unique across procedures
  Subject,         \* subjects a fan-out may yield
  Chain,           \* the chain's id: the subject of every `one` hand-off
  Attempt,         \* attempt numbers: 1 .. a bound
  None,            \* Python's None
  Missing,         \* a reference that resolves to no scalar (KeyError)
  Decl,            \* [HandoffId -> declaration], the validated record field
  Outcomes,        \* [Asop -> the outcomes it declares], {} for none declared
  DeclaredInputs,  \* [Asop -> [version -> names of the inputs it declares]]
  OutputOrder      \* [Subject -> Nat], the position of a subject's item

NaturalKey(asop, subject, attempt) ==
  [asop |-> asop, subject |-> subject, attempt |-> attempt]

\* A `one` hand-off files its target for the chain, a `many` hand-off for subjects;
\* a procedure nothing hands off to is started for the chain.
SubjectsOf(asop) ==
  LET into == {h \in HandoffId : Decl[h].to = asop}
  IN  {Chain : h \in {g \in into : ~Decl[g].many}}
      \cup (UNION {Subject : h \in {g \in into : Decl[g].many}})
      \cup {Chain : a \in {asop} \ {Decl[h].to : h \in HandoffId}}

Key == {k \in [asop : Asop, subject : Subject \cup {Chain}, attempt : Attempt] :
          k.subject \in SubjectsOf(k.asop)}

HandoffsOf(asop) == {h \in HandoffId : Decl[h].of = asop}

-----------------------------------------------------------------------------
(* What validate_chain_fields lets a record declare. *)

OneHandoffPerTarget ==
  \A g, h \in HandoffId :
    Decl[g].of = Decl[h].of /\ Decl[g].to = Decl[h].to => g = h

JoinsWaitOnEarlierHandoffs ==
  \A h \in HandoffId :
    /\ Decl[h].position \in Nat
    /\ Decl[h].after # {} => ~Decl[h].many
    /\ \A a \in Decl[h].after :
         a \in HandoffsOf(Decl[h].of) /\ Decl[a].position < Decl[h].position

OutcomesAreDeclared ==
  \A h \in HandoffId :
    /\ Decl[h].of \in Asop /\ Decl[h].to \in Asop \ {Decl[h].of}
    /\ Decl[h].onOutcomes \subseteq Outcomes[Decl[h].of]

ASSUME HandoffAssumptions ==
  /\ Attempt \subseteq Nat
  /\ IsFiniteSet(Subject)
  /\ Chain \notin Subject
  /\ None \notin HandoffId
  /\ OutputOrder \in [Subject -> Nat]
  /\ OneHandoffPerTarget
  /\ JoinsWaitOnEarlierHandoffs
  /\ OutcomesAreDeclared

-----------------------------------------------------------------------------
(* A run's result: its `outcome`, its output `out` (`shaped` when it has   *)
(* the declared shape; its `items`, a function from subject to item; its   *)
(* `digest`; a scalar `value`), the filing `requests` it wrote and a       *)
(* person's `approval` of the output.                                      *)

Fires(h, outcome) ==
  Decl[h].onOutcomes # {} => outcome \in Decl[h].onOutcomes

OutcomeAccepted(asop, outcome) ==
  Outcomes[asop] # {} => outcome \in Outcomes[asop]

\* `>=lo` or `>=lo,<hi`; an exact pin n is >=n,<n+1.  active[asop] = 0 when no
\* version is ACTIVE: every lo is at least 1.
VersionIn(h, v) ==
  v >= Decl[h].lo /\ (Decl[h].hi # None => v < Decl[h].hi)

Resolves(h, active) == VersionIn(h, active[Decl[h].to])

\* The subjects `where` and `where_not` keep.
ExpandSubjects(h, out) == {s \in DOMAIN out.items : h \in out.items[s].keptBy}

\* A slip: the approval of an earlier output counts.
ApprovalUsableWhenever(res) ==
  res.approval.subset # None => res.approval.subset \subseteq DOMAIN res.out.items

ApprovalUsable(res) ==
  /\ res.approval.digest = res.out.digest
  /\ res.approval.subset # None => res.approval.subset \subseteq DOMAIN res.out.items

Yielded(h, res) ==
  {s \in ExpandSubjects(h, res.out) :
     Decl[h].approvedSubset /\ res.approval.subset # None => s \in res.approval.subset}

\* A slip: dependencies are looked up, and never followed round a cycle.
OrderProblemOneStep(h, units, out) ==
  Decl[h].ordered /\ \E s \in units : ~(out.items[s].deps \subseteq units \ {s})

\* A subject depends on itself or on one the hand-off does not file, or the
\* dependencies have a cycle: a set each member of which waits on a member.
\* A malformed dependency list counts as a dependency nobody files.
OrderProblem(h, units, out) ==
  /\ Decl[h].ordered
  /\ \/ \E s \in units : ~(out.items[s].deps \subseteq units)
     \/ \E S \in SUBSET units : S # {} /\ \A s \in S : out.items[s].deps \cap S # {}

\* A slip: a unit is done with as soon as it is met.
OrderSearchOnce(h, units, out) ==
  LET visit[w \in [todo : SUBSET units, open : SUBSET units, closed : SUBSET units]] ==
        IF w.todo = {} THEN [cycle |-> FALSE, closed |-> w.closed]
        ELSE LET n == CHOOSE s \in w.todo : \A t \in w.todo : OutputOrder[s] <= OutputOrder[t]
                 below == visit[[todo |-> out.items[n].deps, open |-> {n},
                                 closed |-> w.closed \cup {n}]]
             IN  CASE n \in w.open   -> [cycle |-> TRUE, closed |-> w.closed]
                   [] n \in w.closed \ w.open -> visit[[w EXCEPT !.todo = @ \ {n}]]
                   [] OTHER -> IF below.cycle THEN below
                               ELSE visit[[w EXCEPT !.todo = @ \ {n}, !.closed = below.closed]]
  IN  /\ Decl[h].ordered
      /\ \/ \E s \in units : ~(out.items[s].deps \subseteq units \ {s})
         \/ visit[[todo |-> units, open |-> {}, closed |-> {}]].cycle

\* How _order_problem finds one: depth first from every unit, which is open
\* while its dependencies are visited and closed after; a unit met again while
\* it is open is on a cycle.
OrderSearch(h, units, out) ==
  LET visit[w \in [todo : SUBSET units, open : SUBSET units, closed : SUBSET units]] ==
        IF w.todo = {} THEN [cycle |-> FALSE, closed |-> w.closed]
        ELSE LET n == CHOOSE s \in w.todo : \A t \in w.todo : OutputOrder[s] <= OutputOrder[t]
                 below == visit[[todo |-> out.items[n].deps, open |-> w.open \cup {n},
                                 closed |-> w.closed]]
             IN  CASE n \in w.open   -> [cycle |-> TRUE, closed |-> w.closed]
                   [] n \in w.closed \ w.open -> visit[[w EXCEPT !.todo = @ \ {n}]]
                   [] OTHER -> IF below.cycle THEN below
                               ELSE visit[[w EXCEPT !.todo = @ \ {n},
                                                    !.closed = below.closed \cup {n}]]
  IN  /\ Decl[h].ordered
      /\ \/ \E s \in units : ~(out.items[s].deps \subseteq units \ {s})
         \/ visit[[todo |-> units, open |-> {}, closed |-> {}]].cycle

NamesHandoff(req, h) == req.handoff = h /\ req.to = Decl[h].to

Accepted(h, res) ==
  {s \in Yielded(h, res) : \E req \in res.requests : NamesHandoff(req, h) /\ req.subject = s}

\* A slip: accepted requests do not narrow the fan-out.
UnitsUnasked(h, res) == IF ~Decl[h].many THEN {Chain} ELSE Yielded(h, res)

\* The units a fired hand-off files: the accepted requests, unless they break
\* the declared order, or everything the output yields.  Units are kept in
\* output order also when the requests list them in another.
Units(h, res) ==
  IF ~Decl[h].many THEN {Chain}
  ELSE IF Accepted(h, res) # {} /\ ~OrderProblem(h, Accepted(h, res), res.out)
       THEN Accepted(h, res)
       ELSE Yielded(h, res)

-----------------------------------------------------------------------------
ResolveValue(ref, s, in, out) ==
  CASE ref.kind = "literal" -> ref.value
    [] ref.kind = "subject" -> s
    [] ref.kind = "item"    -> out.items[s].value
    [] ref.kind = "input"   -> IF ref.name \in DOMAIN in THEN in[ref.name] ELSE Missing
    [] OTHER                -> out.value

UnitInputs(h, s, in, res) ==
  [n \in DOMAIN Decl[h].inputs |-> ResolveValue(Decl[h].inputs[n], s, in, res.out)]

Refuse(rule, hid, toward) ==
  [action |-> "refuse", rule |-> rule, handoff |-> hid, toward |-> toward]

(* What was filed before is a function `existing` from natural keys to what *)
(* the planner is told of their inputs: {inputs}, or {} from an engine that *)
(* does not keep them and passes bare keys (_filed_map's None).             *)

\* A slip: a key that was filed is a duplicate whatever inputs it was given.
FileOrDupByKey(h, key, inputs, version, dependsOn, existing) ==
  IF key \notin DOMAIN existing
  THEN [action |-> "file", handoff |-> h, key |-> key,
        inputs |-> inputs, version |-> version, dependsOn |-> dependsOn]
  ELSE [action |-> "duplicate", handoff |-> h, key |-> key]

\* A slip: what was filed before is not consulted.
FileOrDupAnew(h, key, inputs, version, dependsOn, existing) ==
  [action |-> "file", handoff |-> h, key |-> key,
   inputs |-> inputs, version |-> version, dependsOn |-> dependsOn]

\* A key filed before is never filed again: a `duplicate`, or a `conflict` when
\* it is known to have been filed with other inputs.
FileOrDup(h, key, inputs, version, dependsOn, existing) ==
  IF key \notin DOMAIN existing
  THEN [action |-> "file", handoff |-> h, key |-> key,
        inputs |-> inputs, version |-> version, dependsOn |-> dependsOn]
  ELSE IF existing[key] \subseteq {inputs}
       THEN [action |-> "duplicate", handoff |-> h, key |-> key]
       ELSE Refuse("conflict", h, {Decl[h].to})

DependsOn(h, s, attempt, out) ==
  IF Decl[h].ordered
  THEN {NaturalKey(Decl[h].to, d, attempt) : d \in out.items[s].deps}
  ELSE {}

\* A slip: the inputs are not compared with what the target declares.
FileUnitUndeclared(h, s, attempt, in, res, active, existing) ==
  LET inputs == UnitInputs(h, s, in, res)
  IN  IF \E n \in DOMAIN inputs : inputs[n] = Missing
      THEN Refuse("inputs", h, {Decl[h].to})
      ELSE FileOrDup(h, NaturalKey(Decl[h].to, s, attempt), inputs, active[Decl[h].to],
                     DependsOn(h, s, attempt, res.out), existing)

\* One unit of a hand-off: `inputs` when its mapping has no value for a name or
\* supplies other names than the target's resolved version declares.
FileUnit(h, s, attempt, in, res, active, existing) ==
  LET inputs  == UnitInputs(h, s, in, res)
      version == active[Decl[h].to]
  IN  IF \/ \E n \in DOMAIN inputs : inputs[n] = Missing
         \/ DOMAIN inputs # DeclaredInputs[Decl[h].to][version]
      THEN Refuse("inputs", h, {Decl[h].to})
      ELSE FileOrDup(h, NaturalKey(Decl[h].to, s, attempt), inputs, version,
                     DependsOn(h, s, attempt, res.out), existing)

\* The rule under which the whole hand-off is refused, "none" when none applies.
HandoffRefusal(h, res, active) ==
  IF ~Resolves(h, active) THEN "version"
  ELSE IF ~Decl[h].many THEN "none"
  ELSE IF ~res.out.shaped THEN "output"
  ELSE IF Decl[h].approvedSubset /\ ~ApprovalUsable(res) THEN "approval"
  ELSE IF OrderProblem(h, Units(h, res), res.out) THEN "order"
  ELSE "none"

\* Refused REQUESTS leave nothing unfiled: their `toward` is empty.
RefusedRequests(asop, res) ==
  LET named(req) == {h \in HandoffsOf(asop) : NamesHandoff(req, h)}
  IN  {Refuse("malformed", None, {}) : req \in {r \in res.requests : r.handoff = None}}
      \cup {Refuse("undeclared", None, {}) :
              req \in {r \in res.requests : r.handoff # None /\ named(r) = {}}}
      \cup {Refuse("outcome", h, {}) :
              h \in {g \in UNION {named(r) : r \in res.requests} : ~Fires(g, res.outcome)}}

\* A `one` hand-off takes at most one request, and that one names no subject.
CheckOneRequests(h, res) ==
  LET requests == {r \in res.requests : NamesHandoff(r, h)}
  IN  IF Decl[h].many \/ requests = {} THEN {}
      ELSE IF Cardinality(requests) > 1 THEN {Refuse("cardinality", h, {})}
      ELSE {Refuse("subject", h, {}) : r \in {q \in requests : q.subject # None}}

\* A `many` hand-off refuses requests for subjects it does not yield, and all
\* of them when the ones it accepts cannot keep the declared order.
CheckManyRequests(h, res) ==
  {Refuse("subject", h, {}) :
     r \in {q \in res.requests : NamesHandoff(q, h) /\ q.subject \notin Yielded(h, res)}}
  \cup {Refuse("order", h, {}) :
          S \in {T \in {Accepted(h, res)} : T # {} /\ OrderProblem(h, T, res.out)}}

FileHandoff(h, attempt, in, res, active, existing) ==
  LET rule == HandoffRefusal(h, res, active)
  IN  (IF rule # "none"
       THEN {Refuse(rule, h, {Decl[h].to})}
       ELSE {FileUnit(h, s, attempt, in, res, active, existing) : s \in Units(h, res)})
      \cup (IF Decl[h].many /\ rule \in {"none", "order"} THEN CheckManyRequests(h, res) ELSE {})

Wait(h) == [action |-> "wait", handoff |-> h, after |-> Decl[h].after]

\* What a finished run of `asop` files, as attempt `attempt`.
PlanHandoffs(asop, attempt, in, res, active, existing) ==
  IF ~OutcomeAccepted(asop, res.outcome)
  THEN {Refuse("outcome", None, {Decl[h].to : h \in HandoffsOf(asop)})}
  ELSE LET fired == {h \in HandoffsOf(asop) : Fires(h, res.outcome)}
       IN  RefusedRequests(asop, res)
           \cup (UNION {CheckOneRequests(h, res) : h \in fired})
           \cup {Wait(h) : h \in {g \in fired : Decl[g].after # {}}}
           \cup (UNION {FileHandoff(h, attempt, in, res, active, existing) :
                          h \in {g \in fired : Decl[g].after = {}}})

\* What a ready join files: the same, for that one hand-off, with no requests
\* and the versions active now.
PlanJoin(h, attempt, in, res, active, existing) ==
  IF OutcomeAccepted(Decl[h].of, res.outcome) /\ Fires(h, res.outcome)
  THEN FileHandoff(h, attempt, in, res, active, existing)
  ELSE {}

-----------------------------------------------------------------------------
(* Reading a parent run's recorded decisions. *)

Filing(d) == d.action \in {"file", "duplicate"}

Blocking(d) == d.action = "refuse" /\ d.toward # {}

WaitedKeys(after, decisions) ==
  {d.key : d \in {e \in decisions : Filing(e) /\ e.handoff \in after}}

\* A slip: a hand-off that was refused passes for one that filed nothing.
JoinBlockedByRuns(after, decisions, done, failed) ==
  \E k \in WaitedKeys(after, decisions) : k \in failed /\ k \notin done

\* A slip: a run that failed is waited for.
JoinBlockedByRefusals(after, decisions, done, failed) ==
  \E d \in decisions : Blocking(d) /\ (d.handoff = None \/ d.handoff \in after)

JoinBlocked(after, decisions, done, failed) ==
  \/ \E d \in decisions : Blocking(d) /\ (d.handoff = None \/ d.handoff \in after)
  \/ \E k \in WaitedKeys(after, decisions) : k \in failed /\ k \notin done

\* A slip: the runs must be filed, and need not be done.
JoinPendingUntilFiled(after, decisions, done) ==
  \E d \in decisions : /\ d.action = "wait" /\ d.handoff \in after
                       /\ \A e \in decisions : Filing(e) => e.handoff # d.handoff

\* A slip: a fan-out that filed nothing is waited for.
JoinPendingUnlessSome(after, decisions, done) ==
  WaitedKeys(after, decisions) = {} \/ ~(WaitedKeys(after, decisions) \subseteq done)

\* A slip: a join that was found already filed passes for one not filed.
JoinPendingOnDuplicates(after, decisions, done) ==
  \/ \E d \in decisions : /\ d.action = "wait" /\ d.handoff \in after
                          /\ \A e \in decisions : e.action = "file" => e.handoff # d.handoff
  \/ ~(WaitedKeys(after, decisions) \subseteq done)

JoinPending(after, decisions, done) ==
  \/ \E d \in decisions : /\ d.action = "wait" /\ d.handoff \in after
                          /\ \A e \in decisions : Filing(e) => e.handoff # d.handoff
  \/ ~(WaitedKeys(after, decisions) \subseteq done)

JoinState(after, decisions, done, failed) ==
  IF JoinBlocked(after, decisions, done, failed) THEN "blocked"
  ELSE IF JoinPending(after, decisions, done) THEN "wait"
  ELSE "ready"

\* A slip: one dependency that is done is enough.
FanoutStartableAny(h, decisions, done, started) ==
  LET mine == {d \in decisions : d.action = "file" /\ d.handoff = h}
      held == {d \in mine : d.key \in started /\ d.key \notin done}
      eligible == {d \in mine : d.key \notin started /\
                     (d.dependsOn = {} \/ d.dependsOn \cap done # {})}
  IN  IF Cardinality(held) < Decl[h].concurrency THEN {d.key : d \in eligible} ELSE {}

\* A slip: the bound is kept within one call, and running runs are not counted.
FanoutStartablePerCall(h, decisions, done, started) ==
  LET mine == {d \in decisions : d.action = "file" /\ d.handoff = h}
      eligible == {d \in mine : d.key \notin started /\ d.dependsOn \subseteq done}
      before(d) == {e \in eligible : OutputOrder[e.key.subject] < OutputOrder[d.key.subject]}
  IN  {d.key : d \in {e \in eligible : Cardinality(before(e)) < Decl[h].concurrency}}

\* The runs hand-off h filed that may start now: those whose dependencies are
\* done, the first in output order that fit in the slots h leaves free.  Every
\* run that started and is not done holds a slot.
FanoutStartable(h, decisions, done, started) ==
  LET mine     == {d \in decisions : d.action = "file" /\ d.handoff = h}
      running  == {d \in mine : d.key \in started /\ d.key \notin done}
      eligible == {d \in mine : d.key \notin started /\ d.dependsOn \subseteq done}
      before(d) == {e \in eligible : OutputOrder[e.key.subject] < OutputOrder[d.key.subject]}
  IN  {d.key : d \in
         {e \in eligible : Decl[h].concurrency # None =>
             Cardinality(running) + Cardinality(before(e)) < Decl[h].concurrency}}

=============================================================================
