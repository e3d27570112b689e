-------------------------- MODULE Handoffs_proofs --------------------------
(***************************************************************************)
(* What the planner of Handoffs returns, for every declaration, result and *)
(* record of what was filed before.                                        *)
(***************************************************************************)
EXTENDS Handoffs, TLAPS, FiniteSetTheorems, WellFoundedInduction

\* One unit is filed, found already filed with these inputs or with inputs that
\* were not kept, or refused with its target named as left unfiled.
LEMMA UnitDecision ==
  ASSUME NEW h, NEW s, NEW attempt, NEW in, NEW res, NEW active, NEW existing,
         NEW d, d = FileUnit(h, s, attempt, in, res, active, existing)
  PROVE  /\ d.handoff = h
         /\ \/ d.action = "refuse" /\ d.toward = {Decl[h].to}
            \/ /\ d.action \in {"file", "duplicate"}
               /\ d.key = NaturalKey(Decl[h].to, s, attempt)
               /\ DOMAIN UnitInputs(h, s, in, res) = DeclaredInputs[Decl[h].to][active[Decl[h].to]]
         /\ d.action = "file" =>
              /\ d.key \notin DOMAIN existing
              /\ d.inputs = UnitInputs(h, s, in, res)
              /\ d.version = active[Decl[h].to]
              /\ d.dependsOn = DependsOn(h, s, attempt, res.out)
         /\ d.action = "duplicate" =>
              /\ d.key \in DOMAIN existing
              /\ existing[d.key] \subseteq {UnitInputs(h, s, in, res)}
<1> DEFINE key == NaturalKey(Decl[h].to, s, attempt)
           inputs == UnitInputs(h, s, in, res)
           gap == \/ \E n \in DOMAIN inputs : inputs[n] = Missing
                  \/ DOMAIN inputs # DeclaredInputs[Decl[h].to][active[Decl[h].to]]
<1>1. CASE gap
  <2>1. d = Refuse("inputs", h, {Decl[h].to})
    BY <1>1 DEF FileUnit
  <2> QED
    BY <2>1 DEF Refuse
<1>2. CASE ~gap /\ key \notin DOMAIN existing
  <2>1. d = [action |-> "file", handoff |-> h, key |-> key, inputs |-> inputs,
             version |-> active[Decl[h].to], dependsOn |-> DependsOn(h, s, attempt, res.out)]
    BY <1>2 DEF FileUnit, FileOrDup
  <2> HIDE DEF inputs, key
  <2> QED
    BY <2>1, <1>2 DEF key, inputs
<1>3. CASE ~gap /\ key \in DOMAIN existing /\ existing[key] \subseteq {inputs}
  <2>1. d = [action |-> "duplicate", handoff |-> h, key |-> key]
    BY <1>3 DEF FileUnit, FileOrDup
  <2> HIDE DEF inputs, key
  <2> QED
    BY <2>1, <1>3 DEF key, inputs
<1>4. CASE ~gap /\ key \in DOMAIN existing /\ ~(existing[key] \subseteq {inputs})
  <2>1. d = Refuse("conflict", h, {Decl[h].to})
    BY <1>4 DEF FileUnit, FileOrDup
  <2> QED
    BY <2>1 DEF Refuse
<1> QED
  BY <1>1, <1>2, <1>3, <1>4

\* Every filing of a hand-off is the decision of one of its units, and the
\* hand-off as a whole was not refused.
LEMMA HandoffFilings ==
  ASSUME NEW h, NEW attempt, NEW in, NEW res, NEW active, NEW existing,
         NEW d \in FileHandoff(h, attempt, in, res, active, existing)
  PROVE  /\ d.handoff = h
         /\ d.action \in {"file", "duplicate", "refuse"}
         /\ Filing(d) =>
              /\ HandoffRefusal(h, res, active) = "none"
              /\ \E s \in Units(h, res) : d = FileUnit(h, s, attempt, in, res, active, existing)
<1>1. CASE /\ HandoffRefusal(h, res, active) = "none"
           /\ \E s \in Units(h, res) : d = FileUnit(h, s, attempt, in, res, active, existing)
  <2>1. PICK s : d = FileUnit(h, s, attempt, in, res, active, existing)
    BY <1>1
  <2>2. d.handoff = h /\ d.action \in {"file", "duplicate", "refuse"}
    BY <2>1, UnitDecision
  <2> QED
    BY <1>1, <2>2
<1>2. CASE \E rule : \E toward : d = Refuse(rule, h, toward)
  BY <1>2 DEF Refuse, Filing
<1> QED
  BY <1>1, <1>2 DEF FileHandoff, CheckManyRequests

\* A hand-off blocks, or it files every one of its units or finds it filed.
LEMMA HandoffCovers ==
  ASSUME NEW h, NEW attempt, NEW in, NEW res, NEW active, NEW existing
  PROVE  \/ \E d \in FileHandoff(h, attempt, in, res, active, existing) :
              Blocking(d) /\ d.handoff = h
         \/ \A s \in Units(h, res) :
              \E d \in FileHandoff(h, attempt, in, res, active, existing) :
                Filing(d) /\ d.handoff = h /\ d.key = NaturalKey(Decl[h].to, s, attempt)
<1> DEFINE D == FileHandoff(h, attempt, in, res, active, existing)
           unit(s) == FileUnit(h, s, attempt, in, res, active, existing)
<1>1. CASE HandoffRefusal(h, res, active) # "none"
  <2>1. Refuse(HandoffRefusal(h, res, active), h, {Decl[h].to}) \in D
    BY <1>1 DEF FileHandoff
  <2> QED
    BY <2>1 DEF Refuse, Blocking
<1>2. CASE HandoffRefusal(h, res, active) = "none"
  <2>1. \A s \in Units(h, res) : unit(s) \in D
    BY <1>2 DEF FileHandoff
  <2>2. \A s \in Units(h, res) :
          /\ unit(s).handoff = h
          /\ \/ Blocking(unit(s))
             \/ Filing(unit(s)) /\ unit(s).key = NaturalKey(Decl[h].to, s, attempt)
    BY UnitDecision DEF Blocking, Filing
  <2> HIDE DEF D, unit
  <2> QED
    BY <2>1, <2>2 DEF D
<1> QED
  BY <1>1, <1>2

\* Every filing of a plan is one of a hand-off that fired and is no join.
LEMMA PlanFilings ==
  ASSUME NEW asop, NEW attempt, NEW in, NEW res, NEW active, NEW existing,
         NEW d \in PlanHandoffs(asop, attempt, in, res, active, existing), Filing(d)
  PROVE  /\ OutcomeAccepted(asop, res.outcome)
         /\ \E h \in HandoffsOf(asop) :
              /\ Fires(h, res.outcome) /\ Decl[h].after = {}
              /\ d \in FileHandoff(h, attempt, in, res, active, existing)
<1>1. \A rule, hid, toward : d # Refuse(rule, hid, toward)
  BY DEF Refuse, Filing
<1>2. \A h : d # Wait(h)
  BY DEF Wait, Filing
<1>3. OutcomeAccepted(asop, res.outcome)
  BY <1>1 DEF PlanHandoffs
<1>4. d \notin RefusedRequests(asop, res)
  BY <1>1 DEF RefusedRequests
<1>5. \A h : d \notin CheckOneRequests(h, res)
  BY <1>1 DEF CheckOneRequests
<1> DEFINE fired == {h \in HandoffsOf(asop) : Fires(h, res.outcome)}
           checks == UNION {CheckOneRequests(h, res) : h \in fired}
           waits == {Wait(h) : h \in {g \in fired : Decl[g].after # {}}}
           file(h) == FileHandoff(h, attempt, in, res, active, existing)
           files == UNION {file(h) : h \in {g \in fired : Decl[g].after = {}}}
<1>6. d \in RefusedRequests(asop, res) \cup checks \cup waits \cup files
  BY <1>3 DEF PlanHandoffs
<1>7. d \notin waits
  BY <1>2
<1>8. d \notin checks
  BY <1>5
<1>9. d \in files
  <2> HIDE DEF checks, waits, files
  <2> QED
    BY <1>4, <1>6, <1>7, <1>8
<1>10. PICK h \in {g \in fired : Decl[g].after = {}} : d \in file(h)
  <2> HIDE DEF file, fired
  <2> QED
    BY <1>9
<1> QED
  BY <1>3, <1>10

\* With a declared outcome a plan contains the decisions of every hand-off that
\* fired, a wait for a join; with another outcome it contains one refusal.
LEMMA PlanCovers ==
  ASSUME NEW asop, NEW attempt, NEW in, NEW res, NEW active, NEW existing
  PROVE  LET plan == PlanHandoffs(asop, attempt, in, res, active, existing)
         IN  /\ OutcomeAccepted(asop, res.outcome) =>
                  \A h \in HandoffsOf(asop) : Fires(h, res.outcome) =>
                    IF Decl[h].after = {}
                    THEN FileHandoff(h, attempt, in, res, active, existing) \subseteq plan
                    ELSE Wait(h) \in plan
             /\ ~OutcomeAccepted(asop, res.outcome) => \A d \in plan : d.action = "refuse"
<1> DEFINE plan == PlanHandoffs(asop, attempt, in, res, active, existing)
           fired == {h \in HandoffsOf(asop) : Fires(h, res.outcome)}
           checks == UNION {CheckOneRequests(h, res) : h \in fired}
           waits == {Wait(h) : h \in {g \in fired : Decl[g].after # {}}}
           file(h) == FileHandoff(h, attempt, in, res, active, existing)
           files == UNION {file(h) : h \in {g \in fired : Decl[g].after = {}}}
<1>1. ASSUME OutcomeAccepted(asop, res.outcome), NEW h \in fired
      PROVE  IF Decl[h].after = {} THEN file(h) \subseteq plan ELSE Wait(h) \in plan
  <2>1. plan = RefusedRequests(asop, res) \cup checks \cup waits \cup files
    BY <1>1 DEF PlanHandoffs
  <2>2. Decl[h].after = {} => file(h) \subseteq files
    OBVIOUS
  <2>3. Decl[h].after # {} => Wait(h) \in waits
    OBVIOUS
  <2> HIDE DEF plan, checks, waits, files, file
  <2> QED
    BY <2>1, <2>2, <2>3
<1>2. ~OutcomeAccepted(asop, res.outcome) => \A d \in plan : d.action = "refuse"
  BY DEF PlanHandoffs, Refuse
<1> QED
  BY <1>1, <1>2

\* A plan says of a join that it waits, and neither files it nor refuses it.
LEMMA PlanLeavesJoins ==
  ASSUME NEW asop, NEW attempt, NEW in, NEW res, NEW active, NEW existing,
         NEW d \in PlanHandoffs(asop, attempt, in, res, active, existing),
         d.handoff \in HandoffId, Decl[d.handoff].after # {}
  PROVE  ~Filing(d) /\ ~Blocking(d)
<1> DEFINE fired == {h \in HandoffsOf(asop) : Fires(h, res.outcome)}
           checks == UNION {CheckOneRequests(h, res) : h \in fired}
           waits == {Wait(h) : h \in {g \in fired : Decl[g].after # {}}}
           file(h) == FileHandoff(h, attempt, in, res, active, existing)
           files == UNION {file(h) : h \in {g \in fired : Decl[g].after = {}}}
<1>1. OutcomeAccepted(asop, res.outcome)
  <2>1. \A toward : Refuse("outcome", None, toward).handoff = None
    BY DEF Refuse
  <2> QED
    BY <2>1, HandoffAssumptions DEF PlanHandoffs
<1>2. d \in RefusedRequests(asop, res) \cup checks \cup waits \cup files
  BY <1>1 DEF PlanHandoffs
<1>3. \A rule, hid : LET e == Refuse(rule, hid, {}) IN ~Filing(e) /\ ~Blocking(e)
  BY DEF Refuse, Filing, Blocking
<1>4. ASSUME d \in RefusedRequests(asop, res) PROVE ~Filing(d) /\ ~Blocking(d)
  <2>1. \E rule, hid : d = Refuse(rule, hid, {})
    BY <1>4 DEF RefusedRequests
  <2> QED
    BY <1>3, <2>1
<1>5. ASSUME d \in checks PROVE ~Filing(d) /\ ~Blocking(d)
  <2>1. PICK h : d \in CheckOneRequests(h, res)
    BY <1>5
  <2>2. \E rule, hid : d = Refuse(rule, hid, {})
    BY <2>1 DEF CheckOneRequests
  <2> QED
    BY <1>3, <2>2
<1>6. CASE d \in waits
  BY <1>6 DEF Wait, Filing, Blocking
<1>7. d \notin files
  <2> SUFFICES ASSUME NEW h \in {g \in fired : Decl[g].after = {}}, d \in file(h) PROVE FALSE
    OBVIOUS
  <2>1. d.handoff = h
    BY HandoffFilings
  <2> QED
    BY <2>1
<1> QED
  <2> HIDE DEF checks, waits, files
  <2> QED
    BY <1>2, <1>4, <1>5, <1>6, <1>7

\* A join waits only when it fired.
LEMMA PlanWaits ==
  ASSUME NEW asop, NEW attempt, NEW in, NEW res, NEW active, NEW existing,
         NEW d \in PlanHandoffs(asop, attempt, in, res, active, existing), d.action = "wait"
  PROVE  /\ OutcomeAccepted(asop, res.outcome)
         /\ \E h \in HandoffsOf(asop) :
              Fires(h, res.outcome) /\ Decl[h].after # {} /\ d = Wait(h)
<1>1. \A rule, hid, toward : Refuse(rule, hid, toward).action # "wait"
  BY DEF Refuse
<1>2. OutcomeAccepted(asop, res.outcome)
  <2> SUFFICES ASSUME ~OutcomeAccepted(asop, res.outcome) PROVE FALSE
    OBVIOUS
  <2>1. d = Refuse("outcome", None, {Decl[h].to : h \in HandoffsOf(asop)})
    BY DEF PlanHandoffs
  <2> QED
    BY <1>1, <2>1
<1> DEFINE fired == {h \in HandoffsOf(asop) : Fires(h, res.outcome)}
           checks == UNION {CheckOneRequests(h, res) : h \in fired}
           waits == {Wait(h) : h \in {g \in fired : Decl[g].after # {}}}
           file(h) == FileHandoff(h, attempt, in, res, active, existing)
           files == UNION {file(h) : h \in {g \in fired : Decl[g].after = {}}}
<1>3. d \in RefusedRequests(asop, res) \cup checks \cup waits \cup files
  BY <1>2 DEF PlanHandoffs
<1>4. d \notin RefusedRequests(asop, res)
  <2> SUFFICES ASSUME d \in RefusedRequests(asop, res) PROVE FALSE
    OBVIOUS
  <2>1. \E rule, hid : d = Refuse(rule, hid, {})
    BY DEF RefusedRequests
  <2> QED
    BY <1>1, <2>1
<1>5. d \notin checks
  <2> SUFFICES ASSUME NEW h, d \in CheckOneRequests(h, res) PROVE FALSE
    OBVIOUS
  <2>1. \E rule, hid : d = Refuse(rule, hid, {})
    BY DEF CheckOneRequests
  <2> QED
    BY <1>1, <2>1
<1>6. d \notin files
  <2> SUFFICES ASSUME NEW h, d \in file(h) PROVE FALSE
    OBVIOUS
  <2> QED
    BY HandoffFilings
<1>7. d \in waits
  <2> HIDE DEF checks, waits, files
  <2> QED
    BY <1>3, <1>4, <1>5, <1>6
<1> QED
  BY <1>2, <1>7

-----------------------------------------------------------------------------
(* Planning again, after a stop in the middle of filing. *)

\* No two filings of a plan have one key.
LEMMA OneFilingPerKey ==
  ASSUME NEW asop, NEW attempt, NEW in, NEW res, NEW active, NEW existing,
         NEW d \in PlanHandoffs(asop, attempt, in, res, active, existing), Filing(d),
         NEW e \in PlanHandoffs(asop, attempt, in, res, active, existing), Filing(e), d.key = e.key
  PROVE  d = e
<1> DEFINE Of(x, h, s) == /\ h \in HandoffsOf(asop) /\ x.key = NaturalKey(Decl[h].to, s, attempt)
                          /\ x = FileUnit(h, s, attempt, in, res, active, existing)
<1>1. ASSUME NEW x \in PlanHandoffs(asop, attempt, in, res, active, existing), Filing(x)
      PROVE  \E h, s : Of(x, h, s)
  <2>1. PICK h \in HandoffsOf(asop) : x \in FileHandoff(h, attempt, in, res, active, existing)
    BY <1>1, PlanFilings
  <2>2. PICK s : x = FileUnit(h, s, attempt, in, res, active, existing)
    BY <1>1, <2>1, HandoffFilings
  <2>3. x.key = NaturalKey(Decl[h].to, s, attempt)
    BY <1>1, <2>2, UnitDecision DEF Filing
  <2> QED
    BY <2>1, <2>2, <2>3
<1>2. PICK g, s : Of(d, g, s)
  BY <1>1
<1>3. PICK h, t : Of(e, h, t)
  BY <1>1
<1>4. Decl[g].to = Decl[h].to /\ s = t
  <2>1. NaturalKey(Decl[g].to, s, attempt) = NaturalKey(Decl[h].to, t, attempt)
    BY <1>2, <1>3
  <2> QED
    BY ONLY <2>1 DEF NaturalKey
<1>5. g = h
  BY <1>2, <1>3, <1>4, HandoffAssumptions DEF OneHandoffPerTarget, HandoffsOf
<1> QED
  BY <1>2, <1>3, <1>4, <1>5

\* Planning again, once the runs of `filed` were filed with the inputs the plan
\* gave them, whether those were kept or not: what it makes of a decision, and
\* what the planner is told was filed by then.
Replanned(d, filed) ==
  IF d \in filed THEN [action |-> "duplicate", handoff |-> d.handoff, key |-> d.key] ELSE d

FiledSince(existing, filed, now) ==
  /\ DOMAIN now = DOMAIN existing \cup {d.key : d \in filed}
  /\ \A k \in DOMAIN existing : now[k] = existing[k]
  /\ \A d \in filed : now[d.key] \subseteq {d.inputs}

\* A unit of the plan that was filed is found filed, and every other one is
\* decided as before.
LEMMA ReplanUnit ==
  ASSUME NEW h, NEW s, NEW attempt, NEW in, NEW res, NEW active, NEW existing, NEW now, NEW filed,
         FiledSince(existing, filed, now), \A d \in filed : d.action = "file",
         \A d \in filed : d.key = NaturalKey(Decl[h].to, s, attempt)
                            => d = FileUnit(h, s, attempt, in, res, active, existing)
  PROVE  FileUnit(h, s, attempt, in, res, active, now)
           = Replanned(FileUnit(h, s, attempt, in, res, active, existing), filed)
<1> DEFINE key == NaturalKey(Decl[h].to, s, attempt)
           inputs == UnitInputs(h, s, in, res)
           version == active[Decl[h].to]
           after == DependsOn(h, s, attempt, res.out)
           gap == \/ \E n \in DOMAIN inputs : inputs[n] = Missing
                  \/ DOMAIN inputs # DeclaredInputs[Decl[h].to][version]
           unit == FileUnit(h, s, attempt, in, res, active, existing)
           again == FileUnit(h, s, attempt, in, res, active, now)
<1>1. /\ unit = IF gap THEN Refuse("inputs", h, {Decl[h].to})
                ELSE FileOrDup(h, key, inputs, version, after, existing)
      /\ again = IF gap THEN Refuse("inputs", h, {Decl[h].to})
                 ELSE FileOrDup(h, key, inputs, version, after, now)
  BY DEF FileUnit
<1>2. unit.handoff = h /\ (unit.action = "file" => unit.key = key /\ unit.inputs = inputs)
  <2>1. unit.action = "file" => unit.inputs = inputs /\ unit.action \in {"file", "duplicate"}
    BY UnitDecision
  <2> QED
    BY <2>1, UnitDecision
<1>3. unit.action # "file" => unit \notin filed
  OBVIOUS
<1>4. unit.action = "file" <=> ~gap /\ key \notin DOMAIN existing
  <2> HIDE DEF key, inputs, version, after, gap, unit, again
  <2> QED
    BY <1>1 DEF Refuse, FileOrDup
<1> HIDE DEF key, inputs, version, after, gap, unit, again
<1>5. CASE unit \in filed
  <2>1. ~gap /\ key \in DOMAIN now /\ now[key] \subseteq {inputs}
    BY <1>2, <1>3, <1>4, <1>5 DEF FiledSince
  <2>2. again = [action |-> "duplicate", handoff |-> h, key |-> key]
    BY <1>1, <2>1 DEF FileOrDup
  <2> QED
    BY <1>2, <1>3, <1>5, <2>2 DEF Replanned, again, unit
<1>6. CASE unit \notin filed
  <2>1. again = unit
    <3>1. CASE gap
      BY <1>1, <3>1
    <3>2. CASE ~gap /\ key \in DOMAIN existing
      BY <1>1, <3>2 DEF FileOrDup, FiledSince
    <3>3. CASE ~gap /\ key \notin DOMAIN existing
      <4>1. key \notin {d.key : d \in filed}
        BY <1>6 DEF unit, key
      <4>2. key \notin DOMAIN now
        BY <3>3, <4>1 DEF FiledSince
      <4> QED
        BY <1>1, <3>3, <4>2 DEF FileOrDup
    <3> QED
      BY <3>1, <3>2, <3>3
  <2> QED
    BY <1>6, <2>1 DEF Replanned, again, unit
<1> QED
  BY <1>5, <1>6

\* The same of a whole plan, whose hand-offs have a target each.
LEMMA ReplanFindsTheFiled ==
  ASSUME NEW asop, NEW attempt, NEW in, NEW res, NEW active, NEW existing, NEW now, NEW filed,
         filed \subseteq {d \in PlanHandoffs(asop, attempt, in, res, active, existing) :
                            d.action = "file"},
         FiledSince(existing, filed, now)
  PROVE  PlanHandoffs(asop, attempt, in, res, active, now)
           = {Replanned(d, filed) : d \in PlanHandoffs(asop, attempt, in, res, active, existing)}
<1> DEFINE plan == PlanHandoffs(asop, attempt, in, res, active, existing)
           again == PlanHandoffs(asop, attempt, in, res, active, now)
           fired == {h \in HandoffsOf(asop) : Fires(h, res.outcome)}
           refused == RefusedRequests(asop, res)
           checks == UNION {CheckOneRequests(h, res) : h \in fired}
           waits == {Wait(h) : h \in {g \in fired : Decl[g].after # {}}}
           mine == {g \in fired : Decl[g].after = {}}
           unit(h, s) == FileUnit(h, s, attempt, in, res, active, existing)
           rest(h) == (IF HandoffRefusal(h, res, active) # "none"
                       THEN {Refuse(HandoffRefusal(h, res, active), h, {Decl[h].to})} ELSE {})
                      \cup (IF Decl[h].many /\ HandoffRefusal(h, res, active) \in {"none", "order"}
                            THEN CheckManyRequests(h, res) ELSE {})
           units(h) == IF HandoffRefusal(h, res, active) = "none" THEN Units(h, res) ELSE {}
           R(d) == Replanned(d, filed)
<1>1. \A h : /\ FileHandoff(h, attempt, in, res, active, existing)
                  = {unit(h, s) : s \in units(h)} \cup rest(h)
             /\ FileHandoff(h, attempt, in, res, active, now)
                  = {FileUnit(h, s, attempt, in, res, active, now) : s \in units(h)} \cup rest(h)
  BY DEF FileHandoff
\* Two units of the plan with one key are one unit.
<1>2. ASSUME NEW h \in mine, NEW s \in units(h), NEW d \in filed,
             d.key = NaturalKey(Decl[h].to, s, attempt)
      PROVE  d = unit(h, s)
  <2>1. d \in plan /\ Filing(d)
    BY DEF Filing
  <2>2. PICK g \in HandoffsOf(asop) : d \in FileHandoff(g, attempt, in, res, active, existing)
    <3> HIDE DEF mine, units, unit
    <3> QED
      BY <2>1, PlanFilings
  <2>3. PICK t : d = FileUnit(g, t, attempt, in, res, active, existing)
    BY <2>1, <2>2, HandoffFilings
  <2>4. d.key = NaturalKey(Decl[g].to, t, attempt)
    BY <2>1, <2>3, UnitDecision DEF Filing
  <2>5. Decl[g].to = Decl[h].to /\ s = t
    BY <1>2, <2>4 DEF NaturalKey
  <2>6. g = h
    BY <2>2, <2>5, HandoffAssumptions DEF OneHandoffPerTarget, HandoffsOf
  <2> QED
    BY <2>3, <2>5, <2>6
<1>3. \A h \in mine : \A s \in units(h) :
        FileUnit(h, s, attempt, in, res, active, now) = R(unit(h, s))
  <2> HIDE DEF mine, units, R
  <2> SUFFICES ASSUME NEW h \in mine, NEW s \in units(h)
               PROVE  FileUnit(h, s, attempt, in, res, active, now) = R(unit(h, s))
    OBVIOUS
  <2>1. \A d \in filed : d.key = NaturalKey(Decl[h].to, s, attempt) => d = unit(h, s)
    BY <1>2
  <2>2. \A d \in filed : d.action = "file"
    OBVIOUS
  <2> QED
    BY <2>1, <2>2, ReplanUnit DEF R
\* What is no filing does not depend on what was filed.
<1>4. \A d \in refused \cup checks \cup waits : R(d) = d
  <2>1. \A d \in refused : d.action # "file"
    BY DEF RefusedRequests, Refuse
  <2>2. \A h : \A d \in CheckOneRequests(h, res) : d.action # "file"
    BY DEF CheckOneRequests, Refuse
  <2>3. \A d \in waits : d.action # "file"
    BY DEF Wait
  <2>4. \A d \in checks : d.action # "file"
    BY <2>2
  <2> HIDE DEF refused, checks, waits
  <2> QED
    BY <2>1, <2>3, <2>4 DEF Replanned
<1>5. \A h : \A d \in rest(h) : R(d) = d
  <2>1. \A h : \A d \in rest(h) : d.action # "file"
    BY DEF Refuse, CheckManyRequests
  <2> HIDE DEF rest
  <2> QED
    BY <2>1 DEF Replanned
<1>6. \A h \in mine : FileHandoff(h, attempt, in, res, active, now)
                        = {R(d) : d \in FileHandoff(h, attempt, in, res, active, existing)}
  <2> HIDE DEF mine, rest, units, R, unit
  <2> QED
    BY <1>1, <1>3, <1>5
<1>7. CASE ~OutcomeAccepted(asop, res.outcome)
  <2>1. \A d \in plan : R(d) = d
    BY <1>7 DEF PlanHandoffs, Replanned, Refuse
  <2>2. again = plan
    BY <1>7 DEF PlanHandoffs
  <2> HIDE DEF plan, again, R
  <2>3. plan = {R(d) : d \in plan}
    BY <2>1
  <2> QED
    BY <2>2, <2>3 DEF plan, again, R
<1>8. CASE OutcomeAccepted(asop, res.outcome)
  <2> DEFINE files == UNION {FileHandoff(h, attempt, in, res, active, existing) : h \in mine}
             anew == UNION {FileHandoff(h, attempt, in, res, active, now) : h \in mine}
  <2>1. plan = refused \cup checks \cup waits \cup files
    BY <1>8 DEF PlanHandoffs
  <2>2. again = refused \cup checks \cup waits \cup anew
    BY <1>8 DEF PlanHandoffs
  <2>3. anew = {R(d) : d \in files}
    <3> HIDE DEF mine, R
    <3> QED
      BY <1>6
  <2> HIDE DEF plan, again, refused, checks, waits, files, anew, R
  <2>4. again = {R(d) : d \in plan}
    BY <1>4, <2>1, <2>2, <2>3
  <2> QED
    BY <2>4 DEF plan, again, R
<1> QED
  BY <1>7, <1>8

\* So a join reads a plan that was made again as it would have read the first.
THEOREM ReplayChangesNoJoin ==
  ASSUME NEW asop, NEW attempt, NEW in, NEW res, NEW active, NEW existing, NEW now, NEW filed,
         filed \subseteq {d \in PlanHandoffs(asop, attempt, in, res, active, existing) :
                            d.action = "file"},
         FiledSince(existing, filed, now),
         NEW after, NEW done, NEW failed
  PROVE  JoinState(after, PlanHandoffs(asop, attempt, in, res, active, now), done, failed)
           = JoinState(after, PlanHandoffs(asop, attempt, in, res, active, existing), done, failed)
<1> DEFINE plan == PlanHandoffs(asop, attempt, in, res, active, existing)
           again == PlanHandoffs(asop, attempt, in, res, active, now)
           R(d) == Replanned(d, filed)
<1>1. again = {R(d) : d \in plan}
  BY ReplanFindsTheFiled
<1>2. \A d \in plan : /\ Filing(R(d)) <=> Filing(d)
                      /\ Blocking(R(d)) <=> Blocking(d)
                      /\ R(d).action = "wait" <=> d.action = "wait"
                      /\ R(d).handoff = d.handoff
                      /\ Filing(d) => R(d).key = d.key
                      /\ R(d).action = "wait" => R(d) = d
  BY DEF Replanned, Filing, Blocking
<1> HIDE DEF plan, again, R
<1>3. WaitedKeys(after, again) = WaitedKeys(after, plan)
  BY <1>1, <1>2 DEF WaitedKeys
<1>4. JoinBlocked(after, again, done, failed) <=> JoinBlocked(after, plan, done, failed)
  BY <1>1, <1>2, <1>3 DEF JoinBlocked
<1>5. JoinPending(after, again, done) <=> JoinPending(after, plan, done)
  BY <1>1, <1>2, <1>3 DEF JoinPending
<1> QED
  BY <1>4, <1>5 DEF JoinState, plan, again

-----------------------------------------------------------------------------
\* A set of natural numbers has a least element.
LEMMA LeastNumber ==
  ASSUME NEW T \in SUBSET Nat, T # {}
  PROVE  \E x \in T : \A y \in T : x <= y
<1>1. PICK x \in T : \A y \in T : <<y, x>> \notin OpToRel(<, Nat)
  BY WFMin, NatLessThanWellFounded
<1>2. \A y \in T : y \in Nat /\ x \in Nat /\ ~(y < x)
  BY <1>1 DEF OpToRel
<1> QED
  BY <1>2

\* Induction over what has a size: a set that contains an element whenever it
\* contains every smaller one contains them all.
LEMMA InductionBySize ==
  ASSUME NEW D, NEW size \in [D -> Nat], NEW T,
         \A x \in D : (\A y \in D : size[y] < size[x] => y \in T) => x \in T
  PROVE  D \subseteq T
<1> DEFINE left == {n \in Nat : \E x \in D : x \notin T /\ n = size[x]}
<1> SUFFICES ASSUME NEW z \in D, z \notin T PROVE FALSE
  OBVIOUS
<1>1. size[z] \in left
  OBVIOUS
<1>2. PICK n \in left : \A m \in left : n <= m
  <2>1. left \in SUBSET Nat /\ left # {}
    BY <1>1
  <2> HIDE DEF left
  <2> QED
    BY <2>1, LeastNumber
<1>3. PICK x \in D : x \notin T /\ n = size[x]
  BY <1>2
<1>4. \A y \in D : size[y] < size[x] => y \in T
  <2> SUFFICES ASSUME NEW y \in D, size[y] < size[x], y \notin T PROVE FALSE
    OBVIOUS
  <2>1. size[y] \in left
    OBVIOUS
  <2> QED
    BY <1>2, <1>3, <2>1
<1> QED
  BY <1>3, <1>4

\* A recursive definition over D: `value` gives, for an argument and a function,
\* what the body of the definition makes of them, and that rests on the values
\* of smaller arguments alone.
RestsOnSmaller(D, R, size, value) ==
  /\ R # {} /\ size \in [D -> Nat] /\ value \in [D -> [[D -> R] -> R]]
  /\ \A x \in D : \A f, g \in [D -> R] :
       (\A y \in D : size[y] < size[x] => f[y] = g[y]) => value[x][f] = value[x][g]

HasSolution(D, R, value) == \E f \in [D -> R] : \A x \in D : f[x] = value[x][f]

\* Such a definition has a solution.
LEMMA RecursionBySize ==
  ASSUME NEW D, NEW R, NEW size, NEW value, RestsOnSmaller(D, R, size, value)
  PROVE  HasSolution(D, R, value)
<1> /\ R # {} /\ size \in [D -> Nat] /\ value \in [D -> [[D -> R] -> R]]
    /\ \A x \in D : \A f, g \in [D -> R] :
         (\A y \in D : size[y] < size[x] => f[y] = g[y]) => value[x][f] = value[x][g]
  BY DEF RestsOnSmaller
<1> DEFINE Solves(f, x) == \A y \in D : y = x \/ size[y] < size[x] => f[y] = value[y][f]
<1>0. \A x \in D : size[x] \in Nat
  OBVIOUS
<1>i. \A U : (\A x \in D : (\A y \in D : size[y] < size[x] => y \in U) => x \in U) => D \subseteq U
  BY InductionBySize
\* Two solutions agree.
<1>1. ASSUME NEW f \in [D -> R], NEW g \in [D -> R], NEW x \in D, NEW z \in D,
             Solves(f, x), Solves(g, z)
      PROVE  \A y \in D : (y = x \/ size[y] < size[x]) /\ (y = z \/ size[y] < size[z]) => f[y] = g[y]
  <2> DEFINE within(y) == (y = x \/ size[y] < size[x]) /\ (y = z \/ size[y] < size[z])
             T == {y \in D : within(y) => f[y] = g[y]}
  <2>1. ASSUME NEW y \in D, \A w \in D : size[w] < size[y] => w \in T PROVE y \in T
    <3> SUFFICES ASSUME within(y) PROVE f[y] = g[y]
      OBVIOUS
    <3>1. \A w \in D : size[w] < size[y] => within(w)
      BY <1>0
    <3>2. \A w \in D : size[w] < size[y] => f[w] = g[w]
      BY <2>1, <3>1
    <3>3. f[y] = value[y][f] /\ g[y] = value[y][g]
      BY <1>1
    <3> QED
      BY <3>2, <3>3
  <2>2. D \subseteq T
    <3> HIDE DEF T, Solves
    <3>1. \A y \in D : (\A w \in D : size[w] < size[y] => w \in T) => y \in T
      BY <2>1
    <3> QED
      BY <1>i, <3>1
  <2> QED
    BY <2>2
<1> DEFINE T == {x \in D : \E f \in [D -> R] : Solves(f, x)}
           at(x) == CHOOSE f \in [D -> R] : Solves(f, x)
<1>2. \A x \in T : at(x) \in [D -> R] /\ Solves(at(x), x)
  <2> HIDE DEF Solves
  <2> QED
    BY Zenon
<1>3. \A x, z \in T : size[z] < size[x] => at(x)[z] = at(z)[z]
  <2> SUFFICES ASSUME NEW x \in T, NEW z \in T, size[z] < size[x] PROVE at(x)[z] = at(z)[z]
    OBVIOUS
  <2>0. x \in D /\ z \in D /\ at(x) \in [D -> R] /\ at(z) \in [D -> R]
        /\ Solves(at(x), x) /\ Solves(at(z), z)
    BY <1>2
  <2> HIDE DEF Solves, at, T
  <2>1. \A y \in D : (y = x \/ size[y] < size[x]) /\ (y = z \/ size[y] < size[z]) => at(x)[y] = at(z)[y]
    BY ONLY <1>1, <2>0
  <2> QED
    BY <2>0, <2>1
<1>4. ASSUME NEW x \in D, \A y \in D : size[y] < size[x] => y \in T PROVE x \in T
  <2> PICK r \in R : TRUE
    OBVIOUS
  <2> DEFINE g == [y \in D |-> IF size[y] < size[x] THEN at(y)[y] ELSE r]
             h == [y \in D |-> IF y = x THEN value[x][g] ELSE g[y]]
  <2> HIDE DEF at, T, Solves
  <2>0. T \subseteq D
    BY DEF T
  <2>1. g \in [D -> R]
    BY <1>2, <1>4, <2>0
  <2>2. h \in [D -> R] /\ h[x] = value[x][g]
    <3> HIDE DEF g
    <3> QED
      BY <2>1
  <2>3. \A y \in D : size[y] < size[x] => h[y] = at(y)[y]
    BY <1>0
  <2> HIDE DEF g, h
  <2>4. ASSUME NEW y \in D, size[y] < size[x] PROVE h[y] = value[y][h]
    <3>1. \A z \in D : size[z] < size[y] => size[z] < size[x]
      BY <1>0, <2>4
    <3>2. \A z \in D : size[z] < size[y] => h[z] = at(y)[z]
      BY <1>3, <1>4, <2>3, <2>4, <3>1
    <3>3. at(y)[y] = value[y][at(y)] /\ at(y) \in [D -> R]
      BY <1>2, <1>4, <2>4 DEF Solves
    <3> QED
      BY <2>2, <2>3, <2>4, <3>2, <3>3
  <2>5. h[x] = value[x][h]
    <3>1. \A y \in D : size[y] < size[x] => g[y] = h[y]
      BY <1>0 DEF h
    <3> QED
      BY <2>1, <2>2, <3>1
  <2>6. Solves(h, x)
    BY <2>4, <2>5 DEF Solves
  <2> QED
    BY <2>2, <2>6 DEF T
<1>5. D \subseteq T
  <2> HIDE DEF T
  <2> QED
    BY <1>4, InductionBySize
<1> DEFINE f == [x \in D |-> at(x)[x]]
<1>6. f \in [D -> R]
  <2> HIDE DEF at, Solves
  <2> QED
    BY <1>2, <1>5
<1>7. ASSUME NEW x \in D PROVE f[x] = value[x][f]
  <2> HIDE DEF at, T
  <2>1. \A z \in D : size[z] < size[x] => f[z] = at(x)[z]
    BY <1>3, <1>5
  <2>2. at(x)[x] = value[x][at(x)] /\ at(x) \in [D -> R]
    BY <1>2, <1>5
  <2> HIDE DEF f
  <2>3. value[x][f] = value[x][at(x)]
    BY <1>6, <2>1, <2>2
  <2> QED
    BY <2>2, <2>3 DEF f
<1> QED
  BY <1>6, <1>7 DEF HasSolution

-----------------------------------------------------------------------------
(* The depth-first search of _order_problem. *)

\* A set of units is settled when it has the dependencies of its members and
\* no cycle among them.
Settled(C, deps) ==
  /\ \A s \in C : deps[s] \subseteq C
  /\ \A S \in SUBSET C : S # {} => \E s \in S : deps[s] \cap S = {}

\* What the search keeps: closed units are settled, open ones are not closed
\* and form a chain that ends in the unit whose dependencies are to be visited.
SearchInv(w, deps) ==
  /\ Settled(w.closed, deps)
  /\ w.open \cap w.closed = {}
  /\ w.open = {} \/ \E last \in w.open :
       w.todo \subseteq deps[last] /\ \A o \in w.open \ {last} : deps[o] \cap w.open # {}

\* A unit on top of a settled set that has all its dependencies.
LEMMA SettledGrows ==
  ASSUME NEW deps, NEW C, Settled(C, deps), NEW n, n \notin C, deps[n] \subseteq C
  PROVE  Settled(C \cup {n}, deps)
<1>1. ASSUME NEW S \in SUBSET (C \cup {n}), S # {} PROVE \E s \in S : deps[s] \cap S = {}
  <2>1. CASE S \cap C = {}
    BY <1>1, <2>1
  <2>2. CASE S \cap C # {}
    <3>1. PICK s \in S \cap C : deps[s] \cap (S \cap C) = {}
      BY <2>2 DEF Settled
    <3>2. deps[s] \subseteq C
      BY <3>1 DEF Settled
    <3> QED
      BY <3>1, <3>2
  <2> QED
    BY <2>1, <2>2
<1>2. \A s \in C \cup {n} : deps[s] \subseteq C \cup {n}
  BY DEF Settled
<1> QED
  BY <1>1, <1>2 DEF Settled

\* The search finds a cycle exactly where there is one.
LEMMA OrderSearchExact ==
  ASSUME NEW h, NEW units \in SUBSET Subject, NEW out
  PROVE  OrderSearch(h, units, out) <=> OrderProblem(h, units, out)
<1> DEFINE deps == [s \in units |-> out.items[s].deps]
           D == [todo : SUBSET units, open : SUBSET units, closed : SUBSET units]
           R == [cycle : BOOLEAN, closed : SUBSET units]
           next(w) == CHOOSE s \in w.todo : \A t \in w.todo : OutputOrder[s] <= OutputOrder[t]
           down(w) == [todo |-> out.items[next(w)].deps, open |-> w.open \cup {next(w)},
                       closed |-> w.closed]
           skip(w) == [w EXCEPT !.todo = @ \ {next(w)}]
           on(w, c) == [w EXCEPT !.todo = @ \ {next(w)}, !.closed = c \cup {next(w)}]
           body(w, f) ==
             IF w.todo = {} THEN [cycle |-> FALSE, closed |-> w.closed]
             ELSE CASE next(w) \in w.open   -> [cycle |-> TRUE, closed |-> w.closed]
                    [] next(w) \in w.closed \ w.open -> f[skip(w)]
                    [] OTHER -> IF f[down(w)].cycle THEN f[down(w)]
                                ELSE f[on(w, f[down(w)].closed)]
           visit == CHOOSE f : f = [w \in D |-> body(w, f)]
           start == [todo |-> units, open |-> {}, closed |-> {}]
           Cyclic == \E S \in SUBSET units : S # {} /\ \A s \in S : deps[s] \cap S # {}
<1>1. OrderSearch(h, units, out) <=>
        /\ Decl[h].ordered
        /\ (\E s \in units : ~(out.items[s].deps \subseteq units \ {s})) \/ visit[start].cycle
  BY Zenon DEF OrderSearch
<1>2. OrderProblem(h, units, out) <=>
        /\ Decl[h].ordered
        /\ (\E s \in units : ~(out.items[s].deps \subseteq units)) \/ Cyclic
  BY DEF OrderProblem
<1>3. ASSUME NEW s \in units, ~(out.items[s].deps \subseteq units \ {s}),
             out.items[s].deps \subseteq units
      PROVE  Cyclic
  <2>1. {s} \in SUBSET units /\ {s} # {} /\ \A t \in {s} : deps[t] \cap {s} # {}
    BY <1>3
  <2> QED
    BY <2>1
<1> SUFFICES ASSUME \A s \in units : out.items[s].deps \subseteq units \ {s}
             PROVE  visit[start].cycle <=> Cyclic
  <2> HIDE DEF visit, Cyclic
  <2> QED
    BY <1>1, <1>2, <1>3
<1>4. \A w \in D : w.todo # {} => next(w) \in w.todo
  <2> SUFFICES ASSUME NEW w \in D, w.todo # {}
               PROVE  \E s \in w.todo : \A t \in w.todo : OutputOrder[s] <= OutputOrder[t]
    BY Zenon
  <2> DEFINE places == {p \in Nat : \E s \in w.todo : p = OutputOrder[s]}
  <2>0. \A s \in w.todo : OutputOrder[s] \in Nat
    BY HandoffAssumptions
  <2>1. places \in SUBSET Nat /\ places # {}
    BY <2>0
  <2>2. PICK p \in places : \A q \in places : p <= q
    <3> HIDE DEF places
    <3> QED
      BY <2>1, LeastNumber
  <2> QED
    BY <2>0, <2>2
<1> HIDE DEF next
<1>5. ASSUME NEW w \in D, w.todo # {}
      PROVE  /\ next(w) \in w.todo /\ next(w) \in units
             /\ down(w) \in D /\ skip(w) \in D
             /\ \A c \in SUBSET units : on(w, c) \in D
             /\ down(w).todo = deps[next(w)] /\ down(w).open = w.open \cup {next(w)}
             /\ down(w).closed = w.closed
             /\ skip(w).todo = w.todo \ {next(w)} /\ skip(w).open = w.open
             /\ skip(w).closed = w.closed
             /\ \A c : /\ on(w, c).todo = w.todo \ {next(w)} /\ on(w, c).open = w.open
                       /\ on(w, c).closed = c \cup {next(w)}
  <2>1. next(w) \in w.todo /\ next(w) \in units
    BY <1>4, <1>5
  <2> QED
    BY <2>1
<1> DEFINE size == [w \in D |-> Cardinality(units \ w.open) * (Cardinality(units) + 1)
                                 + Cardinality(w.todo)]
<1>6. IsFiniteSet(units) /\ Cardinality(units) \in Nat
  BY HandoffAssumptions, FS_Subset, FS_CardinalityType
<1>7. \A S \in SUBSET units : /\ IsFiniteSet(S) /\ Cardinality(S) \in Nat
                              /\ Cardinality(S) <= Cardinality(units)
  BY <1>6, FS_Subset, FS_CardinalityType
<1>8. size \in [D -> Nat]
  <2>1. \A w \in D : /\ Cardinality(units \ w.open) \in Nat /\ Cardinality(w.todo) \in Nat
    <3>1. \A w \in D : units \ w.open \in SUBSET units /\ w.todo \in SUBSET units
      OBVIOUS
    <3> QED
      BY <1>7, <3>1
  <2> QED
    BY <1>6, <2>1
<1>9. ASSUME NEW w \in D, w.todo # {}
      PROVE  /\ size[skip(w)] < size[w]
             /\ \A c \in SUBSET units : size[on(w, c)] < size[w]
             /\ next(w) \notin w.open => size[down(w)] < size[w]
  <2> DEFINE n == next(w)
  <2>1. w.todo \in SUBSET units /\ w.todo \ {n} \in SUBSET units /\ n \in w.todo
        /\ units \ w.open \in SUBSET units /\ deps[n] \in SUBSET units
        /\ units \ (w.open \cup {n}) \in SUBSET units
    BY <1>5, <1>9
  <2>2. Cardinality(w.todo \ {n}) = Cardinality(w.todo) - 1
    BY <1>7, <2>1, FS_RemoveElement
  <2>3. n \notin w.open =>
          Cardinality(units \ (w.open \cup {n})) = Cardinality(units \ w.open) - 1
    <3>1. units \ (w.open \cup {n}) = (units \ w.open) \ {n}
      OBVIOUS
    <3>2. n \notin w.open => n \in units \ w.open
      BY <1>5, <1>9
    <3>3. IsFiniteSet(units \ w.open)
      BY <1>7, <2>1
    <3> HIDE DEF n
    <3> QED
      BY <3>1, <3>2, <3>3, FS_RemoveElement
  <2> DEFINE a == Cardinality(units \ w.open)
             b == Cardinality(w.todo)
             u == Cardinality(units)
             e == Cardinality(deps[n])
  <2>4. a \in Nat /\ b \in Nat /\ u \in Nat /\ e \in Nat /\ e <= u
    BY <1>6, <1>7, <2>1
  <2>5. size[w] = a * (u + 1) + b
    OBVIOUS
  <2>6. size[skip(w)] = a * (u + 1) + (b - 1)
    BY <1>5, <1>9, <2>2
  <2>7. \A c \in SUBSET units : size[on(w, c)] = a * (u + 1) + (b - 1)
    BY <1>5, <1>9, <2>2
  <2>8. n \notin w.open => size[down(w)] = (a - 1) * (u + 1) + e
    BY <1>5, <1>9, <2>3
  <2> HIDE DEF a, b, u, e, size, n
  <2>9. (a - 1) * (u + 1) + e < a * (u + 1) + b
    <3>1. (a - 1) * (u + 1) = a * (u + 1) - (u + 1)
      BY <2>4
    <3>2. a * (u + 1) \in Nat
      BY <2>4
    <3> HIDE DEF a
    <3> QED
      BY <2>4, <3>1, <3>2
  <2>10. a * (u + 1) + (b - 1) < a * (u + 1) + b
    BY <2>4
  <2> QED
    BY <2>5, <2>6, <2>7, <2>8, <2>9, <2>10 DEF n
<1> HIDE DEF down, skip, on, size

\* The definition has a solution, so visit is one.
<1>10. ASSUME NEW f \in [D -> R], NEW w \in D PROVE body(w, f) \in R
  <2> HIDE DEF visit, start, Cyclic, D
  <2>1. \A x \in D : f[x] \in R
    OBVIOUS
  <2>2. w.closed \in SUBSET units
    BY DEF D
  <2> HIDE DEF R
  <2>3. [cycle |-> FALSE, closed |-> w.closed] \in R /\ [cycle |-> TRUE, closed |-> w.closed] \in R
    BY <2>2 DEF R
  <2>4. \A r \in R : r.closed \in SUBSET units
    BY DEF R
  <2>5. w.todo # {} => /\ f[skip(w)] \in R /\ f[down(w)] \in R
                       /\ f[on(w, f[down(w)].closed)] \in R
    BY <1>5, <2>1, <2>4
  <2> QED
    BY <2>3, <2>5
<1>11. ASSUME NEW w \in D, NEW f \in [D -> R], NEW g,
              \A x \in D : size[x] < size[w] => f[x] = g[x]
       PROVE  body(w, f) = body(w, g)
  <2>1. CASE w.todo = {}
    BY <2>1
  <2>2. CASE w.todo # {} /\ next(w) \in w.open
    <3> DEFINE found == [cycle |-> TRUE, closed |-> w.closed]
    <3>1. body(w, f) = found /\ body(w, g) = found
      <4> HIDE DEF D, R, found
      <4> QED
        BY <2>2 DEF found
    <3> QED
      BY <3>1
  <2>3. CASE w.todo # {} /\ next(w) \notin w.open
    <3>1. f[skip(w)] = g[skip(w)] /\ f[down(w)] = g[down(w)]
      BY <1>5, <1>9, <1>11, <2>3
    <3>2. f[down(w)].closed \in SUBSET units
      <4>1. down(w) \in D
        BY <1>5, <2>3
      <4>2. f[down(w)] \in R
        BY <4>1
      <4> QED
        BY <4>2
    <3>3. f[on(w, f[down(w)].closed)] = g[on(w, f[down(w)].closed)]
      BY <1>5, <1>9, <1>11, <2>3, <3>2
    <3> QED
      BY <2>3, <3>1, <3>3
  <2> QED
    BY <2>1, <2>2, <2>3
<1>12. visit \in [D -> R] /\ \A w \in D : visit[w] = body(w, visit)
  <2> DEFINE value == [w \in D |-> [f \in [D -> R] |-> body(w, f)]]
  <2> HIDE DEF D, R, body, visit
  <2>1. value \in [D -> [[D -> R] -> R]]
    BY <1>10
  <2>2. R # {}
    <3>1. [cycle |-> TRUE, closed |-> {}] \in R
      BY DEF R
    <3> QED
      BY <3>1
  <2>3. \A w \in D : \A f, g \in [D -> R] :
          (\A x \in D : size[x] < size[w] => f[x] = g[x]) => value[w][f] = value[w][g]
    BY <1>11
  <2>4. \A w \in D : \A f \in [D -> R] : value[w][f] = body(w, f)
    OBVIOUS
  <2> HIDE DEF value
  <2>5. HasSolution(D, R, value)
    <3>1. RestsOnSmaller(D, R, size, value)
      BY <1>8, <2>1, <2>2, <2>3 DEF RestsOnSmaller
    <3> QED
      BY <3>1, RecursionBySize
  <2>6. PICK f \in [D -> R] : \A w \in D : f[w] = body(w, f)
    BY <2>4, <2>5 DEF HasSolution
  <2>7. visit = [w \in D |-> body(w, visit)]
    <3>1. f = [w \in D |-> body(w, f)]
      BY <2>6
    <3> QED
      BY <3>1, Zenon DEF visit
  <2> DEFINE T == {w \in D : visit[w] = f[w]}
  <2>8. ASSUME NEW w \in D, \A x \in D : size[x] < size[w] => x \in T PROVE w \in T
    <3>1. \A x \in D : size[x] < size[w] => f[x] = visit[x]
      BY <2>8
    <3>2. body(w, f) = body(w, visit)
      BY <1>11, <3>1
    <3>3. visit[w] = body(w, visit)
      BY <2>7
    <3> QED
      BY <2>6, <3>2, <3>3
  <2>9. D \subseteq T
    <3> HIDE DEF T
    <3> QED
      BY ONLY <1>8, <2>8, InductionBySize
  <2>10. visit = f
    BY <2>7, <2>9
  <2> QED
    BY <2>6, <2>10

\* What a search that keeps SearchInv returns.
<1> DEFINE Found(w) == IF visit[w].cycle THEN Cyclic
                       ELSE /\ w.closed \cup w.todo \subseteq visit[w].closed
                            /\ Settled(visit[w].closed, deps)
                            /\ w.open \cap visit[w].closed = {}
           T == {w \in D : SearchInv(w, deps) => Found(w)}
<1>13. \A w \in D : visit[w] = body(w, visit) /\ visit[w] \in R
  BY <1>12
<1> HIDE DEF visit
<1>14. ASSUME NEW w \in D, \A x \in D : size[x] < size[w] => x \in T PROVE w \in T
  <2> SUFFICES ASSUME SearchInv(w, deps) PROVE Found(w)
    OBVIOUS
  <2> DEFINE n == next(w)
  <2>0. w.todo \in SUBSET units /\ w.open \in SUBSET units /\ w.closed \in SUBSET units
    OBVIOUS
  <2> HIDE DEF D, R, Cyclic, Found
  <2>1. CASE w.todo = {}
    <3>1. visit[w] = [cycle |-> FALSE, closed |-> w.closed]
      BY <1>13, <2>1
    <3> QED
      BY <2>1, <3>1 DEF Found, SearchInv
  <2>2. CASE w.todo # {} /\ n \in w.open
    <3>1. visit[w] = [cycle |-> TRUE, closed |-> w.closed]
      BY <1>13, <2>2
    <3>2. PICK last \in w.open :
            w.todo \subseteq deps[last] /\ \A o \in w.open \ {last} : deps[o] \cap w.open # {}
      BY <2>2 DEF SearchInv
    <3>3. n \in w.todo
      BY <1>5, <2>2
    <3>4. \A o \in w.open : deps[o] \cap w.open # {}
      BY <2>2, <3>2, <3>3
    <3>5. Cyclic
      BY <2>0, <2>2, <3>4 DEF Cyclic
    <3> QED
      BY <3>1, <3>5 DEF Found
  <2>3. CASE w.todo # {} /\ n \in w.closed \ w.open
    <3>1. visit[w] = visit[skip(w)]
      BY <1>13, <2>3
    <3>2. /\ skip(w) \in D /\ size[skip(w)] < size[w]
          /\ skip(w).todo = w.todo \ {n} /\ skip(w).open = w.open /\ skip(w).closed = w.closed
      BY <1>5, <1>9, <2>3
    <3>3. SearchInv(skip(w), deps)
      BY <3>2 DEF SearchInv
    <3>4. Found(skip(w))
      BY <1>14, <3>2, <3>3
    <3> QED
      BY <2>3, <3>1, <3>2, <3>4 DEF Found
  <2>4. CASE w.todo # {} /\ n \notin w.open /\ n \notin w.closed
    <3>1. visit[w] = IF visit[down(w)].cycle THEN visit[down(w)]
                     ELSE visit[on(w, visit[down(w)].closed)]
      BY <1>13, <2>4
    <3>2. /\ down(w) \in D /\ size[down(w)] < size[w]
          /\ down(w).todo = deps[n] /\ down(w).open = w.open \cup {n}
          /\ down(w).closed = w.closed /\ n \in w.todo
      BY <1>5, <1>9, <2>4
    <3>3. SearchInv(down(w), deps)
      <4>1. Settled(down(w).closed, deps) /\ down(w).open \cap down(w).closed = {}
        BY <2>4, <3>2 DEF SearchInv
      <4>2. \A o \in down(w).open \ {n} : deps[o] \cap down(w).open # {}
        BY <3>2 DEF SearchInv
      <4> QED
        BY <3>2, <4>1, <4>2 DEF SearchInv
    <3>4. Found(down(w))
      BY <1>14, <3>2, <3>3
    <3>5. CASE visit[down(w)].cycle
      BY <3>1, <3>4, <3>5 DEF Found
    <3>6. CASE ~visit[down(w)].cycle
      <4> DEFINE c == visit[down(w)].closed
                 x == on(w, c)
      <4>1. /\ w.closed \cup deps[n] \subseteq c /\ Settled(c, deps)
            /\ (w.open \cup {n}) \cap c = {}
        BY <3>2, <3>4, <3>6 DEF Found
      <4>2. c \in SUBSET units
        BY <1>13, <3>2 DEF R
      <4>3. /\ x \in D /\ size[x] < size[w]
            /\ x.todo = w.todo \ {n} /\ x.open = w.open /\ x.closed = c \cup {n}
        BY <1>5, <1>9, <2>4, <4>2
      <4>4. Settled(c \cup {n}, deps)
        BY <4>1, SettledGrows
      <4> HIDE DEF c, x
      <4>5. SearchInv(x, deps)
        BY <2>4, <4>1, <4>3, <4>4 DEF SearchInv
      <4>6. Found(x)
        BY <1>14, <4>3, <4>5
      <4>7. visit[w] = visit[x]
        BY <3>1, <3>6 DEF c, x
      <4> QED
        BY <4>1, <4>3, <4>6, <4>7 DEF Found
    <3> QED
      BY <3>5, <3>6
  <2> QED
    BY <2>1, <2>2, <2>3, <2>4
<1>15. D \subseteq T
  <2> HIDE DEF T, D
  <2> QED
    BY ONLY <1>8, <1>14, InductionBySize
<1>16. start \in D /\ SearchInv(start, deps)
  BY DEF SearchInv, Settled
<1>17. Found(start)
  <2> HIDE DEF D, start, Found
  <2> QED
    BY <1>15, <1>16
<1>18. ASSUME ~visit[start].cycle PROVE ~Cyclic
  <2>1. units \subseteq visit[start].closed /\ Settled(visit[start].closed, deps)
    BY <1>17, <1>18
  <2> QED
    BY <2>1 DEF Settled
<1> QED
  <2> HIDE DEF Cyclic, start
  <2> QED
    BY <1>17, <1>18
=============================================================================
