----------------------------- MODULE RoutingProofs -----------------------------
(***************************************************************************)
(* Theorems about Routing, for all models, projects, processes and edits.  *)
(***************************************************************************)
EXTENDS Routing, FiniteSetTheorems, WellFoundedInduction, TLAPS

-----------------------------------------------------------------------------
(* Retirements *)

\* What a map of retirements is like at all times.
Sound(map) == /\ IsRetirements(map)
              /\ WellFounded(map)
              /\ \A name \in DOMAIN map : map[name] \notin Excluded

LEMMA SeenIsClosed ==
    ASSUME NEW map, IsRetirements(map), NEW model \in Models
    PROVE  /\ model \in Seen(model, map)
           /\ Seen(model, map) \subseteq Models
           /\ Closed(Seen(model, map), map)
BY DEF Seen, Closed, IsRetirements

\* The loop ends for every model.
LEMMA LoopEnds ==
    ASSUME NEW map, Sound(map), NEW model \in Models
    PROVE  ~Revisits(model, map)
<1> SUFFICES ASSUME Revisits(model, map) PROVE FALSE
  OBVIOUS
<1>1. /\ Seen(model, map) \subseteq DOMAIN map
      /\ Seen(model, map) # {}
      /\ Closed(Seen(model, map), map)
  BY SeenIsClosed DEF Revisits, Sound
<1> QED  BY <1>1 DEF Sound, WellFounded

\* What it returns can be used.
LEMMA LoopReturns ==
    ASSUME NEW map, Sound(map), NEW model \in Models \ Excluded
    PROVE  apply_retirements(model, map) \in Models \ (Excluded \cup DOMAIN map)
<1>1. PICK name \in Seen(model, map) : name \notin DOMAIN map
  BY LoopEnds DEF Revisits
<1>2. /\ apply_retirements(model, map) \in Seen(model, map)
      /\ apply_retirements(model, map) \notin DOMAIN map
  BY <1>1 DEF apply_retirements
<1>3. Closed(Models \ Excluded, map)
  BY DEF Closed, Sound, IsRetirements
<1>4. Seen(model, map) \subseteq Models \ Excluded
  BY <1>3 DEF Seen
<1> QED  BY <1>2, <1>4

LEMMA SubstitutedIsCurrent ==
    ASSUME NEW map, Sound(map), NEW model \in Models \ Excluded
    PROVE  Substituted(model, map) \in Models \ (Excluded \cup DOMAIN map)
BY LoopEnds, LoopReturns DEF Substituted

\* An accepted retirement closes no chain: a cycle would go through the new
\* name, and the probe has followed the chain from there.
LEMMA RetireIsSound ==
    ASSUME NEW map, Sound(map), NEW old \in Models, NEW new \in Models,
           new \notin Excluded, ~Revisits(old, With(map, old, new))
    PROVE  Sound(With(map, old, new))
<1> DEFINE probe == With(map, old, new)
<1>1. /\ DOMAIN probe = DOMAIN map \cup {old}
      /\ probe[old] = new
      /\ \A name \in DOMAIN map : name # old => probe[name] = map[name]
  BY DEF With
<1>2. IsRetirements(probe)
  <2>1. \A name \in DOMAIN probe : probe[name] \in Models
    BY <1>1 DEF Sound, IsRetirements
  <2>2. probe = [name \in DOMAIN probe |-> probe[name]]
    BY DEF With
  <2> QED  BY <1>1, <2>1, <2>2 DEF Sound, IsRetirements
<1>3. \A name \in DOMAIN probe : probe[name] \notin Excluded
  BY <1>1 DEF Sound
<1>4. WellFounded(probe)
  <2> SUFFICES ASSUME NEW names \in SUBSET DOMAIN probe, names # {},
                      Closed(names, probe)
               PROVE  FALSE
    BY DEF WellFounded
  <2>1. CASE old \in names
    <3>1. names \in SUBSET Models
      BY <1>2 DEF IsRetirements
    <3>2. Seen(old, probe) \subseteq names
      BY <2>1, <3>1 DEF Seen
    <3> QED  BY <3>2 DEF Revisits
  <2>2. CASE old \notin names
    <3>1. names \subseteq DOMAIN map
      BY <1>1, <2>2
    <3>2. Closed(names, map)
      BY <1>1, <2>2, <3>1 DEF Closed
    <3> QED  BY <3>1, <3>2 DEF Sound, WellFounded
  <2> QED  BY <2>1, <2>2
<1> QED  BY <1>2, <1>3, <1>4 DEF Sound

LEMMA RemoveIsSound ==
    ASSUME NEW map, Sound(map), NEW names, names \subseteq DOMAIN map
    PROVE  Sound(Restrict(map, names))
<1> DEFINE less == Restrict(map, names)
<1>1. DOMAIN less = names /\ \A name \in names : less[name] = map[name]
  BY DEF Restrict
<1>2. IsRetirements(less)
  BY <1>1 DEF Sound, IsRetirements, Restrict
<1>3. WellFounded(less)
  BY <1>1 DEF Sound, WellFounded, Closed
<1>4. \A name \in DOMAIN less : less[name] \notin Excluded
  BY <1>1 DEF Sound
<1> QED  BY <1>2, <1>3, <1>4 DEF Sound

LEMMA NoneIsSound == Sound(NoneRetired)
BY DEF Sound, NoneRetired, IsRetirements, WellFounded, Closed

-----------------------------------------------------------------------------
(* The invariant *)

IInv == /\ project \in DOMAIN routing_yaml
        /\ Validated(routing)
        /\ Sound(retired)
        /\ config = [p \in Processes |-> config[p]]
        /\ \A p \in Processes : Sound(config[p])
        /\ session \in NoneOrOne /\ session \subseteq Models \ Excluded
        /\ artifact \in NoneOrOne /\ artifact \subseteq Models \ Excluded

\* What a decision leaves alone.
LEMMA ChooseKeeps ==
    ASSUME NEW p \in Processes, Choose(p)
    PROVE  UNCHANGED <<project, retired, running, config, edits>>
<1>1. CASE Plan(p) \/ ResumePlanning(p) \/ Repair(p) \/ Fix(p)
  BY <1>1 DEF Plan, ResumePlanning, Repair, Fix, Take, Decide
<1>2. ASSUME NEW profile \in Profiles, NEW user_override \in Overrides,
             \/ Implement(p, profile, user_override)
             \/ Review(p, profile, user_override)
             \/ Document(p, profile, user_override)
      PROVE  UNCHANGED <<project, retired, running, config, edits>>
  BY <1>2 DEF Implement, Review, Document, Decide
<1> QED  BY <1>1, <1>2 DEF Choose

LEMMA InitEstablishes == Init => IInv
BY NoneIsSound DEF Init, IInv, routing, NoneOrOne

LEMMA SaveKeeps ==
    ASSUME IInv, NEW p \in Processes, NEW map, Sound(map), Save(p, map)
    PROVE  IInv'
BY NoneIsSound DEF IInv, Save, Stop, recorded, routing

-----------------------------------------------------------------------------
(* Decisions *)

\* What a decision taken with these retirements has to be.
Usable(model, map) == model \in Models \ (Excluded \cup DOMAIN map)

LEMMA LeastNumber ==
    ASSUME NEW T \in SUBSET Nat, T # {}
    PROVE  \E n \in T : \A m \in T : n <= m
<1>1. PICK n \in T : \A m \in T : <<m, n>> \notin OpToRel(<, Nat)
  BY NatLessThanWellFounded, WFMin, Zenon
<1>2. \A m \in T : <<m, n>> \in Nat \X Nat
  OBVIOUS
<1>3. \A m \in T : ~(m < n)
  BY <1>1, <1>2, Zenon DEF OpToRel
<1>4. \A m \in T : m \in Nat
  OBVIOUS
<1>5. \A m \in T : n <= m
  BY <1>3, <1>4
<1> QED  BY <1>5

LEMMA LeastIndex ==
    ASSUME NEW n \in Nat, NEW I \in SUBSET (1..n), I # {}
    PROVE  \E i \in I : \A j \in 1..i-1 : j \notin I
<1>1. I \in SUBSET Nat
  OBVIOUS
<1>2. PICK i \in I : \A j \in I : i <= j
  BY <1>1, LeastNumber
<1> QED  BY <1>1, <1>2

\* routing.yaml is accepted only if its rules name aliases (all_referenced_aliases).
LEMMA ProjectIsValid ==
    ASSUME IInv
    PROVE  /\ routing.models \in [Aliases -> Models \ Excluded]
           /\ \A stage \in StageRoles : routing.stages[stage] \in Aliases
           /\ routing.rules \in Seq([complexity : {"LOW", "MEDIUM", "HIGH"},
                                    use : STRING])
           /\ \A i \in DOMAIN routing.rules : routing.rules[i].use \in Aliases
<1>1. routing \in Range(routing_yaml)
  BY DEF IInv, routing, Range
<1>2. /\ routing.models \in [Aliases -> Models \ Excluded]
      /\ routing.stages \in [StageRoles -> STRING]
      /\ routing.rules \in Seq([complexity : {"LOW", "MEDIUM", "HIGH"},
                               use : STRING])
  BY <1>1, ProjectsAssumption
<1>3. all_referenced_aliases(routing) \subseteq Aliases
  BY <1>2 DEF IInv, Validated
<1>4. \A stage \in StageRoles : routing.stages[stage] \in Aliases
  BY <1>2, <1>3 DEF all_referenced_aliases, Range
<1>5. \A i \in DOMAIN routing.rules : routing.rules[i].use \in Aliases
  BY <1>3 DEF all_referenced_aliases
<1> QED  BY <1>2, <1>4, <1>5

LEMMA RuleIsFound ==
    ASSUME IInv, NEW l, HasRule(l)
    PROVE  match_complexity_rule(l) \in DOMAIN routing.rules
<1> DEFINE I == {k \in DOMAIN routing.rules : routing.rules[k].complexity = l}
<1>1. DOMAIN routing.rules = 1..Len(routing.rules) /\ Len(routing.rules) \in Nat
  BY ProjectIsValid
<1>2. I \in SUBSET (1..Len(routing.rules)) /\ I # {}
  BY <1>1 DEF HasRule
<1>3. \E k \in I : \A j \in 1..k-1 : j \notin I
  BY <1>1, <1>2, LeastIndex
<1>4. \E k \in DOMAIN routing.rules :
         /\ routing.rules[k].complexity = l
         /\ \A j \in 1..k-1 : routing.rules[j].complexity # l
  BY <1>1, <1>3
<1> QED  BY <1>4 DEF match_complexity_rule

LEMMA ResolveIsUsable ==
    ASSUME IInv, NEW p \in Processes, NEW alias \in Aliases
    PROVE  Usable(resolve(alias, config[p]), config[p])
<1>1. routing.models \in [Aliases -> Models \ Excluded]
  BY ProjectIsValid
<1>2. Sound(config[p])
  BY DEF IInv
<1> QED  BY <1>1, <1>2, SubstitutedIsCurrent DEF resolve, Usable

LEMMA ImplementationIsAlias ==
    ASSUME IInv, NEW profile \in Profiles
    PROVE  _route_implementation(profile).role \in Aliases
<1>1. CASE AnySet(routing.force_standard_if_any, profile)
  BY <1>1 DEF _route_implementation, Choice, Aliases, TierAliases
<1>2. CASE /\ ~AnySet(routing.force_standard_if_any, profile)
           /\ HasRule(level(profile))
  <2>1. routing.rules[match_complexity_rule(level(profile))].use \in Aliases
    BY <1>2, RuleIsFound, ProjectIsValid
  <2> QED  BY <1>2, <2>1 DEF _route_implementation, Choice
<1>3. CASE /\ ~AnySet(routing.force_standard_if_any, profile)
           /\ ~HasRule(level(profile))
  BY <1>3 DEF _route_implementation, Choice, Aliases, TierAliases
<1> QED  BY <1>1, <1>2, <1>3

LEMMA StageIsAlias ==
    ASSUME IInv, NEW profile \in Profiles
    PROVE  by_stage(profile).role \in Aliases
<1>1. \A stage \in StageRoles : routing.stages[stage] \in Aliases
  BY ProjectIsValid
<1>2. profile.stage \in Stages
  BY DEF Profiles
<1>3. CASE profile.stage = "PLANNING"
  BY <1>1, <1>3 DEF by_stage, _route_planning, Choice, StageRoles
<1>4. CASE profile.stage = "REVIEW"
  BY <1>1, <1>4 DEF by_stage, _route_review, Choice, StageRoles
<1>5. CASE profile.stage = "DOCUMENTATION"
  BY <1>1, <1>5 DEF by_stage, Choice, StageRoles
<1>6. CASE profile.stage = "IMPLEMENTATION"
  BY <1>6, ImplementationIsAlias DEF by_stage
<1> QED  BY <1>2, <1>3, <1>4, <1>5, <1>6 DEF Stages

LEMMA RouteIsUsable ==
    ASSUME IInv, NEW p \in Processes, NEW profile \in Profiles,
           NEW user_override \in Overrides
    PROVE  Usable(route(profile, user_override, config[p]).model, config[p])
<1>1. CASE user_override = {}
  BY <1>1, StageIsAlias, ResolveIsUsable DEF route, Routed
<1>2. CASE user_override # {}
  <2>1. (CHOOSE m \in user_override : TRUE) \in Models \ Excluded
    BY <1>2, ModelsAssumption DEF Overrides
  <2>2. Sound(config[p])
    BY DEF IInv
  <2> QED  BY <1>2, <2>1, <2>2, SubstitutedIsCurrent DEF route, Routed, Usable
<1> QED  BY <1>1, <1>2

\* What a decision may be taken with: what is current, or what was recorded.
Allowed(d) ==
    /\ d.model \in Models \ Excluded
    /\ d.model \notin DOMAIN config[d.by] \/ TakenOver(d)

\* The steps that go by the retirements the process has read.
LEMMA RoutedIsUsable ==
    ASSUME IInv, NEW p \in Processes, NEW profile \in Profiles,
           NEW user_override \in Overrides,
           \/ Implement(p, profile, user_override)
           \/ Review(p, profile, user_override)
           \/ Document(p, profile, user_override)
    PROVE  /\ decision'.by = p
           /\ Usable(decision'.model, config[p])
<1>1. /\ decision'.by = p
      /\ decision'.model = route(profile, user_override, config[p]).model
  BY DEF Implement, Review, Document, Decide
<1> QED  BY <1>1, RouteIsUsable

LEMMA TakenIsUsable ==
    ASSUME IInv, NEW p \in Processes, Plan(p) \/ Repair(p)
    PROVE  /\ decision'.by = p
           /\ Usable(decision'.model, config[p])
<1>1. CASE Plan(p)
  BY <1>1, ProjectIsValid, ResolveIsUsable
     DEF Plan, Take, Decide, Routed, StageRoles
<1>2. CASE Repair(p)
  BY <1>2, ResolveIsUsable DEF Repair, Take, Decide, Routed, Aliases
<1> QED  BY <1>1, <1>2

LEMMA ChooseIsAllowed ==
    ASSUME IInv, NEW p \in Processes, Choose(p)
    PROVE  Allowed(decision')
<1>1. CASE Plan(p) \/ Repair(p)
  BY <1>1, TakenIsUsable DEF Usable, Allowed
<1>2. CASE ResumePlanning(p) \/ Fix(p)
  BY <1>2 DEF ResumePlanning, Fix, Take, Decide, Routed, Allowed, TakenOver,
              IInv
<1>3. ASSUME NEW profile \in Profiles, NEW user_override \in Overrides,
             \/ Implement(p, profile, user_override)
             \/ Review(p, profile, user_override)
             \/ Document(p, profile, user_override)
      PROVE  Allowed(decision')
  BY <1>3, RoutedIsUsable DEF Usable, Allowed
<1> QED  BY <1>1, <1>2, <1>3 DEF Choose

\* No excluded model is ever recorded.
LEMMA ChooseRecords ==
    ASSUME IInv, NEW p \in Processes, Choose(p)
    PROVE  /\ session' \in NoneOrOne /\ session' \subseteq Models \ Excluded
           /\ artifact' \in NoneOrOne /\ artifact' \subseteq Models \ Excluded
<1>1. decision'.model \in Models \ Excluded
  BY ChooseIsAllowed DEF Allowed
<1>2. session' \in {session, {decision'.model}}
  BY DEF Choose, Plan, ResumePlanning, Repair, Fix, Implement, Review,
         Document, Record, recorded
<1>3. artifact' \in {artifact, {decision'.model}}
  BY DEF Choose, Plan, ResumePlanning, Repair, Fix, Implement, Review,
         Document, Record, recorded
<1> QED  BY <1>1, <1>2, <1>3 DEF IInv, NoneOrOne

LEMMA StepPreserves == IInv /\ [Next]_vars => IInv'
<1> SUFFICES ASSUME IInv, [Next]_vars PROVE IInv'
  OBVIOUS
<1>1. CASE UNCHANGED vars
  BY <1>1 DEF IInv, vars, recorded, routing
<1>2. ASSUME NEW p \in Processes, Start(p) PROVE IInv'
  BY <1>2 DEF IInv, Start, recorded, routing
<1>3. ASSUME NEW p \in Processes, End(p) PROVE IInv'
  BY <1>3, NoneIsSound DEF IInv, End, Stop, recorded, routing
<1>4. ASSUME NEW p \in Processes, NEW old \in Models, NEW new \in Models,
             run_retire(p, old, new)
      PROVE  IInv'
  <2>1. Sound(With(config[p], old, new))
    BY <1>4, RetireIsSound DEF IInv, run_retire
  <2> QED  BY <1>4, <2>1, SaveKeeps DEF run_retire
<1>5. ASSUME NEW p \in Processes, NEW old \in Models, remove_retirement(p, old)
      PROVE  IInv'
  <2>1. Sound(Restrict(config[p], DOMAIN config[p] \ {old}))
    BY RemoveIsSound DEF IInv
  <2> QED  BY <1>5, <2>1, SaveKeeps DEF remove_retirement
<1>6. ASSUME NEW p \in Processes, Choose(p) PROVE IInv'
  BY <1>6, ChooseKeeps, ChooseRecords DEF IInv, routing
<1>7. CASE Worked
  BY <1>7 DEF IInv, Worked, recorded, routing
<1> QED  BY <1>1, <1>2, <1>3, <1>4, <1>5, <1>6, <1>7 DEF Next, Edit

LEMMA InvAlways == Spec => []IInv
BY InitEstablishes, StepPreserves, PTL DEF Spec

\* No interleaving of editors, each with its own reading of the file, makes the
\* retirements cyclic (run_retire, remove_retirement).
THEOREM RetirementsAlwaysEnd == Spec => []RetirementsEnd
<1>1. IInv => RetirementsEnd
  BY DEF IInv, Sound, RetirementsEnd
<1> QED  BY <1>1, InvAlways, PTL

\* Whatever routing.yaml was accepted and whatever was retired meanwhile, every
\* stage gets a model that is not excluded, and not retired as far as its process
\* knows, unless a resumed run takes over the model it has recorded (route,
\* ModelsConfig.resolve, PlanningWorkflow.resume, _load_persisted_routing_decision).
THEOREM RoutedIsAlwaysCurrent == Spec => RoutedIsCurrent
<1> DEFINE Step == decision' \notin {decision, NoDecision} =>
                      /\ decision'.model \in Models \ Excluded
                      /\ \/ decision'.model \notin DOMAIN config[decision'.by]
                         \/ TakenOver(decision')
<1>1. IInv /\ [Next]_vars => [Step]_vars
  <2> SUFFICES ASSUME IInv, Next PROVE Step
    BY DEF vars
  <2>1. ASSUME NEW p \in Processes, Start(p) \/ End(p) PROVE Step
    BY <2>1 DEF Start, End, Stop
  <2>2. ASSUME NEW p \in Processes, Edit(p) PROVE Step
    BY <2>2 DEF Edit, run_retire, remove_retirement, Save, Stop
  <2>3. ASSUME NEW p \in Processes, Choose(p) PROVE Step
    BY <2>3, ChooseIsAllowed DEF Allowed
  <2>4. CASE Worked
    BY <2>4 DEF Worked
  <2> QED  BY <2>1, <2>2, <2>3, <2>4 DEF Next
<1> QED  BY <1>1, InvAlways, PTL DEF Spec, RoutedIsCurrent

-----------------------------------------------------------------------------
(* Types *)

\* What IInv leaves open.
RestOK == /\ running \in [Processes -> Commands]
          /\ \/ decision = NoDecision
             \/ /\ decision.step \in Steps
                /\ decision.model \in Models \cup {Failed}
          /\ edits \in 0..MaxEdits

LEMMA DecisionOK ==
    ASSUME IInv, NEW p \in Processes, Choose(p)
    PROVE  decision'.step \in Steps /\ decision'.model \in Models
<1>1. decision'.model \in Models
  BY ChooseIsAllowed DEF Allowed
<1>2. decision'.step \in Steps
  BY DEF Choose, Plan, ResumePlanning, Repair, Fix, Implement, Review,
         Document, Take, Decide, Steps
<1> QED  BY <1>1, <1>2

\* The file, what each process has read of it and the last decision have their
\* types; among it that no process goes by a retirement of an unknown model.
THEOREM TypeCorrect == Spec => []TypeOK
<1>1. Init => RestOK
  BY EditsAssumption DEF Init, RestOK, Commands
<1>2. IInv /\ RestOK /\ [Next]_vars => RestOK'
  <2> SUFFICES ASSUME IInv, RestOK, [Next]_vars PROVE RestOK'
    OBVIOUS
  <2>1. CASE UNCHANGED vars
    BY <2>1 DEF RestOK, vars
  <2>2. ASSUME NEW p \in Processes, Start(p) \/ End(p) PROVE RestOK'
    BY <2>2 DEF RestOK, Start, End, Stop, Commands
  <2>3. ASSUME NEW p \in Processes, Edit(p) PROVE RestOK'
    <3>1. /\ edits < MaxEdits
          /\ \E map : Save(p, map)
      BY <2>3 DEF Edit, run_retire, remove_retirement
    <3>2. /\ edits < MaxEdits
          /\ edits' = edits + 1
          /\ decision' = NoDecision
          /\ running' = [running EXCEPT ![p] = "idle"]
      BY <3>1 DEF Save, Stop
    <3>3. edits' \in 0..MaxEdits
      BY <3>2, EditsAssumption DEF RestOK
    <3> QED  BY <3>2, <3>3 DEF RestOK, Commands
  <2>4. ASSUME NEW p \in Processes, Choose(p) PROVE RestOK'
    BY <2>4, ChooseKeeps, DecisionOK DEF RestOK
  <2>5. CASE Worked
    BY <2>5 DEF RestOK, Worked
  <2> QED  BY <2>1, <2>2, <2>3, <2>4, <2>5 DEF Next
<1>3. IInv /\ RestOK => TypeOK
  BY DEF IInv, RestOK, TypeOK, Sound
<1> QED  BY <1>1, <1>2, <1>3, InvAlways, PTL DEF Spec

-----------------------------------------------------------------------------
(* Sums over finite sets *)

\* The element a fold takes next.
Some(s) == CHOOSE x \in s : TRUE

\* sum gives every subset of S what folding it with + from base on gives.
Sums(sum, base, g, S) ==
    sum = [s \in SUBSET S |-> IF s = {} THEN base
                              ELSE g[Some(s)] + sum[s \ {Some(s)}]]

IsSum(sum, base, g, S) == /\ IsFiniteSet(S)
                          /\ base \in Int
                          /\ \A x \in S : g[x] \in Int
                          /\ sum \in [SUBSET S -> Int]
                          /\ Sums(sum, base, g, S)

LEMMA SomeIn == \A s : s # {} => Some(s) \in s
BY DEF Some

\* Of the subsets of a finite set, one without an element is smaller.
LEMMA Smaller ==
    ASSUME NEW S, IsFiniteSet(S), NEW s \in SUBSET S
    PROVE  /\ Cardinality(s) \in Nat
           /\ Cardinality(s) = 0 <=> s = {}
           /\ \A x \in s : Cardinality(s \ {x}) = Cardinality(s) - 1
<1>1. IsFiniteSet(s)
  BY FS_Subset
<1> QED  BY <1>1, FS_CardinalityType, FS_EmptySet, FS_RemoveElement

\* There is such a function, by induction on the size of the subsets it is
\* defined for.
LEMMA SumsExist ==
    ASSUME NEW S, IsFiniteSet(S), NEW g, \A x \in S : g[x] \in Int,
           NEW base \in Int
    PROVE  \E sum \in [SUBSET S -> Int] : Sums(sum, base, g, S)
<1> DEFINE Up(n) == {s \in SUBSET S : Cardinality(s) <= n}
           Value(f, s) == IF s = {} THEN base ELSE g[Some(s)] + f[s \ {Some(s)}]
           Solves(f, n) == /\ f \in [Up(n) -> Int]
                           /\ \A s \in Up(n) : f[s] = Value(f, s)
           Bad == {n \in Nat : ~\E f : Solves(f, n)}
<1>1. ASSUME NEW n \in Nat, \A m \in Bad : n <= m
      PROVE  n \notin Bad
  <2>1. CASE n = 0
    <3> DEFINE f == [s \in Up(n) |-> base]
    <3>1. \A s \in Up(n) : s = {}
      BY <2>1, Smaller
    <3>2. Solves(f, n)
      BY <3>1
    <3> HIDE DEF f, Solves
    <3> QED  BY <3>2
  <2>2. CASE n # 0
    <3>a. n - 1 \in Nat /\ ~(n <= n - 1)
      BY <2>2
    <3>b. n - 1 \notin Bad
      BY <1>1, <3>a
    <3>1. PICK f : Solves(f, n - 1)
      BY <3>a, <3>b
    <3> DEFINE h == [s \in Up(n) |-> Value(f, s)]
    <3>2. \A s \in Up(n) : s # {} => /\ Some(s) \in S
                                     /\ s \ {Some(s)} \in Up(n - 1)
      BY Smaller, SomeIn
    <3>3. h \in [Up(n) -> Int]
      BY <3>1, <3>2
    <3>4. ASSUME NEW s \in Up(n)
          PROVE  h[s] = Value(h, s)
      <4>1. CASE s = {}
        BY <4>1
      <4>2. CASE s # {}
        <5> DEFINE r == s \ {Some(s)}
        <5>1. r \in Up(n - 1)
          BY <3>2, <4>2
        <5>a. r \in Up(n)
          BY <5>1, Smaller
        <5>2. h[r] = f[r]
          BY <3>1, <5>1, <5>a
        <5> QED  BY <4>2, <5>2, <5>a
      <4> QED  BY <4>1, <4>2
    <3>5. Solves(h, n)
      BY <3>3, <3>4
    <3> HIDE DEF h, Solves
    <3> QED  BY <3>5
  <2> QED  BY <2>1, <2>2
<1>2. Bad = {}
  <2> HIDE DEF Bad
  <2>1. Bad \in SUBSET Nat
    BY DEF Bad
  <2> QED  BY <1>1, <2>1, LeastNumber
<1>3. Up(Cardinality(S)) = SUBSET S /\ Cardinality(S) \in Nat
  BY FS_Subset, FS_CardinalityType
<1>4. PICK f : Solves(f, Cardinality(S))
  BY <1>2, <1>3
<1>5. f \in [SUBSET S -> Int] /\ Sums(f, base, g, S)
  BY <1>3, <1>4 DEF Sums
<1> QED  BY <1>5

\* ... and it gives numbers only.
LEMMA SumsAreNumbers ==
    ASSUME NEW S, IsFiniteSet(S), NEW g, \A x \in S : g[x] \in Int,
           NEW base \in Int, NEW sum, Sums(sum, base, g, S)
    PROVE  IsSum(sum, base, g, S)
<1> DEFINE Bad == {n \in Nat : \E s \in SUBSET S :
                                  Cardinality(s) = n /\ sum[s] \notin Int}
<1>1. \A s \in SUBSET S : sum[s] = IF s = {} THEN base
                                   ELSE g[Some(s)] + sum[s \ {Some(s)}]
  BY DEF Sums
<1>2. ASSUME NEW n \in Nat, \A m \in Bad : n <= m,
             NEW s \in SUBSET S, Cardinality(s) = n
      PROVE  sum[s] \in Int
  <2>1. CASE s = {}
    BY <1>1, <2>1
  <2>2. CASE s # {}
    <3> DEFINE x == Some(s)
    <3>1. x \in s /\ sum[s] = g[x] + sum[s \ {x}]
      BY <1>1, <2>2, SomeIn
    <3>2. Cardinality(s \ {x}) = n - 1
      BY <1>2, <3>1, Smaller
    <3>3. n - 1 \in Nat /\ ~(n <= n - 1)
      BY <3>2, Smaller
    <3>4. n - 1 \notin Bad
      BY <1>2, <3>3
    <3>5. sum[s \ {x}] \in Int /\ g[x] \in Int
      BY <3>1, <3>2, <3>3, <3>4
    <3> HIDE DEF x
    <3> QED  BY <3>1, <3>5
  <2> QED  BY <2>1, <2>2
<1>3. Bad = {}
  <2>1. ASSUME NEW n \in Bad PROVE \E m \in Bad : ~(n <= m)
    BY <1>2
  <2>2. Bad \in SUBSET Nat
    OBVIOUS
  <2> HIDE DEF Bad
  <2> QED  BY <2>1, <2>2, LeastNumber
<1>4. \A s \in SUBSET S : sum[s] \in Int
  BY <1>3, Smaller
<1>5. sum \in [SUBSET S -> Int]
  BY <1>4, Zenon DEF Sums
<1> QED  BY <1>5 DEF IsSum

\* What score() uses of the fold.
Total(base, g, S) == FoldFunctionOnSet(+, base, g, S)

LEMMA TotalIsSum ==
    ASSUME NEW S, IsFiniteSet(S), NEW g, \A x \in S : g[x] \in Int,
           NEW base \in Int
    PROVE  \E sum : IsSum(sum, base, g, S) /\ Total(base, g, S) = sum[S]
<1> DEFINE it == CHOOSE sum : Sums(sum, base, g, S)
<1>1. \E sum : Sums(sum, base, g, S)
  BY SumsExist
<1>2. Total(base, g, S) = it[S]
  BY DEF Total, FoldFunctionOnSet, MapThenFoldSet, Sums, Some
<1>3. Sums(it, base, g, S)
  BY <1>1
<1> HIDE DEF it
<1>4. IsSum(it, base, g, S)
  BY <1>3, SumsAreNumbers
<1> QED  BY <1>2, <1>4

\* The order in which the elements are added does not matter.
AnyOrder(sum, g, S) ==
    \A s \in SUBSET S : \A y \in s : sum[s] = g[y] + sum[s \ {y}]

LEMMA SumOfAny ==
    ASSUME NEW S, NEW g, NEW base, NEW sum, IsSum(sum, base, g, S)
    PROVE  AnyOrder(sum, g, S)
<1> DEFINE Holds(s) == \A y \in s : sum[s] = g[y] + sum[s \ {y}]
           Bad == {n \in Nat : \E s \in SUBSET S :
                                 Cardinality(s) = n /\ ~Holds(s)}
<1> USE DEF IsSum
<1>1. \A s \in SUBSET S : s # {} => sum[s] = g[Some(s)] + sum[s \ {Some(s)}]
  BY DEF Sums
<1>2. ASSUME NEW n \in Nat, \A m \in Bad : n <= m,
             NEW s \in SUBSET S, Cardinality(s) = n
      PROVE  Holds(s)
  <2> SUFFICES ASSUME NEW y \in s PROVE sum[s] = g[y] + sum[s \ {y}]
    OBVIOUS
  <2> DEFINE x == Some(s)
  <2>1. x \in s /\ sum[s] = g[x] + sum[s \ {x}]
    BY <1>1, SomeIn
  <2>2. CASE x = y
    BY <2>1, <2>2
  <2>3. CASE x # y
    <3>1. Cardinality(s \ {x}) = n - 1 /\ Cardinality(s \ {y}) = n - 1
      BY <1>2, <2>1, Smaller
    <3>2. n - 1 \in Nat /\ ~(n <= n - 1)
      BY <3>1, Smaller
    <3>3. n - 1 \notin Bad
      BY <1>2, <3>2
    <3>4. Holds(s \ {x}) /\ Holds(s \ {y})
      BY <3>1, <3>2, <3>3
    <3>5. sum[s \ {x}] = g[y] + sum[(s \ {x}) \ {y}]
      BY <2>3, <3>4
    <3>6. sum[s \ {y}] = g[x] + sum[(s \ {y}) \ {x}]
      BY <2>1, <2>3, <3>4
    <3>7. (s \ {x}) \ {y} = (s \ {y}) \ {x}
      OBVIOUS
    <3> DEFINE rest == sum[(s \ {x}) \ {y}]
    <3>8. g[x] \in Int /\ g[y] \in Int /\ rest \in Int
      BY <2>1
    <3>9. sum[s] = g[x] + (g[y] + rest) /\ sum[s \ {y}] = g[x] + rest
      BY <2>1, <3>5, <3>6, <3>7
    <3> HIDE DEF rest, x
    <3> QED  BY <3>8, <3>9
  <2> QED  BY <2>2, <2>3
<1>3. Bad = {}
  <2>1. ASSUME NEW n \in Bad PROVE \E m \in Bad : ~(n <= m)
    BY <1>2
  <2>2. Bad \in SUBSET Nat
    OBVIOUS
  <2> HIDE DEF Bad
  <2> QED  BY <2>1, <2>2, LeastNumber
<1> QED  BY <1>3, Smaller DEF AnyOrder

\* Sums of numbers that are not negative grow with the set ...
LEMMA SumGrows ==
    ASSUME NEW S, NEW g, NEW base, NEW sum, IsSum(sum, base, g, S),
           \A x \in S : g[x] \in Nat
    PROVE  \A t \in SUBSET S : \A s \in SUBSET t : sum[s] <= sum[t]
<1>0. AnyOrder(sum, g, S)
  BY SumOfAny
<1> USE DEF IsSum
<1> DEFINE Holds(t) == \A s \in SUBSET t : sum[s] <= sum[t]
           Bad == {n \in Nat : \E t \in SUBSET S :
                                 Cardinality(t) = n /\ ~Holds(t)}
<1>1. ASSUME NEW n \in Nat, \A m \in Bad : n <= m,
             NEW t \in SUBSET S, Cardinality(t) = n
      PROVE  Holds(t)
  <2> SUFFICES ASSUME NEW s \in SUBSET t PROVE sum[s] <= sum[t]
    OBVIOUS
  <2>1. CASE s = t
    BY <2>1
  <2>2. CASE s # t
    <3>1. PICK y \in t : y \notin s
      BY <2>2
    <3>2. Cardinality(t \ {y}) = n - 1
      BY <1>1, Smaller
    <3>3. n - 1 \in Nat /\ ~(n <= n - 1)
      BY <3>2, Smaller
    <3>4. n - 1 \notin Bad
      BY <1>1, <3>3
    <3>5. Holds(t \ {y})
      BY <3>2, <3>3, <3>4
    <3>6. sum[s] <= sum[t \ {y}]
      BY <3>1, <3>5
    <3>7. sum[t] = g[y] + sum[t \ {y}]
      BY <1>0, <3>1 DEF AnyOrder
    <3>8. g[y] \in Nat /\ sum[s] \in Int /\ sum[t \ {y}] \in Int
      OBVIOUS
    <3> QED  BY <3>6, <3>7, <3>8
  <2> QED  BY <2>1, <2>2
<1>2. Bad = {}
  <2>1. ASSUME NEW n \in Bad PROVE \E m \in Bad : ~(n <= m)
    BY <1>1
  <2>2. Bad \in SUBSET Nat
    OBVIOUS
  <2> HIDE DEF Bad
  <2> QED  BY <2>1, <2>2, LeastNumber
<1> QED  BY <1>2, Smaller

\* ... and with what they begin with.
LEMMA SumFromMore ==
    ASSUME NEW S, NEW T \in SUBSET S, NEW g,
           NEW low, NEW high, low <= high,
           NEW less, IsSum(less, low, g, T),
           NEW more, IsSum(more, high, g, S)
    PROVE  \A s \in SUBSET T : less[s] <= more[s]
<1> USE DEF IsSum
<1> DEFINE Holds(s) == less[s] <= more[s]
           Bad == {n \in Nat : \E s \in SUBSET T :
                                 Cardinality(s) = n /\ ~Holds(s)}
<1>1. ASSUME NEW n \in Nat, \A m \in Bad : n <= m,
             NEW s \in SUBSET T, Cardinality(s) = n
      PROVE  Holds(s)
  <2>1. CASE s = {}
    BY <2>1 DEF Sums
  <2>2. CASE s # {}
    <3> DEFINE x == Some(s)
    <3>1. /\ x \in s
          /\ less[s] = g[x] + less[s \ {x}]
          /\ more[s] = g[x] + more[s \ {x}]
      BY <2>2, SomeIn DEF Sums
    <3>2. Cardinality(s \ {x}) = n - 1
      BY <1>1, <3>1, Smaller
    <3>3. n - 1 \in Nat /\ ~(n <= n - 1)
      BY <3>2, Smaller
    <3>4. n - 1 \notin Bad
      BY <1>1, <3>3
    <3>5. less[s \ {x}] <= more[s \ {x}]
      BY <3>2, <3>3, <3>4
    <3>6. g[x] \in Int /\ less[s \ {x}] \in Int /\ more[s \ {x}] \in Int
      BY <3>1
    <3> QED  BY <3>1, <3>5, <3>6
  <2> QED  BY <2>1, <2>2
<1>2. Bad = {}
  <2>1. ASSUME NEW n \in Bad PROVE \E m \in Bad : ~(n <= m)
    BY <1>1
  <2>2. Bad \in SUBSET Nat
    OBVIOUS
  <2> HIDE DEF Bad
  <2> QED  BY <2>1, <2>2, LeastNumber
<1> QED  BY <1>2, Smaller

\* A larger set of weights, added to no less, gives no less.
LEMMA TotalGrows ==
    ASSUME NEW S, IsFiniteSet(S), NEW T \in SUBSET S,
           NEW g, \A x \in S : g[x] \in Nat,
           NEW low \in Nat, NEW high \in Nat, low <= high
    PROVE  /\ Total(low, g, T) \in Nat
           /\ Total(low, g, T) <= Total(high, g, S)
<1>1. IsFiniteSet(T)
  BY FS_Subset
<1>2. \A x \in S : g[x] \in Int
  OBVIOUS
<1>3. PICK less : IsSum(less, low, g, T) /\ Total(low, g, T) = less[T]
  BY <1>1, <1>2, TotalIsSum
<1>4. PICK more : IsSum(more, high, g, S) /\ Total(high, g, S) = more[S]
  BY <1>2, TotalIsSum
<1>5. \A s \in SUBSET T : less[s] <= more[s]
  BY <1>3, <1>4, SumFromMore
<1>6. \A t \in SUBSET S : \A s \in SUBSET t : more[s] <= more[t]
  BY <1>4, SumGrows
<1>7. \A t \in SUBSET T : \A s \in SUBSET t : less[s] <= less[t]
  BY <1>3, SumGrows
<1>8. less[T] <= more[T] /\ more[T] <= more[S]
  BY <1>5, <1>6
<1>9. less[{}] = low
  BY <1>3 DEF IsSum, Sums
<1>10. low <= less[T]
  BY <1>7, <1>9
<1>11. less[T] \in Int /\ more[T] \in Int /\ more[S] \in Int
  BY <1>3, <1>4 DEF IsSum
<1> QED  BY <1>3, <1>4, <1>8, <1>10, <1>11

-----------------------------------------------------------------------------
(* Files *)

Band == [min : Nat, max : Nat \cup {-1}, score : Int]
Bands == Seq(Band)

LEMMA BandIsTyped ==
    ASSUME NEW bands \in Bands, NEW k \in DOMAIN bands
    PROVE  /\ k \in Nat
           /\ bands[k].min \in Nat
           /\ bands[k].max \in Nat \cup {-1}
           /\ bands[k].score \in Int
<1>1. bands[k] \in Band /\ k \in Nat
  BY DEF Bands
<1> QED  BY <1>1, Zenon DEF Band

\* The band that counts is the first that fits.
LEMMA FirstBand ==
    ASSUME NEW bands \in Bands, NEW n \in Nat,
           NEW i \in DOMAIN bands, Within(n, bands[i])
    PROVE  \E k \in DOMAIN bands : /\ Within(n, bands[k])
                                   /\ FileScore(bands, n) = bands[k].score
<1> DEFINE I == {k \in DOMAIN bands : Within(n, bands[k])}
           k == CHOOSE k \in DOMAIN bands :
                   /\ Within(n, bands[k])
                   /\ \A j \in 1..k-1 : ~Within(n, bands[j])
<1>1. DOMAIN bands = 1..Len(bands) /\ Len(bands) \in Nat
  BY DEF Bands
<1>2. I \in SUBSET (1..Len(bands)) /\ I # {}
  BY <1>1
<1> HIDE DEF I
<1>3. \E m \in I : \A j \in 1..m-1 : j \notin I
  BY <1>1, <1>2, LeastIndex
<1>4. \E m \in DOMAIN bands : /\ Within(n, bands[m])
                              /\ \A j \in 1..m-1 : ~Within(n, bands[j])
  BY <1>1, <1>3 DEF I
<1>5. k \in DOMAIN bands /\ Within(n, bands[k])
  BY <1>4
<1>6. FileScore(bands, n) = bands[k].score
  BY DEF FileScore, First
<1> QED  BY <1>5, <1>6

\* Bands that follow one another leave out no count above one that fits.
LEMMA LaterFits ==
    ASSUME NEW bands \in Bands, GradedBands(bands),
           NEW m \in Nat, NEW n \in Nat, m <= n,
           NEW i \in DOMAIN bands, Within(m, bands[i])
    PROVE  \E j \in DOMAIN bands : Within(n, bands[j])
<1> DEFINE last == Len(bands)
           Above == {k \in i+1..last : n < bands[k].min}
<1>1. DOMAIN bands = 1..last /\ last \in Nat /\ i \in 1..last
  BY DEF Bands
<1>2. \A k \in 1..last : bands[k].min \in Nat /\ bands[k].max \in Nat \cup {-1}
  BY <1>1, BandIsTyped
<1>3. bands[i].min <= n
  BY <1>1, <1>2 DEF Within
<1>4. CASE Above = {}
  <2>1. bands[last].min <= n
    BY <1>1, <1>2, <1>3, <1>4
  <2>2. bands[last].max = -1
    BY <1>1 DEF GradedBands
  <2> QED  BY <1>1, <2>1, <2>2 DEF Within
<1>5. CASE Above # {}
  <2>1. Above \in SUBSET Nat
    BY <1>1
  <2>2. PICK k \in Above : \A j \in Above : k <= j
    BY <1>5, <2>1, LeastNumber
  <2>3. k - 1 \in i..last - 1 /\ k - 1 \notin Above
    BY <1>1, <2>2
  <2>4. bands[k - 1].min <= n
    BY <1>1, <1>2, <1>3, <2>3
  <2>5. bands[k - 1].max + 1 = bands[(k - 1) + 1].min
    BY <1>1, <2>3 DEF GradedBands
  <2>6. n <= bands[k - 1].max
    BY <1>1, <1>2, <2>2, <2>3, <2>5
  <2>7. k - 1 \in DOMAIN bands
    BY <1>1, <2>3
  <2> QED  BY <2>4, <2>6, <2>7 DEF Within
<1> QED  BY <1>4, <1>5

\* More files do not score less.
LEMMA FileScoreGrows ==
    ASSUME NEW bands \in Bands, GradedBands(bands),
           NEW m \in Nat, NEW n \in Nat, m <= n
    PROVE  /\ FileScore(bands, m) \in Nat
           /\ FileScore(bands, n) \in Nat
           /\ FileScore(bands, m) <= FileScore(bands, n)
<1>1. \A k \in DOMAIN bands : bands[k].score \in Nat
  BY BandIsTyped DEF GradedBands
<1>2. \A c \in Nat : \/ FileScore(bands, c) = 0
                     \/ \E k \in DOMAIN bands : Within(c, bands[k])
  BY DEF FileScore
<1>3. \A c \in Nat : FileScore(bands, c) \in Nat
  BY <1>1, <1>2, FirstBand
<1>4. CASE \E k \in DOMAIN bands : Within(m, bands[k])
  <2>1. PICK i \in DOMAIN bands : /\ Within(m, bands[i])
                                  /\ FileScore(bands, m) = bands[i].score
    BY <1>4, FirstBand
  <2>2. \E k \in DOMAIN bands : Within(n, bands[k])
    BY <2>1, LaterFits
  <2>3. PICK j \in DOMAIN bands : /\ Within(n, bands[j])
                                  /\ FileScore(bands, n) = bands[j].score
    BY <2>2, FirstBand
  <2>4. /\ i \in Nat /\ j \in Nat
        /\ bands[i].min \in Nat /\ bands[j].min \in Nat
    BY BandIsTyped
  <2>5. ~(j < i)
    <3>1. SUFFICES ASSUME j < i PROVE FALSE
      OBVIOUS
    <3>2. bands[j].max \in 0..bands[i].min - 1
      BY <3>1 DEF GradedBands
    <3> QED  BY <2>1, <2>3, <2>4, <3>2 DEF Within
  <2>6. bands[i].score <= bands[j].score
    BY <1>1, <2>4, <2>5 DEF GradedBands
  <2> QED  BY <1>3, <2>1, <2>3, <2>6
<1>5. CASE ~\E k \in DOMAIN bands : Within(m, bands[k])
  BY <1>2, <1>3, <1>5
<1> QED  BY <1>4, <1>5

-----------------------------------------------------------------------------
(* Risk *)

\* more is of the same stage, with all the risks and files of less.
Riskier(less, more) ==
    /\ less \in Profiles /\ more \in Profiles
    /\ less.stage = more.stage
    /\ less.flags \subseteq more.flags
    /\ less.estimated_files <= more.estimated_files

LEMMA ProjectIsTyped ==
    ASSUME IInv
    PROVE  /\ routing.file_count \in Bands
           /\ routing.flags \in [DOMAIN routing.flags -> Int]
           /\ routing.thresholds \in [DOMAIN routing.thresholds ->
                                         [min : Int, max : Int]]
<1>1. routing \in Range(routing_yaml)
  BY DEF IInv, routing, Range
<1> QED  BY <1>1, ProjectsAssumption DEF Bands, Band

LEMMA ScoreGrows ==
    ASSUME IInv, Graded, NEW less, NEW more, Riskier(less, more)
    PROVE  /\ score(less) \in Nat
           /\ score(more) \in Nat
           /\ score(less) <= score(more)
<1> DEFINE g == routing.flags
           S == DOMAIN g \cap more.flags
           T == DOMAIN g \cap less.flags
           high == FileScore(routing.file_count, more.estimated_files)
           low == FileScore(routing.file_count, less.estimated_files)
<1>1. IsFiniteSet(S) /\ T \in SUBSET S
  <2>1. S \subseteq Flags /\ T \subseteq S
    BY DEF Riskier, Profiles
  <2> QED  BY <2>1, ProfilesAssumption, FS_Subset
<1>2. \A x \in S : g[x] \in Nat
  BY ProjectIsTyped DEF Graded
<1>3. low \in Nat /\ high \in Nat /\ low <= high
  <2>1. less.estimated_files \in Nat /\ more.estimated_files \in Nat
    BY ProfilesAssumption DEF Riskier, Profiles
  <2> QED  BY <2>1, ProjectIsTyped, FileScoreGrows DEF Graded, Riskier
<1>4. score(less) = Total(low, g, T) /\ score(more) = Total(high, g, S)
  BY DEF score, Total
<1> HIDE DEF g, S, T, high, low
<1>5. Total(low, g, T) \in Nat /\ Total(low, g, T) <= Total(high, g, S)
  BY <1>1, <1>2, <1>3, TotalGrows
<1>6. Total(high, g, S) \in Nat
  BY <1>1, <1>2, <1>3, TotalGrows
<1> QED  BY <1>4, <1>5, <1>6

\* The level is the lowest exactly if the score is within it.
LEMMA LevelIs ==
    ASSUME NEW profile
    PROVE  /\ level(profile) \in {"LOW", "MEDIUM", "HIGH"}
           /\ level(profile) = "LOW" <=>
                 /\ "LOW" \in DOMAIN routing.thresholds
                 /\ Within(score(profile), routing.thresholds["LOW"])
<1> DEFINE Holds(l) == /\ l \in DOMAIN routing.thresholds
                       /\ Within(score(profile), routing.thresholds[l])
           k == CHOOSE i \in DOMAIN Levels :
                   Holds(Levels[i]) /\ \A j \in 1..i-1 : ~Holds(Levels[j])
<1>1. /\ DOMAIN Levels = 1..3
      /\ Levels[1] = "LOW" /\ Levels[2] = "MEDIUM" /\ Levels[3] = "HIGH"
  BY DEF Levels
<1>2. level(profile) = IF \E i \in DOMAIN Levels : Holds(Levels[i])
                       THEN Levels[k] ELSE "HIGH"
  BY DEF level, First
<1> HIDE DEF Holds
<1>3. ASSUME NEW i \in DOMAIN Levels, Holds(Levels[i])
      PROVE  \E m \in DOMAIN Levels :
                Holds(Levels[m]) /\ \A j \in 1..m-1 : ~Holds(Levels[j])
  <2> DEFINE I == {m \in 1..3 : Holds(Levels[m])}
  <2>1. I \in SUBSET (1..3) /\ I # {}
    BY <1>1, <1>3
  <2> HIDE DEF I
  <2>2. PICK m \in I : \A j \in 1..m-1 : j \notin I
    BY <2>1, LeastIndex
  <2> QED  BY <1>1, <2>2 DEF I
<1>4. (\E i \in DOMAIN Levels : Holds(Levels[i])) =>
         /\ k \in DOMAIN Levels
         /\ Holds(Levels[k])
         /\ \A j \in 1..k-1 : ~Holds(Levels[j])
  BY <1>3
<1> HIDE DEF k
<1>5. level(profile) = "LOW" <=> Holds("LOW")
  BY <1>1, <1>2, <1>4
<1>6. level(profile) \in {"LOW", "MEDIUM", "HIGH"}
  BY <1>1, <1>2, <1>4
<1> QED  BY <1>5, <1>6 DEF Holds

\* Who is above the lowest level stays there.
LEMMA LevelGrows ==
    ASSUME IInv, Graded, NEW less, NEW more, Riskier(less, more),
           level(more) = "LOW"
    PROVE  level(less) = "LOW"
<1> DEFINE low == routing.thresholds["LOW"]
<1>1. /\ "LOW" \in DOMAIN routing.thresholds
      /\ Within(score(more), low)
  BY LevelIs
<1>2. low \in [min : Int, max : Int]
  BY <1>1, ProjectIsTyped
<1>3. low.min \in Int /\ low.max \in Int
  BY <1>2
<1>4. low.min <= 0
  BY <1>1 DEF Graded
<1> HIDE DEF low
<1>5. Within(score(less), low)
  BY <1>1, <1>3, <1>4, ScoreGrows DEF Within
<1> QED  BY <1>1, <1>5, LevelIs DEF low

LEMMA ImplementationGrows ==
    ASSUME IInv, Graded, NEW less, NEW more, Riskier(less, more)
    PROVE  Strength(_route_implementation(less)) <=
              Strength(_route_implementation(more))
<1> DEFINE Light(choice) == /\ choice.matched_rule \in ByLevel
                            /\ choice.role = "implementation.lightweight"
           Forced(profile) == AnySet(routing.force_standard_if_any, profile)
           one == _route_implementation(less)
           other == _route_implementation(more)
<1>1. \A profile :
         LET choice == _route_implementation(profile)
         IN  /\ Forced(profile) => Strength(choice) = 2
             /\ ~Forced(profile) =>
                   Strength(choice) = IF Light(choice) THEN 0 ELSE 2
  BY DEF _route_implementation, Choice, Strength, ByLevel
<1>2. Forced(less) => Forced(more)
  BY DEF Riskier, AnySet
<1>3. ASSUME ~Forced(more), level(more) # "LOW" PROVE ~Light(other)
  <2>1. level(more) \in {"MEDIUM", "HIGH"}
    BY <1>3, LevelIs
  <2> QED  BY <1>3, <2>1 DEF Graded, _route_implementation, Choice
<1>4. ASSUME ~Forced(more), level(more) = "LOW" PROVE one = other
  BY <1>2, <1>4, LevelGrows DEF _route_implementation
<1> HIDE DEF Light, Forced
<1> QED  BY <1>1, <1>2, <1>3, <1>4

LEMMA ReviewGrows ==
    ASSUME IInv, Graded, NEW less, NEW more, Riskier(less, more)
    PROVE  Strength(_route_review(less)) <= Strength(_route_review(more))
<1>1. AsExpected(routing.architecture_if, less) =>
         AsExpected(routing.architecture_if, more)
  BY DEF AsExpected, Graded, Riskier
<1>2. AnySet(routing.deep_if_any, less) => AnySet(routing.deep_if_any, more)
  BY DEF AnySet, Riskier
<1> QED  BY <1>1, <1>2 DEF _route_review, Choice, Strength, ByLevel

LEMMA StrengthGrows ==
    ASSUME IInv, Graded, NEW less, NEW more, Riskier(less, more)
    PROVE  Strength(by_stage(less)) <= Strength(by_stage(more))
<1>1. less.stage \in Stages /\ more.stage = less.stage
  BY DEF Riskier, Profiles
<1>2. CASE less.stage = "PLANNING"
  <2>1. AnySet(routing.architecture_if_any, less) =>
           AnySet(routing.architecture_if_any, more)
    BY DEF AnySet, Riskier
  <2> QED  BY <1>1, <1>2, <2>1
            DEF by_stage, _route_planning, Choice, Strength, ByLevel
<1>3. CASE less.stage = "REVIEW"
  BY <1>1, <1>3, ReviewGrows DEF by_stage
<1>4. CASE less.stage = "DOCUMENTATION"
  BY <1>1, <1>4 DEF by_stage, Choice, Strength, ByLevel
<1>5. CASE less.stage = "IMPLEMENTATION"
  BY <1>1, <1>5, ImplementationGrows DEF by_stage
<1> QED  BY <1>1, <1>2, <1>3, <1>4, <1>5 DEF Stages

\* What is asked about is decided by the rules alone.
ByRules == decision # NoDecision
           /\ decision.step \in {"implement", "review", "document"}
           /\ decision.user_override = {}
Described == ByRules => /\ decision.profile \in Profiles
                       /\ decision.matched_rule =
                             by_stage(decision.profile).matched_rule
                       /\ decision.role = by_stage(decision.profile).role

\* What level and match_complexity_rule are functions of.
LevelOf(thresholds, sum) ==
    LET Holds(l) == l \in DOMAIN thresholds /\ Within(sum, thresholds[l])
    IN  IF \E i \in DOMAIN Levels : Holds(Levels[i])
        THEN Levels[First(Levels, Holds)]
        ELSE "HIGH"
RuleOf(rules, l) ==
    CHOOSE i \in DOMAIN rules : /\ rules[i].complexity = l
                               /\ \A j \in 1..i-1 : rules[j].complexity # l

\* The rules are those of the task's project, which stays.
LEMMA RulesStay ==
    ASSUME UNCHANGED project, NEW profile
    PROVE  by_stage(profile)' = by_stage(profile)
<1>1. routing' = routing
  BY DEF routing
<1> DEFINE files(rules) == FileScore(rules.file_count, profile.estimated_files)
           Sum(rules) == Total(files(rules), rules.flags,
                               DOMAIN rules.flags \cap profile.flags)
<1>2. score(profile) = Sum(routing) /\ score(profile)' = Sum(routing')
  <2>1. score(profile) = Sum(routing)
    BY DEF score, Total
  <2>2. score(profile)' = Sum(routing)'
    BY DEF score, Total
  <2> QED  BY <2>1, <2>2
<1>3. score(profile)' = score(profile)
  BY <1>1, <1>2
<1>4. /\ level(profile) = LevelOf(routing.thresholds, score(profile))
      /\ level(profile)' = LevelOf(routing'.thresholds, score(profile)')
  <2>1. level(profile) = LevelOf(routing.thresholds, score(profile))
    BY DEF level, LevelOf
  <2>2. level(profile)' = LevelOf(routing.thresholds, score(profile))'
    BY DEF level, LevelOf
  <2> QED  BY <2>1, <2>2
<1>5. level(profile)' = level(profile)
  BY <1>1, <1>3, <1>4
<1>6. \A l : /\ match_complexity_rule(l) = RuleOf(routing.rules, l)
             /\ match_complexity_rule(l)' = RuleOf(routing'.rules, l)
  BY DEF match_complexity_rule, RuleOf
<1>7. match_complexity_rule(level(profile))' =
         match_complexity_rule(level(profile))
  BY <1>1, <1>5, <1>6
<1>8. HasRule(level(profile))' = HasRule(level(profile))
  BY <1>1, <1>5 DEF HasRule
<1>9. _route_implementation(profile)' = _route_implementation(profile)
  BY <1>1, <1>5, <1>7, <1>8 DEF _route_implementation
<1> QED  BY <1>1, <1>9 DEF by_stage, _route_planning, _route_review

LEMMA DescribedAlways == Spec => []Described
<1>1. Init => Described
  BY DEF Init, Described, ByRules
<1>2. Described /\ [Next]_vars => Described'
  <2> SUFFICES ASSUME Described, [Next]_vars PROVE Described'
    OBVIOUS
  <2>1. CASE UNCHANGED vars
    BY <2>1, RulesStay DEF vars, Described, ByRules
  <2>2. ASSUME NEW p \in Processes, Start(p) \/ End(p) \/ Edit(p)
        PROVE  Described'
    BY <2>2 DEF Start, End, Edit, run_retire, remove_retirement, Save, Stop,
                Described, ByRules
  <2>3. ASSUME NEW p \in Processes, Choose(p) PROVE Described'
    <3>1. CASE Plan(p) \/ ResumePlanning(p) \/ Repair(p) \/ Fix(p)
      BY <3>1 DEF Plan, ResumePlanning, Repair, Fix, Take, Decide, Described,
                  ByRules
    <3>2. ASSUME NEW profile \in Profiles, NEW user_override \in Overrides,
                 \/ Implement(p, profile, user_override)
                 \/ Review(p, profile, user_override)
                 \/ Document(p, profile, user_override)
          PROVE  Described'
      <4>1. /\ decision'.profile = profile
            /\ decision'.user_override = user_override
            /\ decision'.matched_rule =
                  route(profile, user_override, config[p]).matched_rule
            /\ decision'.role = route(profile, user_override, config[p]).role
            /\ project' = project
        BY <3>2 DEF Implement, Review, Document, Decide
      <4>2. by_stage(profile)' = by_stage(profile)
        BY <4>1, RulesStay
      <4>3. user_override = {} =>
               /\ decision'.matched_rule = by_stage(profile).matched_rule
               /\ decision'.role = by_stage(profile).role
        BY <4>1 DEF route, Routed
      <4> QED  BY <4>1, <4>2, <4>3 DEF Described, ByRules
    <3> QED  BY <2>3, <3>1, <3>2 DEF Choose
  <2>4. CASE Worked
    BY <2>4 DEF Worked, Described, ByRules
  <2> QED  BY <2>1, <2>2, <2>3, <2>4 DEF Next
<1> QED  BY <1>1, <1>2, PTL DEF Spec

\* With rules in their usual form a task that has more risks or more files is
\* never routed to less, whatever the bands, weights, levels and rules are
\* (score_complexity, _resolve_level, route).
THEOREM RiskNeverCostsStrength == Spec => []RiskNeverLowers
<1>1. IInv /\ Described => RiskNeverLowers
  <2> SUFFICES ASSUME IInv, Described, Graded, ByRules,
                      NEW flags \in SUBSET Flags, NEW n \in FileCounts,
                      decision.profile.flags \subseteq flags,
                      decision.profile.estimated_files <= n
               PROVE  Strength(decision) <=
                         Strength(by_stage([decision.profile EXCEPT
                                               !.flags = flags,
                                               !.estimated_files = n]))
    BY DEF RiskNeverLowers, ByRules
  <2> DEFINE less == decision.profile
             more == [less EXCEPT !.flags = flags, !.estimated_files = n]
  <2>1. less \in Profiles /\ Strength(decision) = Strength(by_stage(less))
    BY DEF Described, Strength
  <2>2. Riskier(less, more)
    BY <2>1 DEF Riskier, Profiles
  <2> QED  BY <2>1, <2>2, StrengthGrows
<1> QED  BY <1>1, DescribedAlways, InvAlways, PTL
===============================================================================
