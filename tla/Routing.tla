-------------------------------- MODULE Routing --------------------------------
(***************************************************************************)
(* How a model is chosen: route() (routing/engine.py) with the complexity  *)
(* score, the rules of routing.yaml and the retired models, and the        *)
(* commands that edit the retirements (Application.run_retire and          *)
(* remove_retirement).                                                     *)
(*                                                                         *)
(* A process reads the global configuration once, when it starts, and      *)
(* decides by what it has read; an editor writes all of it back.  A run    *)
(* that is resumed takes over models it has recorded: that of its last     *)
(* planner session, and that of its implementation.                        *)
(***************************************************************************)
EXTENDS Integers, Sequences, FiniteSets, Functions

CONSTANTS Processes,
          Models,          \* names, up to case and surrounding blanks
          Excluded,        \* EXCLUDED_MODELS
          Overridden,      \* models a user asks for
          Flags,           \* Boolean fields of TaskProfile
          FileCounts,      \* estimated_files
          routing_yaml,    \* by project, the files users may have written
          MaxEdits         \* bound: retirements added or removed

ASSUME ModelsAssumption == /\ Excluded \subseteq Models
                           /\ Overridden \subseteq Models \ Excluded
ASSUME ProfilesAssumption == IsFiniteSet(Flags) /\ FileCounts \subseteq Nat
ASSUME EditsAssumption == MaxEdits \in Nat

VARIABLES
    project,    \* the one of this task
    retired,    \* models.retired of ~/.agentflow/config.yaml
    running,    \* what each process is at work on
    config,     \* what each of them has read of retired
    decision,   \* the one just taken, and what it was about
    session,    \* the model of the run's last planner session, if it has one
    artifact,   \* the model in its routing-decision.json, if it is written
    edits

recorded == <<session, artifact>>
vars == <<project, retired, running, config, decision, recorded, edits>>

Stages == {"PLANNING", "IMPLEMENTATION", "REVIEW", "DOCUMENTATION"}
Levels == <<"LOW", "MEDIUM", "HIGH">>
PlannerAliases == {"planner.default", "planner.architecture"}
TierAliases == {"implementation.lightweight", "implementation.standard",
                "implementation.escalation"}
Aliases == PlannerAliases \cup TierAliases \cup
           {"review.default", "review.deep", "review.architecture",
            "documentation.default"}

\* The stages whose alias routing.yaml may change.
StageRoles == {"planning.default", "planning.architecture", "review.default",
               "review.deep", "review.architecture", "documentation.default"}

ASSUME ProjectsAssumption ==
    \A file \in Range(routing_yaml) :
        /\ file.models \in [Aliases -> Models \ Excluded]
        /\ file.stages \in [StageRoles -> STRING]
        /\ file.rules \in Seq([complexity : {"LOW", "MEDIUM", "HIGH"}, use : STRING])
        /\ file.file_count \in Seq([min : Nat, max : Nat \cup {-1}, score : Int])
        /\ file.flags \in [DOMAIN file.flags -> Int]
        /\ file.thresholds \in [DOMAIN file.thresholds -> [min : Int, max : Int]]

\* The routing.yaml a task is routed by.
routing == routing_yaml[project]

\* flags are those that are set.
Profiles == [stage : Stages, flags : SUBSET Flags, estimated_files : FileCounts]
NoProfile == [stage |-> "none", flags |-> {}, estimated_files |-> 0]

-----------------------------------------------------------------------------
(* Retirements (config/retirement.py) *)

IsRetirements(map) == /\ DOMAIN map \subseteq Models
                      /\ map \in [DOMAIN map -> Models]
NoneRetired == [name \in {} |-> name]

Closed(names, map) == \A name \in names \cap DOMAIN map : map[name] \in names

\* `seen` when the loop ends: the names met from model on.
Seen(model, map) ==
    {name \in Models : \A names \in SUBSET Models :
                          model \in names /\ Closed(names, map) => name \in names}

\* The loop raises when it revisits a name, which is when every name it meets
\* is retired in turn.
Revisits(model, map) == Seen(model, map) \subseteq DOMAIN map

\* Mutant of apply_retirements: chains are not followed.
apply_one(model, map) == IF model \in DOMAIN map THEN map[model] ELSE model

apply_retirements(model, map) ==
    CHOOSE name \in Seen(model, map) : name \notin DOMAIN map

-----------------------------------------------------------------------------
(* Complexity (routing/complexity.py) *)

First(seq, Test(_)) ==
    CHOOSE i \in DOMAIN seq : Test(seq[i]) /\ \A j \in 1..i-1 : ~Test(seq[j])

\* A range without an upper end has max = -1.
Within(n, range) == n >= range.min /\ (range.max = -1 \/ n <= range.max)

FileScore(bands, n) ==
    LET Fits(band) == Within(n, band)
    IN  IF \E i \in DOMAIN bands : Fits(bands[i])
        THEN bands[First(bands, Fits)].score
        ELSE 0

score(profile) ==
    FoldFunctionOnSet(+, FileScore(routing.file_count, profile.estimated_files),
                      routing.flags, DOMAIN routing.flags \cap profile.flags)

\* Mutant of level: the lower end is left out.
level_exclusive(profile) ==
    LET Holds(l) == /\ l \in DOMAIN routing.thresholds
                    /\ score(profile) > routing.thresholds[l].min
                    /\ Within(score(profile), routing.thresholds[l])
    IN  IF \E i \in DOMAIN Levels : Holds(Levels[i])
        THEN Levels[First(Levels, Holds)]
        ELSE "HIGH"

level(profile) ==
    LET Holds(l) == /\ l \in DOMAIN routing.thresholds
                    /\ Within(score(profile), routing.thresholds[l])
    IN  IF \E i \in DOMAIN Levels : Holds(Levels[i])
        THEN Levels[First(Levels, Holds)]
        ELSE "HIGH"

-----------------------------------------------------------------------------
(* Rules (routing/engine.py, matcher.py) *)

Choice(rule, alias) == [matched_rule |-> rule, role |-> alias]

AnySet(flags, profile) == flags \cap profile.flags # {}

\* architecture_if: a flag and the value it is expected to have.
AsExpected(expected, profile) ==
    \E flag \in DOMAIN expected : (flag \in profile.flags) = expected[flag]

_route_planning(profile) ==
    IF AnySet(routing.architecture_if_any, profile)
    THEN Choice("planning.architecture-escalation",
                routing.stages["planning.architecture"])
    ELSE Choice("planning.default", routing.stages["planning.default"])

_route_review(profile) ==
    IF AsExpected(routing.architecture_if, profile)
    THEN Choice("review.architecture-escalation",
                routing.stages["review.architecture"])
    ELSE IF AnySet(routing.deep_if_any, profile)
    THEN Choice("review.deep-escalation", routing.stages["review.deep"])
    ELSE Choice("review.default", routing.stages["review.default"])

\* The first rule for a level, by its position.
match_complexity_rule(l) ==
    CHOOSE i \in DOMAIN routing.rules :
        /\ routing.rules[i].complexity = l
        /\ \A j \in 1..i-1 : routing.rules[j].complexity # l

HasRule(l) == \E i \in DOMAIN routing.rules : routing.rules[i].complexity = l

_route_implementation(profile) ==
    IF AnySet(routing.force_standard_if_any, profile)
    THEN Choice("implementation.force-standard", "implementation.standard")
    ELSE IF HasRule(level(profile))
    THEN Choice("project rule",
                routing.rules[match_complexity_rule(level(profile))].use)
    ELSE Choice("implementation.default-complexity",
                IF level(profile) = "LOW" THEN "implementation.lightweight"
                                          ELSE "implementation.standard")

by_stage(profile) ==
    CASE profile.stage = "PLANNING"       -> _route_planning(profile)
      [] profile.stage = "REVIEW"         -> _route_review(profile)
      [] profile.stage = "DOCUMENTATION"  ->
            Choice("documentation.default",
                   routing.stages["documentation.default"])
      [] profile.stage = "IMPLEMENTATION" -> _route_implementation(profile)

\* The model that takes the place of a bound one; ConfigurationError and
\* ValueError are failures of the command.
Failed == "failed"
Substituted(model, map) ==
    LET last == apply_retirements(model, map)
    IN  IF Revisits(model, map) THEN Failed
        ELSE IF last \in Excluded THEN Failed ELSE last

\* Mutant of resolve: without a substitution the alias is returned.
resolve_alias(alias, map) ==
    LET last == Substituted(routing.models[alias], map)
    IN  IF last = routing.models[alias] THEN alias ELSE last

\* ModelsConfig.resolve
resolve(alias, map) ==
    IF alias \in DOMAIN routing.models
    THEN Substituted(routing.models[alias], map)
    ELSE Failed

\* What is decided, with the model the role stands for.
Routed(choice, model) ==
    [matched_rule |-> choice.matched_rule, role |-> choice.role, model |-> model]

\* No override is {}.
route(profile, user_override, map) ==
    LET choice == by_stage(profile)
    IN  IF user_override # {}
        THEN Routed(Choice("user-override", "user.override"),
                    Substituted(CHOOSE m \in user_override : TRUE, map))
        ELSE Routed(choice, resolve(choice.role, map))

-----------------------------------------------------------------------------
(* ProjectConfig: what is accepted *)

all_referenced_aliases(p) ==
    Range(p.stages) \cup {p.rules[i].use : i \in DOMAIN p.rules}

Validated(p) == all_referenced_aliases(p) \subseteq DOMAIN p.models

-----------------------------------------------------------------------------
(* Processes *)

Overrides == {{}} \cup {{model} : model \in Overridden}
Steps == {"plan", "replan", "implement", "repair", "review", "fix", "document"}
NoDecision == [step |-> "none"]
Commands == {"idle", "retire", "pipeline"}
NoneOrOne == {{}} \cup {{model} : model \in Models}

TypeOK == /\ project \in DOMAIN routing_yaml
          /\ IsRetirements(retired)
          /\ running \in [Processes -> Commands]
          /\ DOMAIN config = Processes
          /\ \A p \in Processes : IsRetirements(config[p])
          /\ \/ decision = NoDecision
             \/ /\ decision.step \in Steps
                /\ decision.model \in Models \cup {Failed}
          /\ session \in NoneOrOne /\ artifact \in NoneOrOne
          /\ edits \in 0..MaxEdits

Init == /\ project \in {p \in DOMAIN routing_yaml : Validated(routing_yaml[p])}
        /\ retired = NoneRetired
        /\ running = [p \in Processes |-> "idle"]
        /\ config = [p \in Processes |-> NoneRetired]
        /\ decision = NoDecision
        /\ session = {} /\ artifact = {}
        /\ edits = 0

\* A command starts and reads the global configuration.
Start(p) ==
    /\ running[p] = "idle"
    /\ \E command \in Commands \ {"idle"} :
          running' = [running EXCEPT ![p] = command]
    /\ config' = [config EXCEPT ![p] = retired]
    /\ decision' = NoDecision
    /\ UNCHANGED <<project, retired, recorded, edits>>

Stop(p) == /\ running' = [running EXCEPT ![p] = "idle"]
           /\ config' = [config EXCEPT ![p] = NoneRetired]
           /\ decision' = NoDecision

\* It ends: done, refused or killed.
End(p) ==
    /\ running[p] # "idle"
    /\ Stop(p)
    /\ UNCHANGED <<project, retired, recorded, edits>>

\* save_global_config(): the whole file, and the command is done.
Save(p, map) ==
    /\ edits' = edits + 1
    /\ retired' = map
    /\ Stop(p)
    /\ UNCHANGED <<project, recorded>>

With(map, old, new) ==
    [name \in DOMAIN map \cup {old} |-> IF name = old THEN new ELSE map[name]]

\* Mutant of run_retire: no probe.
retire_unprobed(p, old, new) ==
    /\ new \notin Excluded
    /\ Save(p, With(config[p], old, new))

run_retire(p, old, new) ==
    /\ new \notin Excluded
    /\ ~Revisits(old, With(config[p], old, new))
    /\ Save(p, With(config[p], old, new))

remove_retirement(p, old) ==
    /\ old \in DOMAIN config[p]
    /\ Save(p, Restrict(config[p], DOMAIN config[p] \ {old}))

Decide(p, step, profile, user_override, routed) ==
    /\ decision' = [step |-> step, by |-> p, profile |-> profile,
                    user_override |-> user_override,
                    matched_rule |-> routed.matched_rule,
                    role |-> routed.role, model |-> routed.model]
    /\ UNCHANGED <<project, retired, running, config, edits>>

\* Nothing new is recorded when there was no model to use.
Record(old, model) == IF model = Failed THEN old ELSE {model}

\* _route_and_persist(): the profile is the planner's, its stage included.
Implement(p, profile, user_override) ==
    /\ Decide(p, "implement", profile, user_override,
              route(profile, user_override, config[p]))
    /\ artifact' = Record(artifact, decision'.model)
    /\ UNCHANGED session

\* The stage of the profile is replaced.
Review(p, profile, user_override) ==
    /\ profile.stage = "REVIEW"
    /\ Decide(p, "review", profile, user_override,
              route(profile, user_override, config[p]))
    /\ UNCHANGED recorded

Document(p, profile, user_override) ==
    /\ profile.stage = "DOCUMENTATION"
    /\ Decide(p, "document", profile, user_override,
              route(profile, user_override, config[p]))
    /\ UNCHANGED recorded

\* Planning, repair and the fixes of a review do without route().
Take(p, step, alias, model) ==
    Decide(p, step, NoProfile, {}, Routed(Choice("none", alias), model))

\* A turn of the planner: its session may have an id, and be recorded.
Plan(p) ==
    \E stage \in {"planning.default", "planning.architecture"} :
        LET alias == routing.stages[stage]
        IN  /\ Take(p, "plan", alias, resolve(alias, config[p]))
            /\ session' \in {session, Record(session, decision'.model)}
            /\ UNCHANGED artifact

\* PlanningWorkflow.resume goes on with the model of the recorded session, and
\* records it again; what it begins anew with another model is Plan.
ResumePlanning(p) ==
    \E model \in session :
        /\ Take(p, "replan", "recorded", model)
        /\ UNCHANGED recorded

Repair(p) ==
    /\ \E alias \in TierAliases :
          Take(p, "repair", alias, resolve(alias, config[p]))
    /\ UNCHANGED recorded

\* The agent that fixes the findings has the model of the implementation: the
\* one just routed, or, in a run resumed on its changes, the one on disk.
Fix(p) ==
    \E model \in artifact :
        /\ Take(p, "fix", "recorded", model)
        /\ UNCHANGED recorded

Edit(p) == /\ running[p] = "retire"
           /\ edits < MaxEdits
           /\ \/ \E old, new \in Models : run_retire(p, old, new)
              \/ \E old \in Models : remove_retirement(p, old)

\* One decision at a time.
Choose(p) == /\ decision = NoDecision
             /\ running[p] = "pipeline"
             /\ \/ Plan(p)
                \/ ResumePlanning(p)
                \/ Repair(p)
                \/ Fix(p)
                \/ \E profile \in Profiles, user_override \in Overrides :
                      \/ Implement(p, profile, user_override)
                      \/ Review(p, profile, user_override)
                      \/ Document(p, profile, user_override)

\* The agent that was decided on has done its work.
Worked == /\ decision # NoDecision
          /\ decision' = NoDecision
          /\ UNCHANGED <<project, retired, running, config, recorded, edits>>

Next == \/ \E p \in Processes : Start(p) \/ End(p) \/ Edit(p) \/ Choose(p)
        \/ Worked

Spec == Init /\ [][Next]_vars

-----------------------------------------------------------------------------
(* Properties *)

\* In every set of retired names one has a replacement outside the set.
WellFounded(map) ==
    \A names \in SUBSET DOMAIN map : names # {} => ~Closed(names, map)

\* The retirements never contain a cycle, in the file and in what a process
\* goes by, although an editor probes only the one name it adds, and what it
\* probes may no longer be what the file holds.
RetirementsEnd == /\ WellFounded(retired)
                  /\ \A p \in Processes : WellFounded(config[p])

\* What a decision takes over from what the run has recorded.
TakenOver(d) == \/ d.step = "replan" /\ d.model \in session
                \/ d.step = "fix" /\ d.model \in artifact

\* No command fails for want of a model, the model it gets is never an excluded
\* one, however old, and it is not retired, as far as its process knows, unless
\* a resumed run takes over what it has recorded.
RoutedIsCurrent ==
    [][decision' \notin {decision, NoDecision} =>
          /\ decision'.model \in Models \ Excluded
          /\ \/ decision'.model \notin DOMAIN config[decision'.by]
             \/ TakenOver(decision')]_vars

\* The bands of file counts follow one another, the last is open, and more
\* files do not score less.
GradedBands(bands) ==
    /\ bands # <<>> => bands[Len(bands)].max = -1
    /\ \A i \in 1..Len(bands) - 1 : bands[i].max + 1 = bands[i+1].min
    /\ \A i, j \in DOMAIN bands : i < j => /\ bands[i].max \in 0..bands[j].min - 1
                                          /\ bands[i].score <= bands[j].score
    /\ \A i \in DOMAIN bands : bands[i].score >= 0

\* The rules of a project in their usual form: no risk has a negative weight,
\* the lowest level begins with the lowest score, the others do not get the
\* lightest tier, and flags are expected to be set.
Graded ==
    /\ GradedBands(routing.file_count)
    /\ \A flag \in DOMAIN routing.flags : routing.flags[flag] >= 0
    /\ "LOW" \in DOMAIN routing.thresholds => routing.thresholds["LOW"].min <= 0
    /\ \A l \in {"MEDIUM", "HIGH"} :
          HasRule(l) => routing.rules[match_complexity_rule(l)].use #
                           "implementation.lightweight"
    /\ \A flag \in DOMAIN routing.architecture_if : routing.architecture_if[flag]

\* The rules by which the profile's level decides.
ByLevel == {"project rule", "implementation.default-complexity"}

\* How much a choice is worth within its stage.
Strength(choice) ==
    IF \/ choice.matched_rule \in {"planning.default", "review.default"}
       \/ /\ choice.matched_rule \in ByLevel
          /\ choice.role = "implementation.lightweight"
    THEN 0
    ELSE IF choice.matched_rule = "review.deep-escalation" THEN 1 ELSE 2

\* A task with more risks or more files is never given less: the score, its
\* levels, the hard risks and the order of the rules agree.
RiskNeverLowers ==
    /\ Graded
    /\ decision # NoDecision
    /\ decision.step \in {"implement", "review", "document"}
    /\ decision.user_override = {}
    => \A flags \in SUBSET Flags, n \in FileCounts :
          /\ decision.profile.flags \subseteq flags
          /\ decision.profile.estimated_files <= n
          => Strength(decision) <=
                Strength(by_stage([decision.profile EXCEPT !.flags = flags,
                                                           !.estimated_files = n]))
=============================================================================
