------------------------------- MODULE MCRouting -------------------------------
(* Instances of Routing for TLC. *)
EXTENDS Routing, TLC

CONSTANTS luna, sol, opus, terra

\* The default routing.yaml (DEFAULT_MODELS_CONFIG, DEFAULT_ROUTING_RULES,
\* DEFAULT_COMPLEXITY_CONFIG), with the flags of the instance.
Default ==
    [models |-> [alias \in Aliases |->
                    CASE alias = "implementation.lightweight" -> luna
                      [] alias \in {"planner.architecture",
                                    "review.architecture"} -> opus
                      [] OTHER -> sol],
     file_count |-> << [min |-> 1, max |-> 3, score |-> 0],
                       [min |-> 4, max |-> 7, score |-> 1],
                       [min |-> 8, max |-> -1, score |-> 2] >>,
     flags |-> [flag \in Flags |->
                    CASE flag = "schema_change" -> 1
                      [] flag = "concurrency" -> 2
                      [] OTHER -> 3],
     thresholds |-> [l \in {"LOW", "MEDIUM", "HIGH"} |->
                        CASE l = "LOW"    -> [min |-> 0, max |-> 2]
                          [] l = "MEDIUM" -> [min |-> 3, max |-> 5]
                          [] l = "HIGH"   -> [min |-> 6, max |-> -1]],
     stages |-> [stage \in StageRoles |->
                    CASE stage = "planning.default" -> "planner.default"
                      [] stage = "planning.architecture" -> "planner.architecture"
                      [] OTHER -> stage],
     architecture_if_any |-> {"architecture_change"},
     force_standard_if_any |-> {"concurrency"},
     rules |-> << [complexity |-> "LOW", use |-> "implementation.lightweight"],
                  [complexity |-> "MEDIUM", use |-> "implementation.standard"],
                  [complexity |-> "HIGH", use |-> "implementation.standard"] >>,
     deep_if_any |-> {"concurrency"},
     architecture_if |-> [flag \in {"architecture_change"} |-> TRUE]]

\* Another project in the usual form: other bands and weights, a lowest level
\* that begins below the lowest score, none above the second, and rules that
\* repeat a level and leave one out.
Tuned ==
    [Default EXCEPT
        !.file_count = << [min |-> 0, max |-> 3, score |-> 1],
                          [min |-> 4, max |-> 4, score |-> 1],
                          [min |-> 5, max |-> -1, score |-> 3] >>,
        !.flags = [flag \in Flags |-> 1],
        !.thresholds = [l \in {"LOW", "MEDIUM"} |->
                            IF l = "LOW" THEN [min |-> -1, max |-> 2]
                                         ELSE [min |-> 3, max |-> 4]],
        !.rules = << [complexity |-> "LOW", use |-> "implementation.lightweight"],
                     [complexity |-> "HIGH", use |-> "implementation.escalation"],
                     [complexity |-> "HIGH", use |-> "review.deep"] >>,
        !.force_standard_if_any = {}]

\* A rule that names no alias.
Misspelt == [Default EXCEPT !.rules[1].use = "implementation.light"]

Files == [file \in {"default", "tuned", "misspelt"} |->
             CASE file = "default"  -> Default
               [] file = "tuned"    -> Tuned
               [] file = "misspelt" -> Misspelt]
Symmetry == Permutations(Processes)
=============================================================================
