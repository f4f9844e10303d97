--------------------------- MODULE VerificationScope ---------------------------
(***************************************************************************)
(* Which verification groups a set of changed paths calls for: the         *)
(* selection of workflow/verification_scope.py over the `verification:`    *)
(* section of routing.yaml (config/models.py).  A path is an element of a  *)
(* set; what the code reads off its name is given by the constants.        *)
(***************************************************************************)
EXTENDS Naturals, FiniteSets

CONSTANTS
    Paths,          \* paths of the worktree
    Groups,         \* the configured verification groups
    Applicable,     \* those whose detect markers are present
    Position,       \* place of each group in the configuration
    Claims,         \* groups whose scope_paths match a path
    Inside,         \* groups whose working_directory, not ".", contains it
    Depth,          \* number of components of a group's working_directory
    Documentation,  \* paths with a documentation suffix
    RootFiles,      \* paths at the root of the repository
    Supersedes      \* groups a group declares to cover

Acyclic(R) == \A S \in SUBSET Groups :
                 S # {} => \E g \in S : R[g] \cap S = {}

ASSUME ScopeAssumption ==
    /\ IsFiniteSet(Groups)
    /\ Applicable \subseteq Groups
    /\ Position \in [Groups -> Nat]
    /\ \A g, h \in Groups : Position[g] = Position[h] => g = h
    /\ Claims \in [Paths -> SUBSET Applicable]
    /\ Inside \in [Paths -> SUBSET Applicable]
    /\ Depth \in [Groups -> Nat]
    /\ Documentation \subseteq Paths
    /\ RootFiles \subseteq Paths
    /\ Supersedes \in [Groups -> SUBSET Groups]

\* _validate_verification_overlap refuses cycles; detection is not part of it.
ASSUME OverlapAssumption == Acyclic(Supersedes)

-----------------------------------------------------------------------------
(* One path *)

\* The deepest working directories that contain the path.
Owners(path) ==
    {g \in Inside[path] : \A h \in Inside[path] : Depth[h] <= Depth[g]}

\* Mutant: an explicit mapping replaces the owner of the path.
ClaimsOrOwners ==
    [path \in Paths |->
        IF Claims[path] # {} THEN Claims[path] ELSE Owners(path)]

Matches == [path \in Paths |-> Claims[path] \cup Owners(path)]

\* Documentation nobody claims selects nothing.
Prose == {path \in Documentation : Claims[path] = {}}

\* A file at the root or in no group's directory may matter to every group.
Shared == {path \in Paths \ Prose :
              \/ path \in RootFiles /\ Claims[path] = {}
              \/ Matches[path] = {}}

-----------------------------------------------------------------------------
(* A set of paths *)

Broad(paths, reliable) == ~reliable \/ paths = {} \/ paths \cap Shared # {}

Selected(paths, reliable) ==
    IF Broad(paths, reliable)
      THEN Applicable
      ELSE UNION {Matches[path] : path \in paths \ Prose}

\* The groups g covers, directly or through groups it covers: the smallest set
\* that holds what g supersedes and is closed under it.
Covered ==
    [g \in Groups |->
        {h \in Groups :
            \A S \in SUBSET Groups :
                /\ Supersedes[g] \subseteq S
                /\ \A x \in S : Supersedes[x] \subseteq S
                => h \in S}]

\* Mutant of select_groups: whoever is covered is suppressed, whether or not
\* the group that covers it is selected.
select_uncovered(paths, reliable) ==
    {g \in Selected(paths, reliable) : \A h \in Groups : g \notin Covered[h]}

\* select_groups(): a selected group that another selected group covers is
\* suppressed.
select_groups(paths, reliable) ==
    LET selected == Selected(paths, reliable)
    IN  {g \in selected : \A h \in selected : g \notin Covered[h]}

\* The paths a group's pass depends on: those that select it by themselves or
\* select a group it stands in for.
Inputs ==
    [g \in Groups |->
        {path \in Paths :
            Selected({path}, TRUE) \cap (Covered[g] \cup {g}) # {}}]
=============================================================================
