-------------------------- MODULE QualityGatesProofs --------------------------
(***************************************************************************)
(* Proofs about QualityGates, for every configuration of groups and paths, *)
(* every limit and every answer of agents, commands and git.               *)
(***************************************************************************)
EXTENDS QualityGates, FiniteSetTheorems, WellFoundedInduction, TLAPS

-----------------------------------------------------------------------------
(* The repair loop is bounded *)

Escalations == IF escalation_attempted THEN 1 ELSE 0

\* Between two attempts, every repair so far has been counted by its tier.
Counted == repairs = lightweight_failed + standard_failed + Escalations

\* During an attempt the current one is not counted yet, and there is room for
\* it; an escalation is counted when it starts.
Attempting ==
    \/ /\ tier = "LIGHTWEIGHT"
       /\ lightweight_failed < lightweight_verification_failures
       /\ repairs = lightweight_failed + standard_failed + Escalations + 1
    \/ /\ tier = "STANDARD"
       /\ standard_failed < standard_failures
       /\ repairs = lightweight_failed + standard_failed + Escalations + 1
    \/ /\ tier = "ESCALATION"
       /\ escalation_attempted
       /\ Counted

RepairInv ==
    /\ lightweight_failed \in 0..lightweight_verification_failures
    /\ standard_failed \in 0..standard_failures
    /\ escalation_attempted \in BOOLEAN
    /\ repairs \in Nat
    /\ RepairsBounded
    /\ pc \in {"VERIFYING", "failed"} => Counted
    /\ pc \in {"REPAIRING", "reverify"} => Attempting

LEMMA RepairInit == Init => RepairInv
  <1> SUFFICES ASSUME Init PROVE RepairInv
    OBVIOUS
  <1> USE LimitsAssumption DEF Init
  <1>1. Counted
    BY DEF Counted, Escalations
  <1>2. RepairsBounded
    BY DEF RepairsBounded
  <1>3. /\ lightweight_failed \in 0..lightweight_verification_failures
        /\ standard_failed \in 0..standard_failures
        /\ repairs \in Nat
    OBVIOUS
  <1>4. escalation_attempted \in BOOLEAN
    OBVIOUS
  <1>5. pc \notin {"REPAIRING", "reverify"}
    OBVIOUS
  <1> QED
    BY <1>1, <1>2, <1>3, <1>4, <1>5, Zenon DEF RepairInv

LEMMA RepairStep == RepairInv /\ [Next]_vars => RepairInv'
  <1> SUFFICES ASSUME RepairInv, [Next]_vars PROVE RepairInv'
    OBVIOUS
  <1> USE LimitsAssumption
      DEF RepairInv, RepairsBounded, Counted, Escalations, Attempting, At, GoTo
  <1>1. CASE Verify
    BY <1>1 DEF Verify, repairVars
  <1>2. CASE Unrepairable
    BY <1>2 DEF Unrepairable, repairVars
  <1>3. CASE Reproduce
    BY <1>3 DEF Reproduce, repairVars
  <1>4. CASE RepairLightweight
    BY <1>4 DEF RepairLightweight, StartRepair, Repairable
  <1>5. CASE RepairStandard
    BY <1>5 DEF RepairStandard, StartRepair, Repairable
  <1>6. CASE Escalate
    <2>1. Counted /\ ~escalation_attempted
      BY <1>6 DEF Escalate, Repairable
    <2>2. /\ tier' = "ESCALATION" /\ escalation_attempted' /\ pc' = "REPAIRING"
          /\ repairs' = repairs + 1
          /\ UNCHANGED <<lightweight_failed, standard_failed>>
      BY <1>6 DEF Escalate, StartRepair
    <2>3. repairs' = lightweight_failed' + standard_failed' + 1
      BY <2>1, <2>2
    <2> QED
      BY <1>6, <2>2, <2>3 DEF Escalate, StartRepair
  <1>7. CASE Exhausted
    BY <1>7 DEF Exhausted, Repairable, repairVars
  <1>8. CASE Reverify
    <2>1. Attempting
      BY <1>8 DEF Reverify
    <2>2. CASE LoopIsOver /\ pc' = "REVIEWING"
      <3>1. escalation_attempted' \in BOOLEAN
        BY <2>2, Zenon DEF LoopIsOver
      <3>2. /\ lightweight_failed' \in 0..lightweight_verification_failures
            /\ standard_failed' \in 0..standard_failures
            /\ repairs' \in Nat
            /\ RepairsBounded'
        BY <2>2 DEF LoopIsOver
      <3>3. pc' \notin {"VERIFYING", "failed", "REPAIRING", "reverify"}
        BY <2>2
      <3> QED
        BY <3>1, <3>2, <3>3
    <2>3. CASE /\ pc' = "failed" /\ CountFailure
               /\ UNCHANGED <<escalation_attempted, tier, repairs>>
      BY <2>1, <2>3 DEF CountFailure
    <2> QED
      BY <1>8, <2>2, <2>3 DEF Reverify
  <1>9. CASE Agents
    BY <1>9 DEF Agents, RepairAgent, FixAgent, DocumentationAgent, AgentWorks,
                repairVars
  <1>10. CASE Review \/ AfterReview
    BY <1>10 DEF Review, AfterReview, repairVars
  <1>11. CASE ReverifyFix \/ ReverifyDocs
    BY <1>11 DEF ReverifyFix, ReverifyDocs, repairVars
  <1>12. CASE UNCHANGED vars
    BY <1>12 DEF vars, gateVars, repairVars
  <1> QED
    BY <1>1, <1>2, <1>3, <1>4, <1>5, <1>6, <1>7, <1>8, <1>9, <1>10, <1>11,
       <1>12 DEF Next, Repairing

\* The loop starts at most one repair agent per permitted failure of the two
\* lower tiers, and one escalation.
THEOREM RepairLoopIsBounded == Spec => []RepairsBounded
  <1>1. RepairInv => RepairsBounded
    BY DEF RepairInv
  <1> QED
    BY RepairInit, RepairStep, <1>1, PTL DEF Spec

-----------------------------------------------------------------------------
(* Nothing is ready for approval unverified *)

\* From a successful pass to the next edit.
VerifiedGates == {"REVIEWING", "REVIEW_APPROVED", "DOCUMENTING",
                  "READY_FOR_APPROVAL"}

VerifiedInv == pc \in VerifiedGates => content = snapshot.files /\ Success

\* A pass looks at the files it runs on and leaves them alone.
LEMMA FullPassSeesAll == FullPass => content' = snapshot'.files
  BY DEF FullPass, RunPass, Snapshot

LEMMA IncrementalPassSeesAll == IncrementalPass => content' = snapshot'.files
  BY DEF IncrementalPass, RunIncremental, Snapshot

LEMMA VerifiedStep == VerifiedInv /\ [Next]_vars => VerifiedInv'
  <1> SUFFICES ASSUME VerifiedInv, [Next]_vars PROVE VerifiedInv'
    OBVIOUS
  <1> USE DEF VerifiedInv, VerifiedGates, At, GoTo
  <1>1. CASE Verify
    BY <1>1, FullPassSeesAll DEF Verify
  <1>2. CASE Unrepairable \/ Exhausted
    BY <1>2 DEF Unrepairable, Exhausted
  <1>3. CASE Reproduce
    BY <1>3 DEF Reproduce, Success
  <1>4. CASE RepairLightweight \/ RepairStandard \/ Escalate
    BY <1>4 DEF RepairLightweight, RepairStandard, Escalate, StartRepair
  <1>5. CASE Reverify
    BY <1>5, IncrementalPassSeesAll DEF Reverify
  <1>6. CASE Agents
    BY <1>6 DEF Agents, RepairAgent, FixAgent, DocumentationAgent, AgentWorks
  <1>7. CASE Review \/ AfterReview
    BY <1>7 DEF Review, AfterReview, runnerVars, Success
  <1>8. CASE ReverifyFix \/ ReverifyDocs
    BY <1>8, IncrementalPassSeesAll DEF ReverifyFix, ReverifyDocs
  <1>9. CASE UNCHANGED vars
    BY <1>9 DEF vars, gateVars, runnerVars, Success
  <1> QED
    BY <1>1, <1>2, <1>3, <1>4, <1>5, <1>6, <1>7, <1>8, <1>9 DEF Next, Repairing

\* What the user is asked to approve has not been edited since the last pass,
\* and that pass succeeded.
THEOREM NothingReadyUnverified == Spec => []ReadyIsVerified
  <1>1. Init => VerifiedInv
    BY DEF Init, VerifiedInv, VerifiedGates
  <1>2. VerifiedInv => ReadyIsVerified
    BY DEF VerifiedInv, VerifiedGates, ReadyIsVerified, At
  <1> QED
    BY <1>1, VerifiedStep, <1>2, PTL DEF Spec

-----------------------------------------------------------------------------
(* Edited inputs are run again *)

LEMMA MatchesApplicable ==
  \A path \in Paths : Matches[path] \subseteq Applicable
  BY ScopeAssumption DEF Matches, Owners

LEMMA SelectedApplicable ==
  ASSUME NEW paths \in SUBSET Paths, NEW reliable
  PROVE  Selected(paths, reliable) \subseteq Applicable
  BY MatchesApplicable DEF Selected

\* The groups a path calls for by itself are called for by every set of paths
\* that contains it.
LEMMA SelectionGrows ==
  ASSUME NEW paths \in SUBSET Paths, NEW path \in paths
  PROVE  Selected({path}, TRUE) \subseteq Selected(paths, TRUE)
  <1>1. Selected({path}, TRUE) \subseteq Applicable
    BY SelectedApplicable
  <1>2. CASE Broad(paths, TRUE)
    BY <1>1, <1>2 DEF Selected
  <1>3. CASE ~Broad(paths, TRUE)
    <2>1. ~Broad({path}, TRUE)
      BY <1>3 DEF Broad
    <2> QED
      BY <1>3, <2>1 DEF Selected
  <1> QED
    BY <1>2, <1>3

\* An edit of one of its inputs selects a group that stands alone.
LEMMA EditSelects ==
  ASSUME NEW paths \in SUBSET Paths, NEW g \in Groups, StandsAlone(g),
         Inputs[g] \cap paths # {}
  PROVE  g \in select_groups(paths, TRUE)
  <1>1. PICK path \in paths : path \in Inputs[g]
    OBVIOUS
  <1>2. Covered[g] = {}
    BY DEF Covered, StandsAlone
  <1>3. g \in Selected({path}, TRUE)
    BY <1>1, <1>2 DEF Inputs
  <1>4. g \in Selected(paths, TRUE)
    BY <1>3, SelectionGrows
  <1>5. \A h \in Selected(paths, TRUE) : g \notin Covered[h]
    BY SelectedApplicable, ScopeAssumption DEF StandsAlone
  <1> QED
    BY <1>4, <1>5 DEF select_groups

LEMMA SelectedAreGroups ==
  ASSUME NEW paths \in SUBSET Paths, NEW reliable
  PROVE  select_groups(paths, reliable) \subseteq Groups
  BY SelectedApplicable, ScopeAssumption DEF select_groups

\* A pass that succeeds has passed everything it was to run.
LEMMA SuccessPassesAll ==
  ASSUME NEW required \in SUBSET Groups, NEW force, NEW retained, NEW last,
         Execute(required, force, retained, last), Success',
         NEW g \in required, g \in force \/ retained[g] # "pass"
  PROVE  passed_on'[g] = InputsOf(g, content)
  BY NoGroupAssumption DEF Execute, Success

LEMMA FullPassRunsAll ==
  ASSUME FullPass, Success', NEW g \in selection'
  PROVE  passed_on'[g] = InputsOf(g, content)
  <1>1. PICK reliable \in BOOLEAN : RunPass(reliable)
    BY DEF FullPass
  <1> DEFINE required == select_groups(PathsOf(Snapshot(reliable)), reliable)
             retained == [h \in Groups |-> "none"]
  <1>2. required \subseteq Groups
    BY SelectedAreGroups DEF PathsOf
  <1>3. Execute(required, {}, retained, NoGroup)
    BY <1>1 DEF RunPass
  <1>4. selection' = required
    BY <1>3 DEF Execute
  <1>5. retained[g] # "pass"
    BY <1>2, <1>4
  <1> HIDE DEF required, retained
  <1> QED
    BY <1>2, <1>3, <1>4, <1>5, SuccessPassesAll

LEMMA IncrementalPassRunsEdited ==
  ASSUME IncrementalPass, Success', NEW g \in selection', StandsAlone(g),
         Inputs[g] \cap Edited # {}
  PROVE  passed_on'[g] = InputsOf(g, content)
  <1>1. PICK reliable \in BOOLEAN : RunIncremental(reliable)
    BY DEF IncrementalPass
  <1> DEFINE now == Snapshot(reliable)
             required == select_groups(PathsOf(now), reliable)
             force == GroupsToRerun(now)
  <1>2. required \subseteq Groups
    BY SelectedAreGroups DEF PathsOf
  <1>3. Execute(required, force, results, last_failed)
    BY <1>1 DEF RunIncremental
  <1>4. selection' = required
    BY <1>3 DEF Execute
  <1>5. g \in force
    <2>1. now.reliable = reliable /\ now.files = content
      BY DEF Snapshot
    <2>2. CASE reliable /\ snapshot.reliable
      <3>1. ChangedSince(now) = Edited
        BY <2>1, <2>2 DEF ChangedSince, Edited
      <3>2. g \in select_groups(Edited, TRUE)
        BY <1>2, <1>4, EditSelects DEF Edited
      <3> QED
        BY <2>1, <2>2, <3>1, <3>2 DEF GroupsToRerun
    <2>3. CASE ~(reliable /\ snapshot.reliable)
      BY <1>4, <2>1, <2>3 DEF GroupsToRerun
    <2> QED
      BY <2>2, <2>3
  <1> HIDE DEF required, force
  <1> QED
    BY <1>2, <1>3, <1>4, <1>5, SuccessPassesAll

\* Every step but a pass leaves the snapshot alone.
LEMMA OnlyPassesLook ==
  ASSUME [Next]_vars, snapshot' # snapshot
  PROVE  FullPass \/ IncrementalPass
  <1>1. CASE Verify \/ Reverify \/ ReverifyFix \/ ReverifyDocs
    BY <1>1 DEF Verify, Reverify, ReverifyFix, ReverifyDocs
  <1>2. CASE Unrepairable \/ Reproduce \/ Exhausted
    BY <1>2 DEF Unrepairable, Reproduce, Exhausted, runnerVars
  <1>3. CASE RepairLightweight \/ RepairStandard \/ Escalate
    BY <1>3 DEF RepairLightweight, RepairStandard, Escalate, StartRepair,
                runnerVars
  <1>4. CASE Agents
    BY <1>4 DEF Agents, RepairAgent, FixAgent, DocumentationAgent, AgentWorks,
                EditTree
  <1>5. CASE Review \/ AfterReview \/ UNCHANGED vars
    BY <1>5 DEF Review, AfterReview, vars, runnerVars
  <1> QED
    BY <1>1, <1>2, <1>3, <1>4, <1>5 DEF Next, Repairing

\* A successful pass has run every stand-alone group it needs whose inputs were
\* edited since the pass before.
THEOREM EditedGroupsRunAgain == Spec => EditedRunsAgain
  <1>1. [Next]_vars =>
          [snapshot' # snapshot /\ Success' =>
             \A g \in selection' :
                 StandsAlone(g) /\ Inputs[g] \cap Edited # {}
                    => passed_on'[g] = InputsOf(g, content)]_vars
    BY OnlyPassesLook, FullPassRunsAll, IncrementalPassRunsEdited
  <1> QED
    BY <1>1, PTL DEF Spec, EditedRunsAgain

-----------------------------------------------------------------------------
(* Covers *)

\* The groups of some set that cover g.
CoversOf(g, groups) == {h \in groups : g \in Covered[h]}

LEMMA CoveredIsLeast ==
  ASSUME NEW g \in Groups, NEW S \in SUBSET Groups,
         Supersedes[g] \subseteq S, \A x \in S : Supersedes[x] \subseteq S
  PROVE  Covered[g] \subseteq S
  BY DEF Covered

LEMMA CoveredIsClosed ==
  ASSUME NEW g \in Groups
  PROVE  /\ Covered[g] \subseteq Groups
         /\ Supersedes[g] \subseteq Covered[g]
         /\ \A x \in Covered[g] : Supersedes[x] \subseteq Covered[g]
  BY ScopeAssumption DEF Covered

LEMMA CoveredIsTransitive ==
  ASSUME NEW g \in Groups, NEW h \in Covered[g]
  PROVE  Covered[h] \subseteq Covered[g]
  BY CoveredIsClosed, CoveredIsLeast

\* What is covered is superseded, or covered by something that is.
LEMMA CoveredByStep ==
  ASSUME NEW g \in Groups, NEW h \in Covered[g]
  PROVE  \E x \in Supersedes[g] : h = x \/ h \in Covered[x]
  <1> DEFINE S == {y \in Groups :
                    \E x \in Supersedes[g] : y = x \/ y \in Covered[x]}
  <1>1. Supersedes[g] \subseteq Groups
    BY ScopeAssumption
  <1>2. Supersedes[g] \subseteq S
    BY <1>1
  <1>3. ASSUME NEW y \in S PROVE Supersedes[y] \subseteq S
    <2>1. PICK x \in Supersedes[g] : y = x \/ y \in Covered[x]
      OBVIOUS
    <2>2. Supersedes[y] \subseteq Covered[x]
      BY <1>1, <2>1, CoveredIsClosed
    <2> QED
      BY <1>1, <2>1, <2>2, CoveredIsClosed
  <1> HIDE DEF S
  <1>4. S \in SUBSET Groups
    BY DEF S
  <1>5. Covered[g] \subseteq S
    BY <1>2, <1>3, <1>4, CoveredIsLeast
  <1> QED
    BY <1>5 DEF S

\* No group covers itself, as the configuration has no cycle: of a cycle every
\* group supersedes another.
LEMMA NobodyCoversItself ==
  ASSUME NEW g \in Groups
  PROVE  g \notin Covered[g]
  <1> SUFFICES ASSUME g \in Covered[g] PROVE FALSE
    OBVIOUS
  <1> DEFINE S == {h \in Covered[g] : g \in Covered[h]}
  <1>1. S \in SUBSET Groups /\ S # {}
    BY CoveredIsClosed
  <1>2. PICK h \in S : Supersedes[h] \cap S = {}
    BY <1>1, OverlapAssumption DEF Acyclic
  <1>3. h \in Groups
    BY <1>1
  <1>4. PICK x \in Supersedes[h] : g = x \/ g \in Covered[x]
    BY <1>3, CoveredByStep
  <1>5. x \in Covered[g]
    BY CoveredIsClosed
  <1>6. x \in S
    BY <1>4, <1>5
  <1> QED
    BY <1>2, <1>6

\* Who covers a cover covers what that covers, and the cover itself is one
\* less.
LEMMA FewerCovers ==
  ASSUME NEW groups \in SUBSET Groups, NEW g \in Groups,
         NEW h \in CoversOf(g, groups)
  PROVE  /\ CoversOf(h, groups) \subseteq CoversOf(g, groups)
         /\ Cardinality(CoversOf(h, groups)) \in Nat
         /\ Cardinality(CoversOf(g, groups)) \in Nat
         /\ Cardinality(CoversOf(h, groups)) < Cardinality(CoversOf(g, groups))
  <1>1. h \in Groups /\ g \in Covered[h]
    BY DEF CoversOf
  <1>2. CoversOf(h, groups) \subseteq CoversOf(g, groups)
    BY <1>1, CoveredIsTransitive DEF CoversOf
  <1>3. h \notin CoversOf(h, groups)
    BY <1>1, NobodyCoversItself DEF CoversOf
  <1>4. IsFiniteSet(CoversOf(g, groups)) /\ IsFiniteSet(CoversOf(h, groups))
    BY ScopeAssumption, FS_Subset DEF CoversOf
  <1>5. CoversOf(h, groups) # CoversOf(g, groups)
    BY <1>3
  <1> QED
    BY <1>2, <1>4, <1>5, FS_Subset, FS_CardinalityType

LEMMA LeastNumber ==
  ASSUME NEW T \in SUBSET Nat, T # {}
  PROVE  \E n \in T : \A m \in T : n <= m
  <1>1. PICK n \in T : \A m \in T : <<m, n>> \notin OpToRel(<, Nat)
    BY NatLessThanWellFounded, WFMin, Zenon
  <1>2. \A m \in T : <<m, n>> \in Nat \X Nat
    OBVIOUS
  <1>3. \A m \in T : ~(m < n)
    BY <1>1, <1>2, Zenon DEF OpToRel
  <1>4. \A m \in T : m \in Nat
    OBVIOUS
  <1>5. \A m \in T : n <= m
    BY <1>3, <1>4
  <1> QED
    BY <1>5

\* Whatever was changed and however covers are declared, in chains or several
\* for one group: a selected group that select_groups suppresses is covered by
\* one that it does not.
THEOREM SuppressedIsCovered ==
  ASSUME NEW paths \in SUBSET Paths, NEW reliable,
         NEW g \in Selected(paths, reliable)
  PROVE  \E h \in select_groups(paths, reliable) : g = h \/ g \in Covered[h]
  <1> DEFINE selected == Selected(paths, reliable)
             Best == {h \in selected : g = h \/ g \in Covered[h]}
             size(h) == Cardinality(CoversOf(h, selected))
             Sizes == {size(h) : h \in Best}
  <1>1. selected \in SUBSET Groups /\ g \in selected
    BY SelectedApplicable, ScopeAssumption
  <1> HIDE DEF selected
  <1>2. \A h \in selected : IsFiniteSet(CoversOf(h, selected))
    BY <1>1, ScopeAssumption, FS_Subset DEF CoversOf
  <1>3. \A h \in selected : size(h) \in Nat
    BY <1>2, FS_CardinalityType
  <1>4. Sizes \in SUBSET Nat /\ Sizes # {}
    BY <1>1, <1>3
  <1>5. PICK n \in Sizes : \A m \in Sizes : n <= m
    BY <1>4, LeastNumber
  <1>6. PICK h \in Best : size(h) = n
    BY <1>5
  <1>7. ASSUME NEW k \in selected, h \in Covered[k] PROVE FALSE
    <2>1. k \in CoversOf(h, selected) /\ h \in Groups
      BY <1>1, <1>7 DEF CoversOf
    <2>2. size(k) < size(h) /\ size(k) \in Nat /\ size(h) \in Nat
      BY <1>1, <2>1, FewerCovers
    <2>3. k \in Best
      BY <1>1, <1>7, CoveredIsTransitive
    <2>4. size(h) <= size(k)
      BY <1>5, <1>6, <2>3
    <2> QED
      BY <2>2, <2>4
  <1>8. h \in select_groups(paths, reliable)
    BY <1>7 DEF select_groups, selected
  <1> QED
    BY <1>8

\* A pass that succeeds has a pass for everything it was to run.
LEMMA SuccessMeansPassed ==
  ASSUME NEW required \in SUBSET Groups, NEW force, NEW retained, NEW last,
         Execute(required, force, retained, last), Success',
         NEW g \in required
  PROVE  results'[g] = "pass"
  BY NoGroupAssumption DEF Execute, Success

Answered ==
  \A g \in Selected(PathsOf(snapshot), snapshot.reliable) :
     \E h \in selection : /\ g = h \/ g \in Covered[h]
                          /\ results[h] = "pass"

LEMMA PassAnswers ==
  ASSUME FullPass \/ IncrementalPass, Success'
  PROVE  Answered'
  <1>1. PICK reliable \in BOOLEAN :
           RunPass(reliable) \/ RunIncremental(reliable)
    BY DEF FullPass, IncrementalPass
  <1> DEFINE now == Snapshot(reliable)
             paths == PathsOf(now)
             required == select_groups(paths, reliable)
  <1>2. PICK force, retained, last : Execute(required, force, retained, last)
    BY <1>1 DEF RunPass, RunIncremental
  <1>3. snapshot' = now /\ now.reliable = reliable
    BY <1>1 DEF RunPass, RunIncremental, Snapshot
  <1>4. PathsOf(snapshot)' = paths
    BY <1>3 DEF PathsOf
  <1>5. paths \in SUBSET Paths
    BY DEF PathsOf
  <1>6. required \in SUBSET Groups
    BY <1>5, SelectedAreGroups
  <1>7. selection' = required
    BY <1>2 DEF Execute
  <1> HIDE DEF required, paths, now
  <1>8. \A h \in required : results'[h] = "pass"
    BY <1>2, <1>6, SuccessMeansPassed
  <1>9. \A g \in Selected(paths, reliable) :
           \E h \in required : g = h \/ g \in Covered[h]
    BY <1>5, SuppressedIsCovered DEF required
  <1> QED
    BY <1>3, <1>4, <1>7, <1>8, <1>9 DEF Answered

AnsweredInv == pc \in VerifiedGates => Answered

LEMMA AnsweredStep == VerifiedInv /\ AnsweredInv /\ [Next]_vars => AnsweredInv'
  <1> SUFFICES ASSUME VerifiedInv, AnsweredInv, [Next]_vars PROVE AnsweredInv'
    OBVIOUS
  <1> USE DEF AnsweredInv, VerifiedGates, At, GoTo
  <1>1. CASE Verify
    BY <1>1, PassAnswers DEF Verify
  <1>2. CASE Unrepairable \/ Reproduce \/ Exhausted
    BY <1>2 DEF Unrepairable, Reproduce, Exhausted
  <1>3. CASE RepairLightweight \/ RepairStandard \/ Escalate
    BY <1>3 DEF RepairLightweight, RepairStandard, Escalate, StartRepair
  <1>4. CASE Reverify
    BY <1>4, PassAnswers DEF Reverify
  <1>5. CASE Agents
    BY <1>5 DEF Agents, RepairAgent, FixAgent, DocumentationAgent, AgentWorks
  <1>6. CASE Review \/ AfterReview
    BY <1>6 DEF Review, AfterReview, runnerVars, Answered, PathsOf
  <1>7. CASE ReverifyFix \/ ReverifyDocs
    BY <1>7, PassAnswers DEF ReverifyFix, ReverifyDocs
  <1>8. CASE UNCHANGED vars
    BY <1>8 DEF vars, gateVars, runnerVars, Answered, PathsOf
  <1> QED
    BY <1>1, <1>2, <1>3, <1>4, <1>5, <1>6, <1>7, <1>8 DEF Next, Repairing

\* Before the user is asked, every group the last pass called for has passed,
\* or one that covers it and was run.
THEOREM EveryoneIsAnswered == Spec => []NobodyIsSkipped
  <1>1. Init => VerifiedInv /\ AnsweredInv
    BY DEF Init, VerifiedInv, AnsweredInv, VerifiedGates
  <1>2. AnsweredInv => NobodyIsSkipped
    BY DEF AnsweredInv, VerifiedGates, NobodyIsSkipped, Answered, At
  <1> QED
    BY <1>1, VerifiedStep, AnsweredStep, <1>2, PTL DEF Spec

-----------------------------------------------------------------------------
(* Type correctness *)

LEMMA PassKeepsTypes ==
  ASSUME NEW reliable \in BOOLEAN, RunnerTypeOK,
         RunPass(reliable) \/ RunIncremental(reliable)
  PROVE  RunnerTypeOK'
  <1> DEFINE now == Snapshot(reliable)
             required == select_groups(PathsOf(now), reliable)
  <1>1. required \subseteq Applicable /\ required \subseteq Groups
    BY SelectedApplicable, ScopeAssumption DEF PathsOf, select_groups
  <1>2. content' = content /\ snapshot' = now /\ reproduced' \subseteq Groups
    BY DEF RunPass, RunIncremental, RunnerTypeOK
  <1>3. PICK force, retained, last :
          /\ retained \in [Groups -> Outcomes]
          /\ Execute(required, force, retained, last)
    <2>1. [g \in Groups |-> "none"] \in [Groups -> Outcomes]
      BY DEF Outcomes
    <2> HIDE DEF required
    <2>2. CASE RunPass(reliable)
      BY <2>1, <2>2 DEF RunPass, required
    <2>3. CASE RunIncremental(reliable)
      BY <2>3 DEF RunIncremental, RunnerTypeOK, required
    <2> QED
      BY <2>2, <2>3
  <1> HIDE DEF required
  <1>4. selection' = required
    BY <1>3 DEF Execute
  <1>5. results' \in [Groups -> Outcomes] /\ last_failed' \in Groups \cup {NoGroup}
    BY <1>1, <1>3 DEF Execute, Outcomes
  <1>6. \A g \in Groups : passed_on'[g] \in [Inputs[g] -> Contents]
    <2>1. \A g \in Groups : InputsOf(g, content) \in [Inputs[g] -> Contents]
      BY DEF InputsOf, RunnerTypeOK, Files, Inputs
    <2> QED
      BY <1>3, <2>1 DEF Execute, RunnerTypeOK
  <1>7. now \in [files : Files, reliable : BOOLEAN]
    BY DEF Snapshot, RunnerTypeOK
  <1> QED
    BY <1>1, <1>2, <1>4, <1>5, <1>6, <1>7 DEF RunnerTypeOK

\* A fix is started only with an attempt left; the repair loop is entered only
\* with a group that failed.
GateInv == /\ pc = "REVIEW_FIXING" => fix_attempts < review_fix_cycles
           /\ pc = "failed" => ~Success

LEMMA GateStep == GateInv /\ [Next]_vars => GateInv'
  <1> SUFFICES ASSUME GateInv, [Next]_vars PROVE GateInv'
    OBVIOUS
  <1> USE DEF GateInv, At, GoTo
  <1>1. CASE Verify \/ Reverify
    BY <1>1 DEF Verify, Reverify
  <1>2. CASE Unrepairable \/ Exhausted
    BY <1>2 DEF Unrepairable, Exhausted
  <1>3. CASE Reproduce
    BY <1>3 DEF Reproduce, Success
  <1>4. CASE RepairLightweight \/ RepairStandard \/ Escalate
    BY <1>4 DEF RepairLightweight, RepairStandard, Escalate, StartRepair
  <1>5. CASE Agents
    BY <1>5 DEF Agents, RepairAgent, FixAgent, DocumentationAgent, AgentWorks
  <1>6. CASE Review \/ AfterReview
    BY <1>6 DEF Review, AfterReview
  <1>7. CASE ReverifyFix \/ ReverifyDocs
    BY <1>7 DEF ReverifyFix, ReverifyDocs
  <1>8. CASE UNCHANGED vars
    BY <1>8 DEF vars, gateVars, runnerVars, Success
  <1> QED
    BY <1>1, <1>2, <1>3, <1>4, <1>5, <1>6, <1>7, <1>8 DEF Next, Repairing

LEMMA TypeStep == TypeOK /\ RepairInv /\ GateInv /\ [Next]_vars => TypeOK'
  <1> SUFFICES ASSUME TypeOK, RepairInv, GateInv, [Next]_vars PROVE TypeOK'
    OBVIOUS
  <1> DEFINE Others == /\ pc \in Gates
                       /\ reproduction \in {"none", "pass", "fail"}
                       /\ tier \in RepairTier
                       /\ fix_attempts \in 0..review_fix_cycles
  <1>1. RunnerTypeOK' /\ Others'
    <2> USE DEF TypeOK, At, GoTo, Gates, RepairTier
    <2>1. CASE Verify
      BY <2>1, PassKeepsTypes DEF Verify, FullPass, repairVars
    <2>2. CASE Unrepairable \/ Exhausted
      BY <2>2 DEF Unrepairable, Exhausted, runnerVars, repairVars, RunnerTypeOK
    <2>3. CASE Reproduce
      <3>1. last_failed \in Groups
        BY <2>3 DEF Reproduce, GateInv, Success, RunnerTypeOK
      <3> QED
        BY <2>3, <3>1 DEF Reproduce, runnerVars, repairVars, RunnerTypeOK
    <2>4. CASE RepairLightweight \/ RepairStandard \/ Escalate
      BY <2>4 DEF RepairLightweight, RepairStandard, Escalate, StartRepair,
                  runnerVars, RunnerTypeOK
    <2>5. CASE Reverify
      BY <2>5, PassKeepsTypes DEF Reverify, IncrementalPass, LoopIsOver
    <2>6. CASE Agents
      <3>1. fix_attempts' \in 0..review_fix_cycles
        BY <2>6, LimitsAssumption DEF Agents, RepairAgent, FixAgent,
           DocumentationAgent, AgentWorks, GateInv
      <3> QED
        BY <2>6, <3>1 DEF Agents, RepairAgent, FixAgent, DocumentationAgent,
                          AgentWorks, EditTree, RunnerTypeOK, repairVars
    <2>7. CASE Review \/ AfterReview
      BY <2>7 DEF Review, AfterReview, runnerVars, repairVars, RunnerTypeOK
    <2>8. CASE ReverifyFix \/ ReverifyDocs
      BY <2>8, PassKeepsTypes DEF ReverifyFix, ReverifyDocs, IncrementalPass,
                                  repairVars
    <2>9. CASE UNCHANGED vars
      BY <2>9 DEF vars, gateVars, repairVars, runnerVars, RunnerTypeOK
    <2> QED
      BY <2>1, <2>2, <2>3, <2>4, <2>5, <2>6, <2>7, <2>8, <2>9
      DEF Next, Repairing
  <1>2. RepairInv'
    BY RepairStep
  <1> QED
    BY <1>1, <1>2 DEF TypeOK, RepairInv

\* Every variable has its type, the counters among them: no limit is exceeded.
THEOREM TypeCorrect == Spec => []TypeOK
  <1>1. Init => TypeOK
    <2> SUFFICES ASSUME Init PROVE TypeOK
      OBVIOUS
    <2>1. RunnerTypeOK
      <3>1. /\ snapshot \in [files : Files, reliable : BOOLEAN]
            /\ content \in Files
        BY DEF Init, RunnerInit
      <3>2. \A g \in Groups : passed_on[g] \in [Inputs[g] -> Contents]
        BY ContentAssumption DEF Init, RunnerInit
      <3> QED
        BY <3>1, <3>2 DEF Init, RunnerInit, RunnerTypeOK, Outcomes
    <2>2. RepairInv
      BY RepairInit
    <2> QED
      BY <2>1, <2>2, LimitsAssumption
      DEF Init, TypeOK, RepairInv, Gates, RepairTier
  <1>2. Init => GateInv
    BY DEF Init, GateInv
  <1> QED
    BY <1>1, <1>2, RepairInit, RepairStep, GateStep, TypeStep, PTL DEF Spec
=============================================================================
