----------------------------- MODULE QualityGates -----------------------------
(***************************************************************************)
(* The gates an implementation passes before the user is asked to approve  *)
(* it: verification with its bounded repair loop (workflow/repair.py),     *)
(* review with its bounded fix loop (workflow/review.py), documentation    *)
(* (workflow/documentation.py), and the runner they share.  One process    *)
(* goes through them; RunLifecycle has the processes and the crashes.      *)
(***************************************************************************)
EXTENDS Verification

CONSTANTS lightweight_verification_failures, standard_failures,
          review_fix_cycles

ASSUME LimitsAssumption == /\ lightweight_verification_failures \in Nat
                           /\ standard_failures \in Nat
                           /\ review_fix_cycles \in Nat

VARIABLES
    pc,                    \* the gate the run is at
    reproduction,          \* reproduction_result of the latest pass
    lightweight_failed,    \* lightweight_failures of RepairWorkflow.run
    standard_failed,       \* standard_failures
    escalation_attempted,
    tier,
    fix_attempts,          \* fix_attempts of ReviewWorkflow.run
    repairs                \* history: repair agents started in the loop

repairVars == <<lightweight_failed, standard_failed, escalation_attempted, tier,
                repairs>>
gateVars == <<pc, reproduction, repairVars, fix_attempts>>
vars == <<runnerVars, content, gateVars>>

RepairTier == {"LIGHTWEIGHT", "STANDARD", "ESCALATION"}

\* "failed" is the top of the repair loop; a "re..." gate is the pass that
\* follows an agent's edit.
Gates == {"VERIFYING", "failed", "REPAIRING", "reverify", "REVIEWING",
          "REVIEW_FIXING", "reverify_fix", "REVIEW_APPROVED", "DOCUMENTING",
          "reverify_docs", "READY_FOR_APPROVAL", "BLOCKED"}

TypeOK == /\ RunnerTypeOK
          /\ pc \in Gates
          /\ reproduction \in {"none", "pass", "fail"}
          /\ lightweight_failed \in 0..lightweight_verification_failures
          /\ standard_failed \in 0..standard_failures
          /\ escalation_attempted \in BOOLEAN
          /\ tier \in RepairTier
          /\ fix_attempts \in 0..review_fix_cycles
          /\ repairs \in Nat

Init == /\ RunnerInit
        /\ pc = "VERIFYING"
        /\ reproduction = "none"
        /\ lightweight_failed = 0
        /\ standard_failed = 0
        /\ escalation_attempted = FALSE
        /\ tier = "LIGHTWEIGHT"
        /\ repairs = 0
        /\ fix_attempts = 0

-----------------------------------------------------------------------------
At(gate) == pc = gate
GoTo(gate) == pc' = gate

\* A pass may go either way; it has not been reproduced yet.
FullPass ==
    /\ \E reliable \in BOOLEAN : RunPass(reliable)
    /\ reproduction' = "none"

\* reverify_after_edit()
IncrementalPass ==
    /\ \E reliable \in BOOLEAN : RunIncremental(reliable)
    /\ reproduction' = "none"

\* _verify_and_repair starts with a full pass.
Verify ==
    /\ At("VERIFYING")
    /\ FullPass
    /\ GoTo(IF Success' THEN "REVIEWING" ELSE "failed")
    /\ UNCHANGED <<repairVars, fix_attempts>>

-----------------------------------------------------------------------------
(* RepairWorkflow.run *)

\* The status comes from the command that failed last and the output from the
\* first failure; with each kind standing for both, what they say together is
\* open when the two differ.
MayBe(kind) == kind \in {results[last_failed], results[FirstFailure]}
MustBe(kind) == {results[last_failed], results[FirstFailure]} = {kind}

\* is_environment_failure(): the output of the first failure is enough.
MayBeCode == results[FirstFailure] # "environment"

Intermittent == reproduction = "pass"

\* Nothing a repair could help with.  A failure that did fail again is not
\* asked about its environment any more.
Unrepairable ==
    /\ At("failed")
    /\ \/ MayBe("environment") /\ reproduction = "none"
       \/ Intermittent
    /\ GoTo("BLOCKED")
    /\ UNCHANGED <<runnerVars, content, reproduction, repairVars, fix_attempts>>

\* reproduce_failure(): the command is run once more, unless that was done
\* since the worktree last changed; it failed then, or the run had ended.
Reproduce ==
    /\ At("failed")
    /\ MayBeCode
    /\ MayBe("slow")
    /\ reproduction = "none"
    /\ reproduced' = reproduced \cup {last_failed}
    /\ \/ reproduction' = "fail"
       \/ last_failed \notin reproduced /\ reproduction' = "pass"
    /\ UNCHANGED <<snapshot, results, last_failed, selection, passed_on, content,
                   pc, repairVars, fix_attempts>>

Repairable == /\ At("failed")
              /\ MayBeCode
              /\ ~Intermittent
              /\ MustBe("slow") => reproduction = "fail"

\* classify_failure(): is the category one of SIMPLE_CATEGORIES?
MayBeSimple == results[FirstFailure] \in {"simple", "slow"}
MayBeHard == results[FirstFailure] \in {"hard", "slow"}

StartRepair(with) ==
    /\ tier' = with
    /\ escalation_attempted' = (escalation_attempted \/ with = "ESCALATION")
    /\ repairs' = repairs + 1
    /\ GoTo("REPAIRING")
    /\ UNCHANGED <<runnerVars, content, reproduction, lightweight_failed,
                   standard_failed, fix_attempts>>

RepairLightweight ==
    /\ Repairable
    /\ MayBeSimple
    /\ lightweight_failed < lightweight_verification_failures
    /\ StartRepair("LIGHTWEIGHT")

\* Hard, or too often repaired in vain by the lightweight model.
NotForLightweight ==
    \/ MayBeHard
    \/ MayBeSimple /\ lightweight_failed >= lightweight_verification_failures

RepairStandard ==
    /\ Repairable
    /\ NotForLightweight
    /\ standard_failed < standard_failures
    /\ StartRepair("STANDARD")

\* Mutant of Escalate: nobody remembers that it has been tried.
EscalateAgain ==
    /\ Repairable
    /\ NotForLightweight
    /\ standard_failed >= standard_failures
    /\ StartRepair("ESCALATION")

Escalate ==
    /\ Repairable
    /\ NotForLightweight
    /\ standard_failed >= standard_failures
    /\ ~escalation_attempted
    /\ StartRepair("ESCALATION")

Exhausted ==
    /\ Repairable
    /\ NotForLightweight
    /\ standard_failed >= standard_failures
    /\ escalation_attempted
    /\ GoTo("BLOCKED")
    /\ UNCHANGED <<runnerVars, content, reproduction, repairVars, fix_attempts>>

\* A failed escalation is not counted: there is only one.
CountFailure ==
    /\ lightweight_failed' = IF tier = "LIGHTWEIGHT" THEN lightweight_failed + 1
                                                     ELSE lightweight_failed
    /\ standard_failed' = IF tier = "STANDARD" THEN standard_failed + 1
                                              ELSE standard_failed

\* run() returns, and its local variables are gone.
LoopIsOver == /\ lightweight_failed' = 0
              /\ standard_failed' = 0
              /\ escalation_attempted' = FALSE
              /\ tier' = "LIGHTWEIGHT"
              /\ repairs' = 0

Reverify ==
    /\ At("reverify")
    /\ IncrementalPass
    /\ \/ Success' /\ GoTo("REVIEWING") /\ LoopIsOver
       \/ /\ ~Success' /\ GoTo("failed") /\ CountFailure
          /\ UNCHANGED <<escalation_attempted, tier, repairs>>
    /\ UNCHANGED fix_attempts

Repairing == \/ Unrepairable
             \/ Reproduce
             \/ RepairLightweight
             \/ RepairStandard
             \/ Escalate
             \/ Exhausted
             \/ Reverify

-----------------------------------------------------------------------------
(* An agent at work: it edits, and succeeds or fails *)

AgentWorks(gate, next) ==
    /\ At(gate)
    /\ EditTree
    /\ GoTo(next) \/ GoTo("BLOCKED")
    /\ UNCHANGED <<reproduction, repairVars>>

RepairAgent == AgentWorks("REPAIRING", "reverify") /\ UNCHANGED fix_attempts

\* Mutant of FixAgent: the attempt is not counted.
FixUncounted ==
    AgentWorks("REVIEW_FIXING", "reverify_fix") /\ UNCHANGED fix_attempts

FixAgent ==
    /\ AgentWorks("REVIEW_FIXING", "reverify_fix")
    /\ fix_attempts' = IF pc' = "BLOCKED" THEN fix_attempts ELSE fix_attempts + 1

\* Mutant of DocumentationAgent: prose needs no further pass.
DocumentationUnverified ==
    AgentWorks("DOCUMENTING", "READY_FOR_APPROVAL") /\ UNCHANGED fix_attempts

DocumentationAgent ==
    AgentWorks("DOCUMENTING", "reverify_docs") /\ UNCHANGED fix_attempts

Agents == RepairAgent \/ FixAgent \/ DocumentationAgent

-----------------------------------------------------------------------------
(* ReviewWorkflow.run and DocumentationWorkflow.run *)

\* Mutant of Review: one fix too many.
ReviewOnceMore ==
    /\ At("REVIEWING")
    /\ \/ GoTo("REVIEW_APPROVED")
       \/ fix_attempts <= review_fix_cycles /\ GoTo("REVIEW_FIXING")
       \/ GoTo("BLOCKED")
    /\ UNCHANGED <<runnerVars, content, reproduction, repairVars, fix_attempts>>

\* No mandatory findings; mandatory findings, to be fixed or one time too
\* often; or a reviewer that fails.
Review ==
    /\ At("REVIEWING")
    /\ \/ GoTo("REVIEW_APPROVED")
       \/ fix_attempts < review_fix_cycles /\ GoTo("REVIEW_FIXING")
       \/ GoTo("BLOCKED")
    /\ UNCHANGED <<runnerVars, content, reproduction, repairVars, fix_attempts>>

ReverifyFix ==
    /\ At("reverify_fix")
    /\ IncrementalPass
    /\ GoTo(IF Success' THEN "REVIEWING" ELSE "BLOCKED")
    /\ UNCHANGED <<repairVars, fix_attempts>>

AfterReview ==
    /\ At("REVIEW_APPROVED")
    /\ GoTo("DOCUMENTING") \/ GoTo("READY_FOR_APPROVAL")
    /\ UNCHANGED <<runnerVars, content, reproduction, repairVars, fix_attempts>>

ReverifyDocs ==
    /\ At("reverify_docs")
    /\ IncrementalPass
    /\ GoTo(IF Success' THEN "READY_FOR_APPROVAL" ELSE "BLOCKED")
    /\ UNCHANGED <<repairVars, fix_attempts>>

Next == \/ Verify
        \/ Repairing
        \/ Agents
        \/ Review
        \/ ReverifyFix
        \/ AfterReview
        \/ ReverifyDocs

\* One process runs the loop; the agents and commands it awaits are taken to return.
Spec == Init /\ [][Next]_vars /\ WF_vars(Next)

-----------------------------------------------------------------------------
(* Properties *)

\* The repair loop is bounded, whatever kinds of failure alternate: the failed
\* attempts of the lower tiers and one escalation (RepairWorkflow, "bounded
\* escalation"; LimitsConfig, "preventing infinite agent loops").
RepairsBounded ==
    repairs <= lightweight_verification_failures + standard_failures + 1

\* What the user is asked to approve was verified after the last edit of any
\* agent, with success.
ReadyIsVerified ==
    At("READY_FOR_APPROVAL") => content = snapshot.files /\ Success

\* Whoever the last pass called for has passed, or a group that covers it and
\* was not suppressed itself has: chains of covers leave nobody out
\* (select_groups, _execute_selection).
NobodyIsSkipped ==
    At("READY_FOR_APPROVAL") =>
        \A g \in Selected(PathsOf(snapshot), snapshot.reliable) :
            \E h \in selection : /\ g = h \/ g \in Covered[h]
                                 /\ results[h] = "pass"

\* A group that neither covers others nor is covered.
StandsAlone(g) == \A h \in Groups : h \notin Covered[g] /\ g \notin Covered[h]

\* The paths whose content is another than at the latest pass.
Edited == {path \in Paths : content[path] # snapshot.files[path]}

\* A pass that succeeds has run every group whose inputs were edited since the
\* pass before: passes are retained only for groups that no edit concerns
\* (run_incremental).
EditedRunsAgain ==
    [][snapshot' # snapshot /\ Success' =>
         \A g \in selection' :
             StandsAlone(g) /\ Inputs[g] \cap Edited # {}
                => passed_on'[g] = InputsOf(g, content)]_vars

\* "Success is only ever declared after every affected verification group
\* passes against the current files" (repair.py): a group of the last pass, of
\* whose inputs some differ from HEAD, has passed on what they are now.
VerifiedIsCurrent ==
    At("READY_FOR_APPROVAL") =>
        \A g \in selection :
            (\E path \in Inputs[g] : content[path] # Committed)
                => passed_on[g] = InputsOf(g, content)

\* The gates are left: the run is ready for approval or blocked.
GatesAreLeft == <>(pc \in {"READY_FOR_APPROVAL", "BLOCKED"})
=============================================================================
