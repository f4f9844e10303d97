----------------------------- MODULE Verification -----------------------------
(***************************************************************************)
(* VerificationRunner (workflow/verification.py): full and incremental     *)
(* passes over the selected groups, with the passes it retains in memory.  *)
(* What a command answers is any answer; commands are taken to leave the   *)
(* worktree as it is.  A file's fingerprint is its content.                *)
(***************************************************************************)
EXTENDS VerificationScope

CONSTANTS NoGroup,
          Contents,    \* what a file may contain, or that it does not exist
          Committed    \* its content in HEAD

ASSUME NoGroupAssumption == NoGroup \notin Groups
ASSUME ContentAssumption == Committed \in Contents

VARIABLES
    content,      \* the worktree
    snapshot,     \* _snapshot: the worktree as last seen, or FALSE: unreliably
    results,      \* _group_results: the outcome of each group's commands
    last_failed,  \* _last_failed_group
    reproduced,   \* _reproduced: groups whose failure was run again since
                  \* the worktree last changed
    selection,    \* groups of the latest pass
    passed_on     \* history: the inputs each group last passed against

runnerVars == <<snapshot, results, last_failed, reproduced, selection,
                passed_on>>

\* How a command fails: for want of its environment (ERROR, or by its output),
\* by taking too long (TIMED_OUT, or by its output), or by a simple or a hard
\* mistake in the code.
Failures == {"environment", "slow", "simple", "hard"}
Outcomes == Failures \cup {"none", "pass"}

Files == [Paths -> Contents]
InputsOf(g, files) == [path \in Inputs[g] |-> files[path]]

RunnerTypeOK == /\ content \in Files
                /\ snapshot \in [files : Files, reliable : BOOLEAN]
                /\ results \in [Groups -> Outcomes]
                /\ last_failed \in Groups \cup {NoGroup}
                /\ reproduced \subseteq Groups
                /\ selection \subseteq Applicable
                /\ \A g \in Groups : passed_on[g] \in [Inputs[g] -> Contents]

\* The implementation has changed some files.
RunnerInit == /\ content \in Files
              /\ snapshot = [files |-> content, reliable |-> FALSE]
              /\ results = [g \in Groups |-> "none"]
              /\ last_failed = NoGroup
              /\ reproduced = {}
              /\ selection = {}
              /\ passed_on = [g \in Groups |->
                                [path \in Inputs[g] |-> Committed]]

-----------------------------------------------------------------------------
(* The worktree and what the runner sees of it *)

\* An agent edits any files.
EditTree ==
    /\ content' \in Files
    /\ reproduced' = IF content' = content THEN reproduced ELSE {}
    /\ UNCHANGED <<snapshot, results, last_failed, selection, passed_on>>

\* snapshot_changes(): git status may fail at any time.
Snapshot(reliable) == [files |-> content, reliable |-> reliable]

PathsOf(seen) ==
    {path \in Paths : seen.reliable /\ seen.files[path] # Committed}

\* ChangeSnapshot.changed_since()
ChangedSince(now) == IF now.reliable /\ snapshot.reliable
                       THEN {path \in Paths :
                                now.files[path] # snapshot.files[path]}
                       ELSE PathsOf(now) \cup PathsOf(snapshot)

-----------------------------------------------------------------------------
(* A pass *)

\* In configuration order, but the group that failed last comes first.
RunsBefore(g, h, last) ==
    /\ g # h
    /\ \/ g = last
       \/ h # last /\ Position[g] < Position[h]

\* _execute_selection(): the groups that are forced or have no pass run one
\* after the other until one fails.
Execute(required, force, retained, last) ==
    LET scheduled == {g \in required : g \in force \/ retained[g] # "pass"}
        EndsWith(passed, failed, outcome) ==
            /\ results' = [g \in Groups |-> IF g \in passed THEN "pass"
                                            ELSE IF g = failed THEN outcome
                                            ELSE retained[g]]
            /\ last_failed' = failed
            /\ passed_on' = [g \in Groups |-> IF g \in passed
                                                THEN InputsOf(g, content)
                                                ELSE passed_on[g]]
    IN  /\ selection' = required
        /\ \/ EndsWith(scheduled, NoGroup, "none")
           \/ \E failed \in scheduled, outcome \in Failures :
                 EndsWith({g \in scheduled : RunsBefore(g, failed, last)},
                          failed, outcome)

\* run(): whatever was retained is dropped.
RunPass(reliable) ==
    LET now == Snapshot(reliable)
    IN  /\ snapshot' = now
        /\ Execute(select_groups(PathsOf(now), reliable), {},
                   [g \in Groups |-> "none"], NoGroup)
        /\ reproduced' = {}
        /\ UNCHANGED content

\* Mutant of GroupsToRerun: what the snapshot shows now is all that counts.
RerunOfCurrent(now) ==
    IF now.reliable /\ PathsOf(now) # {} THEN select_groups(PathsOf(now), TRUE)
                                      ELSE {}

\* The passes that are not retained.
GroupsToRerun(now) ==
    LET changed == ChangedSince(now)
    IN  (IF changed # {} /\ now.reliable THEN select_groups(changed, TRUE)
                                         ELSE {})
        \cup
        (IF now.reliable /\ snapshot.reliable
           THEN {}
           ELSE select_groups(PathsOf(now), now.reliable))

\* run_incremental(), once run() has been called for the same worktree.
RunIncremental(reliable) ==
    LET now == Snapshot(reliable)
    IN  /\ snapshot' = now
        /\ Execute(select_groups(PathsOf(now), reliable), GroupsToRerun(now),
                   results, last_failed)
        /\ UNCHANGED <<content, reproduced>>

-----------------------------------------------------------------------------
(* What a pass tells *)

Success == last_failed = NoGroup

\* first_failure: the first failed command in the order of the configuration.
Failed == {g \in selection : results[g] \in Failures}
FirstFailure ==
    CHOOSE g \in Failed : \A h \in Failed : Position[g] <= Position[h]
=============================================================================
