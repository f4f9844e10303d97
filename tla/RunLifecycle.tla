----------------------------- MODULE RunLifecycle -----------------------------
(***************************************************************************)
(* The commands that drive one run (application.py with the workflows of   *)
(* workflow/): `complete`, `resume`, `merge` and `cleanup`, each a process *)
(* that interleaves with the others and may die between any two of its     *)
(* steps.  What a process leaves behind is in RunStore, and the agent it    *)
(* was waiting for, which goes on editing the worktree.                     *)
(*                                                                         *)
(* The stages are modelled as far as the run's state, its locks and its    *)
(* worktree see them: what agents, verification commands and the user      *)
(* answer is any answer, and how often a stage is retried is not bounded   *)
(* here.  Acquiring a lock takes the steps of LockFile: look whether it is  *)
(* stale, unlink it if so, create it.  Releasing one is a single step.      *)
(***************************************************************************)
EXTENDS RunStore, FiniteSets

CONSTANTS Procs,       \* invocations of agentflow concerning this run
          Command,     \* the command each of them runs
          MaxEdits,    \* bound: how often agents change files
          MaxCrashes,  \* bound: how many processes die
          Overlap      \* may a command be started while another one is alive?

Commands == {"complete", "resume", "merge", "cleanup"}

ASSUME LifecycleAssumption ==
    /\ NoProc \notin Procs
    /\ Command \in [Procs -> Commands]
    /\ MaxEdits \in Nat
    /\ MaxCrashes \in Nat
    /\ Overlap \in BOOLEAN

VARIABLES
    pc,        \* where each process is; a stage is named as its state
    seen,      \* the state resume and cleanup read before they act on it
    acquiring, \* the step of LockFile.acquire() each process is at
    agents,    \* processes whose agent works in the worktree; an agent
               \* outlives the process that started it
    edits,     \* versions made so far
    crashes,   \* processes that have died so far
    verified,  \* history: versions that passed verification
    reviewed,  \* history: versions without mandatory findings, and versions
               \* documentation was added to afterwards
    approved,  \* history: versions the user chose to merge
    stray,     \* history: versions made by an agent that outlived its process,
               \* and versions documentation was added to afterwards
    broken     \* history: the run lock of a live process has been unlinked

procData == <<seen, acquiring, agents>>
procVars == <<pc, procData>>
bounds == <<edits, crashes>>
accidents == <<stray, broken>>
history == <<verified, reviewed, approved, accidents>>
vars == <<dbVars, gitVars, lockVars, procVars, bounds, history>>

Versions == 0..MaxEdits

\* Stages in which an agent edits the worktree.
EditStages == {"IMPLEMENTING", "REPAIRING", "REVIEW_FIXING", "DOCUMENTING"}

Phases == WorkflowState \cup
    {"off", "lock", "recover", "dispatch", "open_tree", "recreate",
     "recreate_branch", "restart", "lock_implement", "created", "agent_failed",
     "repaired", "fixed", "reverify", "documented", "lock_review", "verified",
     "preflight", "lock_merge", "lock_writer", "commit", "pick", "record",
     "remove", "delete_branch", "close", "clear_lock", "cleared", "list",
     "check", "clear_check", "cleared_check", "judge", "clear_writer",
     "cleared_writer", "diff", "cleanup", "cleanup_branch", "leave", "invalid",
     "done", "dead"}

\* Phases in which a command holds the run lock.
LockedPhases == Phases \ {"off", "lock", "recover", "lock_implement",
                          "lock_review", "preflight", "lock_merge",
                          "clear_lock", "list", "check", "clear_check",
                          "cleared_check", "judge", "cleanup",
                          "cleanup_branch", "leave", "invalid", "done", "dead"}

TypeOK == /\ StoreTypeOK(Procs, Versions)
          /\ pc \in [Procs -> Phases]
          /\ seen \in [Procs -> WorkflowState]
          /\ acquiring \in [Procs -> {"examine", "unlink", "create"}]
          /\ agents \subseteq Procs
          /\ edits \in Versions
          /\ crashes \in 0..MaxCrashes
          /\ verified \subseteq Versions
          /\ reviewed \subseteq Versions
          /\ approved \subseteq Versions
          /\ stray \subseteq Versions
          /\ broken \in BOOLEAN

Init == /\ StoreInit
        /\ pc = [p \in Procs |-> "off"]
        /\ seen = [p \in Procs |-> "NEW"]
        /\ acquiring = [p \in Procs |-> "examine"]
        /\ agents = {}
        /\ edits = 0
        /\ crashes = 0
        /\ verified = {}
        /\ reviewed = {}
        /\ approved = {}
        /\ stray = {}
        /\ broken = FALSE

-----------------------------------------------------------------------------
(* Building blocks *)

Dead(p) == pc[p] = "dead"
Live(p) == pc[p] \notin {"off", "done", "dead"}

At(p, phase) == pc[p] = phase
GoTo(p, phase) == pc' = [pc EXCEPT ![p] = phase]

\* transition_run_state() to a state, continuing at phase; an illegal
\* transition raises InvalidStateTransitionError and ends the command.
Enter(p, to, phase) ==
    IF Valid(state, to)
      THEN update_run_state(to) /\ GoTo(p, phase)
      ELSE UNCHANGED dbVars /\ GoTo(p, "invalid")

Block(p) == Enter(p, "BLOCKED", "leave")

\* What most steps leave alone.
Frame == UNCHANGED <<lockVars, procData, bounds, history>>

\* Mutant: a lock file that is there stops nobody.
VacantAlways(lock) == lock \in Procs \cup {NoProc}

\* A lock file can be created when there is none.
Vacant(lock) == lock = NoProc

\* Mutant: the lock of a live process counts as stale, too.
StaleAlways(lock) == \E q \in Procs : lock = q

\* is_stale(): the process the lock file names is gone.
Stale(lock) == \E q \in Procs : lock = q /\ Dead(q)

Releases(p, lock) == IF lock = p THEN NoProc ELSE lock

-----------------------------------------------------------------------------
(* Acquiring a lock and breaking a stale one: LockFile.acquire *)

\* Where a command acquires the run lock ...
AcquiresRunLock(p) ==
    \/ pc[p] \in {"lock", "lock_merge", "clear_lock"}
    \/ pc[p] \in {"lock_implement", "lock_review"} /\ run_lock # p

\* ... and what it goes on with when it has it.
WithRunLock(p) ==
    CASE At(p, "lock") -> IF Command[p] = "complete" THEN "NEW" ELSE "dispatch"
      [] At(p, "lock_implement") -> "TASK_CLASSIFIED"
      [] At(p, "lock_review") -> "verified"
      [] At(p, "lock_merge") -> "lock_writer"
      [] At(p, "clear_lock") -> "cleared"

\* Where a stale writer lock is acquired, only to be released again.
ClearsWriterLock(p) == pc[p] \in {"clear_writer", "clear_check"}

NextStep(p, step) == acquiring' = [acquiring EXCEPT ![p] = step]

LockOf(p) == IF ClearsWriterLock(p) THEN writer_lock ELSE run_lock

\* Only a stale lock is to be removed.
Examine(p) ==
    /\ AcquiresRunLock(p) \/ ClearsWriterLock(p)
    /\ acquiring[p] = "examine"
    /\ NextStep(p, IF Stale(LockOf(p)) THEN "unlink" ELSE "create")
    /\ UNCHANGED <<dbVars, gitVars, lockVars, pc, seen, agents, bounds,
                   history>>

\* Whatever lock file is there by now is removed.
UnlinkRunLock(p) ==
    /\ AcquiresRunLock(p)
    /\ acquiring[p] = "unlink"
    /\ NextStep(p, "create")
    /\ run_lock' = NoProc
    /\ broken' = (broken \/ \E q \in Procs : run_lock = q /\ ~Dead(q))
    /\ UNCHANGED <<dbVars, gitVars, writer_lock, pc, seen, agents, bounds,
                   verified, reviewed, approved, stray>>

\* RunLockedError ends the command.
CreateRunLock(p) ==
    /\ AcquiresRunLock(p)
    /\ acquiring[p] = "create"
    /\ NextStep(p, "examine")
    /\ IF Vacant(run_lock)
         THEN run_lock' = p /\ GoTo(p, WithRunLock(p))
         ELSE UNCHANGED run_lock /\ GoTo(p, "leave")
    /\ UNCHANGED <<dbVars, gitVars, writer_lock, seen, agents, bounds, history>>

UnlinkWriterLock(p) ==
    /\ ClearsWriterLock(p)
    /\ acquiring[p] = "unlink"
    /\ NextStep(p, "create")
    /\ writer_lock' = NoProc
    /\ UNCHANGED <<dbVars, gitVars, run_lock, pc, seen, agents, bounds,
                   history>>

CreateWriterLock(p) ==
    /\ ClearsWriterLock(p)
    /\ acquiring[p] = "create"
    /\ NextStep(p, "examine")
    /\ IF Vacant(writer_lock)
         THEN /\ writer_lock' = p
              /\ GoTo(p, IF At(p, "clear_writer") THEN "cleared_writer"
                                                  ELSE "cleared_check")
         ELSE UNCHANGED writer_lock /\ GoTo(p, "leave")
    /\ UNCHANGED <<dbVars, gitVars, run_lock, seen, agents, bounds, history>>

\* A lock that was acquired to clear it is released at once.
ReleaseCleared(p) ==
    /\ \/ /\ At(p, "cleared")
          /\ run_lock' = Releases(p, run_lock)
          /\ GoTo(p, "list")
          /\ UNCHANGED writer_lock
       \/ /\ pc[p] \in {"cleared_writer", "cleared_check"}
          /\ writer_lock' = Releases(p, writer_lock)
          /\ GoTo(p, IF At(p, "cleared_writer") THEN "diff" ELSE "judge")
          /\ UNCHANGED run_lock
    /\ UNCHANGED <<dbVars, gitVars, procData, bounds, history>>

Acquiring(p) == \/ Examine(p)
                \/ UnlinkRunLock(p)
                \/ CreateRunLock(p)
                \/ UnlinkWriterLock(p)
                \/ CreateWriterLock(p)
                \/ ReleaseCleared(p)

-----------------------------------------------------------------------------
(* Starting, ending and dying *)

\* A command may be started at any time, or, if commands do not overlap, when
\* every other one has ended.
MayStart(p, command) == /\ At(p, "off")
                        /\ Command[p] = command
                        /\ Overlap \/ \A q \in Procs : ~Live(q)

StartComplete(p) ==
    /\ MayStart(p, "complete")
    /\ \A q \in Procs : Command[q] = "complete" => At(q, "off")
    /\ GoTo(p, "lock")
    /\ UNCHANGED <<dbVars, gitVars, lockVars, procData, bounds, history>>

\* Mutant of StartResume: runs that have ended are resumed as well.
StartResumeOfAnyRun(p) ==
    /\ MayStart(p, "resume")
    /\ seen' = [seen EXCEPT ![p] = state]
    /\ GoTo(p, CASE state = "BLOCKED" -> "recover"
                 [] state = "NEW" -> "leave"
                 [] OTHER -> "lock")
    /\ UNCHANGED <<dbVars, gitVars, lockVars, acquiring, agents, bounds,
                   history>>

\* run_resume reads the run's state before it takes the run lock.
StartResume(p) ==
    /\ MayStart(p, "resume")
    /\ seen' = [seen EXCEPT ![p] = state]
    /\ GoTo(p, IF state = "BLOCKED" THEN "recover"
               ELSE IF state \in TERMINAL_STATES \cup {"NEW"} THEN "leave"
               ELSE "lock")
    /\ UNCHANGED <<dbVars, gitVars, lockVars, acquiring, agents, bounds,
                   history>>

\* merge_completed_run: preflight and confirmation come before the locks.
StartMerge(p) ==
    /\ MayStart(p, "merge")
    /\ GoTo(p, IF state = "COMPLETED" THEN "preflight" ELSE "leave")
    /\ UNCHANGED <<dbVars, gitVars, lockVars, procData, bounds, history>>

\* run_cleanup begins with the stale run locks.
StartCleanup(p) ==
    /\ MayStart(p, "cleanup")
    /\ GoTo(p, IF Stale(run_lock) THEN "clear_lock" ELSE "list")
    /\ UNCHANGED <<dbVars, gitVars, lockVars, procData, bounds, history>>

Start(p) == \/ StartComplete(p)
            \/ StartResume(p)
            \/ StartMerge(p)
            \/ StartCleanup(p)

\* The command returns or raises: `finally` releases the locks p holds.
Leave(p) ==
    /\ pc[p] \in {"leave", "invalid"}
    /\ run_lock' = Releases(p, run_lock)
    /\ writer_lock' = Releases(p, writer_lock)
    /\ GoTo(p, "done")
    /\ UNCHANGED <<dbVars, gitVars, procData, bounds, history>>

\* p dies; its lock files stay, and so does its agent.
Crash(p) ==
    /\ Live(p)
    /\ crashes < MaxCrashes
    /\ crashes' = crashes + 1
    /\ GoTo(p, "dead")
    /\ NextStep(p, "examine")
    /\ UNCHANGED <<dbVars, gitVars, lockVars, seen, agents, edits, history>>

\* A step that works in the worktree fails when the worktree is gone.
NeedsTree == EditStages \cup {"VERIFYING", "reverify", "REVIEWING",
                              "documented", "diff"}
LosesTree(p) ==
    /\ pc[p] \in NeedsTree
    /\ ~tree.exists
    /\ GoTo(p, "leave")
    /\ agents' = agents \ {p}
    /\ UNCHANGED <<dbVars, gitVars, lockVars, seen, acquiring, bounds, history>>

-----------------------------------------------------------------------------
(* Planning: run_planning and PlanningWorkflow, under the run lock *)

Discover(p) == At(p, "NEW") /\ Enter(p, "PROJECT_READY", "PROJECT_READY")
StartPlanning(p) == At(p, "PROJECT_READY") /\ Enter(p, "PLANNING", "PLANNING")

\* The planner answers with a blocker, with questions or with a plan.
PlannerTurn(p) ==
    /\ At(p, "PLANNING")
    /\ \/ Block(p)
       \/ Enter(p, "WAITING_FOR_USER", "WAITING_FOR_USER")
       \/ Enter(p, "PLAN_READY", "PLAN_READY")

UserAnswers(p) == At(p, "WAITING_FOR_USER") /\ Enter(p, "PLANNING", "PLANNING")

\* The user cancels, asks for changes or approves.
PlanDecision(p) ==
    /\ At(p, "PLAN_READY")
    /\ \/ Enter(p, "CANCELLED", "leave")
       \/ Enter(p, "PLANNING", "PLANNING")
       \/ Enter(p, "PLAN_APPROVED", "PLAN_APPROVED")

\* The approved plan and the task profile are written, then the run is
\* classified.  `complete` gives the run lock back; `resume` keeps it.
Classify(p) ==
    /\ At(p, "PLAN_APPROVED")
    /\ Enter(p, "TASK_CLASSIFIED",
             IF Command[p] = "resume" THEN "open_tree" ELSE "lock_implement")

Planning(p) ==
    /\ \/ Discover(p)
       \/ StartPlanning(p)
       \/ PlannerTurn(p)
       \/ UserAnswers(p)
       \/ PlanDecision(p)
       \/ Classify(p)
    /\ UNCHANGED gitVars
    /\ Frame

\* Between two phases `complete` releases the run lock and takes it again.
ReleaseBetweenPhases(p) ==
    /\ pc[p] \in {"lock_implement", "lock_review"}
    /\ run_lock = p
    /\ run_lock' = NoProc
    /\ UNCHANGED <<dbVars, gitVars, writer_lock, procVars, bounds, history>>

-----------------------------------------------------------------------------
(* Implementation: ImplementationWorkflow *)

\* A worktree that cannot be created blocks the run.
CreateWorktree(p) ==
    /\ At(p, "TASK_CLASSIFIED")
    /\ \/ Block(p) /\ UNCHANGED gitVars
       \/ /\ CanCreate
          /\ create
          /\ GoTo(p, "created")
          /\ UNCHANGED dbVars
    /\ Frame

StartImplementing(p) ==
    /\ \/ At(p, "created") /\ Enter(p, "WORKTREE_READY", "WORKTREE_READY")
       \/ At(p, "WORKTREE_READY") /\ Enter(p, "IMPLEMENTING", "IMPLEMENTING")
    /\ UNCHANGED gitVars
    /\ Frame

-----------------------------------------------------------------------------
(* An agent editing the worktree, under the writer lock *)

\* The writer lock is never broken here.  When it is taken, implementing
\* blocks the run; in the other stages WorktreeLockedError ends the command.
TakeWriterLock(p) ==
    /\ pc[p] \in EditStages
    /\ p \notin agents
    /\ IF Vacant(writer_lock)
         THEN /\ writer_lock' = p
              /\ agents' = agents \cup {p}
              /\ UNCHANGED <<pc, dbVars>>
         ELSE /\ UNCHANGED <<writer_lock, agents>>
              /\ IF At(p, "IMPLEMENTING")
                   THEN Block(p)
                   ELSE GoTo(p, "leave") /\ UNCHANGED dbVars
    /\ UNCHANGED <<gitVars, run_lock, seen, acquiring, bounds, history>>

\* An agent changes the files of the worktree.
write == /\ tree.exists
         /\ edits < MaxEdits
         /\ edits' = edits + 1
         /\ tree' = [tree EXCEPT !.files = edits + 1]
         /\ UNCHANGED <<branch, landed, crashes>>

\* Documentation leaves the code as it is, reviewed or stray.
AddsTo(p, versions) ==
    IF At(p, "DOCUMENTING") /\ tree.files \in versions
      THEN versions \cup {edits + 1} ELSE versions

\* The agent of a stage edits ...
Edit(p) ==
    /\ pc[p] \in EditStages
    /\ p \in agents
    /\ write
    /\ reviewed' = AddsTo(p, reviewed)
    /\ stray' = AddsTo(p, stray)
    /\ UNCHANGED <<dbVars, lockVars, procVars, verified, approved, broken>>

\* ... and so does one whose process has died: it is a process of its own in the
\* same directory, whatever worktree is there by now ...
OrphanEdits(p) ==
    /\ Dead(p)
    /\ p \in agents
    /\ write
    /\ stray' = stray \cup {edits + 1}
    /\ UNCHANGED <<dbVars, lockVars, procVars, verified, reviewed, approved,
                   broken>>

\* ... until it ends.
OrphanEnds(p) ==
    /\ Dead(p)
    /\ p \in agents
    /\ agents' = agents \ {p}
    /\ UNCHANGED <<dbVars, gitVars, lockVars, pc, seen, acquiring, bounds,
                   history>>

\* _implement(): the run moves on while the writer lock is still held.
EndImplementing(p) ==
    /\ At(p, "IMPLEMENTING")
    /\ p \in agents
    /\ tree.exists
    /\ \/ Block(p)
       \/ ~DiffIsEmpty /\ Enter(p, "VERIFYING", "VERIFYING")
    /\ agents' = agents \ {p}
    /\ UNCHANGED <<gitVars, lockVars, seen, acquiring, bounds, history>>

\* The other stages give the writer lock back before they move the run on.
EndEdit(p) ==
    /\ pc[p] \in EditStages \ {"IMPLEMENTING"}
    /\ p \in agents
    /\ tree.exists
    /\ agents' = agents \ {p}
    /\ writer_lock' = Releases(p, writer_lock)
    /\ \/ GoTo(p, "agent_failed")
       \/ GoTo(p, CASE At(p, "REPAIRING") -> "repaired"
                    [] At(p, "REVIEW_FIXING") -> "fixed"
                    [] At(p, "DOCUMENTING") -> "documented")
    /\ UNCHANGED <<dbVars, gitVars, run_lock, seen, acquiring, bounds, history>>

ReleaseWriterLock(p) ==
    /\ At(p, "VERIFYING")
    /\ writer_lock = p
    /\ writer_lock' = NoProc
    /\ UNCHANGED <<dbVars, gitVars, run_lock, procVars, bounds, history>>

AgentFailed(p) ==
    /\ At(p, "agent_failed")
    /\ Block(p)
    /\ UNCHANGED gitVars
    /\ Frame

-----------------------------------------------------------------------------
(* Verification and repair: _verify_and_repair *)

\* Verification passes; `complete` returns to run_pipeline, which takes the run
\* lock anew, while `resume` goes straight on to the review.
VerifyPasses(p) ==
    /\ At(p, "VERIFYING")
    /\ writer_lock # p
    /\ tree.exists
    /\ verified' = verified \cup {tree.files}
    /\ GoTo(p, IF Command[p] = "resume" THEN "verified" ELSE "lock_review")
    /\ UNCHANGED <<dbVars, gitVars, lockVars, procData, bounds, reviewed,
                   approved, accidents>>

\* It fails: repair, or give up.
VerifyFails(p) ==
    /\ At(p, "VERIFYING")
    /\ writer_lock # p
    /\ tree.exists
    /\ \/ Enter(p, "REPAIRING", "REPAIRING")
       \/ Block(p)
    /\ UNCHANGED gitVars
    /\ Frame

\* Mutant of Repaired: a repair that reports success is believed.
RepairedUnverified(p) ==
    /\ At(p, "repaired")
    /\ Enter(p, "VERIFYING", "verified")
    /\ UNCHANGED gitVars
    /\ Frame

Repaired(p) ==
    /\ At(p, "repaired")
    /\ Enter(p, "VERIFYING", "VERIFYING")
    /\ UNCHANGED gitVars
    /\ Frame

-----------------------------------------------------------------------------
(* Review and documentation: _review_document_and_approve *)

BeginReview(p) ==
    /\ At(p, "verified")
    /\ Enter(p, "REVIEWING", "REVIEWING")
    /\ UNCHANGED gitVars
    /\ Frame

ReviewApproves(p) ==
    /\ At(p, "REVIEWING")
    /\ tree.exists
    /\ reviewed' = reviewed \cup {tree.files}
    /\ Enter(p, "REVIEW_APPROVED", "REVIEW_APPROVED")
    /\ UNCHANGED <<gitVars, lockVars, procData, bounds, verified, approved,
                   accidents>>

\* Mandatory findings, or a reviewer that fails.
ReviewObjects(p) ==
    /\ At(p, "REVIEWING")
    /\ tree.exists
    /\ \/ Enter(p, "REVIEW_FIXING", "REVIEW_FIXING")
       \/ Block(p)
    /\ UNCHANGED gitVars
    /\ Frame

FixDone(p) ==
    /\ At(p, "fixed")
    /\ Enter(p, "VERIFYING", "reverify")
    /\ UNCHANGED gitVars
    /\ Frame

\* Documentation runs when it is enabled and has candidate files.
AfterReview(p) ==
    /\ At(p, "REVIEW_APPROVED")
    /\ \/ Enter(p, "DOCUMENTING", "DOCUMENTING")
       \/ Enter(p, "READY_FOR_APPROVAL", "READY_FOR_APPROVAL")
    /\ UNCHANGED gitVars
    /\ Frame

\* reverify_after_edit() after a review fix or documentation.
ReverifyPasses(p) ==
    /\ pc[p] \in {"reverify", "documented"}
    /\ tree.exists
    /\ verified' = verified \cup {tree.files}
    /\ IF At(p, "reverify")
         THEN Enter(p, "REVIEWING", "REVIEWING")
         ELSE Enter(p, "READY_FOR_APPROVAL", "READY_FOR_APPROVAL")
    /\ UNCHANGED <<gitVars, lockVars, procData, bounds, reviewed, approved,
                   accidents>>

ReverifyFails(p) ==
    /\ pc[p] \in {"reverify", "documented"}
    /\ tree.exists
    /\ Block(p)
    /\ UNCHANGED gitVars
    /\ Frame

\* The final gate.
Decide(p) ==
    /\ At(p, "READY_FOR_APPROVAL")
    /\ \/ /\ \/ Enter(p, "CANCELLED", "leave")
             \/ Enter(p, "COMPLETED", "leave")
          /\ UNCHANGED approved
       \/ /\ approved' = approved \cup {tree.files}
          /\ GoTo(p, "commit")
          /\ UNCHANGED dbVars
    /\ UNCHANGED <<gitVars, lockVars, procData, bounds, verified, reviewed,
                   accidents>>

-----------------------------------------------------------------------------
(* Merging: merge_run, from the final gate or from `agentflow merge` *)

\* The user confirms what the preflight offers; then the locks are taken.
ConfirmMerge(p) ==
    /\ At(p, "preflight")
    /\ \/ GoTo(p, "leave") /\ UNCHANGED approved
       \/ /\ MergeOffered
          /\ approved' = approved \cup {tree.files}
          /\ GoTo(p, "lock_merge")
    /\ UNCHANGED <<dbVars, gitVars, lockVars, procData, bounds, verified,
                   reviewed, accidents>>

LockWriterForMerge(p) ==
    /\ At(p, "lock_writer")
    /\ IF Vacant(writer_lock)
         THEN writer_lock' = p /\ GoTo(p, "commit")
         ELSE UNCHANGED writer_lock /\ GoTo(p, "leave")
    /\ UNCHANGED <<dbVars, gitVars, run_lock, procData, bounds, history>>

\* A merge that is not made keeps the worktree; the gate completes the run.
SkipMerge(p) ==
    /\ pc[p] \in {"commit", "pick"}
    /\ GoTo(p, IF Command[p] = "merge" THEN "leave" ELSE "close")
    /\ UNCHANGED <<dbVars, gitVars>>
    /\ Frame

\* merge_run repeats the preflight and commits.
CommitRun(p) ==
    /\ At(p, "commit")
    /\ MergeOffered
    /\ commit
    /\ GoTo(p, "pick")
    /\ UNCHANGED dbVars
    /\ Frame

Pick(p) ==
    /\ At(p, "pick")
    /\ CanPick
    /\ cherry_pick
    /\ GoTo(p, "record")
    /\ UNCHANGED dbVars
    /\ Frame

RecordMerge(p) ==
    /\ At(p, "record")
    /\ merged' = TRUE
    /\ GoTo(p, "remove")
    /\ UNCHANGED <<state, blockedFrom, gitVars>>
    /\ Frame

\* Removing the worktree may leave it behind; that is only reported.
RemoveMerged(p) ==
    /\ At(p, "remove")
    /\ remove \/ UNCHANGED gitVars
    /\ GoTo(p, "delete_branch")
    /\ UNCHANGED dbVars
    /\ Frame

DeleteMergedBranch(p) ==
    /\ At(p, "delete_branch")
    /\ delete_branch
    /\ GoTo(p, IF Command[p] = "merge" THEN "leave" ELSE "close")
    /\ UNCHANGED dbVars
    /\ Frame

Close(p) ==
    /\ At(p, "close")
    /\ Enter(p, "COMPLETED", "leave")
    /\ UNCHANGED gitVars
    /\ Frame

Merging(p) == \/ ConfirmMerge(p)
              \/ LockWriterForMerge(p)
              \/ SkipMerge(p)
              \/ CommitRun(p)
              \/ Pick(p)
              \/ RecordMerge(p)
              \/ RemoveMerged(p)
              \/ DeleteMergedBranch(p)
              \/ Close(p)

-----------------------------------------------------------------------------
(* Resuming: run_resume and _resume_locked *)

\* _recover_pre_blocked_state: before the run lock is taken.
Recover(p) ==
    /\ At(p, "recover")
    /\ IF blockedFrom \in {"none", "NEW"}
         THEN GoTo(p, "leave") /\ UNCHANGED <<dbVars, seen>>
         ELSE /\ update_run_state(blockedFrom)
              /\ seen' = [seen EXCEPT ![p] = blockedFrom]
              /\ GoTo(p, "lock")
    /\ UNCHANGED <<gitVars, lockVars, acquiring, agents, bounds, history>>

\* Where to re-enter, by the state read at the start.  PlanningWorkflow.resume
\* raises for a planning state it does not know.
Dispatch(p) ==
    /\ At(p, "dispatch")
    /\ IF seen[p] \in RECOVERABLE_PLANNING_STATES \ {"PLANNING"}
         THEN Enter(p, "PLANNING", "PLANNING")
         ELSE /\ GoTo(p, CASE seen[p] = "PLANNING" -> "PLANNING"
                           [] seen[p] = "PLAN_APPROVED" -> "leave"
                           [] OTHER -> "open_tree")
              /\ UNCHANGED dbVars
    /\ UNCHANGED gitVars
    /\ Frame

\* A writer lock left by a dead process is cleared, that of a live one ends the
\* command.
OpenTree(p) ==
    /\ At(p, "open_tree")
    /\ GoTo(p, CASE ~tree.exists -> "restart"
                 [] tree.exists /\ Vacant(writer_lock) -> "diff"
                 [] tree.exists /\ Stale(writer_lock) -> "clear_writer"
                 [] OTHER -> "leave")
    /\ UNCHANGED <<dbVars, gitVars>>
    /\ Frame

\* Changes in the worktree are kept and verified again; an empty worktree is
\* made anew.
LookAtDiff(p) ==
    /\ At(p, "diff")
    /\ tree.exists
    /\ IF DiffIsEmpty
         THEN GoTo(p, "recreate") /\ UNCHANGED dbVars
         ELSE update_run_state("VERIFYING") /\ GoTo(p, "VERIFYING")
    /\ UNCHANGED gitVars
    /\ Frame

\* _resume_reimplement: a removal that fails ends the command.
RecreateTree(p) ==
    /\ At(p, "recreate")
    /\ \/ remove /\ GoTo(p, "recreate_branch")
       \/ UNCHANGED gitVars /\ GoTo(p, "leave")
    /\ UNCHANGED dbVars
    /\ Frame

RecreateBranch(p) ==
    /\ At(p, "recreate_branch")
    /\ delete_branch
    /\ GoTo(p, "restart")
    /\ UNCHANGED dbVars
    /\ Frame

\* Mutant of Restart: the persisted state is left where the run stopped.
RestartAsIs(p) ==
    /\ At(p, "restart")
    /\ GoTo(p, "TASK_CLASSIFIED")
    /\ UNCHANGED <<dbVars, gitVars>>
    /\ Frame

Restart(p) ==
    /\ At(p, "restart")
    /\ update_run_state("TASK_CLASSIFIED")
    /\ GoTo(p, "TASK_CLASSIFIED")
    /\ UNCHANGED gitVars
    /\ Frame

Resuming(p) == \/ Recover(p)
               \/ Dispatch(p)
               \/ OpenTree(p)
               \/ LookAtDiff(p)
               \/ RecreateTree(p)
               \/ RecreateBranch(p)
               \/ Restart(p)

-----------------------------------------------------------------------------
(* Cleaning up: run_cleanup, which works without the run lock *)

\* list_runs() is read once, before the worktrees are looked at.
ListRuns(p) ==
    /\ At(p, "list")
    /\ seen' = [seen EXCEPT ![p] = state]
    /\ GoTo(p, "check")
    /\ UNCHANGED <<dbVars, gitVars, lockVars, acquiring, agents, bounds,
                   history>>

\* A worktree whose writer lock names a live process is left alone.
CheckTree(p) ==
    /\ At(p, "check")
    /\ GoTo(p, CASE tree.exists /\ Vacant(writer_lock) -> "judge"
                 [] tree.exists /\ Stale(writer_lock) -> "clear_check"
                 [] OTHER -> "leave")
    /\ UNCHANGED <<dbVars, gitVars>>
    /\ Frame

\* Mutant of JudgeTree: runs that have not ended are not skipped.
JudgeTreeOfAnyRun(p) ==
    /\ At(p, "judge")
    /\ GoTo(p, IF seen[p] = "COMPLETED" /\ HasUnmergedWork THEN "leave"
                                                            ELSE "cleanup")
    /\ UNCHANGED <<dbVars, gitVars>>
    /\ Frame

\* By the state read at the start: is the worktree to be removed?
JudgeTree(p) ==
    /\ At(p, "judge")
    /\ GoTo(p, IF \/ seen[p] \notin TERMINAL_STATES
                  \/ seen[p] = "COMPLETED" /\ HasUnmergedWork
                 THEN "leave" ELSE "cleanup")
    /\ UNCHANGED <<dbVars, gitVars>>
    /\ Frame

CleanupTree(p) ==
    /\ At(p, "cleanup")
    /\ remove \/ UNCHANGED gitVars
    /\ GoTo(p, "cleanup_branch")
    /\ UNCHANGED dbVars
    /\ Frame

CleanupBranch(p) ==
    /\ At(p, "cleanup_branch")
    /\ delete_branch
    /\ GoTo(p, "leave")
    /\ UNCHANGED dbVars
    /\ Frame

Cleaning(p) == \/ ListRuns(p)
               \/ CheckTree(p)
               \/ JudgeTree(p)
               \/ CleanupTree(p)
               \/ CleanupBranch(p)

-----------------------------------------------------------------------------
Implementing(p) == \/ CreateWorktree(p)
                   \/ StartImplementing(p)
                   \/ EndImplementing(p)

Editing(p) == \/ TakeWriterLock(p)
              \/ Edit(p)
              \/ EndEdit(p)
              \/ ReleaseWriterLock(p)
              \/ AgentFailed(p)

Orphaned(p) == OrphanEdits(p) \/ OrphanEnds(p)

Checking(p) == \/ VerifyPasses(p)
               \/ VerifyFails(p)
               \/ Repaired(p)
               \/ BeginReview(p)
               \/ ReviewApproves(p)
               \/ ReviewObjects(p)
               \/ FixDone(p)
               \/ AfterReview(p)
               \/ ReverifyPasses(p)
               \/ ReverifyFails(p)
               \/ Decide(p)

Next == \E p \in Procs : \/ Start(p)
                        \/ Acquiring(p)
                        \/ Planning(p)
                        \/ ReleaseBetweenPhases(p)
                        \/ Implementing(p)
                        \/ Editing(p)
                        \/ Orphaned(p)
                        \/ Checking(p)
                        \/ Merging(p)
                        \/ Resuming(p)
                        \/ Cleaning(p)
                        \/ LosesTree(p)
                        \/ Leave(p)
                        \/ Crash(p)

Spec == Init /\ [][Next]_vars
-----------------------------------------------------------------------------
(* Properties *)

\* What `complete`, `resume`, `merge` and `cleanup` do one after the other,
\* each possibly dying on the way, never makes transition_run_state() raise:
\* every stage a command is resumed at accepts the transitions it makes.
NoInvalidTransition == \A p \in Procs : ~At(p, "invalid")

\* Everything on the base branch passed verification and review in exactly the
\* version that landed, and the user was asked about that version; unless an
\* agent that outlived its process wrote into it.
LandedIsGated ==
    \A i \in DOMAIN landed :
        landed[i] \in (verified \cap reviewed \cap approved) \cup stray

\* A blocked run remembers a stage that resume can send it back to.
BlockedIsRecoverable ==
    state = "BLOCKED" => /\ blockedFrom \in WorkflowState
                         /\ blockedFrom \notin TERMINAL_STATES \cup {"NEW"}

\* As long as no merge is recorded, uncommitted changes of agents disappear only
\* when a run has ended without being completed, or when they were made by an
\* agent that outlived its process.
UnmergedEditsKept ==
    [][~merged /\ tree.exists /\ ~DiffIsEmpty /\ ~tree'.exists
         => \/ state \in TERMINAL_STATES \ {"COMPLETED"}
            \/ tree.files \in stray]_vars

\* A completed or cancelled run is never reopened ("already ended in state ...;
\* nothing to resume", run_resume).
Ended == state \in {"COMPLETED", "CANCELLED"}
TerminalIsFinal == [][Ended => state' = state]_vars

\* Two processes that find the same stale run lock may unlink it one after the
\* other, the second one when the first has created its own; that takes a death.
RunLockIntact == crashes = 0 \/ ~broken

\* However commands overlap and die, one of them at most drives the run, also
\* after `complete` has given the run lock away between two phases, until the
\* run lock of a live process has been unlinked.
OneDriver ==
    RunLockIntact =>
        \A p, q \in Procs :
            pc[p] \in LockedPhases /\ pc[q] \in LockedPhases => p = q

\* The inductive form of OneDriver ...
RunLockHeld ==
    ~broken => \A p \in Procs : pc[p] \in LockedPhases => run_lock = p

\* ... for which nobody is about to break a lock before anybody has died ...
BreaksNeedDeath ==
    crashes = 0 => /\ ~broken
                   /\ \A p \in Procs : ~Dead(p) /\ acquiring[p] # "unlink"

\* ... and what a merge may rely on until it is recorded.
NothingMergedYet ==
    ~broken => \A p \in Procs : pc[p] \in {"pick", "record"} => ~merged

\* Once a merge is recorded nothing of the run lands any more ("this run was
\* already merged", preflight_merge), even if a resume that read an older state
\* starts all over; as long as the run lock has one holder.
RecordedMergeIsFinal == [][merged /\ RunLockIntact => landed' = landed]_vars

\* From the final gate to the base branch the version cannot change: what
\* `complete` or `resume` cherry-picks is a version the user chose to merge,
\* whoever resumes, merges or cleans up meanwhile; unless an agent that outlived
\* its process wrote into it, and as long as the run lock has one holder.
\* (`merge` asks before it takes the locks, and may land what a resume has made
\* of the run since.)
GateLandsApproved ==
    [][\A p \in Procs :
          /\ At(p, "pick")
          /\ Command[p] # "merge"
          /\ RunLockIntact
          /\ landed' # landed
          => landed'[Len(landed')] \in approved \cup stray]_vars

\* The inductive form of GateLandsApproved.
GateApproved ==
    ~broken =>
      \A p \in Procs :
        Command[p] # "merge" =>
            /\ At(p, "commit") /\ tree.exists
                  => tree.files \in approved \cup stray
            /\ At(p, "pick") => tree.head \in approved \cup stray

\* A worktree is not removed under the agent of a live process by whoever drives
\* the run, resumes or merges it, as long as the run lock has one holder.  A
\* cleanup may: it looked at the writer lock before the agent took it.
BeingEdited == \E p \in agents : ~Dead(p)
TreeKeptUnderWriter ==
    [][BeingEdited /\ RunLockIntact /\ tree.exists /\ ~tree'.exists
          => \E p \in Procs : At(p, "cleanup")]_vars

\* "a run always lands as exactly one commit" (WorktreeManager.commit).
LandsOnce == Len(landed) <= 1

\* As long as no process dies, commands that overlap in any way land at most
\* one commit.
LandsOnceUnlessCrashed == crashes = 0 => LandsOnce
=============================================================================
