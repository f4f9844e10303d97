-------------------------- MODULE RunLifecycleProofs --------------------------
(* Theorems about RunLifecycle, for every set of processes and commands, any *)
(* number of edits and crashes, and commands that overlap in any way.        *)
EXTENDS RunLifecycle, TLAPS

-----------------------------------------------------------------------------
(* What a step does to the run lock and to the process that takes it *)

\* p moves on; it is in a locked phase afterwards only if it was in one before.
MovesOn(p) ==
    /\ UNCHANGED <<run_lock, broken>>
    /\ \E phase \in Phases :
          /\ pc' = [pc EXCEPT ![p] = phase]
          /\ phase \in LockedPhases => pc[p] \in LockedPhases

\* p takes the run lock, which is free.
TakesRunLock(p) ==
    /\ run_lock = NoProc
    /\ run_lock' = p
    /\ UNCHANGED broken
    /\ \E phase \in Phases : pc' = [pc EXCEPT ![p] = phase]

\* p gives the run lock back, if it has it, and is in no locked phase.
GivesRunLock(p) ==
    /\ run_lock' = Releases(p, run_lock)
    /\ UNCHANGED broken
    /\ \E phase \in Phases \ LockedPhases : pc' = [pc EXCEPT ![p] = phase]

\* The run lock is unlinked, whoever it names.
BreaksRunLock ==
    /\ run_lock' = NoProc
    /\ broken' = (broken \/ \E q \in Procs : run_lock = q /\ ~Dead(q))
    /\ UNCHANGED pc

LockShape(p) == \/ MovesOn(p)
                \/ TakesRunLock(p)
                \/ GivesRunLock(p)
                \/ BreaksRunLock

PcTypeOK == pc \in [Procs -> Phases]

\* A step within the locked phases, or out of them.
LEMMA LockedStep ==
    ASSUME NEW p \in Procs, NEW phase \in Phases,
           pc[p] \in LockedPhases, GoTo(p, phase),
           UNCHANGED <<run_lock, broken>>
    PROVE  LockShape(p)
BY DEF GoTo, MovesOn, LockShape

\* A step to a phase in which no run lock is needed.
LEMMA UnlockedStep ==
    ASSUME NEW p \in Procs, NEW phase \in Phases \ LockedPhases,
           GoTo(p, phase), UNCHANGED <<run_lock, broken>>
    PROVE  LockShape(p)
BY DEF GoTo, MovesOn, LockShape

\* Enter() goes to the phase it is given or to "invalid".
LEMMA EnterStep ==
    ASSUME NEW p \in Procs, NEW to, NEW phase \in Phases,
           pc[p] \in LockedPhases, Enter(p, to, phase),
           UNCHANGED <<run_lock, broken>>
    PROVE  LockShape(p)
<1>1. "invalid" \in Phases
  BY DEF Phases
<1>2. QED
  BY <1>1, LockedStep DEF Enter

LEMMA PlanningShape ==
    ASSUME NEW p \in Procs, Planning(p)
    PROVE  LockShape(p)
<1>1. UNCHANGED <<run_lock, broken>>
  BY DEF Planning, Frame, lockVars, history, accidents
<1>2. pc[p] \in LockedPhases
  BY DEF Planning, Discover, StartPlanning, PlannerTurn, UserAnswers,
         PlanDecision, Classify, At, LockedPhases, Phases, WorkflowState
<1>3. \E to, phase : phase \in Phases /\ Enter(p, to, phase)
  BY DEF Planning, Discover, StartPlanning, PlannerTurn, UserAnswers,
         PlanDecision, Classify, Block, Phases, WorkflowState
<1>4. QED
  BY <1>1, <1>2, <1>3, EnterStep

LEMMA ImplementingShape ==
    ASSUME NEW p \in Procs, Implementing(p)
    PROVE  LockShape(p)
<1>1. UNCHANGED <<run_lock, broken>>
  BY DEF Implementing, CreateWorktree, StartImplementing, EndImplementing,
         Frame, lockVars, history, accidents
<1>2. pc[p] \in LockedPhases
  BY DEF Implementing, CreateWorktree, StartImplementing, EndImplementing,
         At, LockedPhases, Phases, WorkflowState
<1>3. \E to, phase : phase \in Phases /\ (Enter(p, to, phase) \/ GoTo(p, phase))
  BY DEF Implementing, CreateWorktree, StartImplementing, EndImplementing,
         Block, Phases, WorkflowState
<1>4. QED
  BY <1>1, <1>2, <1>3, EnterStep, LockedStep

LEMMA EditingShape ==
    ASSUME NEW p \in Procs, Editing(p), PcTypeOK
    PROVE  LockShape(p)
<1>1. UNCHANGED <<run_lock, broken>>
  BY DEF Editing, TakeWriterLock, Edit, EndEdit, ReleaseWriterLock,
         AgentFailed, Frame, lockVars, history, accidents
<1>2. pc[p] \in LockedPhases
  BY DEF Editing, TakeWriterLock, Edit, EndEdit, ReleaseWriterLock,
         AgentFailed, EditStages, At, LockedPhases, Phases, WorkflowState
<1>3. UNCHANGED pc
        \/ \E phase \in Phases : GoTo(p, phase) \/ \E to : Enter(p, to, phase)
  BY DEF Editing, TakeWriterLock, Edit, EndEdit, ReleaseWriterLock, procVars,
         AgentFailed, EditStages, At, Block, Phases, WorkflowState
<1>4. CASE UNCHANGED pc
  <2>1. pc[p] \in Phases /\ GoTo(p, pc[p])
    BY <1>4 DEF PcTypeOK, GoTo
  <2>2. QED
    BY <1>1, <1>2, <2>1, LockedStep
<1>5. QED
  BY <1>1, <1>2, <1>3, <1>4, EnterStep, LockedStep

LEMMA CheckingShape ==
    ASSUME NEW p \in Procs, Checking(p)
    PROVE  LockShape(p)
<1> USE DEF Checking, VerifyPasses, VerifyFails, Repaired, BeginReview,
            ReviewApproves, ReviewObjects, FixDone, AfterReview,
            ReverifyPasses, ReverifyFails, Decide
<1>1. UNCHANGED <<run_lock, broken>>
  BY DEF Frame, lockVars, history, accidents
<1>2. pc[p] \in LockedPhases
  BY DEF At, LockedPhases, Phases, WorkflowState
<1>3. \E to, phase : phase \in Phases /\ (Enter(p, to, phase) \/ GoTo(p, phase))
  BY DEF Block, Phases, WorkflowState
<1>4. QED
  BY <1>1, <1>2, <1>3, EnterStep, LockedStep

LEMMA MergingShape ==
    ASSUME NEW p \in Procs, Merging(p)
    PROVE  LockShape(p)
<1>1. CASE ConfirmMerge(p)
  <2>1. UNCHANGED <<run_lock, broken>>
    BY <1>1 DEF ConfirmMerge, lockVars, accidents
  <2>2. \E phase \in Phases \ LockedPhases : GoTo(p, phase)
    BY <1>1 DEF ConfirmMerge, Phases, LockedPhases
  <2>3. QED
    BY <2>1, <2>2, UnlockedStep
<1>2. CASE Merging(p) /\ ~ConfirmMerge(p)
  <2> USE DEF Merging, LockWriterForMerge, SkipMerge, CommitRun, Pick,
              RecordMerge, RemoveMerged, DeleteMergedBranch, Close
  <2>1. UNCHANGED <<run_lock, broken>>
    BY <1>2 DEF Frame, lockVars, history, accidents
  <2>2. pc[p] \in LockedPhases
    BY <1>2 DEF At, LockedPhases, Phases, WorkflowState
  <2>3. \E phase \in Phases : GoTo(p, phase) \/ \E to : Enter(p, to, phase)
    BY <1>2 DEF Phases, WorkflowState
  <2>4. QED
    BY <2>1, <2>2, <2>3, EnterStep, LockedStep
<1>3. QED
  BY <1>1, <1>2

LEMMA ResumingShape ==
    ASSUME NEW p \in Procs, Resuming(p)
    PROVE  LockShape(p)
<1>1. CASE Recover(p)
  <2>1. UNCHANGED <<run_lock, broken>>
    BY <1>1 DEF Recover, lockVars, history, accidents
  <2>2. \E phase \in Phases \ LockedPhases : GoTo(p, phase)
    BY <1>1 DEF Recover, Phases, LockedPhases
  <2>3. QED
    BY <2>1, <2>2, UnlockedStep
<1>2. CASE Resuming(p) /\ ~Recover(p)
  <2> USE DEF Resuming, Dispatch, OpenTree, LookAtDiff, RecreateTree,
              RecreateBranch, Restart
  <2>1. UNCHANGED <<run_lock, broken>>
    BY <1>2 DEF Frame, lockVars, history, accidents
  <2>2. pc[p] \in LockedPhases
    BY <1>2 DEF At, LockedPhases, Phases, WorkflowState
  <2>3. \E phase \in Phases : GoTo(p, phase) \/ \E to : Enter(p, to, phase)
    BY <1>2 DEF Phases, WorkflowState
  <2>4. QED
    BY <2>1, <2>2, <2>3, EnterStep, LockedStep
<1>3. QED
  BY <1>1, <1>2

LEMMA CleaningShape ==
    ASSUME NEW p \in Procs, Cleaning(p)
    PROVE  LockShape(p)
<1> USE DEF Cleaning, ListRuns, CheckTree, JudgeTree, CleanupTree, CleanupBranch
<1>1. UNCHANGED <<run_lock, broken>>
  BY DEF Frame, lockVars, history, accidents
<1>2. \E phase \in Phases \ LockedPhases : GoTo(p, phase)
  BY DEF Phases, LockedPhases
<1>3. QED
  BY <1>1, <1>2, UnlockedStep

\* Starting, losing the worktree and dying need no run lock ...
LEMMA StartingShape ==
    ASSUME NEW p \in Procs, Start(p) \/ LosesTree(p) \/ Crash(p)
    PROVE  LockShape(p)
<1> USE DEF Start, StartComplete, StartResume, StartMerge, StartCleanup,
            LosesTree, Crash
<1>1. UNCHANGED <<run_lock, broken>>
  BY DEF lockVars, history, accidents
<1>2. \E phase \in Phases \ LockedPhases : GoTo(p, phase)
  BY DEF Phases, LockedPhases
<1>3. QED
  BY <1>1, <1>2, UnlockedStep

\* ... nor does what happens to others or to the writer lock.
LEMMA StaysPut ==
    ASSUME NEW p \in Procs, PcTypeOK, UNCHANGED <<pc, run_lock, broken>>
    PROVE  LockShape(p)
<1>1. pc[p] \in Phases /\ pc' = [pc EXCEPT ![p] = pc[p]]
  BY DEF PcTypeOK
<1>2. QED
  BY <1>1 DEF MovesOn, LockShape

LEMMA OrphanedShape ==
    ASSUME NEW p \in Procs, PcTypeOK, Orphaned(p)
    PROVE  LockShape(p)
BY StaysPut DEF Orphaned, OrphanEdits, OrphanEnds, lockVars, procVars, history,
                accidents

LEMMA AcquiringShape ==
    ASSUME NEW p \in Procs, PcTypeOK, Acquiring(p)
    PROVE  LockShape(p)
<1>1. CASE Examine(p) \/ UnlinkWriterLock(p)
  BY <1>1, StaysPut DEF Examine, UnlinkWriterLock, lockVars, history, accidents
<1>2. CASE UnlinkRunLock(p)
  BY <1>2 DEF UnlinkRunLock, BreaksRunLock, LockShape
<1>3. CASE CreateRunLock(p)
  <2>1. UNCHANGED broken
    BY <1>3 DEF CreateRunLock, history, accidents
  <2>2. CASE Vacant(run_lock)
    <3>1. WithRunLock(p) \in Phases
      BY <1>3 DEF CreateRunLock, AcquiresRunLock, WithRunLock, At, Phases,
                  WorkflowState
    <3>2. QED
      BY <1>3, <2>1, <2>2, <3>1
         DEF CreateRunLock, Vacant, GoTo, TakesRunLock, LockShape
  <2>3. CASE ~Vacant(run_lock)
    <3>1. GoTo(p, "leave") /\ UNCHANGED run_lock
      BY <1>3, <2>3 DEF CreateRunLock
    <3>2. "leave" \in Phases \ LockedPhases
      BY DEF Phases, LockedPhases
    <3>3. QED
      BY <2>1, <3>1, <3>2, UnlockedStep
  <2>4. QED
    BY <2>2, <2>3
<1>4. CASE CreateWriterLock(p)
  <2>1. UNCHANGED <<run_lock, broken>>
    BY <1>4 DEF CreateWriterLock, history, accidents
  <2>2. CASE At(p, "clear_writer")
    <3>1. pc[p] \in LockedPhases
      BY <2>2 DEF At, LockedPhases, Phases
    <3>2. \E phase \in Phases : GoTo(p, phase)
      BY <1>4, <2>2 DEF CreateWriterLock, Phases
    <3>3. QED
      BY <2>1, <3>1, <3>2, LockedStep
  <2>3. CASE ~At(p, "clear_writer")
    <3>1. \E phase \in Phases \ LockedPhases : GoTo(p, phase)
      BY <1>4, <2>3 DEF CreateWriterLock, Phases, LockedPhases
    <3>2. QED
      BY <2>1, <3>1, UnlockedStep
  <2>4. QED
    BY <2>2, <2>3
<1>5. CASE ReleaseCleared(p)
  <2>1. UNCHANGED broken
    BY <1>5 DEF ReleaseCleared, history, accidents
  <2>2. CASE At(p, "cleared")
    <3>1. "list" \in Phases \ LockedPhases
      BY DEF Phases, LockedPhases
    <3>2. run_lock' = Releases(p, run_lock) /\ GoTo(p, "list")
      BY <1>5, <2>2 DEF ReleaseCleared, At
    <3>3. QED
      BY <2>1, <3>1, <3>2 DEF GoTo, GivesRunLock, LockShape
  <2>3. CASE At(p, "cleared_writer")
    <3>1. pc[p] \in LockedPhases /\ "diff" \in Phases
      BY <2>3 DEF At, LockedPhases, Phases
    <3>2. GoTo(p, "diff") /\ UNCHANGED run_lock
      BY <1>5, <2>3 DEF ReleaseCleared, At
    <3>3. QED
      BY <2>1, <3>1, <3>2, LockedStep
  <2>4. CASE At(p, "cleared_check")
    <3>1. "judge" \in Phases \ LockedPhases
      BY DEF Phases, LockedPhases
    <3>2. GoTo(p, "judge") /\ UNCHANGED run_lock
      BY <1>5, <2>4 DEF ReleaseCleared, At
    <3>3. QED
      BY <2>1, <3>1, <3>2, UnlockedStep
  <2>5. QED
    BY <1>5, <2>2, <2>3, <2>4 DEF ReleaseCleared, At
<1>6. QED
  BY <1>1, <1>2, <1>3, <1>4, <1>5 DEF Acquiring

\* The rest of Next gives the lock back.
LEMMA LockingShape ==
    ASSUME NEW p \in Procs, PcTypeOK, ReleaseBetweenPhases(p) \/ Leave(p)
    PROVE  LockShape(p)
<1>1. CASE ReleaseBetweenPhases(p)
  <2>1. pc[p] \in Phases \ LockedPhases
    BY <1>1 DEF ReleaseBetweenPhases, Phases, LockedPhases
  <2>2. pc' = [pc EXCEPT ![p] = pc[p]]
    BY <1>1 DEF ReleaseBetweenPhases, procVars, PcTypeOK
  <2>3. run_lock' = Releases(p, run_lock) /\ UNCHANGED broken
    BY <1>1 DEF ReleaseBetweenPhases, Releases, history, accidents
  <2>4. QED
    BY <2>1, <2>2, <2>3 DEF LockShape, GivesRunLock
<1>2. CASE Leave(p)
  <2>1. "done" \in Phases \ LockedPhases
    BY DEF Phases, LockedPhases
  <2>2. QED
    BY <1>2, <2>1 DEF Leave, GoTo, LockShape, GivesRunLock, history, accidents
<1>3. QED
  BY <1>1, <1>2

\* The steps of Next.
AnyStep(p) ==
    \/ Planning(p) \/ Implementing(p) \/ Editing(p) \/ Checking(p)
    \/ Merging(p) \/ Resuming(p) \/ Cleaning(p) \/ Start(p)
    \/ LosesTree(p) \/ Crash(p) \/ Leave(p) \/ Acquiring(p)
    \/ ReleaseBetweenPhases(p) \/ Orphaned(p)

LEMMA StepShape ==
    ASSUME PcTypeOK, NEW p \in Procs, AnyStep(p)
    PROVE  LockShape(p)
BY PlanningShape, ImplementingShape, EditingShape, CheckingShape, MergingShape,
   ResumingShape, CleaningShape, StartingShape, OrphanedShape, AcquiringShape,
   LockingShape DEF AnyStep

LEMMA NextShape ==
    PcTypeOK /\ Next => \E p \in Procs : LockShape(p)
BY StepShape DEF Next, AnyStep

-----------------------------------------------------------------------------
(* One driver at a time *)

\* A step of one of these shapes keeps every locked phase covered by the lock,
\* unless it unlinks that of a live process; and that is never forgotten.
LEMMA ShapeKeepsLock ==
    ASSUME PcTypeOK, RunLockHeld, NEW p \in Procs, LockShape(p)
    PROVE  PcTypeOK' /\ RunLockHeld' /\ (broken => broken')
<1> USE LifecycleAssumption DEF PcTypeOK, RunLockHeld
<1>1. CASE MovesOn(p)
  BY <1>1 DEF MovesOn
<1>2. CASE TakesRunLock(p)
  BY <1>2 DEF TakesRunLock
<1>3. CASE GivesRunLock(p)
  BY <1>3 DEF GivesRunLock, Releases
<1>4. CASE BreaksRunLock
  <2>1. "dead" \notin LockedPhases
    BY DEF LockedPhases
  <2>2. ASSUME ~broken', NEW q \in Procs, pc[q] \in LockedPhases PROVE FALSE
    <3>1. run_lock = q
      BY <1>4, <2>2 DEF BreaksRunLock
    <3>2. Dead(q)
      BY <1>4, <2>2, <3>1 DEF BreaksRunLock
    <3>3. QED
      BY <2>1, <2>2, <3>2 DEF Dead
  <2>3. QED
    BY <1>4, <2>2 DEF BreaksRunLock
<1>5. QED
  BY <1>1, <1>2, <1>3, <1>4 DEF LockShape

LEMMA StepKeepsLock ==
    ASSUME PcTypeOK, RunLockHeld, [Next]_vars
    PROVE  PcTypeOK' /\ RunLockHeld' /\ (broken => broken')
<1>1. CASE UNCHANGED vars
  BY <1>1 DEF vars, procVars, lockVars, history, accidents, PcTypeOK,
              RunLockHeld
<1>2. QED
  BY <1>1, NextShape, ShapeKeepsLock

\* A process in a stage of the run is the one the run lock names.
THEOREM RunLockProtects == Spec => [](PcTypeOK /\ RunLockHeld)
<1>1. Init => PcTypeOK /\ RunLockHeld
  BY DEF Init, PcTypeOK, RunLockHeld, Phases, LockedPhases
<1>2. QED
  BY <1>1, StepKeepsLock, PTL DEF Spec

\* Nobody but the one who dies counts crashes, and only who acquires a lock
\* breaks one.
LEMMA CrashesStay ==
    ASSUME NEW p \in Procs, AnyStep(p), ~Crash(p)
    PROVE  /\ UNCHANGED crashes
           /\ ~Acquiring(p) => UNCHANGED <<acquiring, broken>>
<1> USE DEF bounds, Frame, procData, procVars, history, accidents
<1>1. CASE Planning(p) \/ Implementing(p) \/ Editing(p)
  BY <1>1 DEF Planning, Implementing, CreateWorktree, StartImplementing,
              EndImplementing, Editing, TakeWriterLock, Edit, write, EndEdit,
              ReleaseWriterLock, AgentFailed
<1>2. CASE Checking(p)
  BY <1>2 DEF Checking, VerifyPasses, VerifyFails, Repaired, BeginReview,
              ReviewApproves, ReviewObjects, FixDone, AfterReview,
              ReverifyPasses, ReverifyFails, Decide
<1>3. CASE Merging(p)
  BY <1>3 DEF Merging, ConfirmMerge, LockWriterForMerge, SkipMerge, CommitRun,
              Pick, RecordMerge, RemoveMerged, DeleteMergedBranch, Close
<1>4. CASE Resuming(p)
  BY <1>4 DEF Resuming, Recover, Dispatch, OpenTree, LookAtDiff, RecreateTree,
              RecreateBranch, Restart
<1>5. CASE \/ Cleaning(p) \/ Start(p) \/ LosesTree(p) \/ Leave(p)
           \/ ReleaseBetweenPhases(p) \/ Orphaned(p)
  BY <1>5 DEF Cleaning, ListRuns, CheckTree, JudgeTree, CleanupTree,
              CleanupBranch, Start, StartComplete, StartResume, StartMerge,
              StartCleanup, LosesTree, Leave, ReleaseBetweenPhases, Orphaned,
              OrphanEdits, OrphanEnds, write
<1>6. CASE Acquiring(p)
  BY <1>6 DEF Acquiring, Examine, UnlinkRunLock, CreateRunLock,
              UnlinkWriterLock, CreateWriterLock, ReleaseCleared
<1>7. QED
  BY <1>1, <1>2, <1>3, <1>4, <1>5, <1>6 DEF AnyStep

\* Nobody else is dead afterwards.
LEMMA NobodyElseDies ==
    ASSUME NEW p \in Procs, AnyStep(p), ~Crash(p)
    PROVE  UNCHANGED pc \/ \E phase \in Phases \ {"dead"} : GoTo(p, phase)
<1> DEFINE Lives == \/ UNCHANGED pc
                    \/ \E phase \in Phases \ {"dead"} : GoTo(p, phase)
<1>0. ASSUME NEW to, NEW phase \in Phases \ {"dead"}, Enter(p, to, phase)
      PROVE  Lives
  BY <1>0 DEF Enter, Phases
<1>1. CASE Planning(p)
  <2>1. \E to : \E phase \in Phases \ {"dead"} : Enter(p, to, phase)
    BY <1>1 DEF Planning, Discover, StartPlanning, PlannerTurn, UserAnswers,
                PlanDecision, Classify, Block, Phases, WorkflowState
  <2>2. QED
    BY <1>0, <2>1
<1>2. CASE Implementing(p)
  <2>1. \E phase \in Phases \ {"dead"} :
           GoTo(p, phase) \/ \E to : Enter(p, to, phase)
    BY <1>2 DEF Implementing, CreateWorktree, StartImplementing,
                EndImplementing, Block, Phases, WorkflowState
  <2>2. QED
    BY <1>0, <2>1
<1>3. CASE Editing(p)
  <2>1. UNCHANGED pc \/ \E phase \in Phases \ {"dead"} :
           GoTo(p, phase) \/ \E to : Enter(p, to, phase)
    BY <1>3 DEF Editing, TakeWriterLock, Edit, EndEdit, ReleaseWriterLock,
                AgentFailed, EditStages, At, Block, Phases, WorkflowState,
                procVars
  <2>2. QED
    BY <1>0, <2>1
<1>4. CASE Checking(p)
  <2>1. \E phase \in Phases \ {"dead"} :
           GoTo(p, phase) \/ \E to : Enter(p, to, phase)
    BY <1>4 DEF Checking, VerifyPasses, VerifyFails, Repaired, BeginReview,
                ReviewApproves, ReviewObjects, FixDone, AfterReview,
                ReverifyPasses, ReverifyFails, Decide, Block, Phases,
                WorkflowState
  <2>2. QED
    BY <1>0, <2>1
<1>5. CASE Merging(p)
  <2>1. \E phase \in Phases \ {"dead"} :
           GoTo(p, phase) \/ \E to : Enter(p, to, phase)
    BY <1>5 DEF Merging, ConfirmMerge, LockWriterForMerge, SkipMerge, CommitRun,
                Pick, RecordMerge, RemoveMerged, DeleteMergedBranch, Close,
                Phases
  <2>2. QED
    BY <1>0, <2>1
<1>6. CASE Resuming(p)
  <2>1. \E phase \in Phases \ {"dead"} :
           GoTo(p, phase) \/ \E to : Enter(p, to, phase)
    BY <1>6 DEF Resuming, Recover, Dispatch, OpenTree, LookAtDiff, RecreateTree,
                RecreateBranch, Restart, Phases, WorkflowState
  <2>2. QED
    BY <1>0, <2>1
<1>7. CASE \/ Cleaning(p) \/ Start(p) \/ LosesTree(p) \/ Leave(p)
           \/ ReleaseBetweenPhases(p) \/ Orphaned(p)
  BY <1>7 DEF Cleaning, ListRuns, CheckTree, JudgeTree, CleanupTree,
              CleanupBranch, Start, StartComplete, StartResume, StartMerge,
              StartCleanup, LosesTree, Leave, ReleaseBetweenPhases, Orphaned,
              OrphanEdits, OrphanEnds, procVars, Phases
<1>8. CASE Acquiring(p)
  BY <1>8 DEF Acquiring, Examine, UnlinkRunLock, CreateRunLock,
              AcquiresRunLock, WithRunLock, At, UnlinkWriterLock,
              CreateWriterLock, ReleaseCleared, Phases, WorkflowState
<1>9. QED
  BY <1>1, <1>2, <1>3, <1>4, <1>5, <1>6, <1>7, <1>8 DEF AnyStep

\* As long as nobody has died nobody finds a lock stale, so that none is broken.
AcquiringOK == acquiring \in [Procs -> {"examine", "unlink", "create"}]
DeathInv == PcTypeOK /\ AcquiringOK /\ crashes \in Nat /\ BreaksNeedDeath

LEMMA AcquiringStep ==
    ASSUME AcquiringOK, NEW p \in Procs, AnyStep(p)
    PROVE  /\ AcquiringOK'
           /\ (\A q \in Procs : ~Dead(q)) =>
                 \A q \in Procs : acquiring'[q] = "unlink"
                                    => acquiring[q] = "unlink"
<1> USE DEF AcquiringOK
<1>1. CASE Acquiring(p)
  BY <1>1 DEF Acquiring, Examine, UnlinkRunLock, CreateRunLock,
              UnlinkWriterLock, CreateWriterLock, ReleaseCleared, NextStep,
              Stale, procData
<1>2. CASE Crash(p)
  BY <1>2 DEF Crash, NextStep
<1>3. CASE ~Acquiring(p) /\ ~Crash(p)
  BY <1>3, CrashesStay
<1>4. QED
  BY <1>1, <1>2, <1>3

LEMMA DeathStep ==
    ASSUME DeathInv, NEW p \in Procs, AnyStep(p)
    PROVE  AcquiringOK' /\ crashes' \in Nat /\ BreaksNeedDeath'
<1> USE DEF DeathInv, BreaksNeedDeath
<1>1. AcquiringOK'
  BY AcquiringStep
<1>2. CASE Crash(p)
  BY <1>1, <1>2 DEF Crash
<1>3. CASE ~Crash(p)
  <2>1. UNCHANGED crashes
    BY <1>3, CrashesStay
  <2>2. ASSUME crashes = 0 PROVE ~broken'
    <3>1. ~broken /\ \A q \in Procs : acquiring[q] # "unlink"
      BY <2>2
    <3>2. QED
      BY <1>3, <3>1, CrashesStay
         DEF Acquiring, Examine, UnlinkRunLock, CreateRunLock, UnlinkWriterLock,
             CreateWriterLock, ReleaseCleared, history, accidents
  <2>3. ASSUME crashes = 0, NEW q \in Procs PROVE ~Dead(q)'
    BY <1>3, <2>3, NobodyElseDies DEF PcTypeOK, Dead, GoTo
  <2>4. ASSUME crashes = 0, NEW q \in Procs PROVE acquiring'[q] # "unlink"
    BY <2>4, AcquiringStep
  <2>5. QED
    BY <1>1, <2>1, <2>2, <2>3, <2>4
<1>4. QED
  BY <1>2, <1>3

LEMMA BreaksTakeADeath == Spec => []BreaksNeedDeath
<1>1. Init => DeathInv
  BY DEF Init, DeathInv, PcTypeOK, AcquiringOK, BreaksNeedDeath, Dead, Phases
<1>2. RunLockHeld /\ DeathInv /\ [Next]_vars => DeathInv'
  <2> SUFFICES ASSUME RunLockHeld, DeathInv, [Next]_vars PROVE DeathInv'
    OBVIOUS
  <2>1. PcTypeOK'
    BY StepKeepsLock DEF DeathInv
  <2>2. CASE UNCHANGED vars
    BY <2>1, <2>2 DEF vars, procVars, procData, bounds, history, accidents,
                      DeathInv, AcquiringOK, BreaksNeedDeath, Dead
  <2>3. CASE Next
    <3>1. PICK p \in Procs : AnyStep(p)
      BY <2>3 DEF Next, AnyStep
    <3>2. QED
      BY <2>1, <3>1, DeathStep DEF DeathInv
  <2>4. QED
    BY <2>2, <2>3
<1>3. DeathInv => BreaksNeedDeath
  BY DEF DeathInv
<1>4. QED
  BY <1>1, <1>2, <1>3, RunLockProtects, PTL DEF Spec

\* At most one command drives the run, whatever overlaps and whoever dies, until
\* the run lock of a live process has been unlinked, which takes a death.
THEOREM OneDriverAlways == Spec => []OneDriver
<1>1. RunLockHeld /\ BreaksNeedDeath => OneDriver
  BY DEF RunLockHeld, OneDriver, RunLockIntact, BreaksNeedDeath
<1>2. QED
  BY <1>1, RunLockProtects, BreaksTakeADeath, PTL

-----------------------------------------------------------------------------
(* A recorded merge is final *)

\* A step that neither merges nor gets p anywhere near it.
Quiet(p) ==
    /\ UNCHANGED <<merged, landed>>
    /\ \/ UNCHANGED pc
       \/ \E phase \in Phases \ {"pick", "record"} :
             pc' = [pc EXCEPT ![p] = phase]

LEMMA EnterQuiet ==
    ASSUME NEW p \in Procs, NEW to, NEW phase \in Phases \ {"pick", "record"},
           Enter(p, to, phase), UNCHANGED landed
    PROVE  Quiet(p)
<1>1. "invalid" \in Phases \ {"pick", "record"}
  BY DEF Phases
<1>2. QED
  BY <1>1 DEF Enter, update_run_state, dbVars, GoTo, Quiet

LEMMA GoToQuiet ==
    ASSUME NEW p \in Procs, NEW phase \in Phases \ {"pick", "record"},
           GoTo(p, phase), UNCHANGED <<merged, landed>>
    PROVE  Quiet(p)
BY DEF GoTo, Quiet

LEMMA PlanningQuiet ==
    ASSUME NEW p \in Procs, Planning(p)
    PROVE  Quiet(p)
<1>1. UNCHANGED landed
  BY DEF Planning, gitVars
<1>2. \E to : \E phase \in Phases \ {"pick", "record"} : Enter(p, to, phase)
  BY DEF Planning, Discover, StartPlanning, PlannerTurn, UserAnswers,
         PlanDecision, Classify, Block, Phases, WorkflowState
<1>3. QED
  BY <1>1, <1>2, EnterQuiet

LEMMA ImplementingQuiet ==
    ASSUME NEW p \in Procs, Implementing(p)
    PROVE  Quiet(p)
<1> USE DEF Implementing, CreateWorktree, StartImplementing, EndImplementing
<1>1. UNCHANGED landed
  BY DEF gitVars, create
<1>2. \E phase \in Phases \ {"pick", "record"} :
         \/ \E to : Enter(p, to, phase)
         \/ GoTo(p, phase) /\ UNCHANGED merged
  BY DEF Block, Phases, WorkflowState, dbVars
<1>3. QED
  BY <1>1, <1>2, EnterQuiet, GoToQuiet

LEMMA EditingQuiet ==
    ASSUME NEW p \in Procs, Editing(p)
    PROVE  Quiet(p)
<1> USE DEF Editing, TakeWriterLock, Edit, write, EndEdit, ReleaseWriterLock,
            AgentFailed
<1>1. UNCHANGED landed
  BY DEF gitVars
<1>2. \/ UNCHANGED <<pc, merged>>
      \/ \E phase \in Phases \ {"pick", "record"} :
            \/ \E to : Enter(p, to, phase)
            \/ GoTo(p, phase) /\ UNCHANGED merged
  BY DEF EditStages, At, Block, Phases, WorkflowState, dbVars, procVars
<1>3. QED
  BY <1>1, <1>2, EnterQuiet, GoToQuiet DEF Quiet

LEMMA CheckingQuiet ==
    ASSUME NEW p \in Procs, Checking(p)
    PROVE  Quiet(p)
<1> USE DEF Checking, VerifyPasses, VerifyFails, Repaired, BeginReview,
            ReviewApproves, ReviewObjects, FixDone, AfterReview,
            ReverifyPasses, ReverifyFails, Decide
<1>1. UNCHANGED landed
  BY DEF gitVars
<1>2. \E phase \in Phases \ {"pick", "record"} :
         \/ \E to : Enter(p, to, phase)
         \/ GoTo(p, phase) /\ UNCHANGED merged
  BY DEF Block, Phases, WorkflowState, dbVars
<1>3. QED
  BY <1>1, <1>2, EnterQuiet, GoToQuiet

LEMMA MergingQuiet ==
    ASSUME NEW p \in Procs, Merging(p),
           ~CommitRun(p), ~Pick(p), ~RecordMerge(p)
    PROVE  Quiet(p)
<1> USE DEF Merging, ConfirmMerge, LockWriterForMerge, SkipMerge, RemoveMerged,
            DeleteMergedBranch, Close
<1>1. UNCHANGED landed
  BY DEF gitVars, remove, delete_branch
<1>2. \E phase \in Phases \ {"pick", "record"} :
         \/ \E to : Enter(p, to, phase)
         \/ GoTo(p, phase) /\ UNCHANGED merged
  BY DEF Phases, dbVars
<1>3. QED
  BY <1>1, <1>2, EnterQuiet, GoToQuiet

LEMMA ResumingQuiet ==
    ASSUME NEW p \in Procs, Resuming(p)
    PROVE  Quiet(p)
<1> USE DEF Resuming, Recover, Dispatch, OpenTree, LookAtDiff, RecreateTree,
            RecreateBranch, Restart
<1>1. UNCHANGED landed
  BY DEF gitVars, remove, delete_branch
<1>2. \E phase \in Phases \ {"pick", "record"} :
         \/ \E to : Enter(p, to, phase)
         \/ GoTo(p, phase) /\ UNCHANGED merged
  BY DEF Phases, WorkflowState, dbVars, update_run_state
<1>3. QED
  BY <1>1, <1>2, EnterQuiet, GoToQuiet

LEMMA RestQuiet ==
    ASSUME NEW p \in Procs,
           \/ Cleaning(p)
           \/ Start(p)
           \/ LosesTree(p)
           \/ Crash(p)
           \/ ReleaseBetweenPhases(p)
           \/ Leave(p)
    PROVE  Quiet(p)
<1> USE DEF Cleaning, ListRuns, CheckTree, JudgeTree, CleanupTree,
            CleanupBranch, Start, StartComplete, StartResume, StartMerge,
            StartCleanup, LosesTree, Crash, ReleaseBetweenPhases, Leave
<1>1. UNCHANGED <<merged, landed>>
  BY DEF dbVars, gitVars, remove, delete_branch
<1>2. UNCHANGED pc \/ \E phase \in Phases \ {"pick", "record"} : GoTo(p, phase)
  BY DEF Phases, procVars
<1>3. QED
  BY <1>1, <1>2, GoToQuiet DEF Quiet

LEMMA AcquiringQuiet ==
    ASSUME NEW p \in Procs, Acquiring(p)
    PROVE  Quiet(p)
<1> USE DEF Acquiring, Examine, UnlinkRunLock, CreateRunLock, UnlinkWriterLock,
            CreateWriterLock, ReleaseCleared
<1>1. UNCHANGED <<merged, landed>>
  BY DEF dbVars, gitVars
<1>2. UNCHANGED pc \/ \E phase \in Phases \ {"pick", "record"} : GoTo(p, phase)
  BY DEF AcquiresRunLock, WithRunLock, At, Phases, WorkflowState
<1>3. QED
  BY <1>1, <1>2, GoToQuiet DEF Quiet

LEMMA OrphanedQuiet ==
    ASSUME NEW p \in Procs, Orphaned(p)
    PROVE  Quiet(p)
BY DEF Orphaned, OrphanEdits, OrphanEnds, write, dbVars, gitVars, procVars,
       Quiet

LEMMA NextQuiet ==
    Next => \E p \in Procs : \/ CommitRun(p)
                             \/ Pick(p)
                             \/ RecordMerge(p)
                             \/ Quiet(p)
BY PlanningQuiet, ImplementingQuiet, EditingQuiet, CheckingQuiet, MergingQuiet,
   ResumingQuiet, RestQuiet, AcquiringQuiet, OrphanedQuiet DEF Next

\* A process about to land or to record finds no recorded merge: it checked in
\* CommitRun, and since then nobody else can have been where it is.
LEMMA MergeGuarded ==
    PcTypeOK /\ RunLockHeld /\ NothingMergedYet /\ [Next]_vars
      => NothingMergedYet'
<1> SUFFICES ASSUME PcTypeOK, RunLockHeld, NothingMergedYet, [Next]_vars,
                    ~broken'
             PROVE  NothingMergedYet'
  BY DEF NothingMergedYet
<1>0. ~broken
  BY StepKeepsLock
<1> USE <1>0 DEF PcTypeOK, NothingMergedYet
<1>1. ASSUME NEW p \in Procs, CommitRun(p) PROVE NothingMergedYet'
  BY <1>1 DEF CommitRun, MergeOffered, dbVars, GoTo
<1>2. ASSUME NEW p \in Procs, Pick(p) PROVE NothingMergedYet'
  BY <1>2 DEF Pick, At, dbVars, GoTo
<1>3. ASSUME NEW p \in Procs, RecordMerge(p) PROVE NothingMergedYet'
  <2>1. {"pick", "record"} \subseteq LockedPhases
    BY DEF LockedPhases, Phases
  <2>2. \A q \in Procs \ {p} : pc[q] \notin {"pick", "record"}
    BY <1>3, <2>1 DEF RecordMerge, At, RunLockHeld
  <2>3. QED
    BY <1>3, <2>2 DEF RecordMerge, GoTo
<1>4. ASSUME NEW p \in Procs, Quiet(p) PROVE NothingMergedYet'
  BY <1>4 DEF Quiet
<1>5. CASE UNCHANGED vars
  BY <1>5 DEF vars, procVars, dbVars
<1>6. QED
  BY <1>1, <1>2, <1>3, <1>4, <1>5, NextQuiet

\* Nothing lands once a merge is recorded, even from a resume that started from
\* a state it had read before; as long as the run lock has one holder.
THEOREM MergeIsFinal == Spec => RecordedMergeIsFinal
<1>1. Init => NothingMergedYet
  BY DEF Init, NothingMergedYet
<1>2. NothingMergedYet /\ BreaksNeedDeath /\ [Next]_vars
        => (merged /\ RunLockIntact => landed' = landed)
  <2> SUFFICES ASSUME NothingMergedYet, BreaksNeedDeath, [Next]_vars, merged,
                      RunLockIntact
               PROVE  landed' = landed
    OBVIOUS
  <2>0. ~broken
    BY DEF BreaksNeedDeath, RunLockIntact
  <2>1. ASSUME NEW p \in Procs, CommitRun(p) PROVE landed' = landed
    BY <2>1 DEF CommitRun, commit
  <2>2. ASSUME NEW p \in Procs, Pick(p) PROVE FALSE
    BY <2>0, <2>2 DEF Pick, At, NothingMergedYet
  <2>3. ASSUME NEW p \in Procs, RecordMerge(p) PROVE landed' = landed
    BY <2>3 DEF RecordMerge, gitVars
  <2>4. ASSUME NEW p \in Procs, Quiet(p) PROVE landed' = landed
    BY <2>4 DEF Quiet
  <2>5. CASE UNCHANGED vars
    BY <2>5 DEF vars, gitVars
  <2>6. QED
    BY <2>1, <2>2, <2>3, <2>4, <2>5, NextQuiet
<1>3. QED
  BY <1>1, <1>2, RunLockProtects, BreaksTakeADeath, MergeGuarded, PTL
     DEF Spec, RecordedMergeIsFinal

-----------------------------------------------------------------------------
(* Type correctness *)

DbOK == /\ state \in WorkflowState
        /\ blockedFrom \in WorkflowState \cup {"none"}
        /\ merged \in BOOLEAN

Trees == [files : Versions, head : Versions, commits : 0..1, exists : BOOLEAN]
GitOK == /\ tree \in Trees
         /\ branch \in BOOLEAN
         /\ landed \in Seq(Versions)

LocksOK == /\ run_lock \in Procs \cup {NoProc}
           /\ writer_lock \in Procs \cup {NoProc}

RestOK == /\ seen \in [Procs -> WorkflowState]
          /\ agents \subseteq Procs
          /\ edits \in Versions
          /\ crashes \in 0..MaxCrashes
          /\ verified \subseteq Versions
          /\ reviewed \subseteq Versions
          /\ approved \subseteq Versions
          /\ stray \subseteq Versions
          /\ broken \in BOOLEAN

LEMMA TypeParts ==
    TypeOK <=> DbOK /\ GitOK /\ LocksOK /\ RestOK /\ PcTypeOK /\ AcquiringOK
BY DEF TypeOK, StoreTypeOK, DbOK, GitOK, Trees, LocksOK, RestOK, PcTypeOK,
       AcquiringOK

\* The parts of a worktree record.
LEMMA TreeOf ==
    ASSUME NEW f \in Versions, NEW h \in Versions, NEW n \in 0..1,
           NEW b \in BOOLEAN
    PROVE  [files |-> f, head |-> h, commits |-> n, exists |-> b] \in Trees
BY Zenon DEF Trees

LEMMA NoTreeOK == NoTree \in Trees
<1>1. 0 \in Versions /\ 0 \in 0..1 /\ FALSE \in BOOLEAN
  BY LifecycleAssumption DEF Versions
<1>2. QED
  BY <1>1, TreeOf DEF NoTree

\* An edit of the files, and a commit of them, give a worktree again.
LEMMA TreeEdited ==
    ASSUME NEW t \in Trees, NEW v \in Versions
    PROVE  [t EXCEPT !.files = v] \in Trees
BY Zenon DEF Trees

LEMMA TreeCommitted ==
    ASSUME NEW t \in Trees
    PROVE  [t EXCEPT !.head = t.files, !.commits = 1] \in Trees
<1>1. t.files \in Versions /\ 1 \in 0..1
  BY DEF Trees
<1>2. QED
  BY <1>1, Zenon DEF Trees

LEMMA TreeRemoved ==
    ASSUME NEW t \in Trees
    PROVE  /\ [NoTree EXCEPT !.head = t.head] \in Trees
           /\ [NoTree EXCEPT !.head = t.head].head = t.head
           /\ ~[NoTree EXCEPT !.head = t.head].exists
<1>1. t.head \in Versions
  BY DEF Trees
<1>2. NoTree \in Trees
  BY NoTreeOK
<1>3. [NoTree EXCEPT !.head = t.head] \in Trees
  BY <1>1, <1>2, Zenon DEF Trees
<1>4. QED
  BY <1>3 DEF NoTree

\* The operations of git/worktree.py keep the type of what they work on.
GitStep == \/ UNCHANGED gitVars
           \/ create
           \/ commit
           \/ cherry_pick
           \/ remove
           \/ delete_branch

LEMMA GitStepOK ==
    ASSUME GitOK, GitStep
    PROVE  GitOK'
<1> USE DEF GitOK
<1>1. CASE UNCHANGED gitVars
  BY <1>1 DEF gitVars
<1>2. CASE create
  <2>1. BaseTip \in Versions
    BY LifecycleAssumption DEF BaseTip, Versions
  <2>2. 0 \in 0..1 /\ TRUE \in BOOLEAN
    OBVIOUS
  <2>3. [files |-> BaseTip, head |-> BaseTip, commits |-> 0,
         exists |-> TRUE] \in Trees
    BY <2>1, <2>2, TreeOf
  <2>4. QED
    BY <1>2, <2>3 DEF create
<1>3. CASE commit
  BY <1>3, TreeCommitted DEF commit
<1>4. CASE cherry_pick
  <2>1. tree.head \in Versions
    BY DEF Trees
  <2>2. Append(landed, tree.head) \in Seq(Versions)
    BY <2>1
  <2>3. QED
    BY <1>4, <2>2 DEF cherry_pick
<1>5. CASE remove
  BY <1>5, TreeRemoved DEF remove
<1>6. CASE delete_branch
  <2>1. tree.exists \in BOOLEAN
    BY DEF Trees
  <2>2. QED
    BY <1>6, <2>1 DEF delete_branch
<1>7. QED
  BY <1>1, <1>2, <1>3, <1>4, <1>5, <1>6 DEF GitStep

\* A run is blocked by a legal transition (or by writing back what is written in
\* its history, which is no block, see RecoverInv).
BlockedLegally(to) ==
    to = "BLOCKED" => Valid(state, to) \/ to = blockedFrom

\* A step of the run's state: none, a state of the enumeration, or the record of
\* a merge.
DbStep == \/ UNCHANGED dbVars
          \/ \E to \in WorkflowState : BlockedLegally(to) /\ update_run_state(to)
          \/ merged' = TRUE /\ UNCHANGED <<state, blockedFrom>>

LEMMA DbStepOK ==
    ASSUME DbOK, DbStep
    PROVE  DbOK'
BY DEF DbOK, DbStep, dbVars, update_run_state

LEMMA EnterDb ==
    ASSUME NEW p, NEW to \in WorkflowState, NEW phase, Enter(p, to, phase)
    PROVE  DbStep
BY DEF Enter, DbStep, BlockedLegally

LEMMA StepDb ==
    ASSUME DbOK, NEW p \in Procs,
           AnyStep(p)
    PROVE  DbStep
<1>1. CASE Planning(p)
  <2>1. \E phase : \E to \in WorkflowState : Enter(p, to, phase)
    BY <1>1 DEF Planning, Discover, StartPlanning, PlannerTurn, UserAnswers,
                PlanDecision, Classify, Block, WorkflowState
  <2>2. QED
    BY <2>1, EnterDb
<1>2. CASE Implementing(p)
  <2>1. \/ UNCHANGED dbVars
        \/ \E phase : \E to \in WorkflowState : Enter(p, to, phase)
    BY <1>2 DEF Implementing, CreateWorktree, StartImplementing,
                EndImplementing, Block, WorkflowState
  <2>2. QED
    BY <2>1, EnterDb DEF DbStep
<1>3. CASE Editing(p)
  <2>1. \/ UNCHANGED dbVars
        \/ \E phase : \E to \in WorkflowState : Enter(p, to, phase)
    BY <1>3 DEF Editing, TakeWriterLock, Edit, EndEdit, ReleaseWriterLock,
                AgentFailed, Block, WorkflowState
  <2>2. QED
    BY <2>1, EnterDb DEF DbStep
<1>4. CASE Checking(p)
  <2>1. \/ UNCHANGED dbVars
        \/ \E phase : \E to \in WorkflowState : Enter(p, to, phase)
    BY <1>4 DEF Checking, VerifyPasses, VerifyFails, Repaired, BeginReview,
                ReviewApproves, ReviewObjects, FixDone, AfterReview,
                ReverifyPasses, ReverifyFails, Decide, Block, WorkflowState
  <2>2. QED
    BY <2>1, EnterDb DEF DbStep
<1>5. CASE Merging(p)
  <2>1. \/ UNCHANGED dbVars
        \/ RecordMerge(p)
        \/ Enter(p, "COMPLETED", "leave")
    BY <1>5 DEF Merging, ConfirmMerge, LockWriterForMerge, SkipMerge,
                CommitRun, Pick, RemoveMerged, DeleteMergedBranch, Close
  <2>2. "COMPLETED" \in WorkflowState
    BY DEF WorkflowState
  <2>3. QED
    BY <2>1, <2>2, EnterDb DEF DbStep, RecordMerge
<1>6. CASE Resuming(p)
  <2>1. \/ UNCHANGED dbVars
        \/ \E phase : \E to \in WorkflowState : Enter(p, to, phase)
        \/ \E to \in WorkflowState : BlockedLegally(to) /\ update_run_state(to)
    BY <1>6 DEF Resuming, Recover, Dispatch, OpenTree, LookAtDiff,
                RecreateTree, RecreateBranch, Restart, DbOK, WorkflowState,
                BlockedLegally
  <2>2. QED
    BY <2>1, EnterDb DEF DbStep
<1>7. CASE \/ Cleaning(p) \/ Start(p) \/ LosesTree(p) \/ Crash(p) \/ Leave(p)
           \/ ReleaseBetweenPhases(p) \/ Acquiring(p) \/ Orphaned(p)
  BY <1>7 DEF Cleaning, ListRuns, CheckTree, JudgeTree, CleanupTree,
              CleanupBranch, Start, StartComplete, StartResume, StartMerge,
              StartCleanup, LosesTree, Crash, Leave, ReleaseBetweenPhases,
              Acquiring, Examine, UnlinkRunLock, CreateRunLock,
              UnlinkWriterLock, CreateWriterLock, ReleaseCleared, Orphaned,
              OrphanEdits, OrphanEnds, DbStep
<1>8. QED
  BY <1>1, <1>2, <1>3, <1>4, <1>5, <1>6, <1>7 DEF AnyStep

LEMMA StepGit ==
    ASSUME NEW p \in Procs, AnyStep(p), ~Edit(p), ~OrphanEdits(p)
    PROVE  GitStep
<1> USE DEF GitStep
<1>1. CASE Planning(p) \/ Implementing(p)
  BY <1>1 DEF Planning, Implementing, CreateWorktree, StartImplementing,
              EndImplementing
<1>2. CASE Editing(p)
  BY <1>2 DEF Editing, TakeWriterLock, EndEdit, ReleaseWriterLock, AgentFailed
<1>3. CASE Checking(p)
  BY <1>3 DEF Checking, VerifyPasses, VerifyFails, Repaired, BeginReview,
              ReviewApproves, ReviewObjects, FixDone, AfterReview,
              ReverifyPasses, ReverifyFails, Decide
<1>4. CASE Merging(p)
  BY <1>4 DEF Merging, ConfirmMerge, LockWriterForMerge,
              SkipMerge, CommitRun, Pick, RecordMerge, RemoveMerged,
              DeleteMergedBranch, Close
<1>5. CASE Resuming(p)
  BY <1>5 DEF Resuming, Recover, Dispatch, OpenTree, LookAtDiff,
              RecreateTree, RecreateBranch, Restart
<1>6. CASE \/ Cleaning(p) \/ Start(p) \/ LosesTree(p) \/ Crash(p) \/ Leave(p)
           \/ ReleaseBetweenPhases(p) \/ Acquiring(p) \/ Orphaned(p)
  BY <1>6 DEF Cleaning, ListRuns, CheckTree, JudgeTree, CleanupTree,
              CleanupBranch, Start, StartComplete, StartResume, StartMerge,
              StartCleanup, LosesTree, Crash, Leave, ReleaseBetweenPhases,
              Acquiring, Examine, UnlinkRunLock, CreateRunLock,
              UnlinkWriterLock, CreateWriterLock, ReleaseCleared, Orphaned,
              OrphanEdits, OrphanEnds
<1>7. QED
  BY <1>1, <1>2, <1>3, <1>4, <1>5, <1>6 DEF AnyStep

\* A lock is kept, taken by p, or given back.
LEMMA StepLocks ==
    ASSUME LocksOK, NEW p \in Procs, AnyStep(p)
    PROVE  LocksOK'
<1> USE DEF LocksOK, lockVars, Frame, Releases
<1>1. CASE Planning(p) \/ Implementing(p) \/ Editing(p)
  BY <1>1 DEF Planning, Implementing, CreateWorktree, StartImplementing,
              EndImplementing, Editing, TakeWriterLock, Edit, EndEdit,
              ReleaseWriterLock, AgentFailed
<1>2. CASE Checking(p)
  BY <1>2 DEF Checking, VerifyPasses, VerifyFails, Repaired, BeginReview,
              ReviewApproves, ReviewObjects, FixDone, AfterReview,
              ReverifyPasses, ReverifyFails, Decide
<1>3. CASE Merging(p)
  BY <1>3 DEF Merging, ConfirmMerge, LockWriterForMerge,
              SkipMerge, CommitRun, Pick, RecordMerge, RemoveMerged,
              DeleteMergedBranch, Close
<1>4. CASE Resuming(p)
  BY <1>4 DEF Resuming, Recover, Dispatch, OpenTree, LookAtDiff,
              RecreateTree, RecreateBranch, Restart
<1>5. CASE \/ Cleaning(p) \/ Start(p) \/ LosesTree(p) \/ Crash(p) \/ Leave(p)
           \/ ReleaseBetweenPhases(p) \/ Acquiring(p) \/ Orphaned(p)
  BY <1>5 DEF Cleaning, ListRuns, CheckTree, JudgeTree, CleanupTree,
              CleanupBranch, Start, StartComplete, StartResume, StartMerge,
              StartCleanup, LosesTree, Crash, Leave, ReleaseBetweenPhases,
              Acquiring, Examine, UnlinkRunLock, CreateRunLock,
              UnlinkWriterLock, CreateWriterLock, ReleaseCleared, Orphaned,
              OrphanEdits, OrphanEnds
<1>6. QED
  BY <1>1, <1>2, <1>3, <1>4, <1>5 DEF AnyStep

\* The bounds hold by the guards of write and Crash; the history grows by the
\* version that is in the worktree.
LEMMA StepRest ==
    ASSUME DbOK, GitOK, RestOK, NEW p \in Procs, AnyStep(p)
    PROVE  RestOK'
<1> USE LifecycleAssumption
    DEF RestOK, DbOK, bounds, history, accidents, Frame, procData, procVars,
        Versions
<1>1. tree.files \in Versions
  BY DEF GitOK, Trees
<1>2. CASE Planning(p) \/ Implementing(p)
  BY <1>2 DEF Planning, Implementing, CreateWorktree, StartImplementing,
              EndImplementing
<1>3. CASE Edit(p) \/ OrphanEdits(p)
  <2>1. edits + 1 \in Versions
    BY <1>3 DEF Edit, OrphanEdits, write
  <2>2. QED
    BY <1>3, <2>1 DEF Edit, OrphanEdits, write, AddsTo
<1>4. CASE Editing(p) /\ ~Edit(p)
  BY <1>4 DEF Editing, TakeWriterLock, EndEdit, ReleaseWriterLock, AgentFailed
<1>5. CASE Checking(p)
  BY <1>1, <1>5
     DEF Checking, VerifyPasses, VerifyFails, Repaired, BeginReview,
         ReviewApproves, ReviewObjects, FixDone, AfterReview,
         ReverifyPasses, ReverifyFails, Decide
<1>6. CASE Merging(p)
  BY <1>1, <1>6
     DEF Merging, ConfirmMerge, LockWriterForMerge,
         SkipMerge, CommitRun, Pick, RecordMerge, RemoveMerged,
         DeleteMergedBranch, Close
<1>7. CASE Resuming(p)
  BY <1>7 DEF Resuming, Recover, Dispatch, OpenTree, LookAtDiff,
              RecreateTree, RecreateBranch, Restart
<1>8. CASE Crash(p)
  BY <1>8 DEF Crash
<1>9. CASE Start(p)
  BY <1>9 DEF Start, StartComplete, StartResume, StartMerge, StartCleanup
<1>10. CASE \/ Cleaning(p) \/ LosesTree(p) \/ Leave(p)
            \/ ReleaseBetweenPhases(p) \/ OrphanEnds(p)
  BY <1>10 DEF Cleaning, ListRuns, CheckTree, JudgeTree, CleanupTree,
               CleanupBranch, LosesTree, Leave, ReleaseBetweenPhases,
               OrphanEnds
<1>11. CASE Acquiring(p)
  BY <1>11 DEF Acquiring, Examine, UnlinkRunLock, CreateRunLock,
               UnlinkWriterLock, CreateWriterLock, ReleaseCleared
<1>12. QED
  BY <1>2, <1>3, <1>4, <1>5, <1>6, <1>7, <1>8, <1>9, <1>10, <1>11
     DEF AnyStep, Orphaned

\* The state of RunLifecycle always has its type.
THEOREM TypeCorrect == Spec => []TypeOK
<1>1. Init => TypeOK
  <2>1. Init => DbOK /\ LocksOK
    BY DEF Init, StoreInit, DbOK, LocksOK, WorkflowState
  <2>2. Init => GitOK
    <3>1. <<>> \in Seq(Versions)
      OBVIOUS
    <3>2. QED
      BY <3>1, NoTreeOK DEF Init, StoreInit, GitOK
  <2>3. Init => RestOK /\ PcTypeOK /\ AcquiringOK
    <3>1. Init => PcTypeOK /\ AcquiringOK
      BY DEF Init, PcTypeOK, AcquiringOK, Phases
    <3>2. Init => seen \in [Procs -> WorkflowState]
      BY DEF Init, WorkflowState
    <3>3. 0 \in Versions /\ 0 \in 0..MaxCrashes
      BY LifecycleAssumption DEF Versions
    <3>4. QED
      BY <3>1, <3>2, <3>3 DEF Init, RestOK
  <2>4. QED
    BY <2>1, <2>2, <2>3, TypeParts
<1>2. TypeOK /\ [Next]_vars => TypeOK'
  <2> SUFFICES ASSUME TypeOK, [Next]_vars PROVE TypeOK'
    OBVIOUS
  <2>1. DbOK /\ GitOK /\ LocksOK /\ RestOK /\ PcTypeOK /\ AcquiringOK
    BY TypeParts
  <2>2. CASE UNCHANGED vars
    BY <2>2 DEF vars, dbVars, gitVars, lockVars, procVars, procData, bounds,
                history, accidents, TypeOK, StoreTypeOK
  <2>3. ASSUME NEW p \in Procs, AnyStep(p)
        PROVE  DbOK' /\ GitOK' /\ LocksOK' /\ RestOK' /\ AcquiringOK'
    <3>1. DbOK' /\ LocksOK' /\ RestOK' /\ AcquiringOK'
      BY <2>1, <2>3, StepDb, DbStepOK, StepLocks, StepRest, AcquiringStep
    <3>2. CASE Edit(p) \/ OrphanEdits(p)
      <4>0. write
        BY <3>2 DEF Edit, OrphanEdits
      <4>1. edits + 1 \in Versions
        BY <2>1, <4>0, LifecycleAssumption DEF write, RestOK, Versions
      <4>2. tree' = [tree EXCEPT !.files = edits + 1]
        BY <4>0, Zenon DEF write
      <4>3. UNCHANGED <<branch, landed>>
        BY <4>0 DEF write
      <4>4. tree' \in Trees
        BY <2>1, <4>1, <4>2, TreeEdited, Zenon DEF GitOK
      <4>5. QED
        BY <2>1, <3>1, <4>3, <4>4 DEF GitOK
    <3>3. CASE ~Edit(p) /\ ~OrphanEdits(p)
      BY <2>1, <2>3, <3>1, <3>3, StepGit, GitStepOK
    <3>4. QED
      BY <3>2, <3>3
  <2>4. CASE Next
    <3>1. \E p \in Procs : AnyStep(p)
      BY <2>4 DEF Next, AnyStep
    <3>2. PcTypeOK'
      BY <2>1, <2>4, NextShape
         DEF PcTypeOK, LockShape, MovesOn, TakesRunLock, GivesRunLock,
             BreaksRunLock
    <3>3. QED
      BY <2>3, <3>1, <3>2
         DEF TypeOK, StoreTypeOK, DbOK, GitOK, Trees, LocksOK, RestOK, PcTypeOK,
             AcquiringOK
  <2>5. QED
    BY <2>2, <2>4
<1>3. QED
  BY <1>1, <1>2, PTL DEF Spec

-----------------------------------------------------------------------------
(* A run lands once *)

\* Whoever has landed a commit records it, or dies ...
LEMMA RecordsOrDies ==
    ASSUME NEW p \in Procs, AnyStep(p), pc[p] = "record"
    PROVE  RecordMerge(p) \/ Crash(p)
<1> USE DEF At
<1>1. ~Planning(p) /\ ~Implementing(p)
  BY DEF Planning, Discover, StartPlanning, PlannerTurn, UserAnswers,
         PlanDecision, Classify, Implementing, CreateWorktree,
         StartImplementing, EndImplementing
<1>2. ~Editing(p)
  BY DEF Editing, TakeWriterLock, Edit, EndEdit, ReleaseWriterLock,
         AgentFailed, EditStages
<1>3. ~Checking(p)
  BY DEF Checking, VerifyPasses, VerifyFails, Repaired, BeginReview,
         ReviewApproves, ReviewObjects, FixDone, AfterReview,
         ReverifyPasses, ReverifyFails, Decide
<1>4. Merging(p) => RecordMerge(p)
  BY DEF Merging, ConfirmMerge, LockWriterForMerge, SkipMerge, CommitRun, Pick,
         RemoveMerged, DeleteMergedBranch, Close
<1>5. ~Resuming(p) /\ ~Cleaning(p)
  BY DEF Resuming, Recover, Dispatch, OpenTree, LookAtDiff, RecreateTree,
         RecreateBranch, Restart, Cleaning, ListRuns, CheckTree, JudgeTree,
         CleanupTree, CleanupBranch
<1>6. /\ ~Start(p) /\ ~LosesTree(p) /\ ~Leave(p)
      /\ ~ReleaseBetweenPhases(p) /\ ~Orphaned(p)
  BY DEF Start, StartComplete, StartResume, StartMerge, StartCleanup, MayStart,
         LosesTree, NeedsTree, EditStages, Leave, ReleaseBetweenPhases,
         Orphaned, OrphanEdits, OrphanEnds, Dead
<1>7. ~Acquiring(p)
  BY DEF Acquiring, Examine, UnlinkRunLock, CreateRunLock, UnlinkWriterLock,
         CreateWriterLock, ReleaseCleared, AcquiresRunLock, ClearsWriterLock
<1>8. QED
  BY <1>1, <1>2, <1>3, <1>4, <1>5, <1>6, <1>7 DEF AnyStep

\* The inductive form: a commit that has landed is recorded, or is about to be.
LandedIsRecorded ==
    crashes = 0 => \/ landed = <<>>
                   \/ /\ Len(landed) = 1
                      /\ merged \/ \E p \in Procs : pc[p] = "record"

LEMMA RecordedIsInductive ==
    ASSUME TypeOK, RunLockHeld, NothingMergedYet, BreaksNeedDeath,
           LandedIsRecorded, NEW p \in Procs, AnyStep(p)
    PROVE  LandedIsRecorded'
<1> USE DEF LandedIsRecorded
<1>0. pc \in [Procs -> Phases] /\ crashes \in Nat
  BY LifecycleAssumption DEF TypeOK
<1>1. CASE Crash(p)
  BY <1>0, <1>1 DEF Crash
<1>2. CASE ~Crash(p)
  <2>1. UNCHANGED crashes
    BY <1>2, CrashesStay
  <2>2. CASE Pick(p)
    <3>1. pc[p] = "pick" /\ (crashes = 0 => ~broken /\ ~merged)
      BY <2>2 DEF Pick, At, NothingMergedYet, BreaksNeedDeath
    <3>2. {"pick", "record"} \subseteq LockedPhases
      BY DEF LockedPhases, Phases
    <3>3. crashes = 0 => \A q \in Procs : pc[q] # "record"
      BY <3>1, <3>2 DEF RunLockHeld
    <3>4. crashes = 0 => landed = <<>>
      BY <3>1, <3>3
    <3>5. landed' = Append(landed, tree.head)
      BY <2>2 DEF Pick, cherry_pick
    <3>6. Len(Append(<<>>, tree.head)) = 1
      OBVIOUS
    <3>7. crashes' = 0 => Len(landed') = 1
      BY <2>1, <3>4, <3>5, <3>6
    <3>8. pc'[p] = "record"
      BY <1>0, <2>2 DEF Pick, GoTo
    <3>9. QED
      BY <3>7, <3>8
  <2>3. CASE RecordMerge(p)
    BY <2>1, <2>3 DEF RecordMerge, gitVars
  <2>4. CASE CommitRun(p)
    <3>1. pc[p] = "commit" /\ UNCHANGED <<merged, landed>>
      BY <2>4 DEF CommitRun, At, commit, dbVars
    <3>2. \A q \in Procs : pc[q] = "record" => pc'[q] = "record"
      BY <1>0, <2>4, <3>1 DEF CommitRun, GoTo
    <3>3. QED
      BY <2>1, <3>1, <3>2
  <2>5. CASE Quiet(p) /\ ~RecordMerge(p)
    <3>1. pc[p] # "record"
      BY <1>2, <2>5, RecordsOrDies
    <3>2. \A q \in Procs : pc[q] = "record" => pc'[q] = "record"
      BY <1>0, <2>5, <3>1 DEF Quiet
    <3>3. QED
      BY <2>1, <2>5, <3>2 DEF Quiet
  <2>6. QED
    BY <2>2, <2>3, <2>4, <2>5, PlanningQuiet, ImplementingQuiet, EditingQuiet,
       CheckingQuiet, MergingQuiet, ResumingQuiet, RestQuiet, AcquiringQuiet,
       OrphanedQuiet
       DEF AnyStep
<1>3. QED
  BY <1>1, <1>2

\* Commands that overlap in any way land at most one commit if none of them
\* dies between landing it and recording it.
THEOREM LandsOnceWithoutCrashes == Spec => []LandsOnceUnlessCrashed
<1>1. Init => LandedIsRecorded /\ NothingMergedYet
  BY DEF Init, StoreInit, LandedIsRecorded, NothingMergedYet
<1>2. /\ TypeOK /\ RunLockHeld /\ NothingMergedYet /\ BreaksNeedDeath
      /\ LandedIsRecorded /\ [Next]_vars
      => LandedIsRecorded'
  <2> SUFFICES ASSUME TypeOK, RunLockHeld, NothingMergedYet,
                      BreaksNeedDeath, LandedIsRecorded, [Next]_vars
               PROVE  LandedIsRecorded'
    OBVIOUS
  <2>1. CASE UNCHANGED vars
    BY <2>1 DEF vars, dbVars, gitVars, procVars, bounds, LandedIsRecorded
  <2>2. CASE Next
    BY <2>2, RecordedIsInductive DEF Next, AnyStep
  <2>3. QED
    BY <2>1, <2>2
<1>3. TypeOK /\ LandedIsRecorded => LandsOnceUnlessCrashed
  <2>1. Len(<<>>) = 0
    OBVIOUS
  <2>2. QED
    BY <2>1 DEF LandedIsRecorded, LandsOnceUnlessCrashed, LandsOnce
<1>4. QED
  BY <1>1, <1>2, <1>3, TypeCorrect, RunLockProtects, BreaksTakeADeath,
     MergeGuarded, PTL DEF Spec

-----------------------------------------------------------------------------
(* What the final gate lands was approved *)

\* The phases of a merge up to the cherry-pick, those of `cleanup` up to the
\* removal, and those in which a worktree is removed.
GatePhases == {"preflight", "lock_merge", "lock_writer", "commit", "pick"}
CleanPhases == {"clear_lock", "cleared", "list", "check", "clear_check",
                "cleared_check", "judge", "cleanup"}
OtherPhases == Phases \ (GatePhases \cup CleanPhases)
RemovalPhases == {"remove", "recreate", "cleanup"}

\* p goes anywhere but into a merge or a cleanup, or stays where it is.
KeepsOff(p) == \/ UNCHANGED pc
               \/ \E phase \in OtherPhases : GoTo(p, phase)

\* The worktree is as it was, is removed, is made or changed by a driver of the
\* run that is not merging, or is written to by an agent without a process.
TreeStep(p) == \/ UNCHANGED tree
               \/ /\ pc[p] \in RemovalPhases
                  /\ ~tree'.exists
                  /\ tree'.head = tree.head
               \/ pc[p] \in LockedPhases \ GatePhases /\ tree'.exists
               \/ /\ tree'.exists
                  /\ tree'.head = tree.head
                  /\ tree'.files \in stray'

\* A step that approves nothing or more, and takes only `merge` into a merge (or
\* the final gate, see Decide), only `cleanup` into a cleanup.
GateStep(p) ==
    /\ approved \subseteq approved'
    /\ stray \subseteq stray'
    /\ TreeStep(p)
    /\ \/ KeepsOff(p)
       \/ /\ Command[p] = "merge"
          /\ \E phase \in Phases \ CleanPhases : GoTo(p, phase)
       \/ /\ Command[p] = "cleanup"
          /\ \E phase \in CleanPhases : GoTo(p, phase)

\* Only `merge` takes the locks for a merge of its own, and only `cleanup` goes
\* through a list of runs.
OwnPhases ==
    \A p \in Procs :
        /\ pc[p] \in {"preflight", "lock_merge", "lock_writer"}
              => Command[p] = "merge"
        /\ pc[p] \in CleanPhases => Command[p] = "cleanup"

LEMMA EnterKeepsOff ==
    ASSUME NEW p \in Procs, NEW to, NEW phase \in OtherPhases,
           Enter(p, to, phase)
    PROVE  KeepsOff(p)
<1>1. "invalid" \in OtherPhases
  BY DEF Phases, OtherPhases, GatePhases, CleanPhases
<1>2. QED
  BY <1>1 DEF Enter, KeepsOff

LEMMA RemoveIsTreeStep ==
    ASSUME GitOK, NEW p, pc[p] \in RemovalPhases, remove
    PROVE  TreeStep(p)
BY TreeRemoved DEF GitOK, remove, TreeStep

LEMMA PlanningGate ==
    ASSUME NEW p \in Procs, Planning(p)
    PROVE  GateStep(p)
<1>1. UNCHANGED <<tree, approved, stray>>
  BY DEF Planning, Frame, gitVars, history, accidents
<1>2. \E to : \E phase \in OtherPhases : Enter(p, to, phase)
  BY DEF Planning, Discover, StartPlanning, PlannerTurn, UserAnswers,
         PlanDecision, Classify, Block, Phases, WorkflowState, OtherPhases,
         GatePhases, CleanPhases
<1>3. QED
  BY <1>1, <1>2, EnterKeepsOff DEF GateStep, TreeStep

LEMMA ImplementingGate ==
    ASSUME NEW p \in Procs, Implementing(p)
    PROVE  GateStep(p)
<1> USE DEF Implementing, CreateWorktree, StartImplementing, EndImplementing
<1>1. UNCHANGED <<approved, stray>>
  BY DEF Frame, history, accidents
<1>2. \E phase \in OtherPhases :
         GoTo(p, phase) \/ \E to : Enter(p, to, phase)
  BY DEF Block, Phases, WorkflowState, OtherPhases, GatePhases,
      CleanPhases
<1>3. UNCHANGED tree \/ (At(p, "TASK_CLASSIFIED") /\ tree'.exists)
  BY DEF gitVars, create
<1>4. "TASK_CLASSIFIED" \in LockedPhases \ GatePhases
  BY DEF LockedPhases, Phases, WorkflowState, OtherPhases, GatePhases,
      CleanPhases
<1>5. KeepsOff(p)
  BY <1>2, EnterKeepsOff DEF KeepsOff
<1>6. QED
  BY <1>1, <1>3, <1>4, <1>5 DEF GateStep, TreeStep, At

LEMMA EditingGate ==
    ASSUME GitOK, NEW p \in Procs, Editing(p)
    PROVE  GateStep(p)
<1> USE DEF Editing, TakeWriterLock, Edit, write, EndEdit, ReleaseWriterLock,
            AgentFailed
<1>1. UNCHANGED approved /\ stray \subseteq stray'
  BY DEF Frame, history, accidents, AddsTo
<1>2. \/ UNCHANGED pc
      \/ \E phase \in OtherPhases :
            GoTo(p, phase) \/ \E to : Enter(p, to, phase)
  BY DEF Block, Phases, WorkflowState, OtherPhases, GatePhases, CleanPhases,
         procVars, EditStages, At
<1>3. UNCHANGED tree \/ (pc[p] \in EditStages /\ tree'.exists)
  <2>1. CASE Edit(p)
    <3>1. pc[p] \in EditStages /\ tree.exists
      BY <2>1
    <3>2. tree' = [tree EXCEPT !.files = edits + 1]
      BY <2>1, Zenon
    <3>3. tree'.exists
      BY <3>1, <3>2 DEF GitOK, Trees
    <3>4. QED
      BY <3>1, <3>3
  <2>2. QED
    BY <2>1 DEF gitVars
<1>4. EditStages \subseteq LockedPhases \ GatePhases
  BY DEF EditStages, LockedPhases, Phases, WorkflowState, OtherPhases,
         GatePhases, CleanPhases
<1>5. KeepsOff(p)
  BY <1>2, EnterKeepsOff DEF KeepsOff
<1>6. QED
  BY <1>1, <1>3, <1>4, <1>5 DEF GateStep, TreeStep

LEMMA CheckingGate ==
    ASSUME NEW p \in Procs, Checking(p), ~Decide(p)
    PROVE  GateStep(p)
<1> USE DEF Checking, VerifyPasses, VerifyFails, Repaired, BeginReview,
            ReviewApproves, ReviewObjects, FixDone, AfterReview,
            ReverifyPasses, ReverifyFails
<1>1. UNCHANGED <<tree, approved, stray>>
  BY DEF Frame, history, accidents, gitVars
<1>2. \E phase \in OtherPhases :
         GoTo(p, phase) \/ \E to : Enter(p, to, phase)
  BY DEF Block, Phases, WorkflowState, OtherPhases, GatePhases,
      CleanPhases
<1>3. QED
  BY <1>1, <1>2, EnterKeepsOff DEF GateStep, TreeStep, KeepsOff

\* `merge` approves and takes its locks; whoever is past the cherry-pick, or
\* does without it, is done with merging.
LEMMA MergingGate ==
    ASSUME GitOK, OwnPhases, NEW p \in Procs, Merging(p), ~CommitRun(p)
    PROVE  GateStep(p)
<1>1. CASE ConfirmMerge(p) \/ LockWriterForMerge(p)
  <2>1. Command[p] = "merge"
    BY <1>1 DEF ConfirmMerge, LockWriterForMerge, At, OwnPhases
  <2>2. UNCHANGED <<tree, stray>> /\ approved \subseteq approved'
    BY <1>1 DEF ConfirmMerge, LockWriterForMerge, gitVars, history, accidents
  <2>3. \E phase \in Phases \ CleanPhases : GoTo(p, phase)
    BY <1>1 DEF ConfirmMerge, LockWriterForMerge, Phases,
                CleanPhases
  <2>4. QED
    BY <2>1, <2>2, <2>3 DEF GateStep, TreeStep
<1>2. CASE \/ SkipMerge(p) \/ Pick(p) \/ RecordMerge(p) \/ RemoveMerged(p)
           \/ DeleteMergedBranch(p) \/ Close(p)
  <2> USE DEF SkipMerge, Pick, RecordMerge, RemoveMerged, DeleteMergedBranch,
              Close
  <2>1. UNCHANGED <<approved, stray>>
    BY <1>2 DEF Frame, history, accidents
  <2>2. \E phase \in OtherPhases :
           GoTo(p, phase) \/ \E to : Enter(p, to, phase)
    BY <1>2 DEF Phases, OtherPhases, GatePhases, CleanPhases
  <2>3. UNCHANGED tree \/ (pc[p] \in RemovalPhases /\ remove)
    BY <1>2 DEF gitVars, cherry_pick, delete_branch, At, RemovalPhases
  <2>4. TreeStep(p)
    BY <2>3, RemoveIsTreeStep DEF TreeStep
  <2>5. KeepsOff(p)
    BY <2>2, EnterKeepsOff DEF KeepsOff
  <2>6. QED
    BY <2>1, <2>4, <2>5 DEF GateStep
<1>3. QED
  BY <1>1, <1>2 DEF Merging

LEMMA ResumingGate ==
    ASSUME GitOK, NEW p \in Procs, Resuming(p)
    PROVE  GateStep(p)
<1> USE DEF Resuming, Recover, Dispatch, OpenTree, LookAtDiff, RecreateTree,
            RecreateBranch, Restart
<1>1. UNCHANGED <<approved, stray>>
  BY DEF Frame, history, accidents
<1>2. \E phase \in OtherPhases :
         GoTo(p, phase) \/ \E to : Enter(p, to, phase)
  BY DEF Phases, OtherPhases, GatePhases, CleanPhases, WorkflowState
<1>3. UNCHANGED tree \/ (pc[p] \in RemovalPhases /\ remove)
  BY DEF gitVars, delete_branch, At, RemovalPhases
<1>4. TreeStep(p)
  BY <1>3, RemoveIsTreeStep DEF TreeStep
<1>5. KeepsOff(p)
  BY <1>2, EnterKeepsOff DEF KeepsOff
<1>6. QED
  BY <1>1, <1>4, <1>5 DEF GateStep

LEMMA RestGate ==
    ASSUME GitOK, OwnPhases, NEW p \in Procs,
           \/ Cleaning(p)
           \/ Start(p)
           \/ LosesTree(p)
           \/ Crash(p)
           \/ ReleaseBetweenPhases(p)
           \/ Leave(p)
    PROVE  GateStep(p)
<1> USE DEF Cleaning, ListRuns, CheckTree, JudgeTree, CleanupTree,
            CleanupBranch, Start, StartComplete, StartResume, StartMerge,
            StartCleanup, LosesTree, Crash, ReleaseBetweenPhases, Leave
<1>1. UNCHANGED <<approved, stray>>
  BY DEF Frame, history, accidents
<1>2. UNCHANGED tree \/ (pc[p] \in RemovalPhases /\ remove)
  BY DEF gitVars, delete_branch, At, RemovalPhases
<1>3. TreeStep(p)
  BY <1>2, RemoveIsTreeStep DEF TreeStep
<1>4. CASE StartMerge(p)
  <2>1. Command[p] = "merge"
    BY <1>4 DEF MayStart
  <2>2. \E phase \in Phases \ CleanPhases : GoTo(p, phase)
    BY <1>4 DEF Phases, CleanPhases
  <2>3. QED
    BY <1>1, <1>3, <2>1, <2>2 DEF GateStep
<1>5. CASE StartCleanup(p) \/ ListRuns(p) \/ CheckTree(p) \/ JudgeTree(p)
  <2>1. Command[p] = "cleanup"
    BY <1>5 DEF MayStart, OwnPhases, At, CleanPhases
  <2>2. \/ \E phase \in CleanPhases : GoTo(p, phase)
        \/ \E phase \in OtherPhases : GoTo(p, phase)
    BY <1>5 DEF Phases, CleanPhases, OtherPhases, GatePhases
  <2>3. QED
    BY <1>1, <1>3, <2>1, <2>2 DEF GateStep, KeepsOff
<1>6. CASE ~(\/ StartMerge(p) \/ StartCleanup(p) \/ ListRuns(p)
           \/ CheckTree(p) \/ JudgeTree(p))
  <2>1. KeepsOff(p)
    BY <1>6 DEF Phases, OtherPhases, GatePhases, CleanPhases, procVars, KeepsOff
  <2>2. QED
    BY <1>1, <1>3, <2>1 DEF GateStep
<1>7. QED
  BY <1>4, <1>5, <1>6

LEMMA AcquiringGate ==
    ASSUME OwnPhases, NEW p \in Procs, Acquiring(p)
    PROVE  GateStep(p)
<1> USE DEF Acquiring, Examine, UnlinkRunLock, CreateRunLock, UnlinkWriterLock,
            CreateWriterLock, ReleaseCleared
<1>1. UNCHANGED <<tree, approved, stray>>
  BY DEF gitVars, history, accidents
<1>2. CASE At(p, "lock_merge")
  <2>1. Command[p] = "merge"
    BY <1>2 DEF OwnPhases, At
  <2>2. UNCHANGED pc \/ \E phase \in Phases \ CleanPhases : GoTo(p, phase)
    BY <1>2 DEF AcquiresRunLock, ClearsWriterLock, WithRunLock, At, Phases,
                CleanPhases
  <2>3. QED
    BY <1>1, <2>1, <2>2 DEF GateStep, TreeStep, KeepsOff
<1>3. CASE pc[p] \in CleanPhases
  <2>1. Command[p] = "cleanup"
    BY <1>3 DEF OwnPhases
  <2>2. \/ UNCHANGED pc
        \/ \E phase \in CleanPhases : GoTo(p, phase)
        \/ GoTo(p, "leave")
    BY <1>3 DEF AcquiresRunLock, ClearsWriterLock, WithRunLock, At, CleanPhases
  <2>3. "leave" \in OtherPhases
    BY DEF Phases, OtherPhases, GatePhases, CleanPhases
  <2>4. QED
    BY <1>1, <2>1, <2>2, <2>3 DEF GateStep, TreeStep, KeepsOff
<1>4. CASE ~At(p, "lock_merge") /\ pc[p] \notin CleanPhases
  <2>1. UNCHANGED pc \/ \E phase \in OtherPhases : GoTo(p, phase)
    BY <1>4 DEF AcquiresRunLock, ClearsWriterLock, WithRunLock, At, Phases,
                WorkflowState, OtherPhases, GatePhases, CleanPhases
  <2>2. QED
    BY <1>1, <2>1 DEF GateStep, TreeStep, KeepsOff
<1>5. QED
  BY <1>2, <1>3, <1>4

LEMMA OrphanedGate ==
    ASSUME GitOK, NEW p \in Procs, Orphaned(p)
    PROVE  GateStep(p)
<1>1. UNCHANGED <<pc, approved>> /\ stray \subseteq stray'
  BY DEF Orphaned, OrphanEdits, OrphanEnds, procVars, history, accidents
<1>2. CASE OrphanEdits(p)
  <2>1. tree.exists /\ edits + 1 \in stray'
    BY <1>2 DEF OrphanEdits, write
  <2>2. tree' = [tree EXCEPT !.files = edits + 1]
    BY <1>2, Zenon DEF OrphanEdits, write
  <2>3. tree'.exists /\ tree'.head = tree.head /\ tree'.files = edits + 1
    BY <2>1, <2>2 DEF GitOK, Trees
  <2>4. QED
    BY <1>1, <2>1, <2>3 DEF GateStep, TreeStep, KeepsOff
<1>3. CASE OrphanEnds(p)
  BY <1>1, <1>3 DEF OrphanEnds, gitVars, GateStep, TreeStep, KeepsOff
<1>4. QED
  BY <1>2, <1>3 DEF Orphaned

\* The inductive step.  Whoever changes the worktree drives the run, so nobody
\* else is between the gate and the base branch; the commit is made of the
\* files the user was asked about.
LEMMA GateIsInductive ==
    ASSUME TypeOK, RunLockHeld, OwnPhases, GateApproved,
           NEW p \in Procs, AnyStep(p)
    PROVE  OwnPhases' /\ GateApproved'
<1> USE DEF At
<1>0. pc \in [Procs -> Phases] /\ GitOK
  BY TypeParts DEF PcTypeOK
<1>a. {"commit", "pick"} \subseteq LockedPhases
  BY DEF LockedPhases, Phases
<1>b. ~broken /\ pc[p] \in LockedPhases
        => \A q \in Procs \ {p} : pc[q] \notin {"commit", "pick"}
  BY <1>a DEF RunLockHeld
<1>c. broken => broken'
  BY TypeParts, StepKeepsLock DEF Next, AnyStep
<1>1. CASE Decide(p)
  <2>1. UNCHANGED <<tree, stray>> /\ approved \subseteq approved'
    BY <1>1 DEF Decide, gitVars, accidents
  <2>2. \/ GoTo(p, "leave") \/ GoTo(p, "invalid")
        \/ GoTo(p, "commit") /\ tree.files \in approved'
    BY <1>1 DEF Decide, Enter
  <2>3. QED
    BY <1>0, <1>c, <2>1, <2>2 DEF GoTo, OwnPhases, CleanPhases, GateApproved
<1>2. CASE CommitRun(p)
  <2>1. pc[p] = "commit" /\ GoTo(p, "pick") /\ UNCHANGED <<approved, stray>>
    BY <1>2 DEF CommitRun, Frame, history, accidents
  <2>2. ~broken /\ Command[p] # "merge" => tree.files \in approved \cup stray
    BY <1>2 DEF CommitRun, MergeOffered, GateApproved
  <2>3. tree'.head = tree.files
    <3>1. tree' = [tree EXCEPT !.head = tree.files, !.commits = 1]
      BY <1>2, Zenon DEF CommitRun, commit
    <3>2. QED
      BY <1>0, <3>1 DEF GitOK, Trees
  <2>4. OwnPhases'
    BY <1>0, <2>1 DEF GoTo, OwnPhases, CleanPhases
  <2>5. GateApproved'
    BY <1>0, <1>a, <1>b, <1>c, <2>1, <2>2, <2>3 DEF GoTo, GateApproved
  <2>6. QED
    BY <2>4, <2>5
<1>3. CASE GateStep(p)
  <2>1. OwnPhases'
    BY <1>0, <1>3 DEF GateStep, KeepsOff, GatePhases, CleanPhases, OtherPhases,
                      GoTo, OwnPhases
  <2>2. ASSUME NEW q \in Procs, Command[q] # "merge",
               pc'[q] \in {"commit", "pick"}
        PROVE  pc[q] = pc'[q]
    BY <1>0, <1>3, <2>2 DEF GateStep, KeepsOff, GatePhases, CleanPhases,
                            OtherPhases, GoTo
  <2>3. ASSUME NEW q \in Procs, Command[q] # "merge", ~broken,
               pc'[q] \in {"commit", "pick"}
        PROVE  \/ UNCHANGED tree
               \/ ~tree'.exists /\ tree'.head = tree.head
               \/ tree'.files \in stray' /\ tree'.head = tree.head
    <3>1. pc[q] \in {"commit", "pick"}
      BY <2>2, <2>3
    <3>2. pc[p] \notin LockedPhases \ GatePhases
      BY <1>b, <2>3, <3>1 DEF GatePhases
    <3>3. QED
      BY <1>3, <3>2 DEF GateStep, TreeStep
  <2>4. approved \subseteq approved' /\ stray \subseteq stray'
    BY <1>3 DEF GateStep
  <2>5. GateApproved'
    BY <1>c, <2>2, <2>3, <2>4 DEF GateApproved
  <2>6. QED
    BY <2>1, <2>5
<1>4. QED
  BY <1>0, <1>1, <1>2, <1>3, PlanningGate, ImplementingGate, EditingGate,
     CheckingGate, MergingGate, ResumingGate, RestGate, AcquiringGate,
     OrphanedGate DEF AnyStep

LEMMA GateGuarded == Spec => [](OwnPhases /\ GateApproved)
<1>1. Init => OwnPhases /\ GateApproved
  BY DEF Init, OwnPhases, CleanPhases, GateApproved, At
<1>2. /\ TypeOK /\ RunLockHeld /\ OwnPhases /\ GateApproved
      /\ [Next]_vars
      => OwnPhases' /\ GateApproved'
  <2> SUFFICES ASSUME TypeOK, RunLockHeld, OwnPhases, GateApproved,
                      [Next]_vars
               PROVE  OwnPhases' /\ GateApproved'
    OBVIOUS
  <2>1. CASE UNCHANGED vars
    BY <2>1 DEF vars, gitVars, procVars, history, accidents, OwnPhases,
                CleanPhases, GateApproved, At
  <2>2. CASE Next
    BY <2>2, GateIsInductive DEF Next, AnyStep
  <2>3. QED
    BY <2>1, <2>2
<1>3. QED
  BY <1>1, <1>2, TypeCorrect, RunLockProtects, PTL DEF Spec

\* Between the question of the final gate and the cherry-pick nobody changes
\* what lands, however commands overlap and wherever they die, but for an agent
\* that has outlived its process; as long as the run lock has one holder.
THEOREM GateLandsWhatWasApproved == Spec => GateLandsApproved
<1>1. /\ TypeOK /\ RunLockHeld /\ BreaksNeedDeath /\ GateApproved /\ [Next]_vars
      => \A p \in Procs :
            /\ At(p, "pick")
            /\ Command[p] # "merge"
            /\ RunLockIntact
            /\ landed' # landed
            => landed'[Len(landed')] \in approved \cup stray
  <2> SUFFICES ASSUME TypeOK, RunLockHeld, BreaksNeedDeath, GateApproved,
                      [Next]_vars, NEW p \in Procs, At(p, "pick"),
                      Command[p] # "merge", RunLockIntact, landed' # landed
               PROVE  landed'[Len(landed')] \in approved \cup stray
    OBVIOUS
  <2>0. ~broken
    BY DEF BreaksNeedDeath, RunLockIntact
  <2>1. PICK q \in Procs : Pick(q)
    <3>1. Next
      BY DEF vars, gitVars
    <3>2. PICK q \in Procs :
             CommitRun(q) \/ Pick(q) \/ RecordMerge(q) \/ Quiet(q)
      BY <3>1, NextQuiet
    <3>3. Pick(q)
      BY <3>2 DEF CommitRun, commit, RecordMerge, gitVars, Quiet
    <3>4. QED
      BY <3>3
  <2>2. landed' = Append(landed, tree.head)
    BY <2>1 DEF Pick, cherry_pick
  <2>3. tree.head \in approved \cup stray
    BY <2>0 DEF GateApproved
  <2>4. landed \in Seq(Versions) /\ tree.head \in Versions
    BY TypeParts DEF GitOK, Trees
  <2>5. landed'[Len(landed')] = tree.head
    BY <2>2, <2>4
  <2>6. QED
    BY <2>3, <2>5
<1>2. QED
  BY <1>1, TypeCorrect, RunLockProtects, BreaksTakeADeath, GateGuarded, PTL
     DEF Spec, GateLandsApproved

-----------------------------------------------------------------------------
(* No worktree is removed under an agent whose process is alive, unless by   *)
(* cleanup                                                                   *)

\* The agent of a live process belongs to the stage the process is at.
AgentsAtWork == \A p \in agents : Dead(p) \/ pc[p] \in EditStages

\* Who is at a phase without an agent leaves the agents of the others alone.
LEMMA IdleStep ==
    ASSUME PcTypeOK, AgentsAtWork, NEW p \in Procs, LockShape(p),
           agents \subseteq Procs, UNCHANGED agents,
           pc[p] \notin EditStages \cup {"dead"}
    PROVE  AgentsAtWork'
<1>1. p \notin agents
  BY DEF AgentsAtWork, Dead
<1>2. \A q \in Procs \ {p} : pc'[q] = pc[q]
  BY DEF PcTypeOK, LockShape, MovesOn, TakesRunLock, GivesRunLock, BreaksRunLock
<1>3. QED
  BY <1>1, <1>2 DEF AgentsAtWork, Dead

LEMMA AgentsStep ==
    ASSUME PcTypeOK, AgentsAtWork, agents \subseteq Procs,
           NEW p \in Procs, AnyStep(p)
    PROVE  AgentsAtWork'
<1> DEFINE Idle == UNCHANGED agents /\ pc[p] \notin EditStages \cup {"dead"}
<1>0. LockShape(p)
  BY StepShape
<1>a. \A q \in Procs \ {p} : pc'[q] = pc[q]
  BY <1>0 DEF PcTypeOK, LockShape, MovesOn, TakesRunLock, GivesRunLock,
              BreaksRunLock
<1>1. CASE Planning(p)
  <2>1. Idle
    BY <1>1 DEF Planning, Discover, StartPlanning, PlannerTurn, UserAnswers,
                PlanDecision, Classify, Frame, procData, At, EditStages
  <2>2. QED
    BY <1>0, <2>1, IdleStep
<1>2. CASE Checking(p)
  <2>1. Idle
    BY <1>2 DEF Checking, VerifyPasses, VerifyFails, Repaired, BeginReview,
                ReviewApproves, ReviewObjects, FixDone, AfterReview,
                ReverifyPasses, ReverifyFails, Decide, Frame, procData, At,
                EditStages
  <2>2. QED
    BY <1>0, <2>1, IdleStep
<1>3. CASE Merging(p)
  <2>1. Idle
    BY <1>3 DEF Merging, ConfirmMerge, LockWriterForMerge, SkipMerge, CommitRun,
                Pick, RecordMerge, RemoveMerged, DeleteMergedBranch, Close,
                Frame, procData, At, EditStages
  <2>2. QED
    BY <1>0, <2>1, IdleStep
<1>4. CASE Resuming(p)
  <2>1. Idle
    BY <1>4 DEF Resuming, Recover, Dispatch, OpenTree, LookAtDiff, RecreateTree,
                RecreateBranch, Restart, Frame, procData, At, EditStages
  <2>2. QED
    BY <1>0, <2>1, IdleStep
<1>5. CASE Cleaning(p) \/ Start(p) \/ Leave(p) \/ ReleaseBetweenPhases(p)
  <2>1. Idle
    BY <1>5 DEF Cleaning, ListRuns, CheckTree, JudgeTree, CleanupTree,
                CleanupBranch, Start, StartComplete, StartResume, StartMerge,
                StartCleanup, MayStart, Leave, ReleaseBetweenPhases, Frame,
                procData, procVars, At, EditStages
  <2>2. QED
    BY <1>0, <2>1, IdleStep
<1>6. CASE Acquiring(p)
  <2>1. Idle
    BY <1>6 DEF Acquiring, Examine, UnlinkRunLock, CreateRunLock,
                UnlinkWriterLock, CreateWriterLock, ReleaseCleared,
                AcquiresRunLock, ClearsWriterLock, procData, At, EditStages
  <2>2. QED
    BY <1>0, <2>1, IdleStep
<1>7. CASE CreateWorktree(p) \/ StartImplementing(p) \/ AgentFailed(p)
           \/ ReleaseWriterLock(p)
  <2>1. Idle
    BY <1>7 DEF CreateWorktree, StartImplementing, AgentFailed,
                ReleaseWriterLock, Frame, procData, procVars, At, EditStages
  <2>2. QED
    BY <1>0, <2>1, IdleStep
<1>8. CASE EndImplementing(p) \/ EndEdit(p) \/ LosesTree(p)
  <2>1. agents' = agents \ {p}
    BY <1>8 DEF EndImplementing, EndEdit, LosesTree
  <2>2. QED
    BY <1>a, <2>1 DEF AgentsAtWork, Dead
<1>9. CASE TakeWriterLock(p)
  <2>1. CASE Vacant(writer_lock)
    BY <1>9, <2>1 DEF TakeWriterLock, AgentsAtWork, Dead
  <2>2. CASE ~Vacant(writer_lock)
    <3>1. UNCHANGED agents /\ p \notin agents
      BY <1>9, <2>2 DEF TakeWriterLock
    <3>2. QED
      BY <1>a, <3>1 DEF AgentsAtWork, Dead
  <2>3. QED
    BY <2>1, <2>2
<1>10. CASE Edit(p) \/ Orphaned(p)
  BY <1>10 DEF Edit, Orphaned, OrphanEdits, OrphanEnds, procData, procVars,
               AgentsAtWork, Dead
<1>11. CASE Crash(p)
  <2>1. UNCHANGED agents /\ pc'[p] = "dead"
    BY <1>11 DEF Crash, GoTo, PcTypeOK
  <2>2. QED
    BY <1>a, <2>1 DEF AgentsAtWork, Dead
<1>12. QED
  BY <1>1, <1>2, <1>3, <1>4, <1>5, <1>6, <1>7, <1>8, <1>9, <1>10, <1>11
     DEF AnyStep, Implementing, Editing

LEMMA AgentsWork == Spec => []AgentsAtWork
<1>1. Init => AgentsAtWork
  BY DEF Init, AgentsAtWork
<1>2. TypeOK /\ AgentsAtWork /\ [Next]_vars => AgentsAtWork'
  <2>1. ASSUME TypeOK, AgentsAtWork, Next PROVE AgentsAtWork'
    <3>1. PICK p \in Procs : AnyStep(p)
      BY <2>1 DEF Next, AnyStep
    <3>2. QED
      BY <2>1, <3>1, AgentsStep DEF TypeOK, PcTypeOK
  <2>2. ASSUME AgentsAtWork, UNCHANGED vars PROVE AgentsAtWork'
    BY <2>2 DEF vars, procVars, procData, AgentsAtWork, Dead
  <2>3. QED
    BY <2>1, <2>2
<1>3. QED
  BY <1>1, <1>2, TypeCorrect, PTL DEF Spec

\* Only who drives the run, or cleans up, removes its worktree; and who drives
\* it is not at a removal while its agent edits.
LEMMA DriverKeepsTree ==
    ASSUME TypeOK, RunLockHeld, ~broken, OwnPhases, AgentsAtWork, BeingEdited,
           tree.exists, NEW q \in Procs, AnyStep(q), ~At(q, "cleanup")
    PROVE  tree'.exists
<1>0. GitOK
  BY TypeParts
<1>1. PICK p \in Procs : pc[p] \in EditStages
  BY DEF BeingEdited, AgentsAtWork, TypeOK
<1>2. EditStages \subseteq LockedPhases \ (RemovalPhases \cup {"commit"})
  BY DEF EditStages, LockedPhases, Phases, WorkflowState, RemovalPhases
<1>3. RemovalPhases \ {"cleanup"} \subseteq LockedPhases
  BY DEF RemovalPhases, LockedPhases, Phases
<1>4. pc[q] \notin RemovalPhases
  BY <1>1, <1>2, <1>3 DEF RunLockHeld, At
<1>5. CASE GateStep(q)
  BY <1>4, <1>5 DEF GateStep, TreeStep
<1>6. CASE Decide(q)
  BY <1>6 DEF Decide, gitVars
<1>7. CASE CommitRun(q)
  <2>1. tree' = [tree EXCEPT !.head = tree.files, !.commits = 1]
    BY <1>7, Zenon DEF CommitRun, commit
  <2>2. QED
    BY <1>0, <2>1 DEF GitOK, Trees
<1>8. QED
  BY <1>0, <1>5, <1>6, <1>7, PlanningGate, ImplementingGate, EditingGate,
     CheckingGate, MergingGate, ResumingGate, RestGate, AcquiringGate,
     OrphanedGate DEF AnyStep

\* Whoever drives, resumes or merges the run: the worktree the agent of a live
\* process is editing is removed by nobody, except a cleanup; as long as the run
\* lock has one holder.
THEOREM WorktreeIsKept == Spec => TreeKeptUnderWriter
<1>1. /\ TypeOK /\ RunLockHeld /\ BreaksNeedDeath /\ OwnPhases /\ AgentsAtWork
      /\ [Next]_vars
      => (BeingEdited /\ RunLockIntact /\ tree.exists /\ ~tree'.exists
            => \E p \in Procs : At(p, "cleanup"))
  <2> SUFFICES ASSUME TypeOK, RunLockHeld, BreaksNeedDeath, OwnPhases,
                      AgentsAtWork, [Next]_vars, BeingEdited, RunLockIntact,
                      tree.exists, ~tree'.exists
               PROVE  \E p \in Procs : At(p, "cleanup")
    OBVIOUS
  <2>1. ~broken
    BY DEF BreaksNeedDeath, RunLockIntact
  <2>2. PICK q \in Procs : AnyStep(q)
    BY DEF Next, AnyStep, vars, gitVars
  <2>3. QED
    BY <2>1, <2>2, DriverKeepsTree
<1>2. QED
  BY <1>1, TypeCorrect, RunLockProtects, BreaksTakeADeath, GateGuarded,
     AgentsWork, PTL DEF Spec, TreeKeptUnderWriter

-----------------------------------------------------------------------------
(* A blocked run can be recovered *)

\* The inductive form of BlockedIsRecoverable: the history of a run that has
\* been blocked goes on naming a stage after the run was unblocked, because
\* Recover reads it without the run lock and may come late.
RecoverInv ==
    /\ blockedFrom # "none" => blockedFrom \notin TERMINAL_STATES \cup {"NEW"}
    /\ state = "BLOCKED" => blockedFrom # "none"

LEMMA RecoverStep ==
    ASSUME DbOK, RecoverInv, DbStep
    PROVE  RecoverInv'
<1> USE DEF DbOK, RecoverInv
<1>1. CASE UNCHANGED dbVars
  BY <1>1 DEF dbVars, TERMINAL_STATES
<1>2. ASSUME NEW to \in WorkflowState, BlockedLegally(to), update_run_state(to)
      PROVE  RecoverInv'
  <2>1. CASE to = "BLOCKED"
    <3>1. "BLOCKED" \in TERMINAL_STATES
      BY DEF TERMINAL_STATES
    <3>2. Valid(state, "BLOCKED")
      BY <1>2, <2>1, <3>1 DEF BlockedLegally, WorkflowState
    <3>3. state \notin TERMINAL_STATES \cup {"NEW", "none"}
      BY <3>2 DEF Valid, ALLOWED_TRANSITIONS, TERMINAL_STATES, WorkflowState
    <3>4. QED
      BY <1>2, <2>1, <3>3 DEF update_run_state, TERMINAL_STATES
  <2>2. CASE to # "BLOCKED"
    BY <1>2, <2>2 DEF update_run_state, TERMINAL_STATES
  <2>3. QED
    BY <2>1, <2>2
<1>3. CASE UNCHANGED <<state, blockedFrom>>
  BY <1>3 DEF TERMINAL_STATES
<1>4. QED
  BY <1>1, <1>2, <1>3 DEF DbStep

\* However commands overlap and die, a run that is found blocked has a stage
\* that resume can send it back to.
THEOREM BlockedCanResume == Spec => []BlockedIsRecoverable
<1>1. Init => RecoverInv
  BY DEF Init, StoreInit, RecoverInv
<1>2. TypeOK /\ RecoverInv /\ [Next]_vars => RecoverInv'
  <2> SUFFICES ASSUME TypeOK, RecoverInv, [Next]_vars PROVE RecoverInv'
    OBVIOUS
  <2>1. CASE UNCHANGED vars
    BY <2>1 DEF vars, dbVars, RecoverInv, TERMINAL_STATES
  <2>2. CASE Next
    <3>1. PICK p \in Procs : AnyStep(p)
      BY <2>2 DEF Next, AnyStep
    <3>2. DbOK
      BY TypeParts
    <3>3. QED
      BY <3>1, <3>2, StepDb, RecoverStep
  <2>3. QED
    BY <2>1, <2>2
<1>3. TypeOK /\ RecoverInv => BlockedIsRecoverable
  BY TypeParts DEF DbOK, RecoverInv, BlockedIsRecoverable
<1>4. QED
  BY <1>1, <1>2, <1>3, TypeCorrect, PTL DEF Spec
=============
